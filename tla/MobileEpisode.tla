------------------------------- MODULE MobileEpisode -------------------------------
(* What the Agent rollout of AgentEpisode keeps when it runs over the tools and *)
(* the assessment of Mobile Messages, stated over the variables it has there.   *)
EXTENDS MobileMessages

VARIABLES case, attempt

--------------------------------------------------------------------------------
task == case.task
Event(i) == attempt.events[i]
Events == DOMAIN attempt.events
Changes == ChangesIn(attempt.events)
world == attempt.session.world
frozenWorld == [reminders |-> case.frozen.reminders, drafts |-> case.frozen.drafts]
SawTarget == Observed(attempt.events, "search_messages", task.target)
Listings == Observations(attempt.events, "list_message_senders")
Reads == Observations(attempt.events, "get_reminder") \cup Observations(attempt.events, "get_draft_reply")

(* The stale query of a recovery was searched for and not found: the failure,   *)
(* right after the search it answers.                                           *)
FailedProbes ==
    {i \in FailuresOf(attempt.events, "search_messages", "message_not_found") :
        /\ i - 1 \in Events /\ Event(i - 1).type = "action"
        /\ Event(i - 1).args = [query |-> Stale(QueryFor(task.target))]}

(* An Episode changes nothing but the reminder or the draft its task is about:  *)
(* once, the one on the target message only, and never the text of another      *)
(* (mobile_messages.py:556-644).                                                *)
ChangesStayWithinTheTask ==
    LET changed == Changes
        id == task.target.message_id
    IN  /\ \A i, j \in changed : i = j
        /\ changed = {} => world = frozenWorld
        /\ changed # {} /\ task.action = "create_reminder" =>
               /\ id \notin DOMAIN frozenWorld.reminders
               /\ world = [frozenWorld EXCEPT !.reminders = Put(@, id, world.reminders[id])]
               /\ world.reminders[id].message_id = id
               /\ world.reminders[id].reminder_text = task.text
               /\ world.reminders[id].remind_at = task.at
        /\ changed # {} /\ task.action = "create_draft_reply" =>
               /\ id \notin DOMAIN frozenWorld.drafts
               /\ world = [frozenWorld EXCEPT !.drafts = Put(@, id, world.drafts[id])]
               /\ ReplyAllowed(world.drafts[id].content)
               /\ task.constraint = "exact" => world.drafts[id].content = task.exact
        /\ task.action = "search_messages" => changed = {}

(* A change is made only after the message was found; in a directory or         *)
(* recovery task after the senders were listed before that; in a recovery after *)
(* the stale query failed.                                                      *)
ChangesWereEarned ==
    \A change \in Changes : \E target \in SawTarget :
        /\ target < change
        /\ task.route \in {"directory", "recovery"} => \E listing \in Listings : listing < target
        /\ task.route = "recovery" => \E probe \in FailedProbes : probe < change

(* What a recovery shows of its failed search: that it was the stale query that *)
(* failed is only seen while no refused call lost an argument on its way to the *)
(* history.                                                                     *)
FailedSearches(lost) ==
    IF lost THEN FailuresOf(attempt.events, "search_messages", "message_not_found") ELSE FailedProbes

(* The trace shows the route of the task in the order it asks for, as every     *)
(* demonstration must, and a change to be verified is read back after it was    *)
(* made.                                                                        *)
FollowedTheRoute(lost) ==
    \E target \in SawTarget :
        /\ task.route = "directory" => \E listing \in Listings : listing < target
        /\ task.route = "recovery" =>
               \E failure \in FailedSearches(lost), listing \in Listings :
                   failure < listing /\ listing < target
        /\ task.action # "search_messages" =>
               \E change \in Changes :
                   /\ target < change
                   /\ task.route = "verify" =>
                          \E read \in Reads : change < read /\ Event(read).payload = Event(change).payload

(* The final response reports what the state holds, as every demonstration      *)
(* must: the message's sender and query, and the reminder or the reply it was   *)
(* left with.                                                                   *)
ReportsTheState ==
    LET id == task.target.message_id
        saved == CASE task.action = "create_reminder" ->
                        {world.reminders[id].reminder_text, world.reminders[id].remind_at}
                   [] task.action = "create_draft_reply" -> {world.drafts[id].content}
                   [] OTHER -> {}
    IN  {case.frozen.messages[id].sender, QueryFor(case.frozen.messages[id])} \cup saved
            \subseteq Event(Len(attempt.events)).content
====================================================================================
