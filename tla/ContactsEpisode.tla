------------------------------ MODULE ContactsEpisode ------------------------------
(* What the Agent rollout of AgentEpisode keeps when it runs over the tools and *)
(* the assessment of Contacts, stated over the variables it has there.          *)
EXTENDS Contacts

VARIABLES case, attempt

--------------------------------------------------------------------------------
task == case.task
Event(i) == attempt.events[i]
Events == DOMAIN attempt.events
Changes == ChangesIn(attempt.events)
Saw(tool, payload) == Observed(attempt.events, tool, payload)
SawTarget == Saw("lookup_contact", [name |-> task.target, email |-> task.expected])
Listings == Observations(attempt.events, "list_contacts")

(* The stale label of a recovery was looked up and not found: the failure, right *)
(* after the lookup it answers.                                                 *)
FailedProbes ==
    {i \in FailuresOf(attempt.events, "lookup_contact", "contact_not_found") :
        /\ i - 1 \in Events /\ Event(i - 1).type = "action"
        /\ Event(i - 1).args = [name |-> Stale(task.target)]}

(* However an Episode goes, the only thing it ever changes is the follow-up of  *)
(* the target of a follow-up task: once, and with a note the task allows        *)
(* (contacts.py:619-684).                                                       *)
ChangesStayWithinTheTask ==
    LET changed == Changes
        world == attempt.session.world
    IN  /\ \A i, j \in changed : i = j
        /\ changed = {} => world = case.frozen.followups
        /\ changed # {} =>
               /\ task.action = "record_followup"
               /\ task.target \notin DOMAIN case.frozen.followups
               /\ world[task.target] \in AllowedNote
               /\ task.constraint = "exact" => world[task.target] = task.exact
               /\ world = Put(case.frozen.followups, task.target, world[task.target])

(* A follow-up is recorded only after the target was looked up; in a directory  *)
(* or recovery task after a listing that came first; in a recovery after the    *)
(* stale label failed. The flags of the session say what the history shows.     *)
ChangesWereEarned ==
    \A change \in Changes : \E target \in SawTarget :
        /\ target < change
        /\ task.route \in {"directory", "recovery"} => \E listing \in Listings : listing < target
        /\ task.route = "recovery" => \E probe \in FailedProbes : probe < change

(* What a recovery shows of its failed lookup. The assessment pairs a lookup of *)
(* the stale label with a failure after it: that is the failure of that lookup, *)
(* unless a refused call lost an argument on its way to the history, or the     *)
(* label is a contact and found (contacts.py:1045-1090).                    *)
FailedLookups(lost) ==
    IF lost \/ Stale(task.target) \in DOMAIN case.frozen.contacts
    THEN FailuresOf(attempt.events, "lookup_contact", "contact_not_found")
    ELSE FailedProbes

(* The trace shows the route of the task in the order it asks for, as every     *)
(* demonstration must: the stale label failed, then the directory was listed,   *)
(* then the target was looked up, then the change was made, then the saved note *)
(* was read.                                                                    *)
FollowedTheRoute(lost) ==
    \E target \in SawTarget :
        /\ task.route = "directory" => \E listing \in Listings : listing < target
        /\ task.route = "recovery" =>
               \E failure \in FailedLookups(lost), listing \in Listings :
                   failure < listing /\ listing < target
        /\ task.action = "record_followup" =>
               \E change \in Changes :
                   /\ target < change
                   /\ task.route = "verify" =>
                          \E read \in Observations(attempt.events, "get_followup") :
                              change < read /\ Event(read).payload = Event(change).payload

(* The final response reports what the state holds, as every demonstration      *)
(* must: the email of the target, or the note its follow-up was left with.      *)
ReportsTheState ==
    {task.target, IF task.action = "lookup_email" THEN case.frozen.contacts[task.target]
                  ELSE attempt.session.world[task.target]}
        \subseteq Event(Len(attempt.events)).content
====================================================================================
