------------------------------ MODULE WorkspaceEpisode -----------------------------
(* What the Agent rollout of AgentEpisode keeps when it runs over the tools and *)
(* the assessment of Workspace Tasks, stated over the variables it has there.   *)
EXTENDS WorkspaceTasks

VARIABLES case, attempt

--------------------------------------------------------------------------------
task == case.task
Event(i) == attempt.events[i]
Events == DOMAIN attempt.events
Changes == ChangesIn(attempt.events)
world == attempt.session.world
SawTarget == IF task.target = None THEN {} ELSE TargetObserved(task, attempt.events)
Listings == Observations(attempt.events, "list_workspace_projects")
Reads ==
    Observations(attempt.events, "get_workspace_task")
        \cup Observations(attempt.events, "get_workspace_comment")

(* A failed search and the arguments it failed for: the action before it.       *)
FailedSearch(args) ==
    {i \in NotFound(attempt.events) :
        i - 1 \in Events /\ Event(i - 1).type = "action" /\ Event(i - 1).args = args}
FailedProbes == FailedSearch([query |-> Stale(task.target.query), kind |-> task.target.kind])

(* An Episode makes at most the one task or comment its task is about: under    *)
(* the target and no other item, with the priority and due label it was given,  *)
(* and with a text the task allows (workspace_tasks.py:635-758).                *)
ChangesStayWithinTheTask ==
    /\ \A i, j \in Changes : i = j
    /\ \A id, other \in DOMAIN world : id = other
    /\ Changes = {} <=> DOMAIN world = {}
    /\ task.action = "search_workspace_items" => DOMAIN world = {}
    /\ \A id \in DOMAIN world :
        IF task.action = "create_workspace_task"
        THEN /\ world[id].project_id = task.target.item_id
             /\ world[id].priority = task.priority /\ world[id].due_label = task.due_label
             /\ IF task.constraint = "exact" THEN world[id].title = task.title
                ELSE TitleAllowed(world[id].title)
        ELSE /\ world[id].task_id = task.target.item_id
             /\ CommentAllowed(world[id].comment)
             /\ task.constraint = "exact" => world[id].comment = task.comment

(* A change is made only after the target was found, and in a recovery only     *)
(* after the stale query failed too.                                            *)
ChangesWereEarned ==
    \A change \in Changes :
        /\ \E target \in SawTarget : target < change
        /\ task.route = "recovery" => \E probe \in FailedProbes : probe < change

(* What the trace shows of a search that had to fail: that it was the one asked *)
(* for is only seen while no refused call lost an argument on its way there.    *)
Failed(lost, args) == IF lost THEN NotFound(attempt.events) ELSE FailedSearch(args)

(* The trace shows the route of the task in the order it asks for, as every     *)
(* demonstration must, reads a change that is to be verified back after it was  *)
(* made, and has searched for what it reports missing.                          *)
FollowedTheRoute(lost) ==
    IF task.route = "missing"
    THEN Failed(lost, [query |-> task.missing, kind |-> "document"]) # {}
    ELSE \E target \in SawTarget :
        /\ task.route = "directory" => \E listing \in Listings : listing < target
        /\ task.route = "recovery" =>
               \E failure \in Failed(lost, [query |-> Stale(task.target.query), kind |-> task.target.kind]) :
                   failure < target
        /\ task.action # "search_workspace_items" =>
               \E change \in Changes :
                   task.route = "verify" =>
                       \E read \in Reads : change < read /\ Event(read).payload = Event(change).payload

(* The final response reports what the state holds, as every demonstration      *)
(* must: the query of the target and the texts of what was made, or that a      *)
(* document no source item matches is not there.                                *)
ReportsTheState ==
    LET items == Reopen(case.frozen)
        content == Event(Len(attempt.events)).content
        Texts(change) == {change[f] : f \in DOMAIN change \ {"task_id", "comment_id", "project_id"}}
    IN  IF task.route = "missing"
        THEN /\ task.missing \in content /\ AbsencePhrases \cap content # {}
             /\ \A id \in DOMAIN items : items[id].kind = "document" => items[id].query # task.missing
        ELSE /\ items[task.target.item_id].query \in content
             /\ \A id \in DOMAIN world : Texts(world[id]) \subseteq content
====================================================================================
