----------------------------- MODULE MCWorkspaceEpisode ----------------------------
(* The rollout over Workspace Tasks: any Agent of five steps on every kind of   *)
(* task, and an Agent that follows its instruction on every slot of several     *)
(* workspaces. One title is too long for the comment a task asks for.           *)
EXTENDS Integers, Sequences, FiniteSets, SequencesExt, TLC

CONSTANT None

MCBlank == {}
MCLongText == {}
MCQueryFor(kind, summary) ==
    CASE summary = "Atlas" -> "atlas"
      [] kind = "task" /\ summary = "Review deck" -> "deck"
      [] OTHER -> summary
MCOpenTitle == "Prepare a plan"
MCTitleAllowed(title) == title \in {MCOpenTitle, "Prepare Atlas retrospective"}
MCCommentAllowed(comment) ==
    comment \in {"Status: done.", "Status: deck is ready for review.", "Status: plan is ready for review."}
MCNegatedAction == {}

Domain == INSTANCE WorkspaceTasks WITH
    TargetScope <- "all_unique", Blank <- MCBlank, LongText <- MCLongText, QueryFor <- MCQueryFor,
    TitleAllowed <- MCTitleAllowed, CommentAllowed <- MCCommentAllowed,
    NegatedAction <- MCNegatedAction

Row(id, summary, parent) == [id |-> id, summary |-> summary, parent |-> parent]
MCState ==
    Domain!Parse([project |-> <<Row("p1", "Atlas", "p1")>>, task |-> <<Row("t1", "Review deck", "p1")>>,
           document |-> <<Row("d1", "plan", "p1")>>, comment |-> <<>>])
PromptedCases(items, instructed) ==
    {[domain |-> "workspace", task |-> Domain!Compile(items, slot.id, Domain!Prompted(items, slot)).task,
      frozen |-> Domain!Freeze(items), instructed |-> instructed] :
        slot \in ToSet(Domain!Slots(items))}

Call(tool, args) == [type |-> "tool_call", tool |-> tool, args |-> args]
Search(query, kind) == Call("search_workspace_items", [query |-> query, kind |-> kind])
Create(project, title, priority, due) ==
    Call("create_workspace_task",
         [project_id |-> project, title |-> title, priority |-> priority, due_label |-> due])
Comment(item, comment) == Call("add_workspace_comment", [task_id |-> item, comment |-> comment])
GetTask(id) == Call("get_workspace_task", [task_id |-> id])
GetComment(id) == Call("get_workspace_comment", [comment_id |-> id])
List == Call("list_workspace_projects", <<>>)
Final(content) == [type |-> "final_response", content |-> content]

MCExact == "Prepare Atlas retrospective"
Reports ==
    {{"atlas", "project", "deck", "task", "plan", "document", "archived roadmap", "not found", "high",
      "next_week", MCExact, Domain!CreatedTaskId("p1", MCExact), "Status: deck is ready for review.", "Status: done."},
     {"atlas", "deck", "plan", "archived roadmap", "document", MCOpenTitle, "medium", "later",
      Domain!CreatedTaskId("p1", MCOpenTitle), "Status: done."}}
WithLimit(call) == [call EXCEPT !.args = [f \in DOMAIN @ \cup {"limit"} |-> IF f = "limit" THEN "1" ELSE @[f]]]
(* What a task of a failing search invites: it, with an argument the tool does  *)
(* not declare too, and searches for what is there and for what is not.         *)
Futile(c) ==
    CASE c.task.route = "recovery" ->
           {Search("deck (stale)", "task"), WithLimit(Search("deck (stale)", "task"))}
      [] c.task.route = "missing" ->
           {Search("plan", "document"), Search("deck (stale)", "task"),
            WithLimit(Search("archived roadmap", "document"))}
      [] OTHER -> {}
Calls(c) ==
    {Search("atlas", "project"), Search("deck", "task"), Search("archived roadmap", "document"), List,
     Create("p1", MCExact, "high", "next_week"), Create("p1", MCOpenTitle, "medium", "later"),
     Create("p1", MCOpenTitle, "high", "later"), Create("p1", "x", "medium", "later"),
     Create("t1", MCOpenTitle, "medium", "later"),
     Comment("t1", "Status: done."), Comment("t1", "Status: deck is ready for review."),
     Comment("t1", "x"), Comment("p1", "Status: done."),
     GetTask(Domain!CreatedTaskId("p1", MCOpenTitle)), GetComment(Domain!CreatedCommentId("t1", "Status: done."))}
        \cup Futile(c)
(* An Agent that follows the instruction of _public_task. *)
Sources(taskTitles) ==
    {[project |-> [i \in 1 .. n |-> Row(ToString(i), IF i = 1 THEN "Atlas" ELSE "atlas", ToString(i))],
      task |-> tasks,
      document |-> documents, comment |-> <<>>] :
        n \in {1, 2},
        tasks \in {<<>>} \cup {<<Row("t1", title, "1")>> : title \in taskTitles}
                  \cup {<<Row("t1", a, "1"), Row("t2", b, "1")>> : a, b \in taskTitles},
        documents \in {<<>>, <<Row("d1", "plan", "1")>>, <<Row("d1", "archived roadmap", "1")>>}}
MCCase ==
    PromptedCases(MCState, FALSE)
        \cup UNION {PromptedCases(Domain!Parse(source), TRUE) :
                       source \in Sources({"Review deck", "deck", "a long title"})}

Script(c) ==
    LET t == c.task
        exact == t.constraint = "exact"
        id == t.target.item_id
        title == IF exact THEN t.title ELSE MCOpenTitle
        comment == IF exact THEN t.comment ELSE "Status: done."
        creates == t.action = "create_workspace_task"
        comments == t.action = "add_workspace_comment"
    IN  IF t.route = "missing"
        THEN <<Search(t.missing, "document"), Final({t.missing, "document", "not found"})>>
        ELSE (IF t.route = "directory" THEN <<List>> ELSE <<>>)
             \o (IF t.route = "recovery" THEN <<Search(Domain!Stale(t.target.query), t.target.kind)>> ELSE <<>>)
             \o <<Search(t.target.query, t.target.kind)>>
             \o (IF creates THEN <<Create(id, title, t.priority, t.due_label)>>
                 ELSE IF comments THEN <<Comment(id, comment)>> ELSE <<>>)
             \o (IF t.route # "verify" THEN <<>>
                 ELSE IF creates THEN <<GetTask(Domain!CreatedTaskId(id, title))>>
                 ELSE <<GetComment(Domain!CreatedCommentId(id, comment))>>)
             \o <<Final({t.target.query, t.target.kind} \cup
                        (IF creates THEN {title, t.priority, t.due_label, Domain!CreatedTaskId(id, title)} ELSE {})
                        \cup (IF comments THEN {comment} ELSE {}))>>
(* Any Agent: in any order what the task instructs, and up to two calls besides. *)
Strays(c, events) ==
    {i \in DOMAIN events :
        /\ events[i].type = "action"
        /\ \A call \in {call \in ToSet(Script(c)) : call.type = "tool_call"} :
               call.tool = events[i].tool => call.args # events[i].args}
Anything(c, events) ==
    {call \in Calls(c) :
        /\ call.tool \in DOMAIN Domain!Tools(c)
        /\ call \in ToSet(Script(c)) \/ Cardinality(Strays(c, events)) < 2}
        \cup {Final(r) : r \in Reports}
MCDecision(c, events) ==
    IF c.instructed
    THEN {Script(c)[Cardinality({i \in DOMAIN events : events[i].type = "action"}) + 1]}
    ELSE Anything(c, events)
====================================================================================
