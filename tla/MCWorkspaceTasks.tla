----------------------------- MODULE MCWorkspaceTasks -----------------------------
(* DomainTasks over Workspace Tasks: sources with colliding queries, without    *)
(* items of some kind, with a document where the missing one is searched, with  *)
(* a task titled by a verb and a blank, or that the parser refuses.             *)
EXTENDS Integers, Sequences, FiniteSets, SequencesExt, TLC

CONSTANTS None, TargetScope

MCBlank == {"", " "}
MCLongText == {"long"}
(* "Finalize " is not blank, but nothing is left of it without its verb. *)
MCQueryFor(kind, summary) ==
    CASE summary = "Atlas" -> "atlas"
      [] kind = "task" /\ summary = "Review deck" -> "deck"
      [] kind = "task" /\ summary = "Finalize " -> ""
      [] OTHER -> summary
MCTitleAllowed(title) == title = "Prepare the retrospective"
MCCommentAllowed(comment) == comment # "long"
MCNegatedAction == {"do_not_create_task"}
MCFree == {}

Row(id, summary, parent) == [id |-> id, summary |-> summary, parent |-> parent]
TaskTables ==
    {<<>>, <<Row("t1", "Review deck", "p1")>>,
     <<Row("t1", "Review deck", "p1"), Row("t2", "deck", "p1")>>,
     <<Row("t2", "Review deck", "p1"), Row("t1", "budget", "p1")>>,
     <<Row("t1", "Finalize ", "p1")>>, <<Row("t1", "Finalize ", "p1"), Row("t2", "deck", "p1")>>,
     <<Row("t1", "deck", "p9")>>, <<Row("p1", "deck", "p1")>>}
MCSource ==
    {[project |-> projects, task |-> tasks, document |-> documents, comment |-> comments] :
        projects \in {<<>>, <<Row("p1", "Atlas", "p1")>>, <<Row("p2", "atlas", "p2"), Row("p1", "Atlas", "p1")>>},
        tasks \in TaskTables,
        documents \in {<<>>, <<Row("d1", "archived roadmap", "p1")>>},
        comments \in {<<>>, <<Row("c1", "deck", "t1")>>, <<Row("c1", " ", "t1")>>}}

(* The prompted proposal, and what differs from it in one field. *)
MCProposals(state, slot) ==
    LET prompt == slot.prompt
        With(f, value) == [prompt EXCEPT !.fields = (f :> value) @@ @]
        Without(f) == [prompt EXCEPT !.fields = [g \in DOMAIN @ \ {f} |-> @[g]]]
    IN  {prompt, [prompt EXCEPT !.parses = "text"], [prompt EXCEPT !.parses = "other"],
         [prompt EXCEPT !.parses = "text", !.negated = TRUE]}
        \cup {With(f, "x") : f \in DOMAIN prompt.fields \cup {"extra"}}
        \cup {Without(f) : f \in DOMAIN prompt.fields}
        \cup {With("title", "Prepare the retrospective"), With("comment", "Status: done"),
              With("task_id", "t1"), With("negated", "true"), With("action", "do_not_create_task")}

MCTampered(task) ==
    LET Retarget(target) == IF task.target = None THEN target ELSE [task.target EXCEPT !.summary = "other"]
    IN  {[task EXCEPT !.target = Retarget(None)], [task EXCEPT !.title = "x"], [task EXCEPT !.comment = "x"],
         [task EXCEPT !.priority = "high"], [task EXCEPT !.missing = "x"],
         [task EXCEPT !.route = "verify"], [task EXCEPT !.route = "direct"]} \ {task}

Domain == INSTANCE WorkspaceTasks WITH
    Blank <- MCBlank, LongText <- MCLongText, QueryFor <- MCQueryFor,
    TitleAllowed <- MCTitleAllowed, CommentAllowed <- MCCommentAllowed,
    NegatedAction <- MCNegatedAction
====================================================================================
