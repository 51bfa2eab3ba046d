----------------------------- MODULE WorkspaceTasks -----------------------------
(* The Workspace Tasks Domain (workspace_tasks.py): source, slots, compiler,    *)
(* tools and assessment. A state is a function from item ids to items. A digest *)
(* is modelled by what it hashes; the id of a created task or comment is spelt  *)
(* from its two parts, as payloads hold texts.                                  *)
EXTENDS DomainCommon

CONSTANTS
    TargetScope,     \* representative | all_unique
    Blank, LongText, \* texts that strip to nothing; texts beyond 1000 characters
    QueryFor(_, _),  \* _query_for: kind, summary -> folded, a task without its leading verb
    TitleAllowed(_), CommentAllowed(_),
    NegatedAction    \* the texts _action_is_negated recognizes

--------------------------------------------------------------------------------
(* The source: a sequence of rows [id, summary, parent] for each kind. A        *)
(* project is its own parent; the items of a comment have no project.           *)
SourceKinds == <<"project", "task", "document", "comment">>
Item(kind, row) ==
    [item_id |-> row.id, kind |-> kind, query |-> QueryFor(kind, row.summary), summary |-> row.summary,
     project_id |-> IF kind = "comment" THEN None ELSE row.parent]

(* A table of items with distinct ids.                                          *)
ById(items) ==
    [id \in {items[i].item_id : i \in DOMAIN items} |->
        items[CHOOSE i \in DOMAIN items : items[i].item_id = id]]
DistinctIds(items) == \A i, j \in DOMAIN items : items[i].item_id = items[j].item_id => i = j

Parse(source) ==
    LET Ids(kind) == {source[kind][i].id : i \in DOMAIN source[kind]}
        items == FlattenSeq([k \in 1 .. 4 |-> [i \in DOMAIN source[SourceKinds[k]] |->
                                                  Item(SourceKinds[k], source[SourceKinds[k]][i])]])
        Known(kind, parents) == \A i \in DOMAIN source[kind] : source[kind][i].parent \in Ids(parents)
    IN  IF /\ items # <<>> /\ DistinctIds(items)
           /\ \A i \in DOMAIN items :
                 {items[i].item_id, items[i].summary} \cap (Blank \cup LongText) = {}
           /\ Known("task", "project") /\ Known("document", "project") /\ Known("comment", "task")
        THEN ById(items) ELSE None

(* Any fixed order of the ids will do; sorted() is one.                         *)
Sorted(items) == FoldSet(LAMBDA id, sorted : Append(sorted, items[id]), <<>>, DOMAIN items)
OfKind(items, kind) == Those(Sorted(items), LAMBDA item : item.kind = kind)

Freeze(items) == Sorted(items)

(* _item_from_record and _parse_normalized_state: an empty text is no item.     *)
IsItem(item) == "" \notin {item.item_id, item.kind, item.query, item.summary}
Reopen(frozen) ==
    IF frozen # <<>> /\ DistinctIds(frozen) /\ \A i \in DOMAIN frozen : IsItem(frozen[i])
    THEN ById(frozen) ELSE None

--------------------------------------------------------------------------------
(* Slots. *)
ItemTask(kind, action, route, constraint, target, fallback, index) ==
    [kind |-> kind, action |-> action, route |-> route, constraint |-> constraint,
     target |-> target, fallback |-> fallback, index |-> index]
TaskSpecs == <<
    ItemTask("search-direct", "search_workspace_items", "direct", "none", "document", TRUE, 0),
    ItemTask("search-directory", "search_workspace_items", "directory", "none", "project", FALSE, 0),
    ItemTask("search-recovery", "search_workspace_items", "recovery", "none", "task", TRUE, 0),
    ItemTask("search-missing", "search_workspace_items", "missing", "none", None, FALSE, 0),
    ItemTask("task-direct", "create_workspace_task", "direct", "exact", "project", FALSE, 0),
    ItemTask("task-verified", "create_workspace_task", "verify", "open", "project", FALSE, 1),
    ItemTask("comment-direct", "add_workspace_comment", "direct", "open", "task", FALSE, 0),
    ItemTask("comment-recovery", "add_workspace_comment", "recovery", "exact", "task", FALSE, 2),
    ItemTask("comment-verified", "add_workspace_comment", "verify", "open", "task", FALSE, 1)>>

QueryIsUnique(target, items) ==
    Cardinality({id \in DOMAIN items : items[id].kind = target.kind /\ items[id].query = target.query}) = 1

(* Items in the order of kinds, for a spec that finds none of its own.          *)
Candidates(items, spec) ==
    LET own == OfKind(items, spec.target)
    IN  IF spec.route = "missing" THEN <<>>
        ELSE IF own # <<>> \/ ~spec.fallback THEN own
        ELSE OfKind(items, "document") \o OfKind(items, "project")
                 \o OfKind(items, "task") \o OfKind(items, "comment")
Targets(items, spec) ==
    IF spec.route = "missing" THEN <<None>>
    ELSE Those(Candidates(items, spec), LAMBDA item : QueryIsUnique(item, items))

(* A query no document has: the plain one, or else the first free numbered one. *)
MissingName(n) ==
    IF n = 0 THEN "archived roadmap" ELSE "archived roadmap unavailable " \o ToString(n)
MissingQuery(items) ==
    LET occupied == {items[id].query : id \in {i \in DOMAIN items : items[i].kind = "document"}}
    IN  MissingName(First({n \in 0 .. Cardinality(occupied) : MissingName(n) \notin occupied}))

(* The representative scope takes one target of each spec, all_unique every     *)
(* one, turn by turn.                                                           *)
Lesser(a, b) == IF a < b THEN a ELSE b
AllTargets(items) == [s \in DOMAIN TaskSpecs |-> Targets(items, TaskSpecs[s])]
SpecsOver(targets) ==
    LET Pairs(s, n) == IF n \in DOMAIN targets[s] THEN <<<<TaskSpecs[s], targets[s][n]>>>> ELSE <<>>
        Round(n) == FlattenSeq([s \in DOMAIN TaskSpecs |-> Pairs(s, n)])
        most == Max({Len(targets[s]) : s \in DOMAIN TaskSpecs})
    IN  IF TargetScope = "all_unique" THEN FlattenSeq([n \in 1 .. most |-> Round(n)])
        ELSE FlattenSeq([s \in DOMAIN TaskSpecs |->
                 Pairs(s, Lesser(TaskSpecs[s].index + 1, Len(targets[s])))])
AvailableSpecs(items) == With(AllTargets(items), SpecsOver)

SlotId(spec, target, missing) == <<spec.kind, IF target = None THEN missing ELSE target>>
SlotOf(items, pair) ==
    [id |-> SlotId(pair[1], pair[2], MissingQuery(items)), spec |-> pair[1], target |-> pair[2]]
Slots(items) ==
    LET pairs == AvailableSpecs(items) IN [i \in DOMAIN pairs |-> SlotOf(items, pairs[i])]
Capacity(items) == Len(AvailableSpecs(items))

(* In the representative scope an id is looked for among all candidates.        *)
AnyTargets(items, spec) == IF spec.route = "missing" THEN <<None>> ELSE Candidates(items, spec)
AnySpecs(items) ==
    FlattenSeq([s \in DOMAIN TaskSpecs |->
        With(AnyTargets(items, TaskSpecs[s]), LAMBDA targets :
            [i \in DOMAIN targets |-> <<TaskSpecs[s], targets[i]>>])])
SlotWithId(items, id) ==
    With(IF TargetScope = "all_unique" THEN AvailableSpecs(items) ELSE AnySpecs(items), LAMBDA pairs :
        With({i \in DOMAIN pairs : SlotOf(items, pairs[i]).id = id}, LAMBDA same :
            IF same = {} THEN None ELSE SlotOf(items, pairs[First(same)])))

--------------------------------------------------------------------------------
(* The compiler. *)
ExactComment(target) == "Status: " \o target.query \o " is ready for review."
TaskArguments(target, route) ==
    IF route = "direct"
    THEN [title |-> "Prepare " \o target.summary \o " retrospective", priority |-> "high", due_label |-> "next_week"]
    ELSE [title |-> "Prepare " \o target.summary \o " review", priority |-> "medium", due_label |-> "later"]

(* _case_for_spec: everything a task allows is fixed by its spec and target.    *)
CaseFor(spec, target, missing) ==
    LET creates == spec.action = "create_workspace_task"
        exact == spec.constraint = "exact"
        args == TaskArguments(target, spec.route)
    IN  [target |-> target, action |-> spec.action, route |-> spec.route, constraint |-> spec.constraint,
         missing |-> IF spec.route = "missing" THEN missing ELSE None,
         title |-> IF creates /\ exact THEN args.title ELSE None,
         priority |-> IF creates THEN args.priority ELSE None,
         due_label |-> IF creates THEN args.due_label ELSE None,
         comment |-> IF spec.action = "add_workspace_comment" /\ exact THEN ExactComment(target) ELSE None]

Payload(task) ==
    LET base == [action |-> task.action, route |-> task.route]
        mutation == Both(base, [condition |-> "after_item_match"])
    IN  CASE task.route = "missing" -> Both(base, [kind |-> "document", query |-> task.missing])
          [] task.action = "search_workspace_items" ->
               Both(base, [kind |-> task.target.kind, query |-> task.target.query])
          [] task.action = "create_workspace_task" ->
               Both(Both(mutation, [due_label |-> task.due_label, priority |-> task.priority,
                                    project_kind |-> task.target.kind, project_query |-> task.target.query]),
                    IF task.constraint = "exact" THEN [title |-> task.title]
                    ELSE [task_constraint |-> task.constraint])
          [] OTHER ->
               Both(Both(mutation, [comment_constraint |-> task.constraint, task_kind |-> task.target.kind,
                                    task_query |-> task.target.query]),
                    IF task.constraint = "exact" THEN [comment |-> task.comment] ELSE <<>>)

Prompted(items, slot) ==
    [parses |-> "object", negated |-> FALSE,
     fields |-> Payload(CaseFor(slot.spec, slot.target, MissingQuery(items)))]

(* Both mutations name their condition and bind their target.                   *)
MutationRefusals(fields, expected, query, kind) == <<
    <<"condition" \notin DOMAIN fields, "missing_mutation_authority">>,
    <<Get(fields, "condition", None) # "after_item_match", "uncheckable_condition">>,
    <<Get(fields, query, None) # expected[query] \/ Get(fields, kind, None) # expected[kind],
      "wrong_item_binding">>>>

FaultyTaskRefusals(fields, task, expected) ==
    MutationRefusals(fields, expected, "project_query", "project_kind") \o <<
    <<{"priority", "due_label"} \ DOMAIN fields # {}, "missing_mutation_argument">>,
    <<DOMAIN fields # DOMAIN expected, "unsupported_requested_action">>>>
TaskRefusals(fields, task, expected) ==
    LET exact == task.constraint = "exact"
    IN  MutationRefusals(fields, expected, "project_query", "project_kind") \o <<
        <<{"priority", "due_label"} \ DOMAIN fields # {}, "missing_mutation_argument">>,
        <<Get(fields, "priority", None) # task.priority \/ Get(fields, "due_label", None) # task.due_label,
          "unauthorized_task_argument">>,
        <<exact /\ "title" \notin DOMAIN fields, "missing_mutation_argument">>,
        <<exact /\ Get(fields, "title", None) # task.title, "unauthorized_task_argument">>,
        <<~exact /\ (Get(fields, "task_constraint", None) # "open" \/ "title" \in DOMAIN fields),
          "unsupported_task_title">>,
        <<DOMAIN fields # DOMAIN expected, "unsupported_requested_action">>>>

CommentRefusals(fields, task, expected) ==
    LET exact == task.constraint = "exact"
    IN  MutationRefusals(fields, expected, "task_query", "task_kind") \o <<
        <<Get(fields, "comment_constraint", None) # task.constraint, "unsupported_comment">>,
        <<exact /\ Get(fields, "comment", None) # task.comment, "unauthorized_comment_argument">>,
        <<~exact /\ "comment" \in DOMAIN fields, "unsupported_comment">>,
        <<DOMAIN fields # DOMAIN expected, "unsupported_requested_action">>>>

PrivateFields == {"item_id", "project_id", "task_id", "document_id", "comment_id", "target_item_id"}
CompileRefusal(items, task, proposal) ==
    LET fields == proposal.fields
        action == Get(fields, "action", None)
        ActionRefusals(expected) ==
            CASE task.action = "search_workspace_items" ->
                   <<<<fields # expected, "unsupported_requested_action">>>>
              [] task.action = "create_workspace_task" -> TaskRefusals(fields, task, expected)
              [] OTHER -> CommentRefusals(fields, task, expected)
    IN  EarlyReturn(
            <<<<task.target # None /\ ~QueryIsUnique(task.target, items), "unresolved_target_ambiguity">>>>
            \o NotAnObject(proposal) \o <<
            <<Get(fields, "negated", None) = "true" \/ action \in NegatedAction, "negated_action">>,
            <<PrivateFields \cap DOMAIN fields # {}, "unsupported_private_exact_target">>,
            <<action # task.action, "unsupported_requested_action">>,
            <<Get(fields, "route", None) # task.route, "uncheckable_condition">>>>
            \o With(Payload(task), ActionRefusals), None)
Compile(items, id, proposal) ==
    With(SlotWithId(items, id), LAMBDA slot :
        IF slot = None THEN Rejection("unsupported_task_slot")
        ELSE With(CaseFor(slot.spec, slot.target, MissingQuery(items)), LAMBDA task :
            With(CompileRefusal(items, task, proposal), LAMBDA refusal :
                IF refusal # None THEN Rejection(refusal) ELSE Compiled(task))))

SemanticKey(task) == task

(* _case_from_private_bytes and _case_has_supported_shape: a case some spec     *)
(* could have been given.                                                       *)
SupportedShape(task) ==
    \E s \in DOMAIN TaskSpecs :
        LET spec == TaskSpecs[s]
        IN  /\ task.action = spec.action /\ task.route = spec.route
            /\ IF spec.route = "missing" THEN task.target = None /\ task.missing # None
               ELSE /\ task.target # None /\ IsItem(task.target)
                    /\ task.target.kind = spec.target \/ spec.fallback
            /\ task = CaseFor(spec, task.target, task.missing)
Restore(task, key) == IF SupportedShape(task) /\ key = SemanticKey(task) THEN task ELSE None

--------------------------------------------------------------------------------
(* The Episode. A case is [task, frozen, instructed], as in Contacts; frozen is *)
(* the normalized snapshot.                                                     *)
FaultyStale(query) == query
Stale(query) == query \o " (stale)"
ItemObservation(item) == [item_id |-> item.item_id, kind |-> item.kind, summary |-> item.summary]

(* _open_episode_from_frozen_state. *)
BoundToFrozen(task, items) ==
    LET missing == MissingQuery(items)
    IN  \E pair \in ToSet(AvailableSpecs(items)) : task = CaseFor(pair[1], pair[2], missing)
Opens(c) == Reopen(c.frozen) # None /\ BoundToFrozen(c.task, Reopen(c.frozen))

(* created are the tasks and comments of this Episode, by their ids.            *)
Fresh(c) ==
    [world |-> [id \in {} |-> None], observed |-> FALSE, probeFailed |-> FALSE, listed |-> FALSE]

TaskTexts(c) ==
    LET task == c.task
        named == IF task.target = None THEN {} ELSE {task.target.query, task.target.summary}
    IN  named \cup ({task.missing, task.title, task.comment} \ {None})

TaskFields == {"task_id", "project_id", "title", "priority", "due_label"}
CommentFields == {"comment_id", "task_id", "comment"}
Tools(c) ==
    LET action == c.task.action
        declared == {"search_workspace_items", action}
            \cup (IF c.task.route = "directory" THEN {"list_workspace_projects"} ELSE {})
            \cup (IF c.task.route # "verify" THEN {} ELSE
                  IF action = "create_workspace_task" THEN {"get_workspace_task"}
                  ELSE {"get_workspace_comment"})
    IN  [tool \in declared |->
            CASE tool = "search_workspace_items" -> Tool({"query", "kind"}, {"item_id", "kind", "summary"})
              [] tool = "list_workspace_projects" -> Tool({}, {"projects"})
              [] tool = "create_workspace_task" -> Tool(TaskFields \ {"task_id"}, TaskFields)
              [] tool = "get_workspace_task" -> Tool({"task_id"}, TaskFields)
              [] tool = "add_workspace_comment" -> Tool(CommentFields \ {"comment_id"}, CommentFields)
              [] tool = "get_workspace_comment" -> Tool({"comment_id"}, CommentFields)]

SearchItems(c, session, args) ==
    LET target == c.task.target
        missed == Failure("item_not_found")
    IN  IF target = None \/ args.kind # target.kind THEN Answer(session, missed)
        ELSE IF args.query = Stale(target.query)
        THEN Answer([session EXCEPT !.probeFailed = TRUE], missed)
        ELSE IF args.query # target.query \/ target.item_id \notin DOMAIN Reopen(c.frozen)
        THEN Answer(session, missed)
        ELSE Answer([session EXCEPT !.observed = TRUE],
                    Observation(ItemObservation(Reopen(c.frozen)[target.item_id])))

ConditionObserved(task, session) ==
    session.observed /\ (task.route = "recovery" => session.probeFailed)

CreatedTaskId(project, title) == "workspace-task-" \o project \o "/" \o title
CreatedCommentId(item, comment) == "workspace-comment-" \o item \o "/" \o comment

(* What both mutations refuse first, in this order; world holds what was made.  *)
ChangeRefusals(c, session, action, id) == <<
    <<c.task.action # action \/ c.task.target = None \/ id # c.task.target.item_id,
      "mutation_not_authorized">>,
    <<session.world # [made \in {} |-> None], "unintended_state_change">>,
    <<~ConditionObserved(c.task, session), "mutation_condition_not_observed">>>>

Change(c, session, refusals, own, id, change) ==
    LET refusal == EarlyReturn(refusals, EarlyReturn(own, EarlyReturn(<<
            <<id \in DOMAIN Reopen(c.frozen) \cup DOMAIN session.world, "unintended_state_change">>>>,
            None)))
    IN  IF refusal # None THEN Answer(session, Unauthorized(refusal))
        ELSE Answer([session EXCEPT !.world = Put(@, id, change)], StateChange(change))

CreateTask(c, session, args) ==
    LET task == c.task
        id == CreatedTaskId(args.project_id, args.title)
    IN  Change(c, session, ChangeRefusals(c, session, "create_workspace_task", args.project_id), <<
            <<args.priority # task.priority \/ args.due_label # task.due_label, "task_not_authorized">>,
            <<task.constraint = "exact" /\ args.title # task.title, "task_not_authorized">>,
            <<task.constraint = "open" /\ ~TitleAllowed(args.title), "unsupported_task_title">>>>,
            id, Put(args, "task_id", id))

AddComment(c, session, args) ==
    LET id == CreatedCommentId(args.task_id, args.comment)
    IN  Change(c, session, ChangeRefusals(c, session, "add_workspace_comment", args.task_id), <<
            <<~CommentAllowed(args.comment), "unsupported_comment">>,
            <<c.task.constraint = "exact" /\ args.comment # c.task.comment, "comment_not_authorized">>>>,
            id, Put(args, "comment_id", id))

(* An Episode makes tasks or comments, never both.                              *)
GetMade(session, id, code) ==
    Answer(session, IF id \in DOMAIN session.world THEN Observation(session.world[id]) ELSE Failure(code))

Execute(c, session, call) ==
    CASE call.tool = "search_workspace_items" -> SearchItems(c, session, call.args)
      [] call.tool = "list_workspace_projects" ->
           Answer([session EXCEPT !.listed = TRUE],
                  Observation([projects |-> {item.summary : item \in
                                                ToSet(OfKind(Reopen(c.frozen), "project"))}]))
      [] call.tool = "create_workspace_task" -> CreateTask(c, session, call.args)
      [] call.tool = "get_workspace_task" -> GetMade(session, call.args.task_id, "task_not_found")
      [] call.tool = "add_workspace_comment" -> AddComment(c, session, call.args)
      [] call.tool = "get_workspace_comment" -> GetMade(session, call.args.comment_id, "comment_not_found")

--------------------------------------------------------------------------------
(* The assessment. *)
TargetObserved(task, events) ==
    Observed(events, "search_workspace_items", ItemObservation(task.target))
NotFound(events) == FailuresOf(events, "search_workspace_items", "item_not_found")
Searches(events, query, kind) ==
    ActionsOf(events, "search_workspace_items", [query |-> query, kind |-> kind])

RouteCompleted(task, events) ==
    LET target == TargetObserved(task, events)
    IN  /\ target # {}
        /\ task.route = "directory" =>
               \E listing \in Observations(events, "list_workspace_projects") : listing < First(target)
        /\ task.route = "recovery" =>
               \E probe \in Searches(events, Stale(task.target.query), task.target.kind),
                  failure \in NotFound(events) : probe < failure /\ failure < First(target)

AssessSearch(task, events) ==
    Assessment(<<
        <<"requested_item_not_observed", RouteCompleted(task, events)>>,
        <<"unintended_state_change", ChangesIn(events) = {}>>,
        <<"final_response_not_grounded",
          {task.target.query, task.target.kind} \subseteq FinalContent(events)>>>>,
        <<"workspace_tasks.search", task.route>>)

(* Saying that it is not there takes one of three phrases.                      *)
AbsencePhrases == {"not found", "unavailable", "no matching"}
AssessMissing(task, events) ==
    Assessment(<<
        <<"missing_item_not_observed",
          \E search \in Searches(events, task.missing, "document"), failure \in NotFound(events) :
              search < failure>>,
        <<"unintended_state_change", ChangesIn(events) = {}>>,
        <<"final_response_not_grounded",
          /\ {task.missing, "document"} \subseteq FinalContent(events)
          /\ AbsencePhrases \cap FinalContent(events) # {}>>>>,
        <<"workspace_tasks.search", "missing">>)

AssessChange(task, events, authorization, tools, requested, values, key) ==
    Assessment(<<
        <<"condition_not_observed", RouteCompleted(task, events)>>,
        <<"mutation_not_authorized", authorization = "authorized">>,
        <<"requested_change_not_made", requested>>,
        <<"unintended_state_change", OneChange(events, tools.make)>>,
        <<"saved_change_not_observed",
          task.route = "verify" => Observed(events, tools.get, OnlyChange(events, tools.make)) # {}>>,
        <<"final_response_not_grounded",
          {task.target.query} \cup values \subseteq FinalContent(events)>>>>, key)

AssessTask(task, events, authorization) ==
    LET change == OnlyChange(events, "create_workspace_task")
        title == Get(change, "title", None)
        made == title # None
        id == CreatedTaskId(task.target.item_id, title)
    IN  AssessChange(task, events, authorization,
            [make |-> "create_workspace_task", get |-> "get_workspace_task"],
            /\ made
            /\ change = [task_id |-> id, project_id |-> task.target.item_id, title |-> title,
                         priority |-> task.priority, due_label |-> task.due_label]
            /\ IF task.constraint = "exact" THEN title = task.title ELSE TitleAllowed(title),
            {title, task.priority, task.due_label} \cup (IF made THEN {id} ELSE {}),
            <<"workspace_tasks.task", task.route>>)

AssessComment(task, events, authorization) ==
    LET change == OnlyChange(events, "add_workspace_comment")
        comment == Get(change, "comment", None)
    IN  AssessChange(task, events, authorization,
            [make |-> "add_workspace_comment", get |-> "get_workspace_comment"],
            /\ comment # None
            /\ change = [comment_id |-> CreatedCommentId(task.target.item_id, comment),
                         task_id |-> task.target.item_id, comment |-> comment]
            /\ IF task.constraint = "exact" THEN comment = task.comment ELSE CommentAllowed(comment),
            {comment}, <<"workspace_tasks.comment", task.route>>)

Assess(c, events, authorization) ==
    CASE c.task.action = "create_workspace_task" -> AssessTask(c.task, events, authorization)
      [] c.task.action = "add_workspace_comment" -> AssessComment(c.task, events, authorization)
      [] c.task.route = "missing" -> AssessMissing(c.task, events)
      [] OTHER -> AssessSearch(c.task, events)
=================================================================================
