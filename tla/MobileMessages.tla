----------------------------- MODULE MobileMessages -----------------------------
(* The Mobile Messages Domain (mobile_messages.py): source, slots, compiler,    *)
(* tools and assessment. A state is [messages, reminders, drafts], functions on *)
(* message ids; a message is the record [message_id, sender, body] that         *)
(* search_messages answers with. A digest is modelled by what it hashes.        *)
EXTENDS DomainCommon

CONSTANTS
    Blank, LongText, \* texts that strip to nothing; texts beyond 1000 characters
    BodyHas(_, _),  \* query.casefold() in body.casefold()
    ReplyAllowed(_), \* _reply_is_allowed
    NegatedAction    \* the texts _action_is_negated recognizes

--------------------------------------------------------------------------------
(* The source. *)
QueryFor(message) ==
    IF BodyHas(message.body, "launch checklist") THEN "launch checklist"
    ELSE IF BodyHas(message.body, "invoice") THEN "invoice" ELSE message.body
QueryIsUnique(state, message) ==
    Cardinality({id \in DOMAIN state.messages :
                    BodyHas(state.messages[id].body, QueryFor(message))}) = 1

(* A table of records with distinct message ids, each of them Fits.             *)
Table(records) ==
    [id \in {records[i].message_id : i \in DOMAIN records} |->
        records[CHOOSE i \in DOMAIN records : records[i].message_id = id]]
IsTable(records, Fits(_)) ==
    /\ \A i \in DOMAIN records : Fits(records[i])
    /\ \A i, j \in DOMAIN records : records[i].message_id = records[j].message_id => i = j

Parse(source) ==
    LET known == {source.messages[i].message_id : i \in DOMAIN source.messages}
        Texts(message) == {message.message_id, message.sender, message.body}
    IN  IF /\ source.messages # <<>>
           /\ IsTable(source.messages,
                      LAMBDA m : Texts(m) \cap (Blank \cup LongText) = {})
           /\ IsTable(source.reminders,
                      LAMBDA r : r.message_id \in known /\ {r.reminder_text, r.remind_at} \cap Blank = {})
           /\ IsTable(source.drafts,
                      LAMBDA d : d.message_id \in known /\ ReplyAllowed(d.content))
        THEN [messages |-> Table(source.messages), reminders |-> Table(source.reminders),
              drafts |-> Table(source.drafts)]
        ELSE None

(* Tables in the order of their ids.                                            *)
Rows(table) == LET ids == SetToSeq(DOMAIN table) IN [i \in DOMAIN ids |-> table[ids[i]]]
Freeze(state) ==
    [messages |-> Rows(state.messages), reminders |-> Rows(state.reminders),
     drafts |-> Rows(state.drafts)]

(* A snapshot is read by the parser of the sources.                             *)
Reopen(frozen) == Parse(frozen)

--------------------------------------------------------------------------------
(* Slots. *)
TaskSpecs == <<
    TaskSpec("search-direct", "search_messages", "direct", "none"),
    TaskSpec("search-directory", "search_messages", "directory", "none"),
    TaskSpec("search-recovery", "search_messages", "recovery", "none"),
    TaskSpec("reminder-direct", "create_reminder", "direct", "none"),
    TaskSpec("reminder-directory", "create_reminder", "directory", "none"),
    TaskSpec("reminder-recovery", "create_reminder", "recovery", "none"),
    TaskSpec("reminder-verified", "create_reminder", "verify", "none"),
    TaskSpec("draft-direct", "create_draft_reply", "direct", "open"),
    TaskSpec("draft-directory", "create_draft_reply", "directory", "open"),
    TaskSpec("draft-recovery", "create_draft_reply", "recovery", "open"),
    TaskSpec("draft-exact", "create_draft_reply", "direct", "exact"),
    TaskSpec("draft-verified", "create_draft_reply", "verify", "open")>>

ReminderText(message) == "Review the " \o QueryFor(message) \o "."
RemindAt(message) == "2026-10-04T09:00:00Z"
ExactReply(message) == "Thanks, I will review the " \o QueryFor(message) \o "."

SpecsFor(state, message) ==
    Those(TaskSpecs, LAMBDA spec :
        /\ QueryIsUnique(state, message)
        /\ ~(spec.action = "create_reminder" /\ message.message_id \in DOMAIN state.reminders)
        /\ ~(spec.action = "create_draft_reply" /\ message.message_id \in DOMAIN state.drafts)
        /\ ~(spec.constraint = "exact" /\ ~ReplyAllowed(ExactReply(message))))

FaultySlotId(spec, message) == <<spec.kind, message.sender>>
SlotId(spec, message) == <<spec.kind, message>>
SlotOf(spec, message) == [id |-> SlotId(spec, message), spec |-> spec, target |-> message]
SlotsFrom(messages, Specs(_)) ==
    FlattenSeq([i \in DOMAIN messages |->
        LET specs == Specs(messages[i])
        IN  [j \in DOMAIN specs |-> SlotOf(specs[j], messages[i])]])
Slots(state) == SlotsFrom(Rows(state.messages), LAMBDA m : SpecsFor(state, m))

Capacity(state) ==
    FoldSeq(LAMBDA m, n : n + Len(SpecsFor(state, m)), 0, Rows(state.messages))

(* An id is looked for among all specs of all messages, issued or not.          *)
SlotWithId(state, id) ==
    LET all == SlotsFrom(Rows(state.messages), LAMBDA m : TaskSpecs)
        same == {i \in DOMAIN all : all[i].id = id}
    IN  IF same = {} THEN None ELSE all[First(same)]

--------------------------------------------------------------------------------
(* The compiler. *)
Prompted(state, slot) ==
    LET message == slot.target
        base == [action |-> slot.spec.action, route |-> slot.spec.route]
        mutation == Both(base, [condition |-> "after_message_match", message_query |-> QueryFor(message)])
    IN  [parses |-> "object", negated |-> FALSE,
         fields |-> CASE slot.spec.action = "search_messages" -> Both(base, [query |-> QueryFor(message)])
                      [] slot.spec.action = "create_reminder" ->
                           Both(mutation, [reminder_text |-> ReminderText(message),
                                           remind_at |-> RemindAt(message)])
                      [] slot.spec.constraint = "exact" ->
                           Both(mutation, [reply_constraint |-> "exact", reply |-> ExactReply(message)])
                      [] OTHER -> Both(mutation, [reply_constraint |-> slot.spec.constraint])]

(* Both mutations answer to the same condition.                                 *)
ConditionRefusals(fields) == <<
    <<"condition" \notin DOMAIN fields, "missing_mutation_authority">>,
    <<Get(fields, "condition", None) # "after_message_match", "uncheckable_condition">>>>

ReminderRefusals(fields, message) == ConditionRefusals(fields) \o <<
    <<{"reminder_text", "remind_at"} \ DOMAIN fields # {}, "missing_mutation_argument">>,
    <<\/ Get(fields, "reminder_text", None) # ReminderText(message)
      \/ Get(fields, "remind_at", None) # RemindAt(message), "unauthorized_reminder_argument">>,
    <<DOMAIN fields # {"action", "condition", "message_query", "remind_at", "reminder_text", "route"},
      "unsupported_requested_action">>>>

DraftRefusals(fields, spec) ==
    LET exact == spec.constraint = "exact"
    IN  ConditionRefusals(fields) \o <<
        <<Get(fields, "reply_constraint", None) # spec.constraint, "unsupported_reply">>,
        <<exact /\ ("reply" \notin DOMAIN fields \/ ~ReplyAllowed(fields.reply)), "unsupported_reply">>,
        <<~exact /\ "reply" \in DOMAIN fields, "unsupported_reply">>,
        <<DOMAIN fields # {"action", "condition", "message_query", "reply_constraint", "route"}
                             \cup (IF exact THEN {"reply"} ELSE {}), "unsupported_requested_action">>>>

Compile(state, id, proposal) ==
    LET slot == SlotWithId(state, id)
        spec == slot.spec
        fields == proposal.fields
        action == Get(fields, "action", None)
        available == SpecsFor(state, slot.target)
        refusal == EarlyReturn(
            <<<<~QueryIsUnique(state, slot.target), "unresolved_target_ambiguity">>,
              <<spec \notin ToSet(available), "unsupported_task_slot">>>>
            \o NotAnObject(proposal) \o <<
            <<action = None, "unsupported_requested_action">>,
            <<Get(fields, "negated", None) = "true" \/ action \in NegatedAction, "negated_action">>,
            <<{"message_id", "target_message_id"} \cap DOMAIN fields # {}, "unsupported_private_exact_target">>,
            <<action # spec.action, "unsupported_requested_action">>,
            <<Get(fields, "route", None) # spec.route, "uncheckable_condition">>,
            <<action = "search_messages" /\ fields # Prompted(state, slot).fields,
              "unsupported_requested_action">>,
            <<action # "search_messages" /\ Get(fields, "message_query", None) # QueryFor(slot.target),
              "wrong_message_binding">>>>
            \o (CASE action = "create_reminder" -> ReminderRefusals(fields, slot.target)
                  [] action = "create_draft_reply" -> DraftRefusals(fields, spec)
                  [] OTHER -> <<>>), None)
    IN  IF slot = None THEN Rejection("unsupported_task_slot")
        ELSE IF refusal # None THEN Rejection(refusal)
        ELSE Compiled([target |-> slot.target, action |-> action, route |-> spec.route,
                       constraint |-> spec.constraint,
                       text |-> Get(fields, "reminder_text", None),
                       at |-> Get(fields, "remind_at", None),
                       exact |-> Get(fields, "reply", None)])

SemanticKey(task) ==
    <<task.action, task.target, IF task.constraint = "exact" THEN task.exact ELSE None,
      task.at, task.text, task.constraint, task.route>>

(* _case_from_private_bytes and the key: None where restore_task_case raises.   *)
Restore(task, key) ==
    LET reminder == {task.text, task.at}
    IN  IF \/ task.action = "search_messages" /\ reminder \cup {task.exact} # {None}
           \/ task.action = "create_reminder" /\ (None \in reminder \/ task.exact # None)
           \/ task.action = "create_draft_reply" /\ reminder # {None}
           \/ task.constraint = "exact" /\ (task.exact = None \/ ~ReplyAllowed(task.exact))
           \/ task.constraint # "exact" /\ task.exact # None
           \/ ~\E i \in DOMAIN TaskSpecs :
                 /\ TaskSpecs[i].action = task.action /\ TaskSpecs[i].route = task.route
                 /\ TaskSpecs[i].constraint = task.constraint
           \/ key # SemanticKey(task)
        THEN None ELSE task

--------------------------------------------------------------------------------
(* The Episode. A case is [task, frozen, instructed], as in Contacts. *)
Stale(query) == query \o " (stale)"

Opens(c) == TRUE
Fresh(c) ==
    [world |-> [reminders |-> c.frozen.reminders, drafts |-> c.frozen.drafts],
     observed |-> FALSE, listed |-> FALSE, afterListing |-> FALSE, probeFailed |-> FALSE]

TaskTexts(c) ==
    {c.task.target.sender, QueryFor(c.task.target), c.task.text, c.task.at, c.task.exact} \ {None}

MessageFields == {"message_id", "sender", "body"}
ReminderFields == {"message_id", "reminder_text", "remind_at"}
DraftFields == {"message_id", "content"}
Tools(c) ==
    LET route == c.task.route
        action == c.task.action
        declared == {"search_messages"} \cup {action}
            \cup (IF route \in {"directory", "recovery"} THEN {"list_message_senders"} ELSE {})
            \cup (IF route # "verify" THEN {} ELSE
                  IF action = "create_reminder" THEN {"get_reminder"} ELSE {"get_draft_reply"})
    IN  [tool \in declared |->
            CASE tool = "search_messages" -> Tool({"query"}, MessageFields)
              [] tool = "list_message_senders" -> Tool({}, {"senders"})
              [] tool = "create_reminder" -> Tool(ReminderFields, ReminderFields)
              [] tool = "get_reminder" -> Tool({"message_id"}, ReminderFields)
              [] tool = "create_draft_reply" -> Tool(DraftFields, DraftFields)
              [] tool = "get_draft_reply" -> Tool({"message_id"}, DraftFields)]

SearchMessages(c, session, query) ==
    LET messages == c.frozen.messages
        matches == {id \in DOMAIN messages : BodyHas(messages[id].body, query)}
        id == CHOOSE id \in matches : TRUE
    IN  IF query = Stale(QueryFor(c.task.target))
        THEN Answer([session EXCEPT !.probeFailed = TRUE], Failure("message_not_found"))
        ELSE IF Cardinality(matches) # 1 THEN Answer(session, Failure("message_not_found"))
        ELSE Answer(IF id = c.task.target.message_id
                    THEN [session EXCEPT !.observed = TRUE, !.afterListing = session.listed]
                    ELSE session,
                    Observation(messages[id]))

RouteAuthorized(task, session) ==
    /\ session.observed
    /\ task.route \in {"directory", "recovery"} => session.afterListing
    /\ task.route = "recovery" => session.probeFailed

MutationRefusals(task, session, action, id) == <<
    <<task.action # action \/ id # task.target.message_id, "mutation_not_authorized">>,
    <<~RouteAuthorized(task, session), "mutation_condition_not_observed">>>>

CreateReminder(c, session, args) ==
    LET task == c.task
        refusal == EarlyReturn(MutationRefusals(task, session, "create_reminder", args.message_id),
            EarlyReturn(<<
                <<args.reminder_text # task.text \/ args.remind_at # task.at, "reminder_not_authorized">>,
                <<args.message_id \in DOMAIN session.world.reminders, "unintended_state_change">>>>,
                None))
    IN  IF refusal # None THEN Answer(session, Unauthorized(refusal))
        ELSE Answer([session EXCEPT !.world.reminders = Put(@, args.message_id, args)],
                    StateChange(args))

CreateDraftReply(c, session, args) ==
    LET task == c.task
        refusal == EarlyReturn(MutationRefusals(task, session, "create_draft_reply", args.message_id),
            EarlyReturn(<<
                <<~ReplyAllowed(args.content), "unsupported_reply">>,
                <<task.constraint = "exact" /\ args.content # task.exact, "reply_not_authorized">>,
                <<args.message_id \in DOMAIN session.world.drafts, "unintended_state_change">>>>,
                None))
    IN  IF refusal # None THEN Answer(session, Unauthorized(refusal))
        ELSE Answer([session EXCEPT !.world.drafts = Put(@, args.message_id, args)],
                    StateChange(args))

GetSaved(session, table, id, code) ==
    Answer(session, IF id \in DOMAIN table THEN Observation(table[id]) ELSE Failure(code))

Execute(c, session, call) ==
    CASE call.tool = "search_messages" -> SearchMessages(c, session, call.args.query)
      [] call.tool = "list_message_senders" ->
           Answer([session EXCEPT !.listed = TRUE],
                  Observation([senders |-> {c.frozen.messages[id].sender : id \in DOMAIN c.frozen.messages}]))
      [] call.tool = "create_reminder" -> CreateReminder(c, session, call.args)
      [] call.tool = "get_reminder" ->
           GetSaved(session, session.world.reminders, call.args.message_id, "reminder_not_found")
      [] call.tool = "create_draft_reply" -> CreateDraftReply(c, session, call.args)
      [] call.tool = "get_draft_reply" ->
           GetSaved(session, session.world.drafts, call.args.message_id, "draft_not_found")

--------------------------------------------------------------------------------
(* The assessment. *)
RouteCompleted(task, events) ==
    LET target == Observed(events, "search_messages", task.target)
        listings == {i \in Observations(events, "list_message_senders") :
                        task.target.sender \in Get(events[i].payload, "senders", {})}
        probes == ActionsOf(events, "search_messages", [query |-> Stale(QueryFor(task.target))])
        failures == FailuresOf(events, "search_messages", "message_not_found")
    IN  /\ target # {}
        /\ task.route = "directory" => \E listing \in listings : listing < First(target)
        /\ task.route = "recovery" =>
               \E probe \in probes, failure \in failures, listing \in listings :
                   probe < failure /\ failure < listing /\ listing < First(target)

Grounded(task, events, values) ==
    {task.target.sender, QueryFor(task.target)} \cup values \subseteq FinalContent(events)

AssessSearch(task, events) ==
    Assessment(<<
        <<"requested_message_not_observed", RouteCompleted(task, events)>>,
        <<"unintended_state_change", ChangesIn(events) = {}>>,
        <<"final_response_not_grounded", Grounded(task, events, {})>>>>,
        <<"mobile_messages.search", task.route>>)

(* The checks of the two mutations, in their order.                             *)
FaultyAssessMutation(task, events, authorization, tools, requested, values, key) ==
    Assessment(<<
        <<"message_condition_not_observed", Observed(events, "search_messages", task.target) # {}>>,
        <<"mutation_not_authorized", authorization = "authorized">>,
        <<"requested_change_not_recorded", requested>>,
        <<"final_response_not_grounded", Grounded(task, events, values)>>>>, key)
AssessMutation(task, events, authorization, tools, requested, values, key) ==
    LET change == OnlyChange(events, tools.create)
    IN  Assessment(<<
        <<"message_condition_not_observed", RouteCompleted(task, events)>>,
        <<"mutation_not_authorized", authorization = "authorized">>,
        <<"requested_change_not_recorded", requested>>,
        <<"unintended_state_change", OneChange(events, tools.create)>>,
        <<"saved_change_not_observed",
          task.route = "verify" => Observed(events, tools.get, change) # {}>>,
        <<"final_response_not_grounded", Grounded(task, events, values)>>>>, key)

AssessReminder(task, events, authorization) ==
    AssessMutation(task, events, authorization,
        [create |-> "create_reminder", get |-> "get_reminder"],
        OnlyChange(events, "create_reminder") =
            [message_id |-> task.target.message_id, reminder_text |-> task.text, remind_at |-> task.at],
        {task.text, task.at}, <<"mobile_messages.reminder", task.route>>)

AssessDraft(task, events, authorization) ==
    LET change == OnlyChange(events, "create_draft_reply")
        content == Get(change, "content", None)
    IN  AssessMutation(task, events, authorization,
            [create |-> "create_draft_reply", get |-> "get_draft_reply"],
            /\ change # NoChange /\ change.message_id = task.target.message_id
            /\ IF task.constraint = "exact" THEN content = task.exact ELSE ReplyAllowed(content),
            {content} \ {None}, <<"mobile_messages.draft", task.route, task.constraint = "exact">>)

Assess(c, events, authorization) ==
    CASE c.task.action = "create_reminder" -> AssessReminder(c.task, events, authorization)
      [] c.task.action = "create_draft_reply" -> AssessDraft(c.task, events, authorization)
      [] OTHER -> AssessSearch(c.task, events)
=================================================================================
