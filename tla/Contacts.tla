-------------------------------- MODULE Contacts --------------------------------
(* The Contacts Domain (contacts.py): its source, the task slots it issues, the *)
(* compiler of proposals, the tools of an Episode and its assessment. Names,    *)
(* addresses and notes are strings; a state is [contacts, followups], two       *)
(* functions on names. A digest is injective: it is modelled by what it hashes. *)
EXTENDS DomainCommon

CONSTANTS
    Strip(_),        \* str.strip; "" is a blank text
    Slug(_),         \* casefold, blanks as dashes
    LongText,        \* the texts beyond the bounds of a name or an address
    AllowedNote,     \* the notes _note_is_allowed accepts
    NegatedAction,   \* the texts _action_is_negated recognizes
    PromptNote       \* the exact note a prompt asks for, an allowed one

--------------------------------------------------------------------------------
(* The source: _parse_contacts_source. It and the frozen snapshot are records   *)
(* of two sequences; None stands for a source it refuses.                       *)
NormalName(record) == Strip(record.name)
Parse(source) ==
    LET contacts == source.contacts
        followups == source.followups
        names == {NormalName(contacts[i]) : i \in DOMAIN contacts}
        Nth(seq, name) == CHOOSE i \in DOMAIN seq : NormalName(seq[i]) = name
    IN  IF \/ contacts = <<>>
           \/ \E i \in DOMAIN contacts :
                 LET name == NormalName(contacts[i])
                     email == Strip(contacts[i].email)
                 IN  name = "" \/ email = "" \/ {name, email} \cap LongText # {}
           \/ \E i, j \in DOMAIN contacts : i # j /\ NormalName(contacts[i]) = NormalName(contacts[j])
           \/ \E i \in DOMAIN followups :
                 NormalName(followups[i]) \notin names \/ followups[i].note \notin AllowedNote
           \/ \E i, j \in DOMAIN followups : i # j /\ NormalName(followups[i]) = NormalName(followups[j])
        THEN None
        ELSE [contacts |-> [name \in names |-> Strip(contacts[Nth(contacts, name)].email)],
              followups |-> [name \in {NormalName(followups[i]) : i \in DOMAIN followups} |->
                                followups[Nth(followups, name)].note]]

(* The normalized state: both tables sorted by name. Enumerate is any fixed     *)
(* order of a set; sorted() is one.                                             *)
Enumerate(set) == SetToSeq(set)
FaultyFreeze(state) ==
    LET names == Enumerate(DOMAIN state.contacts)
    IN  [contacts |-> [i \in DOMAIN names |-> [name |-> names[i], email |-> state.contacts[names[i]]]],
         followups |-> <<>>]
Freeze(state) ==
    LET names == Enumerate(DOMAIN state.contacts)
        noted == Enumerate(DOMAIN state.followups)
    IN  [contacts |-> [i \in DOMAIN names |-> [name |-> names[i], email |-> state.contacts[names[i]]]],
         followups |-> [i \in DOMAIN noted |-> [name |-> noted[i], note |-> state.followups[noted[i]]]]]

(* A snapshot is read by the parser of the sources.                             *)
Reopen(frozen) == Parse(frozen)

--------------------------------------------------------------------------------
(* Slots. *)
TaskSpecs == <<
    TaskSpec("lookup-direct", "lookup_email", "direct", "none"),
    TaskSpec("lookup-directory", "lookup_email", "directory", "none"),
    TaskSpec("lookup-recovery", "lookup_email", "recovery", "none"),
    TaskSpec("followup-open", "record_followup", "direct", "open"),
    TaskSpec("followup-exact", "record_followup", "direct", "exact"),
    TaskSpec("followup-directory", "record_followup", "directory", "open"),
    TaskSpec("followup-recovery", "record_followup", "recovery", "open"),
    TaskSpec("followup-verified", "record_followup", "verify", "open")>>

(* A contact that has a follow-up can only be looked up. *)
SpecsFor(state, name) ==
    Those(TaskSpecs,
          LAMBDA spec : name \notin DOMAIN state.followups \/ spec.action = "lookup_email")

SlotId(state, spec, name) ==
    <<spec.kind,
      IF \E other \in DOMAIN state.contacts : other # name /\ Slug(other) = Slug(name)
      THEN <<Slug(name), name>> ELSE Slug(name)>>

(* One slot for every contact and spec: what TaskSlot holds is its id. *)
Slots(state) ==
    FlattenSeq([i \in 1 .. Cardinality(DOMAIN state.contacts) |->
        LET name == Enumerate(DOMAIN state.contacts)[i]
            specs == SpecsFor(state, name)
        IN  [j \in DOMAIN specs |-> [id |-> SlotId(state, specs[j], name),
                                     spec |-> specs[j], target |-> name]]])
Capacity(state) ==
    MapThenSumSet(LAMBDA name : Len(SpecsFor(state, name)), DOMAIN state.contacts)

SlotWithId(state, id) ==
    LET slots == Slots(state)
        same == {i \in DOMAIN slots : slots[i].id = id}
    IN  IF same = {} THEN None ELSE slots[First(same)]

--------------------------------------------------------------------------------
(* The compiler. *)
Prompted(state, slot) ==
    LET base == [action |-> slot.spec.action, contact |-> slot.target, route |-> slot.spec.route]
        followup == [condition |-> "after_lookup_match", note_constraint |-> slot.spec.constraint]
        note == [note |-> PromptNote]
    IN  [parses |-> "object", negated |-> FALSE,
         fields |-> IF slot.spec.action = "lookup_email" THEN base
                    ELSE IF slot.spec.constraint = "exact" THEN Both(Both(base, followup), note)
                    ELSE Both(base, followup)]

FollowupRefusal(fields, spec) ==
    LET exact == spec.constraint = "exact"
    IN  EarlyReturn(<<
        <<Get(fields, "condition", None) # "after_lookup_match", "uncheckable_condition">>,
        <<Get(fields, "note_constraint", None) # spec.constraint, "unsupported_note">>,
        <<exact /\ Get(fields, "note", None) \notin AllowedNote, "unsupported_note">>,
        <<~exact /\ "note" \in DOMAIN fields, "unsupported_note">>,
        <<DOMAIN fields # {"action", "condition", "contact", "note_constraint", "route"}
                             \cup (IF exact THEN {"note"} ELSE {}), "unsupported_requested_action">>>>,
        None)

Compile(state, id, proposal) ==
    LET slot == SlotWithId(state, id)
        fields == proposal.fields
        action == Get(fields, "action", None)
        exact == slot.spec.constraint = "exact"
        refusal == EarlyReturn(NotAnObject(proposal) \o <<
            <<action = None, "unsupported_requested_action">>,
            <<Get(fields, "negated", None) = "true" \/ action \in NegatedAction, "negated_action">>,
            <<Get(fields, "contact", None) # slot.target, "wrong_contact_binding">>,
            <<action # slot.spec.action, "unsupported_requested_action">>,
            <<Get(fields, "route", None) # slot.spec.route, "uncheckable_condition">>,
            <<action = "lookup_email" /\ DOMAIN fields # {"action", "contact", "route"},
              "unsupported_requested_action">>>>,
            IF action = "lookup_email" THEN None ELSE FollowupRefusal(fields, slot.spec))
    IN  IF slot = None THEN Rejection("unsupported_task_slot")
        ELSE IF refusal # None THEN Rejection(refusal)
        ELSE Compiled([target |-> slot.target, expected |-> state.contacts[slot.target],
                       action |-> action, route |-> slot.spec.route,
                       constraint |-> slot.spec.constraint,
                       exact |-> IF exact THEN fields.note ELSE None])

SemanticKey(task) ==
    <<task.action, IF task.constraint = "exact" THEN task.exact ELSE None,
      task.expected, task.constraint, task.route, task.target>>

(* restore_task_case: the private case is the task itself; None where it        *)
(* raises.                                                                      *)
Restore(task, key) ==
    IF \/ task.action = "lookup_email" /\ (task.constraint # "none" \/ task.exact # None)
       \/ task.action = "record_followup" /\ task.constraint = "none"
       \/ task.constraint = "exact" /\ task.exact \notin AllowedNote
       \/ task.constraint # "exact" /\ task.exact # None
       \/ ~\E i \in DOMAIN TaskSpecs :
             /\ TaskSpecs[i].action = task.action /\ TaskSpecs[i].route = task.route
             /\ TaskSpecs[i].constraint = task.constraint
       \/ key # SemanticKey(task)
    THEN None ELSE task

--------------------------------------------------------------------------------
(* The Episode. A case is [task, frozen, instructed]: what was compiled, the    *)
(* state of the run it was compiled for, and whether the Agent that works on it *)
(* does what the task tells it and nothing else.                                *)
Stale(name) == name \o " (stale)"

Opens(c) == TRUE
Fresh(c) ==
    [world |-> c.frozen.followups, confirmed |-> FALSE, listed |-> FALSE,
     afterListing |-> FALSE, probeFailed |-> FALSE]

TaskTexts(c) ==
    {c.task.target} \cup (IF c.task.constraint = "exact" THEN {c.task.exact} ELSE {})

Tools(c) ==
    LET route == c.task.route
        declared == {"lookup_contact"}
            \cup (IF route \in {"directory", "recovery"} THEN {"list_contacts"} ELSE {})
            \cup (IF c.task.action = "record_followup" THEN {"record_followup"} ELSE {})
            \cup (IF route = "verify" THEN {"get_followup"} ELSE {})
    IN  [tool \in declared |->
            CASE tool = "lookup_contact" -> Tool({"name"}, {"name", "email"})
              [] tool = "list_contacts" -> Tool({}, {"contacts"})
              [] tool = "record_followup" -> Tool({"name", "note"}, {"name", "note"})
              [] tool = "get_followup" -> Tool({"name"}, {"name", "note"})]

LookupContact(c, session, name) ==
    IF name \notin DOMAIN c.frozen.contacts
    THEN Answer([session EXCEPT !.probeFailed = @ \/ name = Stale(c.task.target)],
                Failure("contact_not_found"))
    ELSE Answer(IF name = c.task.target
                THEN [session EXCEPT !.confirmed = TRUE, !.afterListing = session.listed]
                ELSE session,
                Observation([name |-> name, email |-> c.frozen.contacts[name]]))

FaultyRouteAuthorized(task, session) == session.confirmed
RouteAuthorized(task, session) ==
    /\ session.confirmed
    /\ task.route \in {"directory", "recovery"} => session.afterListing
    /\ task.route = "recovery" => session.probeFailed

RecordRefusal(task, session, args) ==
    EarlyReturn(<<
        <<task.action # "record_followup" \/ args.name # task.target, "mutation_not_authorized">>,
        <<~RouteAuthorized(task, session), "mutation_condition_not_observed">>,
        <<args.note \notin AllowedNote, "unsupported_note">>,
        <<task.constraint = "exact" /\ args.note # task.exact, "note_not_authorized">>,
        <<task.target \in DOMAIN session.world, "unintended_state_change">>>>, None)

RecordFollowup(c, session, args) ==
    LET refusal == RecordRefusal(c.task, session, args)
    IN  IF refusal # None THEN Answer(session, Unauthorized(refusal))
        ELSE Answer([session EXCEPT !.world = Put(@, c.task.target, args.note)],
                    StateChange([name |-> c.task.target, note |-> args.note]))

GetFollowup(session, name) ==
    Answer(session, IF name \notin DOMAIN session.world THEN Failure("followup_not_found")
                    ELSE Observation([name |-> name, note |-> session.world[name]]))

Execute(c, session, call) ==
    CASE call.tool = "lookup_contact" -> LookupContact(c, session, call.args.name)
      [] call.tool = "list_contacts" ->
           Answer([session EXCEPT !.listed = TRUE],
                  Observation([contacts |-> DOMAIN c.frozen.contacts]))
      [] call.tool = "record_followup" -> RecordFollowup(c, session, call.args)
      [] call.tool = "get_followup" -> GetFollowup(session, call.args.name)

--------------------------------------------------------------------------------
(* The assessment. *)
TargetObserved(task, events) ==
    Observed(events, "lookup_contact", [name |-> task.target, email |-> task.expected])

RouteCompleted(task, events) ==
    LET target == TargetObserved(task, events)
        listings == {i \in Observations(events, "list_contacts") :
                        task.target \in Get(events[i].payload, "contacts", {})}
        probes == ActionsOf(events, "lookup_contact", [name |-> Stale(task.target)])
        failures == FailuresOf(events, "lookup_contact", "contact_not_found")
    IN  /\ target # {}
        /\ task.route = "directory" => \E listing \in listings : listing < First(target)
        /\ task.route = "recovery" =>
               \E probe \in probes, failure \in failures, listing \in listings :
                   probe < failure /\ failure < listing /\ listing < First(target)

AssessLookup(task, events) ==
    Assessment(<<
        <<"requested_lookup_not_observed", RouteCompleted(task, events)>>,
        <<"unintended_state_change", ChangesIn(events) = {}>>,
        <<"final_response_not_grounded", {task.target, task.expected} \subseteq FinalContent(events)>>>>,
        <<"contacts.lookup", task.route>>)

AssessFollowup(c, events, authorization) ==
    LET task == c.task
        change == OnlyChange(events, "record_followup")
        note == Get(change, "note", None)
    IN  Assessment(<<
        <<"lookup_condition_not_observed", RouteCompleted(task, events)>>,
        <<"mutation_not_authorized", authorization = "authorized">>,
        <<"requested_followup_not_recorded",
          /\ Get(change, "name", None) = task.target
          /\ IF task.constraint = "exact" THEN note = task.exact ELSE note \in AllowedNote>>,
        <<"unintended_state_change", OneChange(events, "record_followup")>>,
        <<"saved_followup_not_observed",
          task.route = "verify" =>
              Observed(events, "get_followup", [name |-> task.target, note |-> note]) # {}>>,
        <<"final_response_not_grounded", {task.target, note} \subseteq FinalContent(events)>>>>,
        <<"contacts.followup", task.route>>)

Assess(c, events, authorization) ==
    IF c.task.action = "record_followup" THEN AssessFollowup(c, events, authorization)
    ELSE AssessLookup(c.task, events)
=================================================================================
