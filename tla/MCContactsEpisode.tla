----------------------------- MODULE MCContactsEpisode -----------------------------
(* The rollout over Contacts: any Agent of five steps on every kind of task of   *)
(* one contact, and an Agent that follows its instruction on every slot of      *)
(* several directories. In some of them a contact is named like the stale label *)
(* of another.                                                                  *)
EXTENDS Integers, Sequences, FiniteSets, SequencesExt, TLC

CONSTANT None

MCStrip(text) == text
MCSlug(text) == text
MCLongText == {}
MCAllowedNote == {"asked", "other"}
MCNegatedAction == {}

Domain == INSTANCE Contacts WITH
    Strip <- MCStrip, Slug <- MCSlug, LongText <- MCLongText, AllowedNote <- MCAllowedNote,
    NegatedAction <- MCNegatedAction, PromptNote <- "asked"

MCState == [contacts |-> ("Ada" :> "a@x") @@ ("Bob" :> "b@x"), followups |-> "Bob" :> "other"]
StaleState == [contacts |-> ("Ada" :> "a@x") @@ ("Ada (stale)" :> "s@x"), followups |-> [name \in {} |-> "other"]]
(* The cases of the prompted proposals of some contacts: all eight specs. *)
PromptedCases(state, names, instructed) ==
    {[domain |-> "contacts", task |-> Domain!Compile(state, slot.id, Domain!Prompted(state, slot)).task,
      frozen |-> state, instructed |-> instructed] :
        slot \in {s \in ToSet(Domain!Slots(state)) : s.target \in names}}

Call(tool, args) == [type |-> "tool_call", tool |-> tool, args |-> args]
Look(name) == Call("lookup_contact", [name |-> name])
Note(name, note) == Call("record_followup", [name |-> name, note |-> note])
Final(content) == [type |-> "final_response", content |-> content]
(* What a recovery invites: its lookup, with an argument the tool does not       *)
(* declare too, and another one that fails.                                      *)
Futile ==
    {Look("Ada (stale)"), Call("lookup_contact", [name |-> "Ada (stale)", limit |-> "1"]), Look("Zed")}
Calls(c) ==
    {Look("Ada"), Look("Bob"), Call("list_contacts", <<>>),
     Note("Ada", "asked"), Note("Ada", "other"), Note("Bob", "asked"), Note("Ada", "x"),
     Call("get_followup", [name |-> "Ada"])}
        \cup (IF c.task.route = "recovery" THEN Futile ELSE {})
(* An Agent that follows the instruction of _lookup_public_task and             *)
(* _followup_public_task.                                                       *)
MCSources ==
    {[contacts |-> [name \in names |-> name \o "@x"], followups |-> noted] :
        names \in SUBSET {"Ada", "Bob", "Ada (old)", "Ada (stale)"} \ {{}},
        noted \in {[name \in {} |-> "other"], "Bob" :> "other"}}
MCCase ==
    PromptedCases(MCState, {"Ada"}, FALSE)
        \cup {c \in PromptedCases(StaleState, {"Ada"}, FALSE) : c.task.route = "recovery"}
        \cup UNION {PromptedCases(state, DOMAIN state.contacts, TRUE) :
                       state \in {s \in MCSources : DOMAIN s.followups \subseteq DOMAIN s.contacts}}
Script(c) ==
    LET target == c.task.target
        note == IF c.task.constraint = "exact" THEN c.task.exact ELSE "other"
        followup == c.task.action = "record_followup"
    IN  (IF c.task.route = "recovery" THEN <<Look(Domain!Stale(target))>> ELSE <<>>)
        \o (IF c.task.route \in {"directory", "recovery"} THEN <<Call("list_contacts", <<>>)>> ELSE <<>>)
        \o <<Look(target)>>
        \o (IF followup THEN <<Note(target, note)>> ELSE <<>>)
        \o (IF c.task.route = "verify" THEN <<Call("get_followup", [name |-> target])>> ELSE <<>>)
        \o <<Final({target} \cup (IF followup THEN {note} ELSE {c.task.expected}))>>
(* Any Agent: in any order what the task instructs, and up to two calls besides. *)
Strays(c, events) ==
    {i \in DOMAIN events :
        /\ events[i].type = "action"
        /\ \A call \in {call \in ToSet(Script(c)) : call.type = "tool_call"} :
               call.tool = events[i].tool => call.args # events[i].args}
Anything(c, events) ==
    {call \in Calls(c) :
        /\ call.tool \in DOMAIN Domain!Tools(c)
        /\ call \in ToSet(Script(c)) \/ Cardinality(Strays(c, events)) < 2}
        \cup {Final({"Ada", "a@x", "asked"})}
        \cup (IF Strays(c, events) = {} THEN {Final({"Ada"})} ELSE {})
MCDecision(c, events) ==
    IF c.instructed
    THEN {Script(c)[Cardinality({i \in DOMAIN events : events[i].type = "action"}) + 1]}
    ELSE Anything(c, events)
====================================================================================
