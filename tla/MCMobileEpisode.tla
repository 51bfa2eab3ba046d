------------------------------ MODULE MCMobileEpisode ------------------------------
(* The rollout over Mobile Messages: any Agent of five steps on every kind of   *)
(* task of one message, and an Agent that follows its instruction on every slot *)
(* of several inboxes.                                                          *)
EXTENDS Integers, Sequences, FiniteSets, SequencesExt, TLC

CONSTANT None

MCBlank == {}
MCLongText == {}
(* A body contains itself and what it is made of. *)
MCBodyHas(body, query) ==
    \/ body = query
    \/ body = "the invoice" /\ query = "invoice"
    \/ body = "invoice and launch checklist" /\ query \in {"invoice", "launch checklist"}
    \/ body = "see you at noon" /\ query = "at noon"
MCReplyAllowed(reply) == reply \in {"thanks", "hello", "Thanks, I will review the invoice."}
MCNegatedAction == {}

Domain == INSTANCE MobileMessages WITH
    Blank <- MCBlank, LongText <- MCLongText, BodyHas <- MCBodyHas, ReplyAllowed <- MCReplyAllowed,
    NegatedAction <- MCNegatedAction

MCMessage(id, sender, body) == [message_id |-> id, sender |-> sender, body |-> body]
MCState == [messages |-> ("m1" :> MCMessage("m1", "Ada", "the invoice"))
                          @@ ("m2" :> MCMessage("m2", "Bob", "at noon")),
            reminders |-> "m2" :> [message_id |-> "m2", reminder_text |-> "x", remind_at |-> "y"],
            drafts |-> [id \in {} |-> "thanks"]]
PromptedCases(state, ids, instructed) ==
    {[domain |-> "mobile", task |-> Domain!Compile(state, slot.id, Domain!Prompted(state, slot)).task,
      frozen |-> state, instructed |-> instructed] :
        slot \in {s \in ToSet(Domain!Slots(state)) : s.target.message_id \in ids}}

Call(tool, args) == [type |-> "tool_call", tool |-> tool, args |-> args]
Search(query) == Call("search_messages", [query |-> query])
Remind(id, text, at) ==
    Call("create_reminder", [message_id |-> id, reminder_text |-> text, remind_at |-> at])
Draft(id, content) == Call("create_draft_reply", [message_id |-> id, content |-> content])
Final(content) == [type |-> "final_response", content |-> content]
MCText == "Review the invoice."
MCAt == "2026-10-04T09:00:00Z"
MCReply == "Thanks, I will review the invoice."
(* What a recovery invites: its search, with an argument the tool does not       *)
(* declare too, and another one that fails.                                      *)
Futile ==
    {Search("invoice (stale)"), Call("search_messages", [query |-> "invoice (stale)", limit |-> "1"]),
     Search("lunch")}
Calls(c) ==
    {Search("invoice"), Search("at noon"), Call("list_message_senders", <<>>),
     Remind("m1", MCText, MCAt), Remind("m1", "x", MCAt), Remind("m2", MCText, MCAt),
     Draft("m1", MCReply), Draft("m1", "hello"), Draft("m2", "hello"), Draft("m1", "x"),
     Call("get_reminder", [message_id |-> "m1"]), Call("get_draft_reply", [message_id |-> "m1"])}
        \cup (IF c.task.route = "recovery" THEN Futile ELSE {})
(* An Agent that follows the instruction of _public_task. *)
MCBodies == {"the invoice", "invoice and launch checklist", "see you at noon"}
MCSources ==
    {[messages |-> [id \in DOMAIN bodies |-> MCMessage(id, "Ada", bodies[id])],
      reminders |-> [id \in noted |-> [message_id |-> id, reminder_text |-> "x", remind_at |-> "y"]],
      drafts |-> [id \in drafted |-> [message_id |-> id, content |-> "hello"]]] :
        bodies \in [{"m1"} -> MCBodies] \cup [{"m1", "m2"} -> MCBodies],
        noted \in SUBSET {"m1"}, drafted \in SUBSET {"m1"}}
MCCase ==
    PromptedCases(MCState, {"m1"}, FALSE)
        \cup UNION {PromptedCases(state, DOMAIN state.messages, TRUE) : state \in MCSources}
Script(c) ==
    LET query == Domain!QueryFor(c.task.target)
        id == c.task.target.message_id
        reply == IF c.task.constraint = "exact" THEN c.task.exact ELSE "hello"
    IN  (IF c.task.route = "recovery" THEN <<Search(Domain!Stale(query))>> ELSE <<>>)
        \o (IF c.task.route \in {"directory", "recovery"}
            THEN <<Call("list_message_senders", <<>>)>> ELSE <<>>)
        \o <<Search(query)>>
        \o (CASE c.task.action = "create_reminder" -> <<Remind(id, c.task.text, c.task.at)>>
              [] c.task.action = "create_draft_reply" -> <<Draft(id, reply)>>
              [] OTHER -> <<>>)
        \o (IF c.task.route # "verify" THEN <<>>
            ELSE IF c.task.action = "create_reminder" THEN <<Call("get_reminder", [message_id |-> id])>>
            ELSE <<Call("get_draft_reply", [message_id |-> id])>>)
        \o <<Final({c.task.target.sender, query} \cup
                   (CASE c.task.action = "create_reminder" -> {c.task.text, c.task.at}
                      [] c.task.action = "create_draft_reply" -> {reply} [] OTHER -> {}))>>
(* Any Agent: in any order what the task instructs, and up to two calls besides. *)
Strays(c, events) ==
    {i \in DOMAIN events :
        /\ events[i].type = "action"
        /\ \A call \in {call \in ToSet(Script(c)) : call.type = "tool_call"} :
               call.tool = events[i].tool => call.args # events[i].args}
Anything(c, events) ==
    {call \in Calls(c) :
        /\ call.tool \in DOMAIN Domain!Tools(c)
        /\ call \in ToSet(Script(c)) \/ Cardinality(Strays(c, events)) < 2}
        \cup {Final({"Ada", "invoice", MCText, MCAt, MCReply, "hello"})}
        \cup (IF Strays(c, events) = {} THEN {Final({"Ada", "invoice"})} ELSE {})
MCDecision(c, events) ==
    IF c.instructed
    THEN {Script(c)[Cardinality({i \in DOMAIN events : events[i].type = "action"}) + 1]}
    ELSE Anything(c, events)
====================================================================================
