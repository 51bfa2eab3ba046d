------------------------------- MODULE MCMobileTasks -------------------------------
(* DomainTasks over Mobile Messages: sources whose queries collide, that already *)
(* hold a reminder or a draft, or that the parser refuses.                      *)
EXTENDS Integers, Sequences, FiniteSets, SequencesExt, TLC

CONSTANT None

MCBlank == {" "}
MCLongText == {"long"}
MCBodyHas(body, query) ==
    \/ body = query
    \/ body \in {"the invoice", "an invoice"} /\ query = "invoice"
    \/ body = "see you at noon" /\ query = "at noon"
MCReplyAllowed(reply) == reply \in {"hello", "Thanks, I will review the invoice."}
MCNegatedAction == {"do_not_create_reminder"}
MCFree == {"reply"}

MCMessage(id, body) == [message_id |-> id, sender |-> "Ada", body |-> body]
MCTables ==
    {<<>>, <<MCMessage("m1", "the invoice")>>,
     <<MCMessage("m2", "the invoice"), MCMessage("m1", "at noon")>>,
     <<MCMessage("m1", "the invoice"), MCMessage("m2", "an invoice")>>,
     <<MCMessage("m1", "at noon"), MCMessage("m2", "see you at noon")>>,
     <<MCMessage("m1", "the invoice"), MCMessage("m1", "at noon")>>,
     <<MCMessage("m1", " ")>>, <<MCMessage("long", "the invoice")>>}
MCSource ==
    {[messages |-> table, reminders |-> noted, drafts |-> drafted] : table \in MCTables,
        noted \in {<<>>, <<[message_id |-> "m1", reminder_text |-> "x", remind_at |-> "y"]>>,
                   <<[message_id |-> "m1", reminder_text |-> " ", remind_at |-> "y"]>>},
        drafted \in {<<>>, <<[message_id |-> "m1", content |-> "hello"]>>,
                     <<[message_id |-> "m9", content |-> "hello"]>>}}

(* The prompted proposal, and what differs from it in one field. *)
MCProposals(state, slot) ==
    LET prompt == slot.prompt
        With(f, value) == [prompt EXCEPT !.fields = (f :> value) @@ @]
        Without(f) == [prompt EXCEPT !.fields = [g \in DOMAIN @ \ {f} |-> @[g]]]
    IN  {prompt, [prompt EXCEPT !.parses = "text"], [prompt EXCEPT !.parses = "other"],
         [prompt EXCEPT !.parses = "text", !.negated = TRUE]}
        \cup {With(f, "x") : f \in DOMAIN prompt.fields \cup {"extra"}}
        \cup {Without(f) : f \in DOMAIN prompt.fields}
        \cup {With("reply", "hello"), With("message_id", "m1"), With("negated", "true"),
              With("action", "do_not_create_reminder"), With("action", "create_reminder")}

MCTampered(task) ==
    {[task EXCEPT !.target = MCMessage("m1", "changed")], [task EXCEPT !.exact = "hello"],
     [task EXCEPT !.text = "changed"], [task EXCEPT !.at = "changed"],
     [task EXCEPT !.route = "verify"], [task EXCEPT !.route = "direct"]} \ {task}

Domain == INSTANCE MobileMessages WITH
    Blank <- MCBlank, LongText <- MCLongText, BodyHas <- MCBodyHas, ReplyAllowed <- MCReplyAllowed,
    NegatedAction <- MCNegatedAction
====================================================================================
