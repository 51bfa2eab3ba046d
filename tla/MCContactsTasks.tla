------------------------------ MODULE MCContactsTasks ------------------------------
(* DomainTasks over Contacts: sources with blanks to strip, names that share a  *)
(* slug, and follow-ups that are there already.                                 *)
EXTENDS Integers, Sequences, FiniteSets, SequencesExt, TLC

CONSTANT None

MCStrip(text) == CASE text = " Ada" -> "Ada" [] text = "  " -> "" [] OTHER -> text
MCSlug(text) == IF text \in {"Ada", "ADA"} THEN "ada" ELSE text
MCLongText == {"long"}
MCAllowedNote == {"asked", "other"}
MCNegatedAction == {"do_not_record_followup"}
MCFree == {"note"}

MCContact(name, email) == [name |-> name, email |-> email]
MCTables ==
    {<<>>, <<MCContact("Ada", "a@x")>>, <<MCContact("Bob", "b@x"), MCContact(" Ada", "a@x")>>,
     <<MCContact("ADA", "a@x"), MCContact("Ada", "a@x")>>,
     <<MCContact("Ada", "a@x"), MCContact(" Ada", "b@x")>>,
     <<MCContact("  ", "a@x")>>, <<MCContact("long", "a@x")>>}
MCSource ==
    {[contacts |-> table, followups |-> noted] : table \in MCTables,
        noted \in {<<>>, <<[name |-> " Ada", note |-> "other"]>>, <<[name |-> "Eve", note |-> "x"]>>}}

(* The prompted proposal, and what differs from it in one field. *)
MCProposals(state, slot) ==
    LET prompt == slot.prompt
        With(f, value) == [prompt EXCEPT !.fields = (f :> value) @@ @]
        Without(f) == [prompt EXCEPT !.fields = [g \in DOMAIN @ \ {f} |-> @[g]]]
    IN  {prompt, [prompt EXCEPT !.parses = "text"], [prompt EXCEPT !.parses = "other"],
         [prompt EXCEPT !.parses = "text", !.negated = TRUE]}
        \cup {With(f, "x") : f \in DOMAIN prompt.fields \cup {"extra"}}
        \cup {Without(f) : f \in DOMAIN prompt.fields}
        \cup {With("note", "other"), With("contact", "Bob"), With("negated", "true"),
              With("action", "do_not_record_followup"), With("action", "record_followup")}

MCTampered(task) ==
    {[task EXCEPT !.target = "Eve"], [task EXCEPT !.expected = "e@x"],
     [task EXCEPT !.exact = "tampered"], [task EXCEPT !.constraint = "exact", !.exact = "other"],
     [task EXCEPT !.route = "recovery"], [task EXCEPT !.route = "direct"]} \ {task}

Domain == INSTANCE Contacts WITH
    Strip <- MCStrip, Slug <- MCSlug, LongText <- MCLongText, AllowedNote <- MCAllowedNote,
    NegatedAction <- MCNegatedAction, PromptNote <- "asked"
====================================================================================
