----------------------------- MODULE MCDomainEpisodes ----------------------------
(* The rollout under each built-in Domain, and under one without any rule of    *)
(* its own (MCAgentEpisode), where Agents fail and are interrupted.             *)
EXTENDS EpisodeReplay, DomainEpisodes

InAny == INSTANCE MCAgentEpisode
InContacts == INSTANCE MCContactsEpisode
InMobile == INSTANCE MCMobileEpisode
InWorkspace == INSTANCE MCWorkspaceEpisode

AllCases == InAny!MCCase \cup InContacts!MCCase \cup InMobile!MCCase \cup InWorkspace!MCCase
AllUnsafe == InAny!MCUnsafe
AllForbiddenKeys == InAny!MCForbiddenKey
AllListings == InAny!MCListing \cup {"contacts", "senders", "projects"}
FaultsOf(c) == IF c.domain = "any" THEN InAny!MCFaults ELSE {}

SameText(text) == text
ContactNotes == InContacts!MCAllowedNote
MobileBodyHas(body, query) == InMobile!MCBodyHas(body, query)
MobileReplyAllowed(reply) == InMobile!MCReplyAllowed(reply)
WorkspaceQueryFor(kind, summary) == InWorkspace!MCQueryFor(kind, summary)
WorkspaceTitleAllowed(title) == InWorkspace!MCTitleAllowed(title)
WorkspaceCommentAllowed(comment) == InWorkspace!MCCommentAllowed(comment)

DomainOpens(c) == IF c.domain = "any" THEN InAny!MCOpens(c) ELSE BuiltinOpens(c)
DomainStart(c) == IF c.domain = "any" THEN InAny!MCFresh(c) ELSE BuiltinStart(c)
DomainTexts(c) == IF c.domain = "any" THEN InAny!MCTaskTexts(c) ELSE BuiltinTexts(c)
DomainTools(c) == IF c.domain = "any" THEN InAny!MCTools(c) ELSE BuiltinTools(c)
DomainExecute(c, session, call) ==
    IF c.domain = "any" THEN InAny!MCExecute(c, session, call) ELSE BuiltinExecute(c, session, call)
DomainAssess(c, events, authorization) ==
    IF c.domain = "any" THEN InAny!MCAssess(c, events, authorization)
    ELSE BuiltinAssess(c, events, authorization)
AgentDecides(c, events) ==
    CASE c.domain = "any" -> InAny!MCDecision(c, events)
      [] c.domain = "contacts" -> InContacts!MCDecision(c, events)
      [] c.domain = "mobile" -> InMobile!MCDecision(c, events)
      [] c.domain = "workspace" -> InWorkspace!MCDecision(c, events)

--------------------------------------------------------------------------------
(* The slots whose instruction nobody can follow: a recovery of a contact whose *)
(* stale label is a contact too, so that looking it up does not fail            *)
(* (contacts.py:1045), and an exact comment that is too long to be allowed,     *)
(* because the title it is made of is (workspace_tasks.py:1649, 1715).          *)
Followable(c) ==
    CASE c.domain = "contacts" ->
           c.task.route = "recovery" => OfContacts!Stale(c.task.target) \notin DOMAIN c.frozen.contacts
      [] c.domain = "workspace" -> c.task.comment # None => CommentAllowed(c.task.comment)
      [] OTHER -> TRUE

(* An Agent that does what the public task tells it, and nothing else, earns    *)
(* its demonstration on every slot but those two kinds, and on those it does    *)
(* not: what _public_task instructs, the tools authorize and the assessment     *)
(* accepts agree on every other slot that is counted in the capacity.           *)
InstructedAgentsSucceed ==
    case.domain # "any" /\ phase = "ended" /\ case.instructed => (Admitted <=> Followable(case))

(* Every Episode concludes, whatever the Agent answers (engine.py:2232-2343).   *)
(* That is asked where the Agent fails and is interrupted: the loop is the same *)
(* under every Domain.                                                          *)
AnySpec == Spec /\ WF_vars(case.domain = "any" /\ Progress)
EpisodesConclude == case.domain = "any" => Concludes

--------------------------------------------------------------------------------
(* An Agent on the task of the missing document that may also add an argument   *)
(* the search does not declare.                                                 *)
MissingCases == {c \in InWorkspace!MCCase : ~c.instructed /\ c.task.route = "missing"}
CarelessDecides(c, events) ==
    InWorkspace!Anything(c, events)
        \cup {InWorkspace!Call("search_workspace_items",
                              [query |-> c.task.missing, kind |-> "document", limit |-> "1"])}

(* "Structural keys describe meaningful executed tool/state/binding/recovery    *)
(* topology" (docs/product-specs/agent-first-core-rebuild.md:128): a            *)
(* demonstration with the key of a missing search has executed that search, and *)
(* it failed (workspace_tasks.py:828-882).                                      *)
StructuralKeysAreExecuted ==
    Admitted /\ case.domain = "workspace" /\ case.task.route = "missing" =>
        OfWorkspace!FailedSearch([query |-> case.task.missing, kind |-> "document"]) # {}
=================================================================================
