------------------------------ MODULE DomainEpisodes ------------------------------
(* The rollout over the Domains the command line composes (builtin_domains.py): *)
(* a case says which Domain it is of, and the engine treats them alike. A case  *)
(* of another Domain is one that a caller registered (registry.py).             *)
EXTENDS AgentEpisode

CONSTANTS
    Strip(_), Slug(_), LongName, AllowedNote, PromptNote,              \* Contacts
    BodyHas(_, _), ReplyAllowed(_), BlankMessage, LongMessage,         \* Mobile Messages
    TargetScope, ItemQuery(_, _), TitleAllowed(_), CommentAllowed(_),
    BlankItem, LongItem,                                               \* Workspace Tasks
    NegatedContact, NegatedMessage, NegatedItem  \* what each of them takes for a denial

OfContacts == INSTANCE ContactsEpisode WITH
    LongText <- LongName, NegatedAction <- NegatedContact
OfMobile == INSTANCE MobileEpisode WITH
    Blank <- BlankMessage, LongText <- LongMessage, NegatedAction <- NegatedMessage
OfWorkspace == INSTANCE WorkspaceEpisode WITH
    Blank <- BlankItem, LongText <- LongItem, NegatedAction <- NegatedItem,
    QueryFor <- ItemQuery

BuiltinDomainIds == {"contacts", "mobile", "workspace"}

(* What compiling a task binds it to: a spec of its Domain, and what the frozen *)
(* state says of its target. A value that is no text is none of its texts, no   *)
(* reason for a refusal is None, nor is a reply; the fields the histories are   *)
(* read for hold one text each, and those that list something a set of them.    *)
CompiledTask(c) ==
    LET t == c.task
    IN  CASE c.domain = "contacts" ->
               /\ t.action \in {"lookup_email", "record_followup"}
               /\ t.expected = c.frozen.contacts[t.target]
               /\ OfContacts!Stale(t.target) # NotText
          [] c.domain = "mobile" ->
               /\ t.action \in {"search_messages", "create_reminder", "create_draft_reply"}
               /\ c.frozen.messages[t.target.message_id] = t.target
               /\ OfMobile!Stale(OfMobile!QueryFor(t.target)) # NotText
               /\ t.target = [f \in OfMobile!MessageFields |-> t.target[f]]
               /\ \A id \in DOMAIN c.frozen.reminders : c.frozen.reminders[id].message_id = id
               /\ \A id \in DOMAIN c.frozen.drafts : c.frozen.drafts[id].message_id = id
          [] c.domain = "workspace" ->
               /\ t.action \in {"search_workspace_items", "create_workspace_task", "add_workspace_comment"}
               /\ t.action = "create_workspace_task" => t.constraint \in {"exact", "open"}
               /\ t.target = None <=> t.route = "missing"
               /\ t.route = "missing" =>
                      /\ t.action = "search_workspace_items" /\ t.missing # NotText
                      /\ t.missing = OfWorkspace!MissingQuery(OfWorkspace!Reopen(c.frozen))
                      /\ IsFiniteSet(DOMAIN OfWorkspace!Reopen(c.frozen))
               /\ t.target # None =>
                      /\ NotText \notin {OfWorkspace!Stale(t.target.query), t.target.kind}
                      /\ OfWorkspace!Reopen(c.frozen)[t.target.item_id] = t.target
          [] OTHER -> TRUE
ASSUME TaskAssumption ==
    /\ \A c \in Case : CompiledTask(c)
    /\ ~ReplyAllowed(None)
    /\ None \notin {"mutation_not_authorized", "mutation_condition_not_observed", "unsupported_note",
                    "note_not_authorized", "unintended_state_change", "reminder_not_authorized",
                    "unsupported_reply", "reply_not_authorized", "task_not_authorized",
                    "unsupported_task_title", "unsupported_comment", "comment_not_authorized"}
    /\ None \notin {"requested_lookup_not_observed", "lookup_condition_not_observed",
                    "requested_followup_not_recorded", "saved_followup_not_observed",
                    "requested_message_not_observed", "message_condition_not_observed",
                    "requested_change_not_recorded", "saved_change_not_observed",
                    "requested_item_not_observed", "missing_item_not_observed",
                    "condition_not_observed", "requested_change_not_made",
                    "final_response_not_grounded"}
    /\ Listing \cap {"name", "email", "note", "message_id", "sender", "body", "query", "content",
                     "item_id", "kind", "summary", "task_id", "project_id", "title", "priority",
                     "due_label", "comment_id", "comment"} = {}
    /\ {"contacts", "senders", "projects"} \subseteq Listing

BuiltinOpens(c) ==
    CASE c.domain = "contacts" -> OfContacts!Opens(c)
      [] c.domain = "mobile" -> OfMobile!Opens(c)
      [] c.domain = "workspace" -> OfWorkspace!Opens(c)
BuiltinStart(c) ==
    CASE c.domain = "contacts" -> OfContacts!Fresh(c)
      [] c.domain = "mobile" -> OfMobile!Fresh(c)
      [] c.domain = "workspace" -> OfWorkspace!Fresh(c)
BuiltinTexts(c) ==
    CASE c.domain = "contacts" -> OfContacts!TaskTexts(c)
      [] c.domain = "mobile" -> OfMobile!TaskTexts(c)
      [] c.domain = "workspace" -> OfWorkspace!TaskTexts(c)
BuiltinTools(c) ==
    CASE c.domain = "contacts" -> OfContacts!Tools(c)
      [] c.domain = "mobile" -> OfMobile!Tools(c)
      [] c.domain = "workspace" -> OfWorkspace!Tools(c)
BuiltinExecute(c, session, call) ==
    CASE c.domain = "contacts" -> OfContacts!Execute(c, session, call)
      [] c.domain = "mobile" -> OfMobile!Execute(c, session, call)
      [] c.domain = "workspace" -> OfWorkspace!Execute(c, session, call)
BuiltinAssess(c, events, authorization) ==
    CASE c.domain = "contacts" -> OfContacts!Assess(c, events, authorization)
      [] c.domain = "mobile" -> OfMobile!Assess(c, events, authorization)
      [] c.domain = "workspace" -> OfWorkspace!Assess(c, events, authorization)

--------------------------------------------------------------------------------
(* Whatever an Agent tries, an Episode changes nothing but what its task is     *)
(* about, and that once (contacts.py:619-684, mobile_messages.py:556-644,       *)
(* workspace_tasks.py:635-758).                                                 *)
ChangesStayWithinTheTask ==
    CASE case.domain = "contacts" -> OfContacts!ChangesStayWithinTheTask
      [] case.domain = "mobile" -> OfMobile!ChangesStayWithinTheTask
      [] case.domain = "workspace" -> OfWorkspace!ChangesStayWithinTheTask
      [] OTHER -> TRUE

(* An Episode changes something only after the observations its route demands,  *)
(* which the history shows as long as nothing had to be redacted from it.       *)
ChangesWereEarned ==
    ~attempt.unsafe =>
        CASE case.domain = "contacts" -> OfContacts!ChangesWereEarned
          [] case.domain = "mobile" -> OfMobile!ChangesWereEarned
          [] case.domain = "workspace" -> OfWorkspace!ChangesWereEarned
          [] OTHER -> TRUE

(* Both: no order of calls, refusals and restarts makes an Episode change what  *)
(* its task does not ask for, or change anything too early.                     *)
ChangesAreLegitimate == ChangesStayWithinTheTask /\ ChangesWereEarned

(* A demonstration shows its route in the order its task asks for, and finally  *)
(* reports what the state holds. Whatever the Agent called, a recovery has a    *)
(* search that failed and an absence too; it is the search the task asks for    *)
(* when every refused call is in the history with what made it be refused, and  *)
(* the label a contact must not have is no contact's name.                      *)
DemonstrationsAreTrue ==
    LET lost == LostArguments(case, attempt.events) # {}
    IN  Admitted =>
            CASE case.domain = "contacts" ->
                   OfContacts!FollowedTheRoute(lost) /\ OfContacts!ReportsTheState
              [] case.domain = "mobile" ->
                   OfMobile!FollowedTheRoute(lost) /\ OfMobile!ReportsTheState
              [] case.domain = "workspace" ->
                   OfWorkspace!FollowedTheRoute(lost) /\ OfWorkspace!ReportsTheState
              [] OTHER -> TRUE
==================================================================================
