--------------------------- MODULE DemonstrationProofs ---------------------------
(****************************************************************************)
(* Why every demonstration of a built-in Domain is true.                    *)
(*                                                                          *)
(* An assessment reads the history, and the history is what the tools       *)
(* answered. The argument has two halves. A trace, kept by every call,      *)
(* says what the answers are worth: a search for what does not exist        *)
(* failed, what was read back had been made, a change is the one the state  *)
(* holds (ContactTrace, MobileTrace, WorkspaceTrace), the first of them as  *)
(* long as no refused call lost an argument. And an assessment that found   *)
(* no reason to refuse a history with that trace found one that took its    *)
(* route in order and reports the state.                                    *)
(****************************************************************************)
EXTENDS DomainEpisodeProofs

--------------------------------------------------------------------------------
(* What the events of a demonstration are worth: the probe of a stale label     *)
(* failed, what was read back was made before it was read, and the change an    *)
(* event reports is the one the state holds.                                    *)

SearchesFail(events, tool, code, args) ==
    \A i \in ActionsOf(events, tool, args) : i + 1 \in FailedAfter(events, tool, code, args)
ReadsFollow(events, tool, field, known) ==
    \A i \in Observations(events, tool) :
        field \in DOMAIN events[i].payload =>
            events[i].payload[field] \in known \/ \E j \in ChangesIn(events) : j < i
ChangesHold(events, payload) == \A i \in ChangesIn(events) : events[i].payload = payload

LEMMA NothingShown ==
  ASSUME NEW events, DOMAIN events = {}
  PROVE  /\ \A tool, code, args : SearchesFail(events, tool, code, args)
         /\ \A tool, field, known : ReadsFollow(events, tool, field, known)
         /\ \A payload : ChangesHold(events, payload)
  BY DEF SearchesFail, ReadsFollow, ChangesHold, ActionsOf, Observations, ChangesIn

(* A failure or a final response takes none of that away.                       *)
LEMMA QuietShows ==
  ASSUME NEW a, NEW b, Quiet(a, b)
  PROVE  /\ \A tool, code, args :
                SearchesFail(a.events, tool, code, args) => SearchesFail(b.events, tool, code, args)
         /\ \A tool, field, known :
                ReadsFollow(a.events, tool, field, known) => ReadsFollow(b.events, tool, field, known)
         /\ \A payload : ChangesHold(a.events, payload) => ChangesHold(b.events, payload)
<1>1. PICK n \in Nat, m \in Nat :
         /\ DOMAIN a.events = 1 .. n /\ DOMAIN b.events = 1 .. m
         /\ m \in {n, n + 1}
         /\ \A i \in 1 .. n : b.events[i] = a.events[i]
         /\ m = n + 1 => b.events[m].type \in {"error", "final_response"}
  BY DEF Quiet
<1>2. \A i \in 1 .. m : i \in 1 .. n \/ b.events[i].type \in {"error", "final_response"}
  BY <1>1
<1>3. ASSUME NEW i \in 1 .. m, b.events[i].type \notin {"error", "final_response"}
      PROVE  i \in 1 .. n /\ b.events[i] = a.events[i]
  BY <1>1, <1>2, <1>3
<1>4. ChangesIn(b.events) = ChangesIn(a.events)
  BY QuietHistory
<1>5. \A tool, args : ActionsOf(b.events, tool, args) \subseteq ActionsOf(a.events, tool, args)
  BY <1>1, <1>3 DEF ActionsOf
<1>7. \A tool, code, args :
          FailedAfter(a.events, tool, code, args) \subseteq FailedAfter(b.events, tool, code, args)
  BY QuietFailures
<1>8. ASSUME NEW tool, NEW i \in Observations(b.events, tool)
      PROVE  i \in Observations(a.events, tool) /\ b.events[i] = a.events[i]
  BY <1>1, <1>3 DEF Observations
<1>9. \A i \in ChangesIn(a.events) : b.events[i] = a.events[i]
  BY <1>1 DEF ChangesIn
<1>11. ASSUME NEW tool, NEW code, NEW args, SearchesFail(a.events, tool, code, args)
       PROVE  SearchesFail(b.events, tool, code, args)
  BY <1>5, <1>7, <1>11 DEF SearchesFail
<1>12. ASSUME NEW tool, NEW field, NEW known, ReadsFollow(a.events, tool, field, known)
       PROVE  ReadsFollow(b.events, tool, field, known)
  BY <1>4, <1>8, <1>12 DEF ReadsFollow
<1>13. ASSUME NEW payload, ChangesHold(a.events, payload)
       PROVE  ChangesHold(b.events, payload)
  BY <1>4, <1>9, <1>13 DEF ChangesHold
<1>14. QED
  BY <1>11, <1>12, <1>13

(* Nor does a call, if it is answered as it should be.                          *)
LEMMA GrownShows ==
  ASSUME NEW before, NEW after, NEW n, NEW action, NEW event,
         Grown(before, after, n, action, event), action.type = "action", event.type # "action"
  PROVE  /\ \A tool, code, args :
                /\ SearchesFail(before, tool, code, args)
                /\ action.tool = tool /\ action.args = args =>
                       event.type = "error" /\ event.tool = tool /\ event.code = code
                => SearchesFail(after, tool, code, args)
         /\ \A tool, field, known :
                /\ ReadsFollow(before, tool, field, known)
                /\ event.type = "observation" /\ event.tool = tool /\ field \in DOMAIN event.payload =>
                       event.payload[field] \in known \/ ChangesIn(before) # {}
                => ReadsFollow(after, tool, field, known)
         /\ \A payload :
                /\ ChangesHold(before, payload)
                /\ event.type = "state_change" => event.payload = payload
                => ChangesHold(after, payload)
<1>1. /\ n \in Nat /\ DOMAIN before = 1 .. n /\ DOMAIN after = 1 .. n + 2
      /\ after[n + 1] = action /\ after[n + 2] = event
      /\ \A i \in 1 .. n : after[i] = before[i]
  BY DEF Grown
<1>2. \A i \in 1 .. n + 2 : i \in 1 .. n \/ i = n + 1 \/ i = n + 2
  BY <1>1
<1>3. /\ ChangesIn(before) \subseteq 1 .. n /\ ChangesIn(before) \subseteq ChangesIn(after)
      /\ ChangesIn(after) \subseteq ChangesIn(before) \cup {n + 2}
      /\ n + 2 \in ChangesIn(after) <=> event.type = "state_change"
  BY GrownChanges
<1>4. ASSUME NEW tool, NEW args, NEW i \in ActionsOf(after, tool, args)
      PROVE  i \in ActionsOf(before, tool, args) \/ (i = n + 1 /\ action.tool = tool /\ action.args = args)
  BY <1>1, <1>2 DEF ActionsOf
<1>5. ASSUME NEW tool, NEW i \in Observations(after, tool)
      PROVE  \/ i \in Observations(before, tool) /\ i \in 1 .. n
             \/ i = n + 2 /\ event.type = "observation" /\ event.tool = tool
  BY <1>1, <1>2 DEF Observations
<1>7. ASSUME NEW tool, NEW code, NEW args, SearchesFail(before, tool, code, args),
             action.tool = tool /\ action.args = args =>
                 event.type = "error" /\ event.tool = tool /\ event.code = code
      PROVE  SearchesFail(after, tool, code, args)
  <2> SUFFICES ASSUME NEW i \in ActionsOf(after, tool, args)
               PROVE  i + 1 \in FailedAfter(after, tool, code, args)
    BY DEF SearchesFail
  <2>1. CASE i \in ActionsOf(before, tool, args)
    BY <1>7, <2>1, GrownFailures DEF SearchesFail
  <2>2. CASE i = n + 1 /\ action.tool = tool /\ action.args = args
    <3>1. n + 2 \in FailedAfter(after, tool, code, args)
      BY <1>7, <2>2, GrownFailures
    <3>2. i + 1 = n + 2
      BY <1>1, <2>2
    <3>3. QED
      BY <3>1, <3>2
  <2>3. QED
    BY <1>4, <2>1, <2>2
<1>8. ASSUME NEW tool, NEW field, NEW known, ReadsFollow(before, tool, field, known),
             event.type = "observation" /\ event.tool = tool /\ field \in DOMAIN event.payload =>
                 event.payload[field] \in known \/ ChangesIn(before) # {}
      PROVE  ReadsFollow(after, tool, field, known)
  <2> SUFFICES ASSUME NEW i \in Observations(after, tool), field \in DOMAIN after[i].payload,
                      after[i].payload[field] \notin known
               PROVE  \E j \in ChangesIn(after) : j < i
    BY DEF ReadsFollow
  <2>1. CASE i \in Observations(before, tool) /\ i \in 1 .. n
    BY <1>1, <1>3, <1>8, <2>1 DEF ReadsFollow
  <2>2. CASE i = n + 2 /\ event.type = "observation" /\ event.tool = tool
    <3>1. PICK j : j \in ChangesIn(before)
      BY <1>1, <1>8, <2>2
    <3>2. j \in ChangesIn(after) /\ j < n + 2
      BY <1>1, <1>3, <3>1
    <3>3. QED
      BY <2>2, <3>2
  <2>3. QED
    BY <1>5, <2>1, <2>2
<1>9. ASSUME NEW payload, ChangesHold(before, payload),
             event.type = "state_change" => event.payload = payload
      PROVE  ChangesHold(after, payload)
  <2> SUFFICES ASSUME NEW i \in ChangesIn(after) PROVE after[i].payload = payload
    BY DEF ChangesHold
  <2>1. CASE i \in ChangesIn(before)
    BY <1>1, <1>3, <1>9, <2>1 DEF ChangesHold
  <2>2. CASE i = n + 2
    BY <1>1, <1>3, <1>9, <2>2
  <2>3. QED
    BY <1>3, <2>1, <2>2
<1>10. QED
  BY <1>7, <1>8, <1>9

(* A field of a payload that is neither redacted nor a list.                    *)
LEMMA BoundedFields ==
  ASSUME NEW payload, NEW fields, NEW f \in DOMAIN Bounded(payload, fields), f \notin Listing,
         ~UnsafePayload(payload)
  PROVE  f \in DOMAIN payload /\ f \in fields /\ Bounded(payload, fields)[f] = payload[f]
<1>1. f \in DOMAIN payload /\ f \in fields /\ Bounded(payload, fields)[f] = CleanValue(f, payload[f])
  BY DEF Bounded
<1>2. payload[f] \in Mentions(payload)
  BY <1>1 DEF Mentions
<1>3. QED
  BY <1>1, <1>2 DEF CleanValue, Clean, UnsafePayload

(* A history that lost no argument of a refused call lost none earlier, nor with *)
(* the last call.                                                               *)
LEMMA NothingWasLost ==
  ASSUME NEW c \in Case, NEW a, NEW b, Quiet(a, b), LostArguments(c, b.events) = {}
  PROVE  LostArguments(c, a.events) = {}
<1>1. PICK n \in Nat, m \in Nat :
         /\ DOMAIN a.events = 1 .. n /\ DOMAIN b.events = 1 .. m
         /\ m \in {n, n + 1}
         /\ \A i \in 1 .. n : b.events[i] = a.events[i]
  BY DEF Quiet
<1>2. n <= m
  BY <1>1
<1>3. LostArguments(c, a.events) \subseteq LostArguments(c, b.events)
  BY <1>1, <1>2, LostStays
<1>4. QED
  BY <1>3

LEMMA NothingIsLost ==
  ASSUME NEW c \in Case, NEW a, NEW call, IsAttempt(a),
         LostArguments(c, Called(c, a, call).events) = {}
  PROVE  LostArguments(c, a.events) = {} /\ ~LosesArguments(c, call)
<1>1. /\ LostArguments(c, a.events) = {}
      /\ ~RefusedThoughValid(c, ActionEvent(c, call), ExecuteToolDecision(c, a.session, call).event)
  BY LostByCall
<1>2. QED
  BY <1>1, LosingIsSeen

(* A recorded action that reads like a call of a tool with all its arguments    *)
(* was that call, unless it lost an argument the tool does not declare: a call  *)
(* like that is refused before the Domain sees it.                              *)
LEMMA ActionsSayTheCall ==
  ASSUME NEW c \in Case, NEW call, ~UnsafePayload(call.args), ~LosesArguments(c, call),
         ActionEvent(c, call).tool # Redacted,
         ActionEvent(c, call).tool \in DOMAIN EpisodeTools(c),
         LET args == ActionEvent(c, call).args
             tool == EpisodeTools(c)[ActionEvent(c, call).tool]
         IN  /\ tool.input = DOMAIN args /\ tool.required = DOMAIN args
             /\ \A f \in DOMAIN args : args[f] # NotText
  PROVE  LET args == ActionEvent(c, call).args
         IN  /\ Callable(c, call) /\ call.tool = ActionEvent(c, call).tool
             /\ DOMAIN call.args = DOMAIN args
             /\ \A f \in DOMAIN args : call.args[f] = args[f]
<1> DEFINE tool == ActionEvent(c, call).tool
           args == ActionEvent(c, call).args
           fields == DOMAIN args
<1>1. call.tool = tool /\ call.tool \notin Unsafe
  BY DEF ActionEvent, Clean
<1>2. InputFields(EpisodeTools(c), call.tool) = fields
  BY <1>1 DEF InputFields
<1>3. DeclaredArguments(c, call) = args
  BY <1>1, SafeActionsSayTheCall DEF Call
<1>4. /\ DOMAIN DeclaredArguments(c, call) = DOMAIN call.args \cap fields
      /\ \A f \in DOMAIN call.args \cap fields : DeclaredArguments(c, call)[f] = call.args[f]
  BY <1>2 DEF DeclaredArguments
<1>5. ValidArguments(EpisodeTools(c)[call.tool], DeclaredArguments(c, call))
  BY <1>1, <1>3 DEF ValidArguments
<1>6. DOMAIN call.args \subseteq fields
  <2>1. ValidArguments(EpisodeTools(c)[call.tool], ActionEvent(c, call).args)
    BY <1>3, <1>5
  <2>2. ActionEvent(c, call).type = "action"
    BY DEF ActionEvent
  <2>3. ValidArguments(EpisodeTools(c)[call.tool], call.args)
    BY <1>1, <2>1, <2>2 DEF LosesArguments, RefusedThoughValid, ToolError
  <2>4. QED
    BY <1>1, <2>3 DEF ValidArguments
<1>7. DOMAIN call.args = fields /\ \A f \in fields : call.args[f] = args[f]
  BY <1>3, <1>4, <1>6
<1>8. QED
  BY <1>1, <1>7 DEF Callable, ValidArguments

--------------------------------------------------------------------------------
(* Contacts.                                                                    *)
ContactStale(c) == [name |-> OfContacts!Stale(c.task.target)]
ContactTrace(c, a) ==
    /\ LostArguments(c, a.events) = {} /\ OfContacts!Stale(c.task.target) \notin DOMAIN c.frozen.contacts
           => SearchesFail(a.events, "lookup_contact", "contact_not_found", ContactStale(c))
    /\ ReadsFollow(a.events, "get_followup", "name", DOMAIN c.frozen.followups)
    /\ ChangesHold(a.events, [name |-> c.task.target, note |-> a.session.world[c.task.target]])

LEMMA ContactsReplies ==
  ASSUME NEW c \in Case, NEW s, NEW call, call.tool \in DOMAIN OfContacts!Tools(c)
  PROVE  LET done == OfContacts!Execute(c, s, call)
             result == done.result
         IN  /\ call.tool = "lookup_contact" /\ call.args.name \notin DOMAIN c.frozen.contacts =>
                    result.type = "tool_failure" /\ result.code = "contact_not_found"
             /\ call.tool = "get_followup" /\ result.type = "observation" =>
                    /\ call.args.name \in DOMAIN s.world
                    /\ result.payload.name = call.args.name
             /\ result.type = "state_change" =>
                    /\ call.tool = "record_followup"
                    /\ result.payload = [name |-> c.task.target, note |-> call.args.note]
<1> DEFINE done == OfContacts!Execute(c, s, call)
           name == call.args.name
<1>1. call.tool \in {"lookup_contact", "list_contacts", "record_followup", "get_followup"}
  BY DEF OfContacts!Tools
<1>2. CASE call.tool = "lookup_contact"
  <2>1. done = OfContacts!LookupContact(c, s, name)
    BY <1>2 DEF OfContacts!Execute
  <2>2. /\ done.result.type \in {"observation", "tool_failure"}
        /\ name \notin DOMAIN c.frozen.contacts =>
               done.result.type = "tool_failure" /\ done.result.code = "contact_not_found"
    BY <2>1 DEF OfContacts!LookupContact, OfContacts!Answer, OfContacts!Failure, OfContacts!Observation
  <2>3. QED
    BY <1>2, <2>2
<1>3. CASE call.tool = "list_contacts"
  <2>1. done.result.type = "observation"
    BY <1>3 DEF OfContacts!Execute, OfContacts!Answer, OfContacts!Observation
  <2>2. QED
    BY <1>3, <2>1
<1>4. CASE call.tool = "record_followup"
  <2>1. done = OfContacts!RecordFollowup(c, s, call.args)
    BY <1>4 DEF OfContacts!Execute
  <2>2. \/ done.result.type = "unauthorized_mutation"
        \/ done.result.payload = [name |-> c.task.target, note |-> call.args.note]
    BY <2>1 DEF OfContacts!RecordFollowup, OfContacts!Answer, OfContacts!Unauthorized,
                OfContacts!StateChange
  <2>3. QED
    BY <1>4, <2>2
<1>5. CASE call.tool = "get_followup"
  <2>1. done = OfContacts!GetFollowup(s, name)
    BY <1>5 DEF OfContacts!Execute
  <2>2. \/ done.result.type = "tool_failure"
        \/ /\ name \in DOMAIN s.world /\ done.result.type = "observation"
           /\ done.result.payload.name = name
    BY <2>1 DEF OfContacts!GetFollowup, OfContacts!Answer, OfContacts!Failure, OfContacts!Observation
  <2>3. QED
    BY <1>5, <2>2
<1>6. QED
  BY <1>1, <1>2, <1>3, <1>4, <1>5

LEMMA ContactTraceStarts ==
  ASSUME NEW c \in Case
  PROVE  ContactTrace(c, NewAttempt(c))
<1>1. DOMAIN NewAttempt(c).events = {}
  BY StartedAttempt
<1>2. QED
  BY <1>1, NothingShown DEF ContactTrace

LEMMA ContactTraceStays ==
  ASSUME NEW c \in Case, NEW a, NEW b, ContactTrace(c, a), Quiet(a, b)
  PROVE  ContactTrace(c, b)
<1>1. b.session = a.session
  BY DEF Quiet
<1>2. QED
  BY <1>1, QuietShows, NothingWasLost DEF ContactTrace

LEMMA ContactTraceGrows ==
  ASSUME NEW c \in Case, NEW a, NEW call, c.domain = "contacts", BuiltinDomainsRun,
         IsAttempt(a), ContactsKept(c, a), ContactTrace(c, a),
         ~Called(c, a, call).unsafe
  PROVE  ContactTrace(c, Called(c, a, call))
<1> DEFINE s == a.session
           b == Called(c, a, call)
           t == b.session
           done == ExecuteToolDecision(c, s, call)
           event == done.event
           result == OfContacts!Execute(c, s, call).result
           action == ActionEvent(c, call)
           stale == ContactStale(c)
<1>0. IsSession(s) /\ DOMAIN s = ContactsFields
  BY DEF ContactsKept
<1>1. t = done.session /\ ~a.unsafe /\ ~done.unsafe /\ ~UnsafePayload(call.args)
  BY GrownByCall
<1>2. PICK n : Grown(a.events, b.events, n, action, event)
  BY GrownByCall
<1>3. IF Callable(c, call)
      THEN /\ ContactsAnswer(c, s, call, t, result)
           /\ IF result.type \in {"observation", "state_change"}
              THEN /\ event.type = result.type /\ event.tool = call.tool
                   /\ event.payload = Bounded(result.payload, OutputFields(EpisodeTools(c), call.tool))
                   /\ done.unsafe = UnsafePayload(result.payload)
              ELSE /\ event.type = "error"
                   /\ result.type = "tool_failure" =>
                          event.tool = call.tool /\ event.code = result.code
      ELSE t = s /\ event.type = "error"
  BY <1>0, <1>1, ContactsCalls
<1>4. EpisodeTools(c) = OfContacts!Tools(c) /\ ExecuteTool(c, s, call) = OfContacts!Execute(c, s, call)
  BY DEF BuiltinDomainsRun, BuiltinTools, BuiltinExecute, BuiltinDomainIds
<1>5. Callable(c, call) =>
        /\ call.tool = "lookup_contact" /\ call.args.name \notin DOMAIN c.frozen.contacts =>
               result.type = "tool_failure" /\ result.code = "contact_not_found"
        /\ call.tool = "get_followup" /\ result.type = "observation" =>
               call.args.name \in DOMAIN s.world /\ result.payload.name = call.args.name
        /\ result.type = "state_change" =>
               /\ call.tool = "record_followup"
               /\ result.payload = [name |-> c.task.target, note |-> call.args.note]
  BY <1>4, ContactsReplies DEF Callable
<1>6. action.type = "action" /\ action.tool = Clean(call.tool)
  BY DEF ActionEvent
<1>7. event.type # "action"
  BY <1>3
<1>8. ASSUME ~LosesArguments(c, call), OfContacts!Stale(c.task.target) \notin DOMAIN c.frozen.contacts,
             action.tool = "lookup_contact", action.args = stale
      PROVE  event.type = "error" /\ event.tool = "lookup_contact" /\ event.code = "contact_not_found"
  <2>1. /\ "lookup_contact" \in DOMAIN EpisodeTools(c) /\ "lookup_contact" # Redacted
        /\ EpisodeTools(c)["lookup_contact"].input = {"name"}
        /\ EpisodeTools(c)["lookup_contact"].required = {"name"}
    BY <1>4 DEF OfContacts!Tools, OfContacts!Tool, Redacted
  <2>2. DOMAIN stale = {"name"} /\ \A f \in {"name"} : stale[f] # NotText
    <3>1. OfContacts!Stale(c.task.target) # NotText
      BY TaskAssumption, Zenon DEF CompiledTask
    <3>2. QED
      BY <3>1 DEF ContactStale
  <2>3. Callable(c, call) /\ call.tool = "lookup_contact" /\ call.args["name"] = stale["name"]
    <3>1. ActionEvent(c, call).tool = "lookup_contact" /\ ActionEvent(c, call).args = stale
      BY <1>8
    <3> HIDE DEF stale, action, event, result
    <3>2. /\ Callable(c, call) /\ call.tool = ActionEvent(c, call).tool
          /\ \A f \in DOMAIN ActionEvent(c, call).args : call.args[f] = ActionEvent(c, call).args[f]
      <4>1. /\ ~UnsafePayload(call.args) /\ ~LosesArguments(c, call)
            /\ ActionEvent(c, call).tool # Redacted
            /\ ActionEvent(c, call).tool \in DOMAIN EpisodeTools(c)
        BY <1>1, <1>8, <2>1, <3>1
      <4>2. /\ EpisodeTools(c)[ActionEvent(c, call).tool].input = DOMAIN ActionEvent(c, call).args
            /\ EpisodeTools(c)[ActionEvent(c, call).tool].required = DOMAIN ActionEvent(c, call).args
            /\ \A f \in DOMAIN ActionEvent(c, call).args : ActionEvent(c, call).args[f] # NotText
        BY <2>1, <2>2, <3>1
      <4>3. QED
        BY <4>1, <4>2, ActionsSayTheCall
    <3>3. QED
      BY <2>2, <3>1, <3>2
  <2>4. call.args.name = OfContacts!Stale(c.task.target)
    BY <2>3 DEF ContactStale
  <2> HIDE DEF action, event, result
  <2>5. QED
    BY <1>3, <1>5, <1>8, <2>3, <2>4
<1>9. ASSUME event.type = "observation", event.tool = "get_followup", "name" \in DOMAIN event.payload
      PROVE  event.payload["name"] \in DOMAIN c.frozen.followups \/ ChangesIn(a.events) # {}
  <2>1. /\ Callable(c, call) /\ call.tool = "get_followup" /\ result.type = "observation"
        /\ event.payload = Bounded(result.payload, OutputFields(EpisodeTools(c), call.tool))
        /\ ~UnsafePayload(result.payload)
    BY <1>1, <1>3, <1>9
  <2>2. event.payload["name"] = result.payload["name"]
    BY <1>9, <2>1, BoundedFields, TaskAssumption
  <2>3. event.payload["name"] \in DOMAIN s.world
    BY <1>5, <2>1, <2>2
  <2>4. QED
    BY <2>3 DEF ContactsKept
<1>10. ChangesHold(b.events, [name |-> c.task.target, note |-> t.world[c.task.target]])
  <2>1. CASE event.type = "state_change"
    <3>1. /\ Callable(c, call) /\ result.type = "state_change"
          /\ event.payload = Bounded(result.payload, OutputFields(EpisodeTools(c), call.tool))
          /\ ~UnsafePayload(result.payload)
      BY <1>1, <1>3, <2>1
    <3>2. /\ call.tool = "record_followup"
          /\ result.payload = [name |-> c.task.target, note |-> call.args.note]
      BY <1>5, <3>1
    <3>3. OutputFields(EpisodeTools(c), call.tool) = {"name", "note"}
      BY <1>4, <3>1, <3>2 DEF Callable, OutputFields, OfContacts!Tools, OfContacts!Tool
    <3>4. event.payload = result.payload
      <4> HIDE DEF event, result
      <4>1. /\ DOMAIN result.payload = {"name", "note"}
            /\ result.payload = [f \in DOMAIN result.payload |-> result.payload[f]]
        BY <3>2
      <4>2. DOMAIN result.payload \cap Listing = {}
        BY <4>1, TaskAssumption
      <4>3. QED
        BY <3>1, <3>3, <4>1, <4>2, SafePayloadsStay
    <3>5. /\ OfContacts!RecordRefusal(c.task, s, call.args) = None
          /\ t.world = OfContacts!Put(s.world, c.task.target, call.args.note)
      BY <1>3, <3>1 DEF ContactsAnswer
    <3>6. t.world[c.task.target] = call.args.note /\ c.task.target \notin DOMAIN s.world
      BY <3>5, ContactsRefusals DEF OfContacts!Put
    <3>7. ChangesIn(a.events) = {}
      <4>1. \A note : c.task.target \in DOMAIN OfContacts!Put(c.frozen.followups, c.task.target, note)
        BY DEF OfContacts!Put
      <4>2. QED
        BY <3>6, <4>1 DEF ContactsKept, ContactChanged
    <3>8. ChangesHold(a.events, result.payload)
      BY <3>7 DEF ChangesHold
    <3> HIDE DEF event, result, b, action, t
    <3>9. ChangesHold(b.events, result.payload)
      BY <1>2, <1>6, <1>7, <3>4, <3>8, GrownShows
    <3>10. QED
      BY <3>2, <3>6, <3>9
  <2>2. CASE event.type # "state_change"
    <3>1. t.world = s.world
      <4> HIDE DEF event, result, b, action, t, s
      <4>1. QED
        BY <1>0, <1>3, <2>2 DEF ContactsAnswer, Keeps, ContactsFields
    <3> HIDE DEF event, result, b, action
    <3>2. QED
      BY <1>2, <1>6, <1>7, <2>2, <3>1, GrownShows DEF ContactTrace
  <2>3. QED
    BY <2>1, <2>2
<1> HIDE DEF event, result, b, action, t, stale
<1>11. ASSUME LostArguments(c, b.events) = {}, OfContacts!Stale(c.task.target) \notin DOMAIN c.frozen.contacts
       PROVE  SearchesFail(b.events, "lookup_contact", "contact_not_found", stale)
  <2>1. LostArguments(c, a.events) = {} /\ ~LosesArguments(c, call)
    BY <1>11, NothingIsLost DEF b
  <2>2. QED
    BY <1>2, <1>6, <1>7, <1>8, <1>11, <2>1, GrownShows DEF ContactTrace, stale
<1>12. ReadsFollow(b.events, "get_followup", "name", DOMAIN c.frozen.followups)
  BY <1>2, <1>6, <1>7, <1>9, GrownShows DEF ContactTrace
<1>13. QED
  BY <1>10, <1>11, <1>12 DEF ContactTrace, b, t, stale

--------------------------------------------------------------------------------
(* What the assessment of a demonstration found.                                *)

LEMMA ChecksPass ==
  ASSUME NEW checks, \E n \in Nat : DOMAIN checks = 1 .. n, NEW key,
         Assessment(checks, key).reasons = <<>>
  PROVE  \A i \in DOMAIN checks : checks[i][2]
<1>1. PICK n \in Nat : DOMAIN checks = 1 .. n
  OBVIOUS
<1>2. CASE \E i \in 1 .. n : ~checks[i][2]
  BY <1>1, <1>2, FirstFailure, Zenon
<1>3. QED
  BY <1>1, <1>2

(* The assessment found nothing against the history.                            *)
Spotless(assessed) == assessed.reasons = <<>>

LEMMA ThreePass ==
  ASSUME NEW r1, NEW r2, NEW r3, NEW p1, NEW p2, NEW p3, NEW key,
         LET checks == <<<<r1, p1>>, <<r2, p2>>, <<r3, p3>>>>
         IN  \/ Spotless(OfContacts!Assessment(checks, key))
             \/ Spotless(OfMobile!Assessment(checks, key))
             \/ Spotless(OfWorkspace!Assessment(checks, key))
  PROVE  p1 /\ p2 /\ p3
<1> DEFINE listed == <<<<r1, p1>>, <<r2, p2>>, <<r3, p3>>>>
<1>1. DOMAIN listed = 1 .. 3 /\ listed[1][2] = p1 /\ listed[2][2] = p2 /\ listed[3][2] = p3
  OBVIOUS
<1>2. Assessment(listed, key).reasons = <<>>
  BY OneAssessment DEF Spotless
<1> HIDE DEF listed
<1>3. \A i \in DOMAIN listed : listed[i][2]
  <2>1. \E n \in Nat : DOMAIN listed = 1 .. n
    BY <1>1
  <2>2. QED
    BY <1>2, <2>1, ChecksPass, Zenon
<1>4. 1 \in DOMAIN listed /\ 2 \in DOMAIN listed /\ 3 \in DOMAIN listed
  BY <1>1
<1>5. QED
  BY <1>1, <1>3, <1>4, Zenon

LEMMA SixPass ==
  ASSUME NEW r1, NEW r2, NEW r3, NEW r4, NEW r5, NEW r6,
         NEW p1, NEW p2, NEW p3, NEW p4, NEW p5, NEW p6, NEW key,
         LET checks == <<<<r1, p1>>, <<r2, p2>>, <<r3, p3>>, <<r4, p4>>, <<r5, p5>>, <<r6, p6>>>>
         IN  \/ Spotless(OfContacts!Assessment(checks, key))
             \/ Spotless(OfMobile!Assessment(checks, key))
             \/ Spotless(OfWorkspace!Assessment(checks, key))
  PROVE  p1 /\ p2 /\ p3 /\ p4 /\ p5 /\ p6
<1> DEFINE listed == <<<<r1, p1>>, <<r2, p2>>, <<r3, p3>>, <<r4, p4>>, <<r5, p5>>, <<r6, p6>>>>
<1>1. /\ DOMAIN listed = 1 .. 6 /\ listed[1][2] = p1 /\ listed[2][2] = p2 /\ listed[3][2] = p3
      /\ listed[4][2] = p4 /\ listed[5][2] = p5 /\ listed[6][2] = p6
  OBVIOUS
<1>2. Assessment(listed, key).reasons = <<>>
  BY OneAssessment DEF Spotless
<1> HIDE DEF listed
<1>3. \A i \in DOMAIN listed : listed[i][2]
  <2>1. \E n \in Nat : DOMAIN listed = 1 .. n
    BY <1>1
  <2>2. QED
    BY <1>2, <2>1, ChecksPass, Zenon
<1>4. /\ 1 \in DOMAIN listed /\ 2 \in DOMAIN listed /\ 3 \in DOMAIN listed
      /\ 4 \in DOMAIN listed /\ 5 \in DOMAIN listed /\ 6 \in DOMAIN listed
  BY <1>1
<1>5. QED
  BY <1>1, <1>3, <1>4, Zenon

(* A demonstration passed them all, met nothing unsafe, and its one final       *)
(* response is its last event.                                                  *)
LEMMA AdmittedEpisodes ==
  ASSUME LoopInvariant, Admitted
  PROVE  /\ attempt.terminal = None /\ ~attempt.unsafe
         /\ AssessEvents(case, attempt.events, attempt.authorization).reasons = <<>>
         /\ FinalContent(attempt.events) = attempt.events[Len(attempt.events)].content
<1> DEFINE assessed == AssessEvents(case, attempt.events, attempt.authorization)
           gates == Gates(attempt, Verification)
           last == Len(attempt.events)
<1>1. phase = "ended" /\ attempt.terminal = None /\ ~attempt.unsafe
  BY PassedGates DEF Admitted
<1>2. Verification.reasons = <<>>
  <2>1. "assessment" \in DOMAIN gates /\ gates.assessment = (Verification.reasons = <<>>)
    BY DEF Gates
  <2>2. gates.assessment
    BY <2>1, Zenon DEF Admitted, Passed
  <2> HIDE DEF gates
  <2>3. QED
    BY <2>1, <2>2, Zenon
<1>3. assessed # None /\ Verification = assessed
  <2>1. CASE assessed = None
    <3>1. Verification.reasons = <<"domain_assessment_failure">>
      BY <1>1, <2>1 DEF Verification, AssessEpisode, Incomplete
    <3>2. QED
      BY <1>2, <3>1
  <2>2. QED
    BY <1>1, <2>1 DEF Verification, AssessEpisode
<1>4. /\ last \in DOMAIN attempt.events
      /\ {j \in DOMAIN attempt.events : attempt.events[j].type = "final_response"} = {last}
  BY <1>1 DEF LoopInvariant
<1>5. FinalContent(attempt.events) = attempt.events[last].content
  <2> HIDE DEF last
  <2>1. FinalContent(attempt.events) = UNION {attempt.events[i].content : i \in {last}}
    BY <1>4, Zenon DEF FinalContent
  <2>2. QED
    BY <2>1
<1>6. QED
  BY <1>1, <1>2, <1>3, <1>5

(* The one change, and the event that reports it.                               *)
LEMMA TheOnlyChange ==
  ASSUME NEW events, \E n \in Nat : DOMAIN events = 1 .. n, NEW tool, OneChange(events, tool)
  PROVE  \E i \in ChangesIn(events) :
             /\ ChangesIn(events) = {i}
             /\ OnlyChange(events, tool) = events[i].payload
<1> DEFINE changes == {i \in ChangesIn(events) : events[i].tool = tool}
<1>1. changes = ChangesIn(events) /\ Cardinality(changes) = 1
  BY DEF OneChange
<1>2. PICK i : changes = {i}
  <2>1. IsFiniteSet(ChangesIn(events))
    <3>1. PICK n \in Nat : DOMAIN events = 1 .. n
      OBVIOUS
    <3>2. IsFiniteSet(1 .. n) /\ ChangesIn(events) \subseteq 1 .. n
      BY <3>1, FS_Interval DEF ChangesIn
    <3>3. QED
      BY <3>2, FS_Subset
  <2>2. \E i : ChangesIn(events) = {i}
    BY <1>1, <2>1, FS_Singleton
  <2>3. QED
    BY <1>1, <2>2
<1> HIDE DEF changes
<1>3. First(changes) = i
  BY <1>2 DEF First
<1>4. OnlyChange(events, tool) = events[First(changes)].payload
  BY <1>1, Zenon DEF OnlyChange, changes
<1>5. QED
  BY <1>1, <1>2, <1>3, <1>4

--------------------------------------------------------------------------------
(* A demonstration of Contacts.                                                 *)

(* The route an assessment found completed, over the sets it looks at.          *)
Completed(found, listings, probes, failures, route) ==
    /\ found # {}
    /\ route = "directory" => \E listing \in listings : listing < First(found)
    /\ route = "recovery" =>
           \E probe \in probes, failure \in failures, listing \in listings :
               probe < failure /\ failure < listing /\ listing < First(found)

(* The route as FollowedTheRoute asks for it: from some sight of the target on. *)
RouteFollowed(found, shown, failed, changes, route) ==
    \E target \in found :
        /\ route = "directory" => \E listing \in shown : listing < target
        /\ route = "recovery" =>
               \E probe \in failed, listing \in shown : probe < listing /\ listing < target
        /\ \A change \in changes : target < change

(* It was followed from the first sight of the target on, which no change came  *)
(* before. A failure the assessment found after a probe will do, or the one of  *)
(* the probe itself.                                                            *)
LEMMA CompletedRoute ==
  ASSUME NEW found, NEW listings, NEW probes, NEW failures, NEW changes, NEW route,
         NEW shown, NEW failed,
         found \subseteq Nat, listings \subseteq Nat, probes \subseteq Nat, failures \subseteq Nat,
         changes \subseteq Nat,
         listings \subseteq shown, failures \subseteq failed \/ \A probe \in probes : probe + 1 \in failed,
         Completed(found, listings, probes, failures, route),
         \A change \in changes : \E t \in found : t < change
  PROVE  RouteFollowed(found, shown, failed, changes, route)
<1> DEFINE target == First(found)
<1>1. target \in found /\ \A t \in found : target <= t
  BY FirstIsFirst DEF Completed
<1> HIDE DEF target
<1>2. \A change \in changes : target < change
  <2> SUFFICES ASSUME NEW change \in changes PROVE target < change
    OBVIOUS
  <2>1. PICK t \in found : t < change
    OBVIOUS
  <2>2. QED
    BY <1>1, <2>1
<1>3. route = "directory" => \E listing \in shown : listing < target
  BY DEF Completed, target
<1>4. ASSUME route = "recovery"
      PROVE  \E probe \in failed, listing \in shown : probe < listing /\ listing < target
  <2>1. PICK probe \in probes, failure \in failures, listing \in listings :
            probe < failure /\ failure < listing /\ listing < target
    BY <1>4 DEF Completed, target
  <2>2. probe + 1 < listing
    BY <2>1
  <2>3. failure \in failed \/ probe + 1 \in failed
    BY <2>1
  <2>4. QED
    BY <2>1, <2>2, <2>3
<1>5. QED
  BY <1>1, <1>2, <1>3, <1>4 DEF RouteFollowed

(* Completed, over what an assessment of Contacts looks at.                     *)
ContactListings(c, events) ==
    {i \in Observations(events, "list_contacts") :
        c.task.target \in Get(events[i].payload, "contacts", {})}
ContactCompleted(c, events) ==
    Completed(ContactFound(c, events), ContactListings(c, events),
              ActionsOf(events, "lookup_contact", ContactStale(c)),
              FailuresOf(events, "lookup_contact", "contact_not_found"), c.task.route)

LEMMA ContactsRouteCompleted ==
  ASSUME NEW c, NEW events
  PROVE  OfContacts!RouteCompleted(c.task, events) <=> ContactCompleted(c, events)
<1>1. /\ \A S : OfContacts!First(S) = First(S)
      /\ \A p : OfContacts!Get(p, "contacts", {}) = Get(p, "contacts", {})
  BY Zenon DEF OfContacts!First, First, OfContacts!Get, Get
<1>2. /\ OfContacts!TargetObserved(c.task, events) = ContactFound(c, events)
      /\ OfContacts!Observations(events, "list_contacts") = Observations(events, "list_contacts")
  BY Zenon DEF OfContacts!TargetObserved, OfContacts!Observed, OfContacts!Observations, ContactFound,
               Observed, Observations
<1>3. /\ \A args : OfContacts!ActionsOf(events, "lookup_contact", args)
                     = ActionsOf(events, "lookup_contact", args)
      /\ OfContacts!FailuresOf(events, "lookup_contact", "contact_not_found")
             = FailuresOf(events, "lookup_contact", "contact_not_found")
  BY Zenon DEF OfContacts!ActionsOf, ActionsOf, OfContacts!FailuresOf, FailuresOf
<1>4. QED
  BY <1>1, <1>2, <1>3 DEF OfContacts!RouteCompleted, ContactCompleted, Completed, ContactListings, ContactStale

(* What a lookup and a follow-up were found to be.                              *)
ContactsAssessed(c, events) ==
    /\ ContactCompleted(c, events)
    /\ IF c.task.action = "record_followup"
       THEN LET change == OnlyChange(events, "record_followup")
                note == Get(change, "note", None)
            IN  /\ OneChange(events, "record_followup")
                /\ Get(change, "name", None) = c.task.target
                /\ c.task.route = "verify" =>
                       Observed(events, "get_followup", [name |-> c.task.target, note |-> note]) # {}
                /\ {c.task.target, note} \subseteq FinalContent(events)
       ELSE /\ ChangesIn(events) = {}
            /\ {c.task.target, c.task.expected} \subseteq FinalContent(events)

LEMMA ContactsPass ==
  ASSUME NEW c, NEW events, NEW authorization,
         Spotless(OfContacts!Assess(c, events, authorization))
  PROVE  ContactsAssessed(c, events)
<1>1. /\ OfContacts!ChangesIn(events) = ChangesIn(events)
      /\ OfContacts!FinalContent(events) = FinalContent(events)
  BY Zenon DEF OfContacts!ChangesIn, ChangesIn, OfContacts!FinalContent, FinalContent
<1>2. OfContacts!OnlyChange(events, "record_followup") = OnlyChange(events, "record_followup")
  BY Zenon DEF OfContacts!OnlyChange, OnlyChange, OfContacts!ChangesIn, ChangesIn, OfContacts!First,
               First, OfContacts!NoChange, NoChange, OfContacts!Cardinality, Cardinality
<1>3. OfContacts!OneChange(events, "record_followup") <=> OneChange(events, "record_followup")
  BY <1>1, Zenon DEF OfContacts!OneChange, OneChange, OfContacts!Cardinality, Cardinality
<1>4. \A p, f, m : OfContacts!Get(p, f, m) = Get(p, f, m)
  BY Zenon DEF OfContacts!Get, Get
<1>5. \A p : OfContacts!Observed(events, "get_followup", p) = Observed(events, "get_followup", p)
  BY Zenon DEF OfContacts!Observed, OfContacts!Observations, Observed, Observations
<1>6. CASE c.task.action = "record_followup"
  <2> DEFINE change == OfContacts!OnlyChange(events, "record_followup")
             note == OfContacts!Get(change, "note", None)
  <2>1. /\ OfContacts!RouteCompleted(c.task, events)
        /\ OfContacts!Get(change, "name", None) = c.task.target
        /\ OfContacts!OneChange(events, "record_followup")
        /\ c.task.route = "verify" =>
               OfContacts!Observed(events, "get_followup", [name |-> c.task.target, note |-> note]) # {}
        /\ {c.task.target, note} \subseteq OfContacts!FinalContent(events)
    <3> DEFINE p1 == OfContacts!RouteCompleted(c.task, events)
               p2 == authorization = "authorized"
               p3 == /\ OfContacts!Get(change, "name", None) = c.task.target
                     /\ IF c.task.constraint = "exact" THEN note = c.task.exact ELSE note \in AllowedNote
               p4 == OfContacts!OneChange(events, "record_followup")
               p5 == c.task.route = "verify" =>
                         OfContacts!Observed(events, "get_followup",
                                             [name |-> c.task.target, note |-> note]) # {}
               p6 == {c.task.target, note} \subseteq OfContacts!FinalContent(events)
               key == <<"contacts.followup", c.task.route>>
               checks == <<<<"lookup_condition_not_observed", p1>>, <<"mutation_not_authorized", p2>>,
                           <<"requested_followup_not_recorded", p3>>, <<"unintended_state_change", p4>>,
                           <<"saved_followup_not_observed", p5>>, <<"final_response_not_grounded", p6>>>>
    <3>1. Spotless(OfContacts!AssessFollowup(c, events, authorization))
      BY <1>6, Zenon DEF OfContacts!Assess
    <3>2. OfContacts!AssessFollowup(c, events, authorization) = OfContacts!Assessment(checks, key)
      BY Zenon DEF OfContacts!AssessFollowup
    <3> HIDE DEF p1, p2, p3, p4, p5, p6, key
    <3>3. p1 /\ p2 /\ p3 /\ p4 /\ p5 /\ p6
      BY <3>1, <3>2, SixPass
    <3>4. QED
      BY <3>3 DEF p1, p3, p4, p5, p6
  <2>2. change = OnlyChange(events, "record_followup") /\ note = Get(change, "note", None)
    BY <1>2, <1>4
  <2> HIDE DEF change, note
  <2>3. QED
    BY <1>1, <1>2, <1>3, <1>4, <1>5, <1>6, <2>1, <2>2, ContactsRouteCompleted DEF ContactsAssessed
<1>7. CASE c.task.action # "record_followup"
  <2>1. /\ OfContacts!RouteCompleted(c.task, events)
        /\ OfContacts!ChangesIn(events) = {}
        /\ {c.task.target, c.task.expected} \subseteq OfContacts!FinalContent(events)
    BY <1>7, ThreePass, Zenon DEF OfContacts!Assess, OfContacts!AssessLookup
  <2>2. QED
    BY <1>1, <1>7, <2>1, ContactsRouteCompleted DEF ContactsAssessed
<1>8. QED
  BY <1>6, <1>7

--------------------------------------------------------------------------------
LEMMA ContactsDemonstrate ==
  ASSUME case \in Case, case.domain = "contacts", LoopInvariant, Admitted, BuiltinAssessmentsRun,
         ContactsKept(case, attempt), ContactTrace(case, attempt)
  PROVE  /\ OfContacts!FollowedTheRoute(LostArguments(case, attempt.events) # {})
         /\ OfContacts!ReportsTheState
<1> DEFINE c == case
           lost == LostArguments(case, attempt.events) # {}
           named == OfContacts!Stale(case.task.target) \in DOMAIN case.frozen.contacts
           events == attempt.events
           world == attempt.session.world
           target == c.task.target
           found == ContactFound(c, events)
           shown == Observations(events, "list_contacts")
           failures == FailuresOf(events, "lookup_contact", "contact_not_found")
           failed == IF lost \/ named THEN failures ELSE ContactProbes(c, events)
           reads == Observations(events, "get_followup")
           changes == ChangesIn(events)
           change == OnlyChange(events, "record_followup")
           note == Get(change, "note", None)
<1>1. /\ ~attempt.unsafe
      /\ AssessEvents(c, events, attempt.authorization).reasons = <<>>
      /\ FinalContent(events) = events[Len(events)].content
      /\ \E n \in Nat : DOMAIN events = 1 .. n
  BY AdmittedEpisodes DEF LoopInvariant, IsAttempt
<1>2. ContactsAssessed(c, events)
  <2>1. AssessEvents(c, events, attempt.authorization) = OfContacts!Assess(c, events, attempt.authorization)
    BY DEF BuiltinAssessmentsRun, BuiltinAssess, BuiltinDomainIds
  <2>2. QED
    BY <1>1, <2>1, ContactsPass DEF Spotless
<1>3. PICK n \in Nat : DOMAIN events = 1 .. n
  BY <1>1
<1>4. /\ found \subseteq 1 .. n /\ shown \subseteq 1 .. n /\ changes \subseteq 1 .. n /\ reads \subseteq 1 .. n
      /\ ContactListings(c, events) \subseteq shown
  BY <1>3 DEF ContactFound, Observed, Observations, ChangesIn, ContactListings
<1>5. \/ failures \subseteq failed
      \/ \A i \in ActionsOf(events, "lookup_contact", ContactStale(c)) : i + 1 \in failed
  BY DEF ContactTrace, SearchesFail, ContactProbes, ContactStale
<1>6. \A i \in changes : \E t \in found : t < i
  BY <1>1 DEF ContactsKept, ContactHistory, Shows
<1>7. RouteFollowed(found, shown, failed, changes, c.task.route)
  <2> DEFINE listings == ContactListings(c, events)
             probes == ActionsOf(events, "lookup_contact", ContactStale(c))
  <2>1. Completed(found, listings, probes, failures, c.task.route)
    BY <1>2 DEF ContactsAssessed, ContactCompleted
  <2>2. probes \subseteq 1 .. n /\ failures \subseteq 1 .. n
    BY <1>3 DEF ActionsOf, FailuresOf
  <2>3. /\ found \subseteq Nat /\ listings \subseteq Nat /\ probes \subseteq Nat
        /\ failures \subseteq Nat /\ changes \subseteq Nat
    BY <1>4, <2>2
  <2>4. /\ listings \subseteq shown
        /\ failures \subseteq failed \/ \A probe \in probes : probe + 1 \in failed
    BY <1>4, <1>5
  <2> HIDE DEF found, shown, failed, changes, listings, probes, failures
  <2>5. QED
    BY <1>6, <2>1, <2>3, <2>4, CompletedRoute
<1>8. ASSUME c.task.action = "record_followup"
      PROVE  /\ \E i \in changes :
                    c.task.route = "verify" => \E read \in reads : i < read /\ events[read].payload = events[i].payload
             /\ {target, world[target]} \subseteq FinalContent(events)
  <2>1. /\ OneChange(events, "record_followup")
        /\ c.task.route = "verify" => Observed(events, "get_followup", [name |-> target, note |-> note]) # {}
        /\ {target, note} \subseteq FinalContent(events)
    BY <1>2, <1>8, Zenon DEF ContactsAssessed
  <2>2. PICK i \in changes : changes = {i} /\ change = events[i].payload
    BY <1>1, <2>1, TheOnlyChange
  <2>3. events[i].payload = [name |-> target, note |-> world[target]]
    BY <2>2 DEF ContactTrace, ChangesHold
  <2> HIDE DEF changes, change
  <2>4. note = world[target]
    BY <2>2, <2>3 DEF Get
  <2>5. target \notin DOMAIN c.frozen.followups
    BY <2>2 DEF ContactsKept, ContactChanged, changes
  <2>6. ASSUME c.task.route = "verify"
        PROVE  \E read \in reads : i < read /\ events[read].payload = events[i].payload
    <3>1. PICK read \in Observed(events, "get_followup", [name |-> target, note |-> note]) : TRUE
      BY <2>1, <2>6
    <3>2. read \in reads /\ events[read].payload = [name |-> target, note |-> note]
      BY <3>1, Zenon DEF Observed
    <3>3. "name" \in DOMAIN events[read].payload /\ events[read].payload["name"] = target
      BY <3>2
    <3>4. \E j \in changes : j < read
      BY <2>5, <3>2, <3>3, Zenon DEF ContactTrace, ReadsFollow, changes
    <3>5. QED
      BY <2>2, <2>3, <2>4, <3>2, <3>4
  <2>7. QED
    BY <2>1, <2>2, <2>4, <2>6
<1>9. OfContacts!FollowedTheRoute(lost)
  <2>1. /\ OfContacts!SawTarget = found /\ OfContacts!Listings = shown
        /\ OfContacts!Changes = changes /\ OfContacts!task = c.task
        /\ \A i : OfContacts!Event(i) = events[i]
        /\ OfContacts!Observations(attempt.events, "get_followup") = reads
    BY DEF OfContacts!SawTarget, OfContacts!Saw, OfContacts!Observed, OfContacts!Listings,
           OfContacts!Observations, OfContacts!task, ContactFound, Observed, Observations,
           OfContacts!Changes, OfContacts!ChangesIn, ChangesIn, OfContacts!Event
  <2>2. OfContacts!FailedLookups(lost) = failed
    BY DEF OfContacts!FailedLookups, OfContacts!FailedProbes, OfContacts!Events, OfContacts!Event,
           OfContacts!task, OfContacts!FailuresOf, ContactProbes, FailedAfter, FailuresOf
  <2> HIDE DEF found, shown, failed, reads, changes, events, lost, c
  <2>3. PICK t \in found :
         /\ c.task.route = "directory" => \E listing \in shown : listing < t
         /\ c.task.route = "recovery" =>
                \E probe \in failed, listing \in shown : probe < listing /\ listing < t
         /\ \A i \in changes : t < i
    BY <1>7 DEF RouteFollowed
  <2>4. c.task.action = "record_followup" =>
            \E i \in changes :
                /\ t < i
                /\ c.task.route = "verify" =>
                       \E read \in reads : i < read /\ events[read].payload = events[i].payload
    BY <1>8, <2>3
  <2>5. QED
    BY <2>1, <2>2, <2>3, <2>4, Zenon DEF OfContacts!FollowedTheRoute
<1>10. OfContacts!ReportsTheState
  <2>1. c.task.action \in {"lookup_email", "record_followup"} /\ c.task.expected = c.frozen.contacts[target]
    BY TaskAssumption, Zenon DEF CompiledTask
  <2>2. c.task.action = "lookup_email" => {target, c.frozen.contacts[target]} \subseteq FinalContent(events)
    BY <1>2, <2>1 DEF ContactsAssessed
  <2>3. OfContacts!task = c.task /\ OfContacts!Event(Len(attempt.events)) = events[Len(events)]
    BY DEF OfContacts!task, OfContacts!Event
  <2> HIDE DEF events
  <2>4. QED
    BY <1>1, <1>8, <2>1, <2>2, <2>3 DEF OfContacts!ReportsTheState
<1>11. QED
  BY <1>9, <1>10

--------------------------------------------------------------------------------
(* Mobile Messages: what the events of a demonstration are worth. A reply that  *)
(* was saved is what its change says.                                           *)
Draft(record) == [f \in OfMobile!DraftFields |-> record[f]]
MobileStale(c) == [query |-> OfMobile!Stale(OfMobile!QueryFor(c.task.target))]
MobileTrace(c, a) ==
    /\ LostArguments(c, a.events) = {} =>
           SearchesFail(a.events, "search_messages", "message_not_found", MobileStale(c))
    /\ ReadsFollow(a.events, "get_reminder", "message_id", DOMAIN c.frozen.reminders)
    /\ ReadsFollow(a.events, "get_draft_reply", "message_id", DOMAIN c.frozen.drafts)
    /\ c.task.action = "create_draft_reply" =>
           ChangesHold(a.events, Draft(a.session.world.drafts[c.task.target.message_id]))

LEMMA MobileReplies ==
  ASSUME NEW c \in Case, NEW s, NEW call, c.domain = "mobile", call.tool \in DOMAIN OfMobile!Tools(c)
  PROVE  LET done == OfMobile!Execute(c, s, call)
             result == done.result
             id == call.args.message_id
         IN  /\ call.tool = "search_messages" /\ call.args.query = MobileStale(c).query =>
                    result.type = "tool_failure" /\ result.code = "message_not_found"
             /\ call.tool = "get_reminder" /\ result.type = "observation" =>
                    id \in DOMAIN s.world.reminders /\ result.payload = s.world.reminders[id]
             /\ call.tool = "get_draft_reply" /\ result.type = "observation" =>
                    id \in DOMAIN s.world.drafts /\ result.payload = s.world.drafts[id]
             /\ result.type = "state_change" =>
                    call.tool = c.task.action /\ result.payload = call.args
<1> DEFINE done == OfMobile!Execute(c, s, call)
           id == call.args.message_id
<1>0. c.task.action \in {"search_messages", "create_reminder", "create_draft_reply"}
  BY TaskAssumption, Zenon DEF CompiledTask
<1>1. call.tool \in {"search_messages", "list_message_senders", c.task.action, "get_reminder", "get_draft_reply"}
  BY DEF OfMobile!Tools
<1>2. CASE call.tool = "search_messages"
  <2>1. done = OfMobile!SearchMessages(c, s, call.args.query)
    BY <1>2 DEF OfMobile!Execute
  <2>2. done.result.type \in {"observation", "tool_failure"}
    BY <2>1 DEF OfMobile!SearchMessages, OfMobile!Answer, OfMobile!Failure, OfMobile!Observation
  <2>3. call.args.query = MobileStale(c).query =>
            done.result.type = "tool_failure" /\ done.result.code = "message_not_found"
    BY <2>1 DEF OfMobile!SearchMessages, OfMobile!Answer, OfMobile!Failure, MobileStale
  <2>4. QED
    BY <1>2, <2>2, <2>3
<1>3. CASE call.tool = "list_message_senders"
  <2>1. done.result.type = "observation"
    BY <1>3 DEF OfMobile!Execute, OfMobile!Answer, OfMobile!Observation
  <2>2. QED
    BY <1>3, <2>1
<1>4. CASE call.tool = "create_reminder"
  <2>1. done = OfMobile!CreateReminder(c, s, call.args)
    BY <1>4 DEF OfMobile!Execute
  <2>2. \/ done.result.type = "unauthorized_mutation"
        \/ done.result.payload = call.args
    BY <2>1 DEF OfMobile!CreateReminder, OfMobile!Answer, OfMobile!Unauthorized, OfMobile!StateChange
  <2>3. QED
    BY <1>1, <1>4, <2>2
<1>5. CASE call.tool = "create_draft_reply"
  <2>1. done = OfMobile!CreateDraftReply(c, s, call.args)
    BY <1>5 DEF OfMobile!Execute
  <2>2. \/ done.result.type = "unauthorized_mutation"
        \/ done.result.payload = call.args
    BY <2>1 DEF OfMobile!CreateDraftReply, OfMobile!Answer, OfMobile!Unauthorized, OfMobile!StateChange
  <2>3. QED
    BY <1>1, <1>5, <2>2
<1>6. CASE call.tool = "get_reminder"
  <2>1. done = OfMobile!GetSaved(s, s.world.reminders, id, "reminder_not_found")
    BY <1>6 DEF OfMobile!Execute
  <2>2. \/ done.result.type = "tool_failure"
        \/ /\ id \in DOMAIN s.world.reminders /\ done.result.type = "observation"
           /\ done.result.payload = s.world.reminders[id]
    BY <2>1 DEF OfMobile!GetSaved, OfMobile!Answer, OfMobile!Failure, OfMobile!Observation
  <2>3. QED
    BY <1>6, <2>2
<1>7. CASE call.tool = "get_draft_reply"
  <2>1. done = OfMobile!GetSaved(s, s.world.drafts, id, "draft_not_found")
    BY <1>7 DEF OfMobile!Execute
  <2>2. \/ done.result.type = "tool_failure"
        \/ /\ id \in DOMAIN s.world.drafts /\ done.result.type = "observation"
           /\ done.result.payload = s.world.drafts[id]
    BY <2>1 DEF OfMobile!GetSaved, OfMobile!Answer, OfMobile!Failure, OfMobile!Observation
  <2>3. QED
    BY <1>7, <2>2
<1>8. QED
  BY <1>0, <1>1, <1>2, <1>3, <1>4, <1>5, <1>6, <1>7

LEMMA MobileTraceStarts ==
  ASSUME NEW c \in Case
  PROVE  MobileTrace(c, NewAttempt(c))
<1>1. DOMAIN NewAttempt(c).events = {}
  BY StartedAttempt
<1>2. QED
  BY <1>1, NothingShown DEF MobileTrace

LEMMA MobileTraceStays ==
  ASSUME NEW c \in Case, NEW a, NEW b, MobileTrace(c, a), Quiet(a, b)
  PROVE  MobileTrace(c, b)
<1>1. b.session = a.session
  BY DEF Quiet
<1>2. QED
  BY <1>1, QuietShows, NothingWasLost DEF MobileTrace

(* What is saved under a message's id is about that message, and so long as     *)
(* nothing was changed it is what was saved before.                             *)
LEMMA MobileSavedIds ==
  ASSUME NEW c \in Case, NEW a, c.domain = "mobile", MobileKept(c, a), ChangesIn(a.events) = {}
  PROVE  /\ \A id \in DOMAIN a.session.world.reminders :
                id \in DOMAIN c.frozen.reminders /\ a.session.world.reminders[id].message_id = id
         /\ \A id \in DOMAIN a.session.world.drafts :
                id \in DOMAIN c.frozen.drafts /\ a.session.world.drafts[id].message_id = id
<1>1. a.session.world.reminders = c.frozen.reminders /\ a.session.world.drafts = c.frozen.drafts
  BY DEF MobileKept, MobileWorld
<1>2. /\ \A id \in DOMAIN c.frozen.reminders : c.frozen.reminders[id].message_id = id
      /\ \A id \in DOMAIN c.frozen.drafts : c.frozen.drafts[id].message_id = id
  BY TaskAssumption, Zenon DEF CompiledTask
<1>3. QED
  BY <1>1, <1>2

LEMMA MobileTraceGrows ==
  ASSUME NEW c \in Case, NEW a, NEW call, c.domain = "mobile", BuiltinDomainsRun,
         IsAttempt(a), MobileKept(c, a), MobileTrace(c, a),
         ~Called(c, a, call).unsafe
  PROVE  MobileTrace(c, Called(c, a, call))
<1> DEFINE s == a.session
           b == Called(c, a, call)
           t == b.session
           done == ExecuteToolDecision(c, s, call)
           event == done.event
           result == OfMobile!Execute(c, s, call).result
           action == ActionEvent(c, call)
           stale == MobileStale(c)
           id == c.task.target.message_id
<1>0. IsSession(s) /\ DOMAIN s = MobileFields
  BY DEF MobileKept
<1>1. t = done.session /\ ~a.unsafe /\ ~done.unsafe /\ ~UnsafePayload(call.args)
  BY GrownByCall
<1>2. PICK n : Grown(a.events, b.events, n, action, event)
  BY GrownByCall
<1>3. IF Callable(c, call)
      THEN /\ MobileAnswer(c, s, call, t, result)
           /\ IF result.type \in {"observation", "state_change"}
              THEN /\ event.type = result.type /\ event.tool = call.tool
                   /\ event.payload = Bounded(result.payload, OutputFields(EpisodeTools(c), call.tool))
                   /\ done.unsafe = UnsafePayload(result.payload)
              ELSE /\ event.type = "error"
                   /\ result.type = "tool_failure" =>
                          event.tool = call.tool /\ event.code = result.code
      ELSE t = s /\ event.type = "error"
  BY <1>0, <1>1, MobileCalls
<1>4. EpisodeTools(c) = OfMobile!Tools(c)
  BY DEF BuiltinDomainsRun, BuiltinTools, BuiltinDomainIds
<1>5. Callable(c, call) =>
        /\ call.tool = "search_messages" /\ call.args.query = stale.query =>
               result.type = "tool_failure" /\ result.code = "message_not_found"
        /\ call.tool = "get_reminder" /\ result.type = "observation" =>
               /\ call.args.message_id \in DOMAIN s.world.reminders
               /\ result.payload = s.world.reminders[call.args.message_id]
        /\ call.tool = "get_draft_reply" /\ result.type = "observation" =>
               /\ call.args.message_id \in DOMAIN s.world.drafts
               /\ result.payload = s.world.drafts[call.args.message_id]
        /\ result.type = "state_change" => call.tool = c.task.action /\ result.payload = call.args
  BY <1>4, MobileReplies DEF Callable
<1>6. action.type = "action" /\ action.tool = Clean(call.tool)
  BY DEF ActionEvent
<1>7. event.type # "action"
  BY <1>3
<1>8. ASSUME ~LosesArguments(c, call), action.tool = "search_messages", action.args = stale
      PROVE  event.type = "error" /\ event.tool = "search_messages" /\ event.code = "message_not_found"
  <2>1. /\ "search_messages" \in DOMAIN EpisodeTools(c) /\ "search_messages" # Redacted
        /\ EpisodeTools(c)["search_messages"].input = {"query"}
        /\ EpisodeTools(c)["search_messages"].required = {"query"}
    BY <1>4 DEF OfMobile!Tools, OfMobile!Tool, Redacted
  <2>2. DOMAIN stale = {"query"} /\ \A f \in {"query"} : stale[f] # NotText
    <3>1. OfMobile!Stale(OfMobile!QueryFor(c.task.target)) # NotText
      BY TaskAssumption, Zenon DEF CompiledTask
    <3>2. QED
      BY <3>1 DEF MobileStale
  <2>3. Callable(c, call) /\ call.tool = "search_messages" /\ call.args["query"] = stale["query"]
    <3>1. ActionEvent(c, call).tool = "search_messages" /\ ActionEvent(c, call).args = stale
      BY <1>8
    <3> HIDE DEF action, event, result, stale
    <3>2. /\ Callable(c, call) /\ call.tool = ActionEvent(c, call).tool
          /\ \A f \in DOMAIN ActionEvent(c, call).args : call.args[f] = ActionEvent(c, call).args[f]
      <4>1. /\ ~UnsafePayload(call.args) /\ ~LosesArguments(c, call)
            /\ ActionEvent(c, call).tool # Redacted
            /\ ActionEvent(c, call).tool \in DOMAIN EpisodeTools(c)
        BY <1>1, <1>8, <2>1, <3>1
      <4>2. /\ EpisodeTools(c)[ActionEvent(c, call).tool].input = DOMAIN ActionEvent(c, call).args
            /\ EpisodeTools(c)[ActionEvent(c, call).tool].required = DOMAIN ActionEvent(c, call).args
            /\ \A f \in DOMAIN ActionEvent(c, call).args : ActionEvent(c, call).args[f] # NotText
        BY <2>1, <2>2, <3>1
      <4>3. QED
        BY <4>1, <4>2, ActionsSayTheCall
    <3>3. QED
      BY <2>2, <3>1, <3>2
  <2> HIDE DEF action, event, result, stale
  <2>4. QED
    BY <1>3, <1>5, <2>3
<1>9. ASSUME event.type = "observation", event.tool \in {"get_reminder", "get_draft_reply"},
             "message_id" \in DOMAIN event.payload, ChangesIn(a.events) = {}
      PROVE  IF event.tool = "get_reminder" THEN event.payload["message_id"] \in DOMAIN c.frozen.reminders
             ELSE event.payload["message_id"] \in DOMAIN c.frozen.drafts
  <2>1. /\ Callable(c, call) /\ call.tool = event.tool /\ result.type = "observation"
        /\ event.payload = Bounded(result.payload, OutputFields(EpisodeTools(c), call.tool))
        /\ ~UnsafePayload(result.payload)
    BY <1>1, <1>3, <1>9
  <2>2. event.payload["message_id"] = result.payload["message_id"]
    BY <1>9, <2>1, BoundedFields, TaskAssumption
  <2> HIDE DEF event, result, s
  <2>3. /\ \A k \in DOMAIN s.world.reminders :
               k \in DOMAIN c.frozen.reminders /\ s.world.reminders[k].message_id = k
        /\ \A k \in DOMAIN s.world.drafts :
               k \in DOMAIN c.frozen.drafts /\ s.world.drafts[k].message_id = k
    BY <1>9, MobileSavedIds DEF s
  <2>4. QED
    BY <1>5, <1>9, <2>1, <2>2, <2>3
<1>10. c.task.action = "create_draft_reply" => ChangesHold(b.events, Draft(t.world.drafts[id]))
  <2> SUFFICES ASSUME c.task.action = "create_draft_reply"
               PROVE  ChangesHold(b.events, Draft(t.world.drafts[id]))
    OBVIOUS
  <2>1. CASE event.type = "state_change"
    <3>1. /\ Callable(c, call) /\ result.type = "state_change"
          /\ event.payload = Bounded(result.payload, OutputFields(EpisodeTools(c), call.tool))
          /\ ~UnsafePayload(result.payload)
      BY <1>1, <1>3, <2>1
    <3>2. call.tool = "create_draft_reply" /\ result.payload = call.args
      BY <1>5, <3>1
    <3>3. DraftMade(c.task, s, call.args, t) /\ Keeps(s, t, {"world"})
      BY <1>3, <3>1 DEF MobileAnswer, ReminderMade
    <3>4. /\ OutputFields(EpisodeTools(c), call.tool) = OfMobile!DraftFields
          /\ DOMAIN call.args = OfMobile!DraftFields
      <4>1. /\ "create_draft_reply" \in DOMAIN OfMobile!Tools(c)
            /\ OfMobile!Tools(c)["create_draft_reply"] =
                  [input |-> OfMobile!DraftFields, required |-> OfMobile!DraftFields,
                   output |-> OfMobile!DraftFields]
        BY DEF OfMobile!Tools, OfMobile!Tool
      <4>2. QED
        BY <1>4, <3>1, <3>2, <4>1 DEF Callable, ValidArguments, OutputFields
    <3>5. event.payload = Draft(call.args)
      <4> HIDE DEF event, result
      <4>1. DOMAIN result.payload \cap Listing = {}
        BY <3>2, <3>4, TaskAssumption DEF OfMobile!DraftFields
      <4>2. QED
        BY <3>1, <3>2, <3>4, <4>1, SafePayloadsStay DEF Draft
    <3>6. /\ t.world = [s.world EXCEPT !.drafts = OfMobile!Put(s.world.drafts, id, call.args)]
          /\ id \notin DOMAIN s.world.drafts
      BY <3>3 DEF DraftMade
    <3>7. ChangesIn(a.events) = {}
      <4> SUFFICES ASSUME ChangesIn(a.events) # {} PROVE FALSE
        OBVIOUS
      <4>1. MobileChanged(c, s.world)
        BY DEF MobileKept
      <4>2. \A table, made : id \in DOMAIN OfMobile!Put(table, id, made)
        BY DEF OfMobile!Put
      <4>3. id \in DOMAIN s.world.drafts
        BY <4>1, <4>2 DEF MobileChanged, MobileWorld
      <4>4. QED
        BY <3>6, <4>3
    <3>8. t.world.drafts[id] = call.args
      <4>1. "drafts" \in DOMAIN s.world
        BY <3>7 DEF MobileKept, MobileWorld
      <4>2. OfMobile!Put(s.world.drafts, id, call.args)[id] = call.args
        BY DEF OfMobile!Put
      <4> HIDE DEF t, s
      <4>3. QED
        BY <3>6, <4>1, <4>2
    <3>9. ChangesHold(a.events, Draft(call.args))
      BY <3>7 DEF ChangesHold
    <3> HIDE DEF event, result, b, action, t
    <3>10. ChangesHold(b.events, Draft(call.args))
      BY <1>2, <1>6, <1>7, <3>5, <3>9, GrownShows
    <3>11. QED
      BY <3>8, <3>10
  <2>2. CASE event.type # "state_change"
    <3>1. t.world = s.world
      <4> HIDE DEF event, result, b, action, t, s
      <4>1. QED
        BY <1>0, <1>3, <2>2 DEF MobileAnswer, Keeps, MobileFields
    <3> HIDE DEF event, result, b, action
    <3>2. QED
      BY <1>2, <1>6, <1>7, <2>2, <3>1, GrownShows DEF MobileTrace
  <2>3. QED
    BY <2>1, <2>2
<1> HIDE DEF event, result, b, action, t, stale
<1>11. ASSUME LostArguments(c, b.events) = {}
       PROVE  SearchesFail(b.events, "search_messages", "message_not_found", stale)
  <2>1. LostArguments(c, a.events) = {} /\ ~LosesArguments(c, call)
    BY <1>11, NothingIsLost DEF b
  <2>2. QED
    BY <1>2, <1>6, <1>7, <1>8, <2>1, GrownShows DEF MobileTrace, stale
<1>12. ReadsFollow(b.events, "get_reminder", "message_id", DOMAIN c.frozen.reminders)
  BY <1>2, <1>6, <1>7, <1>9, GrownShows DEF MobileTrace
<1>13. ReadsFollow(b.events, "get_draft_reply", "message_id", DOMAIN c.frozen.drafts)
  BY <1>2, <1>6, <1>7, <1>9, GrownShows DEF MobileTrace
<1>14. QED
  BY <1>10, <1>11, <1>12, <1>13 DEF MobileTrace, b, t, stale

--------------------------------------------------------------------------------
(* A demonstration of Mobile Messages.                                          *)
(* Completed, over what an assessment of Mobile Messages looks at.              *)
MobileListings(c, events) ==
    {i \in Observations(events, "list_message_senders") :
        c.task.target.sender \in Get(events[i].payload, "senders", {})}
MobileCompleted(c, events) ==
    Completed(MobileFound(c, events), MobileListings(c, events),
              ActionsOf(events, "search_messages", MobileStale(c)),
              FailuresOf(events, "search_messages", "message_not_found"), c.task.route)
MobileGrounded(c, events, values) ==
    {c.task.target.sender, OfMobile!QueryFor(c.task.target)} \cup values \subseteq FinalContent(events)

LEMMA MobileRouteCompleted ==
  ASSUME NEW c, NEW events
  PROVE  /\ OfMobile!RouteCompleted(c.task, events) <=> MobileCompleted(c, events)
         /\ \A values : OfMobile!Grounded(c.task, events, values) <=> MobileGrounded(c, events, values)
<1>1. /\ \A S : OfMobile!First(S) = First(S)
      /\ \A p : OfMobile!Get(p, "senders", {}) = Get(p, "senders", {})
  BY Zenon DEF OfMobile!First, First, OfMobile!Get, Get
<1>2. /\ OfMobile!Observed(events, "search_messages", c.task.target) = MobileFound(c, events)
      /\ OfMobile!Observations(events, "list_message_senders") = Observations(events, "list_message_senders")
  BY Zenon DEF OfMobile!Observed, OfMobile!Observations, MobileFound, Observed, Observations
<1>3. /\ OfMobile!ActionsOf(events, "search_messages", MobileStale(c))
             = ActionsOf(events, "search_messages", MobileStale(c))
      /\ OfMobile!FailuresOf(events, "search_messages", "message_not_found")
             = FailuresOf(events, "search_messages", "message_not_found")
  BY Zenon DEF OfMobile!ActionsOf, ActionsOf, OfMobile!FailuresOf, FailuresOf
<1>4. OfMobile!FinalContent(events) = FinalContent(events)
  BY Zenon DEF OfMobile!FinalContent, FinalContent
<1>5. OfMobile!RouteCompleted(c.task, events) <=> MobileCompleted(c, events)
  BY <1>1, <1>2, <1>3
     DEF OfMobile!RouteCompleted, MobileCompleted, Completed, MobileListings, MobileStale
<1>6. QED
  BY <1>4, <1>5 DEF OfMobile!Grounded, MobileGrounded

LEMMA MobileMutationPasses ==
  ASSUME NEW c, NEW events, NEW authorization, NEW tools, NEW requested, NEW values, NEW key,
         Spotless(OfMobile!AssessMutation(c.task, events, authorization, tools, requested, values, key))
  PROVE  /\ MobileCompleted(c, events) /\ requested
         /\ OneChange(events, tools.create)
         /\ c.task.route = "verify" => Observed(events, tools.get, OnlyChange(events, tools.create)) # {}
         /\ MobileGrounded(c, events, values)
<1>1. OfMobile!OnlyChange(events, tools.create) = OnlyChange(events, tools.create)
  BY Zenon DEF OfMobile!OnlyChange, OnlyChange, OfMobile!ChangesIn, ChangesIn, OfMobile!First,
               First, OfMobile!NoChange, NoChange, OfMobile!Cardinality, Cardinality
<1>2. OfMobile!ChangesIn(events) = ChangesIn(events)
  BY Zenon DEF OfMobile!ChangesIn, ChangesIn
<1>3. OfMobile!OneChange(events, tools.create) <=> OneChange(events, tools.create)
  BY <1>2, Zenon DEF OfMobile!OneChange, OneChange, OfMobile!Cardinality, Cardinality
<1>4. \A p : OfMobile!Observed(events, tools.get, p) = Observed(events, tools.get, p)
  BY Zenon DEF OfMobile!Observed, OfMobile!Observations, Observed, Observations
<1> DEFINE change == OfMobile!OnlyChange(events, tools.create)
           p1 == OfMobile!RouteCompleted(c.task, events)
           p2 == authorization = "authorized"
           p4 == OfMobile!OneChange(events, tools.create)
           p5 == c.task.route = "verify" => OfMobile!Observed(events, tools.get, change) # {}
           p6 == OfMobile!Grounded(c.task, events, values)
           checks == <<<<"message_condition_not_observed", p1>>, <<"mutation_not_authorized", p2>>,
                       <<"requested_change_not_recorded", requested>>, <<"unintended_state_change", p4>>,
                       <<"saved_change_not_observed", p5>>, <<"final_response_not_grounded", p6>>>>
<1>5. OfMobile!AssessMutation(c.task, events, authorization, tools, requested, values, key)
          = OfMobile!Assessment(checks, key)
  BY Zenon DEF OfMobile!AssessMutation
<1> HIDE DEF p1, p2, p4, p5, p6
<1>6. p1 /\ requested /\ p4 /\ p5 /\ p6
  BY <1>5, SixPass
<1>7. QED
  BY <1>1, <1>3, <1>4, <1>6, MobileRouteCompleted DEF p1, p4, p5, p6

(* What a search, a reminder and a draft reply were found to be.                *)
MobileAssessed(c, events) ==
    LET reminder == OnlyChange(events, "create_reminder")
        draft == OnlyChange(events, "create_draft_reply")
        content == Get(draft, "content", None)
    IN  /\ MobileCompleted(c, events)
        /\ c.task.action = "create_reminder" =>
               /\ OneChange(events, "create_reminder")
               /\ reminder = [message_id |-> c.task.target.message_id,
                              reminder_text |-> c.task.text, remind_at |-> c.task.at]
               /\ c.task.route = "verify" => Observed(events, "get_reminder", reminder) # {}
               /\ MobileGrounded(c, events, {c.task.text, c.task.at})
        /\ c.task.action = "create_draft_reply" =>
               /\ OneChange(events, "create_draft_reply")
               /\ draft.message_id = c.task.target.message_id
               /\ IF c.task.constraint = "exact" THEN content = c.task.exact ELSE ReplyAllowed(content)
               /\ c.task.route = "verify" => Observed(events, "get_draft_reply", draft) # {}
               /\ MobileGrounded(c, events, {content} \ {None})
        /\ c.task.action = "search_messages" => MobileGrounded(c, events, {})

LEMMA MobilePass ==
  ASSUME NEW c \in Case, NEW events, NEW authorization, c.domain = "mobile",
         Spotless(OfMobile!Assess(c, events, authorization))
  PROVE  MobileAssessed(c, events)
<1>0. c.task.action \in {"search_messages", "create_reminder", "create_draft_reply"}
  BY TaskAssumption, Zenon DEF CompiledTask
<1>1. CASE c.task.action = "create_reminder"
  <2> DEFINE tools == [create |-> "create_reminder", get |-> "get_reminder"]
             wanted == [message_id |-> c.task.target.message_id,
                        reminder_text |-> c.task.text, remind_at |-> c.task.at]
             requested == OfMobile!OnlyChange(events, "create_reminder") = wanted
             values == {c.task.text, c.task.at}
             key == <<"mobile_messages.reminder", c.task.route>>
  <2>1. Spotless(OfMobile!AssessReminder(c.task, events, authorization))
    BY <1>1 DEF OfMobile!Assess
  <2>2. OfMobile!AssessReminder(c.task, events, authorization)
            = OfMobile!AssessMutation(c.task, events, authorization, tools, requested, values, key)
    BY Zenon DEF OfMobile!AssessReminder
  <2>3. tools.create = "create_reminder" /\ tools.get = "get_reminder"
    OBVIOUS
  <2>4. OfMobile!OnlyChange(events, "create_reminder") = OnlyChange(events, "create_reminder")
    BY Zenon DEF OfMobile!OnlyChange, OnlyChange, OfMobile!ChangesIn, ChangesIn, OfMobile!First,
                 First, OfMobile!NoChange, NoChange, OfMobile!Cardinality, Cardinality
  <2> HIDE DEF tools, requested, values, key, wanted
  <2>5. /\ MobileCompleted(c, events) /\ requested
        /\ OneChange(events, tools.create)
        /\ c.task.route = "verify" => Observed(events, tools.get, OnlyChange(events, tools.create)) # {}
        /\ MobileGrounded(c, events, values)
    BY <2>1, <2>2, MobileMutationPasses
  <2>6. QED
    BY <1>1, <2>3, <2>4, <2>5, Zenon DEF MobileAssessed, requested, values, wanted
<1>2. CASE c.task.action = "create_draft_reply"
  <2> DEFINE tools == [create |-> "create_draft_reply", get |-> "get_draft_reply"]
             change == OfMobile!OnlyChange(events, "create_draft_reply")
             content == OfMobile!Get(change, "content", None)
             asked == IF c.task.constraint = "exact" THEN content = c.task.exact ELSE ReplyAllowed(content)
             requested == /\ change # OfMobile!NoChange /\ change.message_id = c.task.target.message_id
                          /\ asked
             values == {content} \ {None}
             key == <<"mobile_messages.draft", c.task.route, c.task.constraint = "exact">>
  <2>1. Spotless(OfMobile!AssessDraft(c.task, events, authorization))
    BY <1>2 DEF OfMobile!Assess
  <2>2. OfMobile!AssessDraft(c.task, events, authorization)
            = OfMobile!AssessMutation(c.task, events, authorization, tools, requested, values, key)
    BY Zenon DEF OfMobile!AssessDraft
  <2>3. tools.create = "create_draft_reply" /\ tools.get = "get_draft_reply"
    OBVIOUS
  <2>4. change = OnlyChange(events, "create_draft_reply")
    BY Zenon DEF OfMobile!OnlyChange, OnlyChange, OfMobile!ChangesIn, ChangesIn, OfMobile!First,
                 First, OfMobile!NoChange, NoChange, OfMobile!Cardinality, Cardinality
  <2>5. content = Get(change, "content", None)
    BY Zenon DEF OfMobile!Get, Get
  <2> HIDE DEF tools, requested, values, key, change, content
  <2>6. /\ MobileCompleted(c, events) /\ requested
        /\ OneChange(events, tools.create)
        /\ c.task.route = "verify" => Observed(events, tools.get, OnlyChange(events, tools.create)) # {}
        /\ MobileGrounded(c, events, values)
    BY <2>1, <2>2, MobileMutationPasses
  <2>7. /\ change.message_id = c.task.target.message_id
        /\ IF c.task.constraint = "exact" THEN content = c.task.exact ELSE ReplyAllowed(content)
    BY <2>6 DEF requested
  <2>8. QED
    BY <1>2, <2>3, <2>4, <2>5, <2>6, <2>7, Zenon DEF MobileAssessed, values
<1>3. CASE c.task.action = "search_messages"
  <2>1. Spotless(OfMobile!AssessSearch(c.task, events))
    BY <1>3 DEF OfMobile!Assess
  <2>2. /\ OfMobile!RouteCompleted(c.task, events)
        /\ OfMobile!Grounded(c.task, events, {})
    <3> DEFINE p1 == OfMobile!RouteCompleted(c.task, events)
               p2 == OfMobile!ChangesIn(events) = {}
               p3 == OfMobile!Grounded(c.task, events, {})
               key == <<"mobile_messages.search", c.task.route>>
               checks == <<<<"requested_message_not_observed", p1>>, <<"unintended_state_change", p2>>,
                           <<"final_response_not_grounded", p3>>>>
    <3>1. OfMobile!AssessSearch(c.task, events) = OfMobile!Assessment(checks, key)
      BY Zenon DEF OfMobile!AssessSearch
    <3> HIDE DEF p1, p2, p3, key
    <3>2. p1 /\ p2 /\ p3
      BY <2>1, <3>1, ThreePass
    <3>3. QED
      BY <3>2 DEF p1, p3
  <2>3. QED
    BY <1>3, <2>2, MobileRouteCompleted DEF MobileAssessed
<1>4. QED
  BY <1>0, <1>1, <1>2, <1>3

LEMMA MobileDemonstrates ==
  ASSUME case \in Case, case.domain = "mobile", LoopInvariant, Admitted, BuiltinAssessmentsRun,
         MobileKept(case, attempt), MobileTrace(case, attempt)
  PROVE  /\ OfMobile!FollowedTheRoute(LostArguments(case, attempt.events) # {})
         /\ OfMobile!ReportsTheState
<1> DEFINE c == case
           lost == LostArguments(case, attempt.events) # {}
           events == attempt.events
           world == attempt.session.world
           target == c.task.target
           id == target.message_id
           found == MobileFound(c, events)
           shown == Observations(events, "list_message_senders")
           failures == FailuresOf(events, "search_messages", "message_not_found")
           failed == IF lost THEN failures ELSE MobileProbes(c, events)
           reads == Observations(events, "get_reminder") \cup Observations(events, "get_draft_reply")
           changes == ChangesIn(events)
<1>0. c.task.action \in {"search_messages", "create_reminder", "create_draft_reply"}
  BY TaskAssumption, Zenon DEF CompiledTask
<1>1. /\ ~attempt.unsafe
      /\ AssessEvents(c, events, attempt.authorization).reasons = <<>>
      /\ FinalContent(events) = events[Len(events)].content
      /\ \E n \in Nat : DOMAIN events = 1 .. n
  BY AdmittedEpisodes DEF LoopInvariant, IsAttempt
<1>2. MobileAssessed(c, events)
  <2>1. AssessEvents(c, events, attempt.authorization) = OfMobile!Assess(c, events, attempt.authorization)
    BY DEF BuiltinAssessmentsRun, BuiltinAssess, BuiltinDomainIds
  <2>2. QED
    BY <1>1, <2>1, MobilePass DEF Spotless
<1>3. PICK n \in Nat : DOMAIN events = 1 .. n
  BY <1>1
<1>4. /\ found \subseteq 1 .. n /\ shown \subseteq 1 .. n /\ changes \subseteq 1 .. n
      /\ MobileListings(c, events) \subseteq shown
  BY <1>3 DEF MobileFound, Observed, Observations, ChangesIn, MobileListings
<1>5. \/ failures \subseteq failed
      \/ \A i \in ActionsOf(events, "search_messages", MobileStale(c)) : i + 1 \in failed
  BY DEF MobileTrace, SearchesFail, MobileProbes, MobileStale
<1>6. \A i \in changes : \E t \in found : t < i
  BY <1>1 DEF MobileKept, MobileHistory, Shows
<1>7. RouteFollowed(found, shown, failed, changes, c.task.route)
  <2> DEFINE listings == MobileListings(c, events)
             probes == ActionsOf(events, "search_messages", MobileStale(c))
  <2>1. Completed(found, listings, probes, failures, c.task.route)
    BY <1>2 DEF MobileAssessed, MobileCompleted
  <2>2. probes \subseteq 1 .. n /\ failures \subseteq 1 .. n
    BY <1>3 DEF ActionsOf, FailuresOf
  <2>3. /\ found \subseteq Nat /\ listings \subseteq Nat /\ probes \subseteq Nat
        /\ failures \subseteq Nat /\ changes \subseteq Nat
    BY <1>4, <2>2
  <2>4. /\ listings \subseteq shown
        /\ failures \subseteq failed \/ \A probe \in probes : probe + 1 \in failed
    BY <1>4, <1>5
  <2> HIDE DEF found, shown, failed, changes, listings, probes, failures
  <2>5. QED
    BY <1>6, <2>1, <2>3, <2>4, CompletedRoute
(* What was saved was read after it was changed: nothing of the target was      *)
(* there before.                                                                *)
<1>8. ASSUME NEW tool, NEW known, NEW i, changes = {i}, "message_id" \in DOMAIN events[i].payload,
             events[i].payload.message_id = id, id \notin known,
             ReadsFollow(events, tool, "message_id", known),
             Observed(events, tool, events[i].payload) # {}
      PROVE  \E read \in Observations(events, tool) : i < read /\ events[read].payload = events[i].payload
  <2>1. PICK read \in Observed(events, tool, events[i].payload) : TRUE
    BY <1>8
  <2>2. read \in Observations(events, tool) /\ events[read].payload = events[i].payload
    BY <2>1, Zenon DEF Observed
  <2> HIDE DEF changes
  <2>3. \E j \in changes : j < read
    BY <1>8, <2>2, Zenon DEF ReadsFollow, changes
  <2>4. QED
    BY <1>8, <2>2, <2>3
<1>9. ASSUME c.task.action = "create_reminder"
      PROVE  /\ \E i \in changes :
                    c.task.route = "verify" => \E read \in reads : i < read /\ events[read].payload = events[i].payload
             /\ {target.sender, OfMobile!QueryFor(target)}
                    \cup {world.reminders[id].reminder_text, world.reminders[id].remind_at}
                    \subseteq FinalContent(events)
  <2> DEFINE change == OnlyChange(events, "create_reminder")
  <2>1. /\ OneChange(events, "create_reminder")
        /\ change = [message_id |-> id, reminder_text |-> c.task.text, remind_at |-> c.task.at]
        /\ c.task.route = "verify" => Observed(events, "get_reminder", change) # {}
        /\ MobileGrounded(c, events, {c.task.text, c.task.at})
    BY <1>2, <1>9, Zenon DEF MobileAssessed
  <2>2. PICK i \in changes : changes = {i} /\ change = events[i].payload
    BY <1>1, <2>1, TheOnlyChange
  <2>3. /\ id \notin DOMAIN c.frozen.reminders
        /\ world.reminders[id].reminder_text = c.task.text /\ world.reminders[id].remind_at = c.task.at
    <3> HIDE DEF changes, world, change
    <3>1. MobileChanged(c, world)
      BY <2>2 DEF MobileKept, changes, world
    <3>2. PICK made :
            /\ id \notin DOMAIN c.frozen.reminders
            /\ made.reminder_text = c.task.text /\ made.remind_at = c.task.at
            /\ world = [MobileWorld(c) EXCEPT !.reminders = OfMobile!Put(c.frozen.reminders, id, made)]
      BY <1>9, <3>1 DEF MobileChanged
    <3>3. world.reminders = OfMobile!Put(c.frozen.reminders, id, made)
      BY <3>2 DEF MobileWorld
    <3>4. OfMobile!Put(c.frozen.reminders, id, made)[id] = made
      BY DEF OfMobile!Put
    <3>5. QED
      BY <3>2, <3>3, <3>4
  <2> HIDE DEF change
  <2>4. "message_id" \in DOMAIN events[i].payload /\ events[i].payload.message_id = id
    BY <2>1, <2>2
  <2>5. ReadsFollow(events, "get_reminder", "message_id", DOMAIN c.frozen.reminders)
    BY DEF MobileTrace
  <2> HIDE DEF changes, events, id, world
  <2>6. c.task.route = "verify" =>
            \E read \in Observations(events, "get_reminder") :
                i < read /\ events[read].payload = events[i].payload
    BY <1>8, <2>1, <2>2, <2>3, <2>4, <2>5
  <2>7. QED
    BY <2>1, <2>2, <2>3, <2>6 DEF MobileGrounded
<1>10. ASSUME c.task.action = "create_draft_reply"
       PROVE  /\ \E i \in changes :
                     c.task.route = "verify" => \E read \in reads : i < read /\ events[read].payload = events[i].payload
              /\ {target.sender, OfMobile!QueryFor(target)} \cup {world.drafts[id].content}
                     \subseteq FinalContent(events)
  <2> DEFINE change == OnlyChange(events, "create_draft_reply")
             content == Get(change, "content", None)
  <2>1. /\ OneChange(events, "create_draft_reply")
        /\ change.message_id = id
        /\ c.task.route = "verify" => Observed(events, "get_draft_reply", change) # {}
        /\ MobileGrounded(c, events, {content} \ {None})
    BY <1>2, <1>10, Zenon DEF MobileAssessed
  <2>2. PICK i \in changes : changes = {i} /\ change = events[i].payload
    BY <1>1, <2>1, TheOnlyChange
  <2>3. events[i].payload = Draft(world.drafts[id])
    BY <1>10, <2>2 DEF MobileTrace, ChangesHold
  <2>4. id \notin DOMAIN c.frozen.drafts /\ ReplyAllowed(world.drafts[id].content)
    <3> HIDE DEF changes, world, change
    <3>1. MobileChanged(c, world)
      BY <2>2 DEF MobileKept, changes, world
    <3>2. PICK made :
            /\ id \notin DOMAIN c.frozen.drafts
            /\ ReplyAllowed(made.content)
            /\ world = [MobileWorld(c) EXCEPT !.drafts = OfMobile!Put(c.frozen.drafts, id, made)]
      BY <1>10, <3>1 DEF MobileChanged
    <3>3. world.drafts = OfMobile!Put(c.frozen.drafts, id, made)
      BY <3>2 DEF MobileWorld
    <3>4. OfMobile!Put(c.frozen.drafts, id, made)[id] = made
      BY DEF OfMobile!Put
    <3>5. world.drafts[id] = made
      BY <3>3, <3>4
    <3>6. QED
      BY <3>2, <3>5
  <2> HIDE DEF change, world
  <2>5. content = world.drafts[id].content
    BY <2>2, <2>3 DEF Get, Draft, OfMobile!DraftFields
  <2>6. "message_id" \in DOMAIN events[i].payload /\ events[i].payload.message_id = id
    BY <2>1, <2>2, <2>3 DEF Draft, OfMobile!DraftFields
  <2>7. ReadsFollow(events, "get_draft_reply", "message_id", DOMAIN c.frozen.drafts)
    BY DEF MobileTrace
  <2>8. content # None
    <3>1. ~ReplyAllowed(None)
      BY TaskAssumption
    <3>2. QED
      BY <2>4, <2>5, <3>1
  <2> HIDE DEF changes, events, id, content
  <2>9. c.task.route = "verify" =>
            \E read \in Observations(events, "get_draft_reply") :
                i < read /\ events[read].payload = events[i].payload
    BY <1>8, <2>1, <2>2, <2>4, <2>6, <2>7
  <2>10. QED
    BY <2>1, <2>2, <2>5, <2>8, <2>9 DEF MobileGrounded
<1>11. OfMobile!FollowedTheRoute(lost)
  <2>1. /\ OfMobile!SawTarget = found /\ OfMobile!Listings = shown
        /\ OfMobile!Changes = changes /\ OfMobile!task = c.task
        /\ \A i : OfMobile!Event(i) = events[i]
        /\ OfMobile!Reads = reads
    BY DEF OfMobile!SawTarget, OfMobile!Observed, OfMobile!Listings,
           OfMobile!Observations, OfMobile!task, MobileFound, Observed, Observations,
           OfMobile!Changes, OfMobile!ChangesIn, ChangesIn, OfMobile!Event, OfMobile!Reads
  <2>2. OfMobile!FailedSearches(lost) = failed
    BY DEF OfMobile!FailedSearches, OfMobile!FailedProbes, OfMobile!Events, OfMobile!Event, OfMobile!task,
           OfMobile!FailuresOf, MobileProbes, FailedAfter, FailuresOf
  <2> HIDE DEF found, shown, failed, reads, changes, events, lost, c
  <2>3. PICK t \in found :
         /\ c.task.route = "directory" => \E listing \in shown : listing < t
         /\ c.task.route = "recovery" =>
                \E probe \in failed, listing \in shown : probe < listing /\ listing < t
         /\ \A i \in changes : t < i
    BY <1>7 DEF RouteFollowed
  <2>4. c.task.action # "search_messages" =>
            \E i \in changes :
                /\ t < i
                /\ c.task.route = "verify" =>
                       \E read \in reads : i < read /\ events[read].payload = events[i].payload
    BY <1>0, <1>9, <1>10, <2>3
  <2>5. QED
    BY <2>1, <2>2, <2>3, <2>4, Zenon DEF OfMobile!FollowedTheRoute
<1>12. OfMobile!ReportsTheState
  <2>1. c.frozen.messages[id] = target
    BY TaskAssumption, Zenon DEF CompiledTask
  <2>2. c.task.action = "search_messages" =>
            {target.sender, OfMobile!QueryFor(target)} \cup {} \subseteq FinalContent(events)
    BY <1>2, Zenon DEF MobileAssessed, MobileGrounded
  <2>3. /\ OfMobile!task = c.task /\ OfMobile!Event(Len(attempt.events)) = events[Len(events)]
        /\ OfMobile!world = world
    BY DEF OfMobile!task, OfMobile!Event, OfMobile!world
  <2> HIDE DEF events, world
  <2>4. QED
    BY <1>0, <1>1, <1>9, <1>10, <2>1, <2>2, <2>3 DEF OfMobile!ReportsTheState
<1>13. QED
  BY <1>11, <1>12

--------------------------------------------------------------------------------
(* Workspace Tasks: what the events of a demonstration are worth.               *)

(* The decimals of different numbers differ.                                    *)
NamesDiffer ==
    \A m, n \in Nat : OfWorkspace!MissingName(m) = OfWorkspace!MissingName(n) => m = n

LEMMA MoreThanRoom ==
  ASSUME NEW S, IsFiniteSet(S), NEW T, IsFiniteSet(T), Cardinality(T) < Cardinality(S), NEW f \in [S -> T]
  PROVE  \E x, y \in S : x # y /\ f[x] = f[y]
<1> SUFFICES ASSUME f \in Injection(S, T) PROVE FALSE
  BY DEF Injection, IsInjective
<1>1. Cardinality(S) <= Cardinality(T)
  BY FS_Injection
<1>2. Cardinality(S) \in Nat /\ Cardinality(T) \in Nat
  BY FS_CardinalityType
<1>3. QED
  BY <1>1, <1>2

(* No document has the missing query: there is one name more than documents.    *)
LEMMA MissingQueriesAreFree ==
  ASSUME NamesDiffer, NEW items, IsFiniteSet(DOMAIN items)
  PROVE  \A id \in DOMAIN items :
             items[id].kind = "document" => items[id].query # OfWorkspace!MissingQuery(items)
<1> DEFINE documents == {i \in DOMAIN items : items[i].kind = "document"}
           occupied == {items[id].query : id \in documents}
           k == Cardinality(occupied)
           free == {n \in 0 .. k : OfWorkspace!MissingName(n) \notin occupied}
<1>1. IsFiniteSet(occupied)
  <2> DEFINE f == [id \in documents |-> items[id].query]
  <2>1. IsFiniteSet(documents)
    BY FS_Subset
  <2>2. f \in Surjection(documents, occupied)
    BY DEF Surjection
  <2> HIDE DEF f
  <2>3. QED
    BY <2>1, <2>2, FS_Surjection
<1>2. k \in Nat
  BY <1>1, FS_CardinalityType
<1>3. free # {}
  <2> SUFFICES ASSUME free = {} PROVE FALSE
    OBVIOUS
  <2> DEFINE f == [n \in 0 .. k |-> OfWorkspace!MissingName(n)]
  <2> HIDE DEF occupied, k
  <2>1. f \in [0 .. k -> occupied]
    OBVIOUS
  <2>2. IsFiniteSet(0 .. k) /\ Cardinality(0 .. k) = k + 1
    BY <1>2, FS_Interval
  <2>3. Cardinality(occupied) < Cardinality(0 .. k)
    BY <1>2, <2>2 DEF k
  <2> HIDE DEF f
  <2>4. \E x, y \in 0 .. k : x # y /\ f[x] = f[y]
    <3> DEFINE S == 0 .. k
    <3>1. f \in [S -> occupied] /\ IsFiniteSet(S) /\ Cardinality(occupied) < Cardinality(S)
      BY <2>1, <2>2, <2>3
    <3> HIDE DEF S
    <3>2. \E x, y \in S : x # y /\ f[x] = f[y]
      BY <1>1, <3>1, MoreThanRoom
    <3>3. QED
      BY <3>2 DEF S
  <2>5. QED
    BY <1>2, <2>4 DEF NamesDiffer, f
<1>4. free \in SUBSET Nat
  BY <1>2
<1>5. First(free) \in free
  BY <1>3, <1>4, FirstIsFirst
<1>6. OfWorkspace!MissingName(First(free)) \notin occupied
  BY <1>5
<1>7. OfWorkspace!MissingQuery(items) = OfWorkspace!MissingName(First(free))
  BY Zenon DEF OfWorkspace!MissingQuery, OfWorkspace!First, First, OfWorkspace!Cardinality, Cardinality
<1>8. QED
  BY <1>6, <1>7

(* The fields of what a task makes, and a record of them.                       *)
Made(task) ==
    IF task.action = "create_workspace_task" THEN OfWorkspace!TaskFields ELSE OfWorkspace!CommentFields
Whole(record, task) == [f \in Made(task) |-> record[f]]
(* What a search looks for that is to fail: the stale query, or the missing one. *)
Vain(c) ==
    IF c.task.target = None THEN [query |-> c.task.missing, kind |-> "document"]
    ELSE [query |-> OfWorkspace!Stale(c.task.target.query), kind |-> c.task.target.kind]
(* A missing item stays missing: the world has what was made and nothing else.  *)
WorkspaceTrace(c, a) ==
    /\ LostArguments(c, a.events) = {} =>
           SearchesFail(a.events, "search_workspace_items", "item_not_found", Vain(c))
    /\ ReadsFollow(a.events, "get_workspace_task", "task_id", {})
    /\ ReadsFollow(a.events, "get_workspace_comment", "comment_id", {})
    /\ \A id \in DOMAIN a.session.world :
           /\ DOMAIN a.session.world[id] = Made(c.task)
           /\ ChangesHold(a.events, Whole(a.session.world[id], c.task))

LEMMA VainTexts ==
  ASSUME NEW c \in Case, c.domain = "workspace"
  PROVE  /\ Vain(c) = [query |-> Vain(c).query, kind |-> Vain(c).kind]
         /\ NotText \notin {Vain(c).query, Vain(c).kind}
<1>1. /\ c.task.target = None => c.task.missing # NotText
      /\ c.task.target # None =>
             NotText \notin {OfWorkspace!Stale(c.task.target.query), c.task.target.kind}
  BY TaskAssumption DEF CompiledTask
<1>2. NotText # "document"
  BY DEF NotText
<1>3. CASE c.task.target = None
  BY <1>1, <1>2, <1>3 DEF Vain
<1>4. CASE c.task.target # None
  BY <1>1, <1>4 DEF Vain
<1>5. QED
  BY <1>3, <1>4

LEMMA WorkspaceReplies ==
  ASSUME NEW c \in Case, NEW s, NEW call, c.domain = "workspace",
         call.tool \in DOMAIN OfWorkspace!Tools(c)
  PROVE  LET done == OfWorkspace!Execute(c, s, call)
             result == done.result
         IN  /\ /\ call.tool = "search_workspace_items"
                /\ call.args.query = Vain(c).query /\ call.args.kind = Vain(c).kind
                => result.type = "tool_failure" /\ result.code = "item_not_found"
             /\ call.tool \in {"get_workspace_task", "get_workspace_comment"} /\ result.type = "observation" =>
                    DOMAIN s.world # {}
             /\ result.type = "state_change" =>
                    /\ call.tool = c.task.action
                    /\ LET id == IF call.tool = "create_workspace_task"
                                 THEN OfWorkspace!CreatedTaskId(call.args.project_id, call.args.title)
                                 ELSE OfWorkspace!CreatedCommentId(call.args.task_id, call.args.comment)
                       IN  result.payload = IF call.tool = "create_workspace_task"
                                            THEN OfWorkspace!Put(call.args, "task_id", id)
                                            ELSE OfWorkspace!Put(call.args, "comment_id", id)
<1> DEFINE done == OfWorkspace!Execute(c, s, call)
           args == call.args
           target == c.task.target
           missed == OfWorkspace!Failure("item_not_found")
<1>0. c.task.action \in {"search_workspace_items", "create_workspace_task", "add_workspace_comment"}
  BY TaskAssumption DEF CompiledTask
<1>1. call.tool \in {"search_workspace_items", "list_workspace_projects", c.task.action,
                     "get_workspace_task", "get_workspace_comment"}
  BY DEF OfWorkspace!Tools
<1>2. CASE call.tool = "search_workspace_items"
  <2>1. done = OfWorkspace!SearchItems(c, s, args)
    BY <1>2 DEF OfWorkspace!Execute
  <2>2. missed.type = "tool_failure" /\ missed.code = "item_not_found"
    BY DEF OfWorkspace!Failure
  <2> HIDE DEF missed
  <2>3. done.result.type \in {"observation", "tool_failure"}
    BY <2>1, <2>2 DEF OfWorkspace!SearchItems, OfWorkspace!Answer, OfWorkspace!Observation, missed
  <2>4. ASSUME args.query = Vain(c).query, args.kind = Vain(c).kind
        PROVE  done.result = missed
    <3>1. CASE target = None
      BY <2>1, <3>1 DEF OfWorkspace!SearchItems, OfWorkspace!Answer, missed
    <3>2. CASE target # None
      <4>1. args.query = OfWorkspace!Stale(target.query) /\ args.kind = target.kind
        BY <2>4, <3>2 DEF Vain
      <4>2. done = OfWorkspace!Answer([s EXCEPT !.probeFailed = TRUE], missed)
        BY <2>1, <3>2, <4>1, Zenon DEF OfWorkspace!SearchItems, missed
      <4>3. QED
        BY <4>2 DEF OfWorkspace!Answer
    <3>3. QED
      BY <3>1, <3>2
  <2>5. QED
    BY <1>2, <2>2, <2>3, <2>4
<1>3. CASE call.tool = "list_workspace_projects"
  <2>1. done.result.type = "observation"
    BY <1>3 DEF OfWorkspace!Execute, OfWorkspace!Answer, OfWorkspace!Observation
  <2>2. QED
    BY <1>3, <2>1
<1>4. \A refusals, own, id, change :
          LET result == OfWorkspace!Change(c, s, refusals, own, id, change).result
          IN  \/ result.type = "unauthorized_mutation"
              \/ result.type = "state_change" /\ result.payload = change
  <2> SUFFICES ASSUME NEW refusals, NEW own, NEW id, NEW change
               PROVE  LET result == OfWorkspace!Change(c, s, refusals, own, id, change).result
                      IN  \/ result.type = "unauthorized_mutation"
                          \/ result.type = "state_change" /\ result.payload = change
    OBVIOUS
  <2> DEFINE answer == OfWorkspace!Change(c, s, refusals, own, id, change)
  <2>1. \/ \E code : answer = OfWorkspace!Answer(s, OfWorkspace!Unauthorized(code))
        \/ \E t : answer = OfWorkspace!Answer(t, OfWorkspace!StateChange(change))
    <3> DEFINE t == [s EXCEPT !.world = OfWorkspace!Put(@, id, change)]
               refusal == OfWorkspace!EarlyReturn(refusals, OfWorkspace!EarlyReturn(own, OfWorkspace!EarlyReturn(<<
                   <<id \in DOMAIN OfWorkspace!Reopen(c.frozen) \cup DOMAIN s.world,
                     "unintended_state_change">>>>, None)))
    <3>1. answer = IF refusal # None THEN OfWorkspace!Answer(s, OfWorkspace!Unauthorized(refusal))
                   ELSE OfWorkspace!Answer(t, OfWorkspace!StateChange(change))
      BY Zenon DEF OfWorkspace!Change
    <3>2. CASE refusal # None
      <4>1. answer = OfWorkspace!Answer(s, OfWorkspace!Unauthorized(refusal))
        BY <3>1, <3>2, Zenon
      <4> HIDE DEF refusal, t, answer
      <4>2. QED
        BY <4>1, Zenon
    <3>3. CASE refusal = None
      <4>1. answer = OfWorkspace!Answer(t, OfWorkspace!StateChange(change))
        BY <3>1, <3>3, Zenon
      <4> HIDE DEF refusal, t, answer
      <4>2. QED
        BY <4>1, Zenon
    <3>4. QED
      BY <3>2, <3>3, Zenon
  <2> HIDE DEF answer
  <2>2. \/ answer.result.type = "unauthorized_mutation"
        \/ answer.result.type = "state_change" /\ answer.result.payload = change
    BY <2>1 DEF OfWorkspace!Answer, OfWorkspace!Unauthorized, OfWorkspace!StateChange
  <2>3. QED
    BY <2>2 DEF answer
<1>5. CASE call.tool = "create_workspace_task"
  <2> DEFINE id == OfWorkspace!CreatedTaskId(args.project_id, args.title)
  <2>1. done = OfWorkspace!CreateTask(c, s, args)
    BY <1>5 DEF OfWorkspace!Execute
  <2>2. done.result.type = "state_change" => done.result.payload = OfWorkspace!Put(args, "task_id", id)
    <3>1. \E refusals, own :
             done = OfWorkspace!Change(c, s, refusals, own, id, OfWorkspace!Put(args, "task_id", id))
      BY <2>1, Zenon DEF OfWorkspace!CreateTask
    <3>2. QED
      BY <1>4, <3>1
  <2>3. done.result.type \in {"unauthorized_mutation", "state_change"}
    <3>1. \E refusals, own, change : done = OfWorkspace!Change(c, s, refusals, own, id, change)
      BY <2>1, Zenon DEF OfWorkspace!CreateTask
    <3>2. QED
      BY <1>4, <3>1
  <2>4. QED
    BY <1>1, <1>5, <2>2, <2>3
<1>6. CASE call.tool = "add_workspace_comment"
  <2> DEFINE id == OfWorkspace!CreatedCommentId(args.task_id, args.comment)
  <2>1. done = OfWorkspace!AddComment(c, s, args)
    BY <1>6 DEF OfWorkspace!Execute
  <2>2. done.result.type = "state_change" => done.result.payload = OfWorkspace!Put(args, "comment_id", id)
    <3>1. \E refusals, own :
             done = OfWorkspace!Change(c, s, refusals, own, id, OfWorkspace!Put(args, "comment_id", id))
      BY <2>1, Zenon DEF OfWorkspace!AddComment
    <3>2. QED
      BY <1>4, <3>1
  <2>3. done.result.type \in {"unauthorized_mutation", "state_change"}
    <3>1. \E refusals, own, change : done = OfWorkspace!Change(c, s, refusals, own, id, change)
      BY <2>1, Zenon DEF OfWorkspace!AddComment
    <3>2. QED
      BY <1>4, <3>1
  <2>4. QED
    BY <1>1, <1>6, <2>2, <2>3
<1>7. CASE call.tool \in {"get_workspace_task", "get_workspace_comment"}
  <2>1. \E id, code : done = OfWorkspace!GetMade(s, id, code)
    BY <1>7 DEF OfWorkspace!Execute
  <2>2. \/ done.result.type = "tool_failure"
        \/ done.result.type = "observation" /\ DOMAIN s.world # {}
    BY <2>1 DEF OfWorkspace!GetMade, OfWorkspace!Answer, OfWorkspace!Failure, OfWorkspace!Observation
  <2>3. QED
    BY <1>7, <2>2
<1>8. QED
  BY <1>0, <1>1, <1>2, <1>3, <1>5, <1>6, <1>7

--------------------------------------------------------------------------------
LEMMA WorkspaceTraceStarts ==
  ASSUME NEW c \in Case, c.domain = "workspace", BuiltinDomainsRun
  PROVE  WorkspaceTrace(c, NewAttempt(c))
<1>1. DOMAIN NewAttempt(c).events = {}
  BY StartedAttempt
<1>2. DOMAIN NewAttempt(c).session.world = {}
  <2>1. NewAttempt(c).session = OfWorkspace!Fresh(c)
    BY StartedAttempt DEF BuiltinDomainsRun, BuiltinStart, BuiltinDomainIds
  <2>2. QED
    BY <2>1 DEF OfWorkspace!Fresh
<1>3. QED
  BY <1>1, <1>2, NothingShown DEF WorkspaceTrace

LEMMA WorkspaceTraceStays ==
  ASSUME NEW c \in Case, NEW a, NEW b, WorkspaceTrace(c, a), Quiet(a, b)
  PROVE  WorkspaceTrace(c, b)
<1>1. b.session = a.session
  BY DEF Quiet
<1>2. QED
  BY <1>1, QuietShows, NothingWasLost DEF WorkspaceTrace

(* The one record a change makes of its arguments, with all its fields.         *)
LEMMA WorkspaceRecords ==
  ASSUME NEW c \in Case, NEW s, NEW call, NEW t, c.domain = "workspace", BuiltinDomainsRun, Callable(c, call),
         \/ call.tool = "create_workspace_task" /\ TaskMade(c.task, s, call.args, t)
         \/ call.tool = "add_workspace_comment" /\ CommentMade(c.task, s, call.args, t)
  PROVE  LET id == IF call.tool = "create_workspace_task"
                   THEN OfWorkspace!CreatedTaskId(call.args.project_id, call.args.title)
                   ELSE OfWorkspace!CreatedCommentId(call.args.task_id, call.args.comment)
             payload == IF call.tool = "create_workspace_task"
                        THEN OfWorkspace!Put(call.args, "task_id", id)
                        ELSE OfWorkspace!Put(call.args, "comment_id", id)
         IN  /\ s.world = NothingMade
             /\ DOMAIN t.world = {id} /\ t.world[id] = payload
             /\ DOMAIN payload = Made(c.task)
             /\ OutputFields(EpisodeTools(c), call.tool) = Made(c.task)
<1> DEFINE args == call.args
           tools == OfWorkspace!Tools(c)
<1>1. EpisodeTools(c) = tools /\ call.tool \in DOMAIN tools
  BY DEF BuiltinDomainsRun, BuiltinTools, BuiltinDomainIds, Callable
<1>2. \A id, payload : /\ DOMAIN OfWorkspace!Put(NothingMade, id, payload) = {id}
                       /\ OfWorkspace!Put(NothingMade, id, payload)[id] = payload
  BY DEF OfWorkspace!Put, NothingMade
<1>3. CASE call.tool = "create_workspace_task" /\ TaskMade(c.task, s, args, t)
  <2> DEFINE id == OfWorkspace!CreatedTaskId(args.project_id, args.title)
             payload == OfWorkspace!Put(args, "task_id", id)
  <2>1. /\ c.task.action = "create_workspace_task" /\ s.world = NothingMade
        /\ t.world = OfWorkspace!Put(s.world, id, payload)
    BY <1>3, Zenon DEF TaskMade
  <2>2. DOMAIN args = {"project_id", "title", "priority", "due_label"}
    BY <1>3, WorkspaceTools
  <2>3. DOMAIN payload = OfWorkspace!TaskFields
    BY <2>2 DEF OfWorkspace!Put, OfWorkspace!TaskFields
  <2>4. OutputFields(EpisodeTools(c), call.tool) = OfWorkspace!TaskFields
    <3>1. tools[call.tool].output = OfWorkspace!TaskFields
      BY <1>1, <1>3 DEF OfWorkspace!Tools, OfWorkspace!Tool
    <3> HIDE DEF tools
    <3>2. QED
      BY <1>1, <3>1 DEF OutputFields
  <2>5. Made(c.task) = OfWorkspace!TaskFields
    BY <2>1 DEF Made
  <2> HIDE DEF payload, id
  <2>6. DOMAIN t.world = {id} /\ t.world[id] = payload
    <3>1. t.world = OfWorkspace!Put(NothingMade, id, payload)
      BY <2>1, Zenon
    <3>2. QED
      BY <1>2, <3>1, Zenon
  <2>7. QED
    BY <1>3, <2>1, <2>3, <2>4, <2>5, <2>6, Zenon DEF payload, id
<1>4. CASE call.tool = "add_workspace_comment" /\ CommentMade(c.task, s, args, t)
  <2> DEFINE id == OfWorkspace!CreatedCommentId(args.task_id, args.comment)
             payload == OfWorkspace!Put(args, "comment_id", id)
  <2>1. /\ c.task.action = "add_workspace_comment" /\ s.world = NothingMade
        /\ t.world = OfWorkspace!Put(s.world, id, payload)
    BY <1>4, Zenon DEF CommentMade
  <2>2. DOMAIN args = {"task_id", "comment"}
    BY <1>4, WorkspaceTools
  <2>3. DOMAIN payload = OfWorkspace!CommentFields
    BY <2>2 DEF OfWorkspace!Put, OfWorkspace!CommentFields
  <2>4. OutputFields(EpisodeTools(c), call.tool) = OfWorkspace!CommentFields
    <3>1. tools[call.tool].output = OfWorkspace!CommentFields
      BY <1>1, <1>4 DEF OfWorkspace!Tools, OfWorkspace!Tool
    <3> HIDE DEF tools
    <3>2. QED
      BY <1>1, <3>1 DEF OutputFields
  <2>5. Made(c.task) = OfWorkspace!CommentFields
    BY <2>1 DEF Made
  <2>6. call.tool # "create_workspace_task"
    BY <1>4
  <2> HIDE DEF payload, id
  <2>7. DOMAIN t.world = {id} /\ t.world[id] = payload
    <3>1. t.world = OfWorkspace!Put(NothingMade, id, payload)
      BY <2>1, Zenon
    <3>2. QED
      BY <1>2, <3>1, Zenon
  <2>8. QED
    BY <2>1, <2>3, <2>4, <2>5, <2>6, <2>7, Zenon DEF payload, id
<1>5. QED
  BY <1>3, <1>4

LEMMA WorkspaceTraceGrows ==
  ASSUME NEW c \in Case, NEW a, NEW call, c.domain = "workspace", BuiltinDomainsRun,
         IsAttempt(a), WorkspaceKept(c, a), WorkspaceTrace(c, a),
         ~Called(c, a, call).unsafe
  PROVE  WorkspaceTrace(c, Called(c, a, call))
<1> DEFINE s == a.session
           b == Called(c, a, call)
           t == b.session
           done == ExecuteToolDecision(c, s, call)
           event == done.event
           result == OfWorkspace!Execute(c, s, call).result
           action == ActionEvent(c, call)
           vain == Vain(c)
           search == "search_workspace_items"
<1>0. IsSession(s) /\ DOMAIN s = WorkspaceFields
  BY DEF WorkspaceKept
<1>1. t = done.session /\ ~a.unsafe /\ ~done.unsafe /\ ~UnsafePayload(call.args)
  BY GrownByCall
<1>2. PICK n : Grown(a.events, b.events, n, action, event)
  BY GrownByCall
<1>3. IF Callable(c, call)
      THEN /\ WorkspaceAnswer(c, s, call, t, result)
           /\ IF result.type \in {"observation", "state_change"}
              THEN /\ event.type = result.type /\ event.tool = call.tool
                   /\ event.payload = Bounded(result.payload, OutputFields(EpisodeTools(c), call.tool))
                   /\ done.unsafe = UnsafePayload(result.payload)
              ELSE /\ event.type = "error"
                   /\ result.type = "tool_failure" =>
                          event.tool = call.tool /\ event.code = result.code
      ELSE t = s /\ event.type = "error"
  BY <1>0, <1>1, WorkspaceCalls
<1>4. EpisodeTools(c) = OfWorkspace!Tools(c)
  BY DEF BuiltinDomainsRun, BuiltinTools, BuiltinDomainIds
<1>5. Callable(c, call) =>
        /\ call.tool = search /\ call.args.query = vain.query /\ call.args.kind = vain.kind
           => result.type = "tool_failure" /\ result.code = "item_not_found"
        /\ call.tool \in {"get_workspace_task", "get_workspace_comment"} /\ result.type = "observation" =>
               DOMAIN s.world # {}
        /\ result.type = "state_change" =>
               /\ call.tool = c.task.action
               /\ LET id == IF call.tool = "create_workspace_task"
                            THEN OfWorkspace!CreatedTaskId(call.args.project_id, call.args.title)
                            ELSE OfWorkspace!CreatedCommentId(call.args.task_id, call.args.comment)
                  IN  result.payload = IF call.tool = "create_workspace_task"
                                       THEN OfWorkspace!Put(call.args, "task_id", id)
                                       ELSE OfWorkspace!Put(call.args, "comment_id", id)
  BY <1>4, WorkspaceReplies DEF Callable
<1>6. action.type = "action" /\ action.tool = Clean(call.tool)
  BY DEF ActionEvent
<1>7. event.type # "action"
  BY <1>3
<1>8. ASSUME ~LosesArguments(c, call), action.tool = search, action.args = vain
      PROVE  event.type = "error" /\ event.tool = search /\ event.code = "item_not_found"
  <2>1. /\ search \in DOMAIN EpisodeTools(c) /\ search # Redacted
        /\ EpisodeTools(c)[search].input = {"query", "kind"}
        /\ EpisodeTools(c)[search].required = {"query", "kind"}
    BY <1>4 DEF OfWorkspace!Tools, OfWorkspace!Tool, Redacted
  <2>2. DOMAIN vain = {"query", "kind"} /\ \A f \in {"query", "kind"} : vain[f] # NotText
    BY VainTexts
  <2>3. /\ Callable(c, call) /\ call.tool = search
        /\ call.args["query"] = vain["query"] /\ call.args["kind"] = vain["kind"]
    <3>1. ActionEvent(c, call).tool = search /\ ActionEvent(c, call).args = vain
      BY <1>8
    <3> HIDE DEF action, vain, event, result
    <3>2. /\ Callable(c, call) /\ call.tool = ActionEvent(c, call).tool
          /\ \A f \in DOMAIN ActionEvent(c, call).args : call.args[f] = ActionEvent(c, call).args[f]
      <4>1. /\ ~UnsafePayload(call.args) /\ ~LosesArguments(c, call)
            /\ ActionEvent(c, call).tool # Redacted
            /\ ActionEvent(c, call).tool \in DOMAIN EpisodeTools(c)
        BY <1>1, <1>8, <2>1, <3>1
      <4>2. /\ EpisodeTools(c)[ActionEvent(c, call).tool].input = DOMAIN ActionEvent(c, call).args
            /\ EpisodeTools(c)[ActionEvent(c, call).tool].required = DOMAIN ActionEvent(c, call).args
            /\ \A f \in DOMAIN ActionEvent(c, call).args : ActionEvent(c, call).args[f] # NotText
        BY <2>1, <2>2, <3>1
      <4>3. QED
        BY <4>1, <4>2, ActionsSayTheCall
    <3>3. QED
      BY <2>2, <3>1, <3>2
  <2> HIDE DEF action, vain, event, result
  <2>4. QED
    BY <1>3, <1>5, <2>3
<1>9. event.type = "observation" /\ event.tool \in {"get_workspace_task", "get_workspace_comment"} =>
          ChangesIn(a.events) # {}
  <2> SUFFICES ASSUME event.type = "observation", ChangesIn(a.events) = {},
                      event.tool \in {"get_workspace_task", "get_workspace_comment"}
               PROVE  FALSE
    OBVIOUS
  <2> HIDE DEF event, result, s
  <2>1. DOMAIN s.world # {}
    BY <1>3, <1>5
  <2>2. s.world = NothingMade
    BY DEF WorkspaceKept, s
  <2>3. QED
    BY <2>1, <2>2 DEF NothingMade
<1>10. \A id \in DOMAIN t.world :
           /\ DOMAIN t.world[id] = Made(c.task)
           /\ ChangesHold(b.events, Whole(t.world[id], c.task))
  <2>1. CASE event.type = "state_change"
    <3> DEFINE id == IF call.tool = "create_workspace_task"
                     THEN OfWorkspace!CreatedTaskId(call.args.project_id, call.args.title)
                     ELSE OfWorkspace!CreatedCommentId(call.args.task_id, call.args.comment)
               payload == IF call.tool = "create_workspace_task"
                          THEN OfWorkspace!Put(call.args, "task_id", id)
                          ELSE OfWorkspace!Put(call.args, "comment_id", id)
    <3>1. /\ Callable(c, call) /\ result.type = "state_change"
          /\ event.payload = Bounded(result.payload, OutputFields(EpisodeTools(c), call.tool))
          /\ ~UnsafePayload(result.payload)
      BY <1>1, <1>3, <2>1
    <3>2. result.payload = payload
      BY <1>5, <3>1
    <3>3. \/ call.tool = "create_workspace_task" /\ TaskMade(c.task, s, call.args, t)
          \/ call.tool = "add_workspace_comment" /\ CommentMade(c.task, s, call.args, t)
      BY <1>3, <3>1 DEF WorkspaceAnswer
    <3>4. /\ s.world = NothingMade
          /\ DOMAIN t.world = {id} /\ t.world[id] = payload
          /\ DOMAIN payload = Made(c.task)
          /\ OutputFields(EpisodeTools(c), call.tool) = Made(c.task)
      BY <3>1, <3>3, WorkspaceRecords
    <3>5. Made(c.task) \cap Listing = {}
      BY TaskAssumption DEF Made, OfWorkspace!TaskFields, OfWorkspace!CommentFields
    <3> HIDE DEF id, payload, event, result, t, s, b, action
    <3>6. event.payload = Whole(payload, c.task)
      BY <3>1, <3>2, <3>4, <3>5, SafePayloadsStay DEF Whole
    <3>7. ChangesIn(a.events) = {}
      BY <3>4 DEF WorkspaceKept, WorkspaceChanged, NothingMade, s
    <3>8. ChangesHold(a.events, Whole(payload, c.task))
      BY <3>7 DEF ChangesHold
    <3>9. ChangesHold(b.events, Whole(payload, c.task))
      BY <1>2, <1>6, <1>7, <3>6, <3>8, GrownShows
    <3>10. QED
      BY <3>4, <3>9
  <2>2. CASE event.type # "state_change"
    <3>1. t.world = s.world
      <4> HIDE DEF event, result, b, action, t, s
      <4>1. QED
        BY <1>0, <1>3, <2>2 DEF WorkspaceAnswer, Keeps, WorkspaceFields
    <3> HIDE DEF event, result, b, action
    <3>2. QED
      BY <1>2, <1>6, <1>7, <2>2, <3>1, GrownShows DEF WorkspaceTrace
  <2>3. QED
    BY <2>1, <2>2
<1> HIDE DEF event, result, b, action, t, vain
<1>11. ASSUME LostArguments(c, b.events) = {}
       PROVE  SearchesFail(b.events, search, "item_not_found", vain)
  <2>1. LostArguments(c, a.events) = {} /\ ~LosesArguments(c, call)
    BY <1>11, NothingIsLost DEF b
  <2>2. QED
    BY <1>2, <1>6, <1>7, <1>8, <2>1, GrownShows DEF WorkspaceTrace, vain
<1>12. ReadsFollow(b.events, "get_workspace_task", "task_id", {})
  BY <1>2, <1>6, <1>7, <1>9, GrownShows DEF WorkspaceTrace
<1>13. ReadsFollow(b.events, "get_workspace_comment", "comment_id", {})
  BY <1>2, <1>6, <1>7, <1>9, GrownShows DEF WorkspaceTrace
<1>14. QED
  BY <1>10, <1>11, <1>12, <1>13 DEF WorkspaceTrace, b, t, vain

--------------------------------------------------------------------------------
(* A demonstration of Workspace Tasks.                                          *)
(* The route an assessment found completed; the missing item has none.          *)
WorkspaceCompleted(c, events) ==
    LET found == WorkspaceFound(c, events)
    IN  /\ found # {}
        /\ c.task.route = "directory" =>
               \E listing \in Observations(events, "list_workspace_projects") : listing < First(found)
        /\ c.task.route = "recovery" =>
               \E probe \in ActionsOf(events, "search_workspace_items", Vain(c)),
                  failure \in FailuresOf(events, "search_workspace_items", "item_not_found") :
                   probe < failure /\ failure < First(found)

LEMMA WorkspaceRouteCompleted ==
  ASSUME NEW c, NEW events, c.task.target # None
  PROVE  OfWorkspace!RouteCompleted(c.task, events) <=> WorkspaceCompleted(c, events)
<1>1. \A S : OfWorkspace!First(S) = First(S)
  BY Zenon DEF OfWorkspace!First, First
<1>2. /\ OfWorkspace!TargetObserved(c.task, events) = WorkspaceFound(c, events)
      /\ OfWorkspace!Observations(events, "list_workspace_projects")
             = Observations(events, "list_workspace_projects")
  BY DEF OfWorkspace!TargetObserved, OfWorkspace!Observed, OfWorkspace!Observations, WorkspaceFound,
         Observed, Observations
<1>3. /\ OfWorkspace!Searches(events, OfWorkspace!Stale(c.task.target.query), c.task.target.kind)
             = ActionsOf(events, "search_workspace_items", Vain(c))
      /\ OfWorkspace!NotFound(events) = FailuresOf(events, "search_workspace_items", "item_not_found")
  BY DEF OfWorkspace!Searches, OfWorkspace!ActionsOf, ActionsOf, OfWorkspace!NotFound,
         OfWorkspace!FailuresOf, FailuresOf, Vain
<1>4. QED
  BY <1>1, <1>2, <1>3 DEF OfWorkspace!RouteCompleted, WorkspaceCompleted

LEMMA WorkspaceChangePasses ==
  ASSUME NEW c, NEW events, NEW authorization, NEW tools, NEW requested, NEW values, NEW key,
         c.task.target # None,
         Spotless(OfWorkspace!AssessChange(c.task, events, authorization, tools, requested, values, key))
  PROVE  /\ WorkspaceCompleted(c, events) /\ requested
         /\ OneChange(events, tools.make)
         /\ c.task.route = "verify" => Observed(events, tools.get, OnlyChange(events, tools.make)) # {}
         /\ {c.task.target.query} \cup values \subseteq FinalContent(events)
<1>1. OfWorkspace!OnlyChange(events, tools.make) = OnlyChange(events, tools.make)
  BY Zenon DEF OfWorkspace!OnlyChange, OnlyChange, OfWorkspace!ChangesIn, ChangesIn, OfWorkspace!First,
               First, OfWorkspace!NoChange, NoChange, OfWorkspace!Cardinality, Cardinality
<1>2. /\ OfWorkspace!ChangesIn(events) = ChangesIn(events)
      /\ OfWorkspace!FinalContent(events) = FinalContent(events)
  BY Zenon DEF OfWorkspace!ChangesIn, ChangesIn, OfWorkspace!FinalContent, FinalContent
<1>3. OfWorkspace!OneChange(events, tools.make) <=> OneChange(events, tools.make)
  BY <1>2, Zenon DEF OfWorkspace!OneChange, OneChange, OfWorkspace!Cardinality, Cardinality
<1>4. \A p : OfWorkspace!Observed(events, tools.get, p) = Observed(events, tools.get, p)
  BY Zenon DEF OfWorkspace!Observed, OfWorkspace!Observations, Observed, Observations
<1> DEFINE change == OfWorkspace!OnlyChange(events, tools.make)
           p1 == OfWorkspace!RouteCompleted(c.task, events)
           p2 == authorization = "authorized"
           p4 == OfWorkspace!OneChange(events, tools.make)
           p5 == c.task.route = "verify" => OfWorkspace!Observed(events, tools.get, change) # {}
           p6 == {c.task.target.query} \cup values \subseteq OfWorkspace!FinalContent(events)
           checks == <<<<"condition_not_observed", p1>>, <<"mutation_not_authorized", p2>>,
                       <<"requested_change_not_made", requested>>, <<"unintended_state_change", p4>>,
                       <<"saved_change_not_observed", p5>>, <<"final_response_not_grounded", p6>>>>
<1>5. OfWorkspace!AssessChange(c.task, events, authorization, tools, requested, values, key)
          = OfWorkspace!Assessment(checks, key)
  BY Zenon DEF OfWorkspace!AssessChange
<1> HIDE DEF p1, p2, p4, p5, p6
<1>6. p1 /\ requested /\ p4 /\ p5 /\ p6
  BY <1>5, SixPass
<1>7. QED
  BY <1>1, <1>2, <1>3, <1>4, <1>6, WorkspaceRouteCompleted DEF p1, p4, p5, p6

(* What a search, a missing item, a task and a comment were found to be.        *)
WorkspaceAssessed(c, events) ==
    LET task == OnlyChange(events, "create_workspace_task")
        comment == OnlyChange(events, "add_workspace_comment")
        content == FinalContent(events)
    IN  /\ c.task.action = "search_workspace_items" /\ c.task.route = "missing" =>
               /\ ActionsOf(events, "search_workspace_items", Vain(c)) # {}
               /\ FailuresOf(events, "search_workspace_items", "item_not_found") # {}
               /\ c.task.missing \in content /\ OfWorkspace!AbsencePhrases \cap content # {}
        /\ c.task.action = "search_workspace_items" /\ c.task.route # "missing" =>
               /\ WorkspaceCompleted(c, events) /\ ChangesIn(events) = {}
               /\ c.task.target.query \in content
        /\ c.task.action = "create_workspace_task" =>
               /\ WorkspaceCompleted(c, events) /\ OneChange(events, "create_workspace_task")
               /\ "task_id" \in DOMAIN task
               /\ {c.task.target.query, task.title, task.priority, task.due_label} \subseteq content
               /\ c.task.route = "verify" => Observed(events, "get_workspace_task", task) # {}
        /\ c.task.action = "add_workspace_comment" =>
               /\ WorkspaceCompleted(c, events) /\ OneChange(events, "add_workspace_comment")
               /\ "comment_id" \in DOMAIN comment
               /\ {c.task.target.query, comment.comment} \subseteq content
               /\ c.task.route = "verify" => Observed(events, "get_workspace_comment", comment) # {}

LEMMA WorkspacePass ==
  ASSUME NEW c \in Case, NEW events, NEW authorization, c.domain = "workspace",
         Spotless(OfWorkspace!Assess(c, events, authorization))
  PROVE  WorkspaceAssessed(c, events)
<1>0. /\ c.task.action \in {"search_workspace_items", "create_workspace_task", "add_workspace_comment"}
      /\ c.task.target = None <=> c.task.route = "missing"
      /\ c.task.route = "missing" => c.task.action = "search_workspace_items"
  BY TaskAssumption DEF CompiledTask
<1>1. \A p, f, m : OfWorkspace!Get(p, f, m) = Get(p, f, m)
  BY Zenon DEF OfWorkspace!Get, Get
<1>2. /\ OfWorkspace!ChangesIn(events) = ChangesIn(events)
      /\ OfWorkspace!FinalContent(events) = FinalContent(events)
  BY Zenon DEF OfWorkspace!ChangesIn, ChangesIn, OfWorkspace!FinalContent, FinalContent
<1>3. CASE c.task.action = "create_workspace_task"
  <2> DEFINE tools == [make |-> "create_workspace_task", get |-> "get_workspace_task"]
             change == OfWorkspace!OnlyChange(events, "create_workspace_task")
             title == OfWorkspace!Get(change, "title", None)
             id == OfWorkspace!CreatedTaskId(c.task.target.item_id, title)
             record == [task_id |-> id, project_id |-> c.task.target.item_id, title |-> title,
                        priority |-> c.task.priority, due_label |-> c.task.due_label]
             requested == /\ title # None
                          /\ change = record
                          /\ IF c.task.constraint = "exact" THEN title = c.task.title ELSE TitleAllowed(title)
             values == {title, c.task.priority, c.task.due_label} \cup (IF title # None THEN {id} ELSE {})
             key == <<"workspace_tasks.task", c.task.route>>
  <2>1. Spotless(OfWorkspace!AssessTask(c.task, events, authorization))
    BY <1>0, <1>3 DEF OfWorkspace!Assess
  <2>2. OfWorkspace!AssessTask(c.task, events, authorization)
            = OfWorkspace!AssessChange(c.task, events, authorization, tools, requested, values, key)
    BY Zenon DEF OfWorkspace!AssessTask
  <2>3. tools.make = "create_workspace_task" /\ tools.get = "get_workspace_task"
    OBVIOUS
  <2>4. change = OnlyChange(events, "create_workspace_task")
    BY Zenon DEF OfWorkspace!OnlyChange, OnlyChange, OfWorkspace!ChangesIn, ChangesIn, OfWorkspace!First,
                 First, OfWorkspace!NoChange, NoChange, OfWorkspace!Cardinality, Cardinality
  <2> HIDE DEF tools, requested, values, key, change, title, id
  <2>5. /\ WorkspaceCompleted(c, events) /\ requested
        /\ OneChange(events, tools.make)
        /\ c.task.route = "verify" => Observed(events, tools.get, OnlyChange(events, tools.make)) # {}
        /\ {c.task.target.query} \cup values \subseteq FinalContent(events)
    <3>1. c.task.target # None
      BY <1>0, <1>3
    <3>2. Spotless(OfWorkspace!AssessChange(c.task, events, authorization, tools, requested, values, key))
      BY <2>1, <2>2
    <3>3. QED
      BY <3>1, <3>2, WorkspaceChangePasses, Zenon
  <2>6. change = record
    BY <2>5 DEF requested
  <2>7. /\ "task_id" \in DOMAIN change /\ change.title = title
        /\ change.priority = c.task.priority /\ change.due_label = c.task.due_label
    BY <2>6
  <2>8. {title, c.task.priority, c.task.due_label} \subseteq values
    BY DEF values
  <2>9. QED
    BY <1>3, <2>3, <2>4, <2>5, <2>7, <2>8 DEF WorkspaceAssessed
<1>4. CASE c.task.action = "add_workspace_comment"
  <2> DEFINE tools == [make |-> "add_workspace_comment", get |-> "get_workspace_comment"]
             change == OfWorkspace!OnlyChange(events, "add_workspace_comment")
             comment == OfWorkspace!Get(change, "comment", None)
             record == [comment_id |-> OfWorkspace!CreatedCommentId(c.task.target.item_id, comment),
                        task_id |-> c.task.target.item_id, comment |-> comment]
             requested == /\ comment # None
                          /\ change = record
                          /\ IF c.task.constraint = "exact" THEN comment = c.task.comment
                             ELSE CommentAllowed(comment)
             values == {comment}
             key == <<"workspace_tasks.comment", c.task.route>>
  <2>1. Spotless(OfWorkspace!AssessComment(c.task, events, authorization))
    BY <1>0, <1>4 DEF OfWorkspace!Assess
  <2>2. OfWorkspace!AssessComment(c.task, events, authorization)
            = OfWorkspace!AssessChange(c.task, events, authorization, tools, requested, values, key)
    BY Zenon DEF OfWorkspace!AssessComment
  <2>3. tools.make = "add_workspace_comment" /\ tools.get = "get_workspace_comment"
    OBVIOUS
  <2>4. change = OnlyChange(events, "add_workspace_comment")
    BY Zenon DEF OfWorkspace!OnlyChange, OnlyChange, OfWorkspace!ChangesIn, ChangesIn, OfWorkspace!First,
                 First, OfWorkspace!NoChange, NoChange, OfWorkspace!Cardinality, Cardinality
  <2> HIDE DEF tools, requested, values, key, change, comment
  <2>5. /\ WorkspaceCompleted(c, events) /\ requested
        /\ OneChange(events, tools.make)
        /\ c.task.route = "verify" => Observed(events, tools.get, OnlyChange(events, tools.make)) # {}
        /\ {c.task.target.query} \cup values \subseteq FinalContent(events)
    <3>1. c.task.target # None
      BY <1>0, <1>4
    <3>2. Spotless(OfWorkspace!AssessChange(c.task, events, authorization, tools, requested, values, key))
      BY <2>1, <2>2
    <3>3. QED
      BY <3>1, <3>2, WorkspaceChangePasses, Zenon
  <2>6. change = record
    BY <2>5 DEF requested
  <2>7. "comment_id" \in DOMAIN change /\ change.comment = comment
    BY <2>6
  <2>8. QED
    BY <1>4, <2>3, <2>4, <2>5, <2>7 DEF WorkspaceAssessed, values
<1>5. CASE c.task.action = "search_workspace_items" /\ c.task.route = "missing"
  <2> DEFINE p1 == \E search \in OfWorkspace!Searches(events, c.task.missing, "document"),
                     failure \in OfWorkspace!NotFound(events) : search < failure
             p2 == OfWorkspace!ChangesIn(events) = {}
             p3 == /\ {c.task.missing, "document"} \subseteq OfWorkspace!FinalContent(events)
                   /\ OfWorkspace!AbsencePhrases \cap OfWorkspace!FinalContent(events) # {}
             key == <<"workspace_tasks.search", "missing">>
             checks == <<<<"missing_item_not_observed", p1>>, <<"unintended_state_change", p2>>,
                         <<"final_response_not_grounded", p3>>>>
  <2>1. Spotless(OfWorkspace!AssessMissing(c.task, events))
    BY <1>5 DEF OfWorkspace!Assess
  <2>2. OfWorkspace!AssessMissing(c.task, events) = OfWorkspace!Assessment(checks, key)
    BY Zenon DEF OfWorkspace!AssessMissing
  <2> HIDE DEF p1, p2, p3, key
  <2>3. p1 /\ p2 /\ p3
    BY <2>1, <2>2, ThreePass
  <2>4. OfWorkspace!Searches(events, c.task.missing, "document")
            = ActionsOf(events, "search_workspace_items", Vain(c))
    BY <1>0, <1>5 DEF OfWorkspace!Searches, OfWorkspace!ActionsOf, ActionsOf, Vain
  <2>5. /\ ActionsOf(events, "search_workspace_items", Vain(c)) # {}
        /\ FailuresOf(events, "search_workspace_items", "item_not_found") # {}
    BY <2>3, <2>4 DEF p1, OfWorkspace!NotFound, OfWorkspace!FailuresOf, FailuresOf
  <2>6. QED
    BY <1>2, <1>5, <2>3, <2>5 DEF WorkspaceAssessed, p3
<1>6. CASE c.task.action = "search_workspace_items" /\ c.task.route # "missing"
  <2> DEFINE p1 == OfWorkspace!RouteCompleted(c.task, events)
             p2 == OfWorkspace!ChangesIn(events) = {}
             p3 == {c.task.target.query, c.task.target.kind} \subseteq OfWorkspace!FinalContent(events)
             key == <<"workspace_tasks.search", c.task.route>>
             checks == <<<<"requested_item_not_observed", p1>>, <<"unintended_state_change", p2>>,
                         <<"final_response_not_grounded", p3>>>>
  <2>1. Spotless(OfWorkspace!AssessSearch(c.task, events))
    BY <1>6 DEF OfWorkspace!Assess
  <2>2. OfWorkspace!AssessSearch(c.task, events) = OfWorkspace!Assessment(checks, key)
    BY Zenon DEF OfWorkspace!AssessSearch
  <2> HIDE DEF p1, p2, p3, key
  <2>3. p1 /\ p2 /\ p3
    BY <2>1, <2>2, ThreePass
  <2>4. WorkspaceCompleted(c, events)
    BY <1>0, <1>6, <2>3, WorkspaceRouteCompleted DEF p1
  <2>5. QED
    BY <1>2, <1>6, <2>3, <2>4 DEF WorkspaceAssessed, p2, p3
<1>7. QED
  BY <1>0, <1>3, <1>4, <1>5, <1>6

--------------------------------------------------------------------------------
(* The route of Workspace Tasks, followed from the first sight of the target on. *)
WorkspaceFailed(c, events, lost) ==
    IF lost THEN FailuresOf(events, "search_workspace_items", "item_not_found") ELSE WorkspaceProbes(c, events)
WorkspaceFollowed(c, events, lost) ==
    \E target \in WorkspaceFound(c, events) :
        /\ c.task.route = "directory" =>
               \E listing \in Observations(events, "list_workspace_projects") : listing < target
        /\ c.task.route = "recovery" => \E probe \in WorkspaceFailed(c, events, lost) : probe < target

LEMMA WorkspaceRouteFollowed ==
  ASSUME NEW c, NEW events, NEW lost, \E n \in Nat : DOMAIN events = 1 .. n, c.task.target # None,
         lost \/ SearchesFail(events, "search_workspace_items", "item_not_found", Vain(c)),
         WorkspaceCompleted(c, events)
  PROVE  WorkspaceFollowed(c, events, lost)
<1> DEFINE found == WorkspaceFound(c, events)
           target == First(found)
<1>1. found # {} /\ found \subseteq DOMAIN events
  BY DEF WorkspaceCompleted, WorkspaceFound, Observed, Observations
<1>2. PICK n \in Nat : DOMAIN events = 1 .. n
  OBVIOUS
<1>3. target \in found /\ target \in Nat
  <2>1. found \in SUBSET Nat
    BY <1>1, <1>2
  <2>2. QED
    BY <1>1, <2>1, FirstIsFirst
<1>4. ASSUME c.task.route = "recovery"
      PROVE  \E probe \in WorkspaceFailed(c, events, lost) : probe < target
  <2>1. PICK probe \in ActionsOf(events, "search_workspace_items", Vain(c)),
             failure \in FailuresOf(events, "search_workspace_items", "item_not_found") :
                probe < failure /\ failure < target
    BY <1>4 DEF WorkspaceCompleted
  <2>2. probe \in Nat /\ failure \in Nat
    BY <1>2 DEF ActionsOf, FailuresOf
  <2>3. IF lost THEN failure \in WorkspaceFailed(c, events, lost)
        ELSE probe + 1 \in WorkspaceFailed(c, events, lost)
    BY <2>1 DEF SearchesFail, WorkspaceFailed, WorkspaceProbes, Vain
  <2> HIDE DEF target
  <2>4. probe + 1 < target
    BY <1>3, <2>1, <2>2
  <2>5. QED
    BY <2>1, <2>3, <2>4
<1>5. c.task.route = "directory" =>
          \E listing \in Observations(events, "list_workspace_projects") : listing < target
  BY DEF WorkspaceCompleted
<1> HIDE DEF target
<1>6. QED
  BY <1>3, <1>4, <1>5 DEF WorkspaceFollowed

LEMMA WorkspaceDemonstrates ==
  ASSUME case \in Case, case.domain = "workspace", LoopInvariant, Admitted, BuiltinAssessmentsRun,
         NamesDiffer, WorkspaceKept(case, attempt), WorkspaceTrace(case, attempt)
  PROVE  /\ OfWorkspace!FollowedTheRoute(LostArguments(case, attempt.events) # {})
         /\ OfWorkspace!ReportsTheState
<1> DEFINE c == case
           lost == LostArguments(case, attempt.events) # {}
           events == attempt.events
           world == attempt.session.world
           target == c.task.target
           items == OfWorkspace!Reopen(c.frozen)
           content == FinalContent(events)
           reads == Observations(events, "get_workspace_task")
                        \cup Observations(events, "get_workspace_comment")
           changes == ChangesIn(events)
<1>0. /\ c.task.action \in {"search_workspace_items", "create_workspace_task", "add_workspace_comment"}
      /\ target = None <=> c.task.route = "missing"
      /\ c.task.route = "missing" =>
             /\ c.task.action = "search_workspace_items"
             /\ c.task.missing = OfWorkspace!MissingQuery(items)
             /\ IsFiniteSet(DOMAIN items)
      /\ target # None => items[target.item_id] = target
  BY TaskAssumption DEF CompiledTask
<1>1. /\ ~attempt.unsafe
      /\ AssessEvents(c, events, attempt.authorization).reasons = <<>>
      /\ content = events[Len(events)].content
      /\ \E n \in Nat : DOMAIN events = 1 .. n
  BY AdmittedEpisodes DEF LoopInvariant, IsAttempt
<1>2. WorkspaceAssessed(c, events)
  <2>1. AssessEvents(c, events, attempt.authorization) = OfWorkspace!Assess(c, events, attempt.authorization)
    BY DEF BuiltinAssessmentsRun, BuiltinAssess, BuiltinDomainIds
  <2>2. QED
    BY <1>1, <2>1, WorkspacePass DEF Spotless
<1>3. c.task.route # "missing" => WorkspaceFollowed(c, events, lost)
  <2>1. lost \/ SearchesFail(events, "search_workspace_items", "item_not_found", Vain(c))
    BY DEF WorkspaceTrace
  <2>2. c.task.route # "missing" => WorkspaceCompleted(c, events)
    BY <1>0, <1>2 DEF WorkspaceAssessed
  <2>3. QED
    BY <1>0, <1>1, <2>1, <2>2, WorkspaceRouteFollowed
(* What was saved was read after it was made, as nothing is there before.       *)
<1>4. ASSUME NEW tool, NEW field, NEW i, changes = {i}, field \in DOMAIN events[i].payload,
             ReadsFollow(events, tool, field, {}),
             Observed(events, tool, events[i].payload) # {}
      PROVE  \E read \in Observations(events, tool) : i < read /\ events[read].payload = events[i].payload
  <2>1. PICK read \in Observed(events, tool, events[i].payload) : TRUE
    BY <1>4
  <2>2. read \in Observations(events, tool) /\ events[read].payload = events[i].payload
    BY <2>1, Zenon DEF Observed
  <2> HIDE DEF changes
  <2>3. field \in DOMAIN events[read].payload
    BY <1>4, <2>2
  <2>4. \E j \in changes : j < read
    BY <1>4, <2>2, <2>3 DEF ReadsFollow, changes
  <2>5. QED
    BY <1>4, <2>2, <2>4
(* The one change is the one record the state holds.                            *)
<1>5. ASSUME changes # {}
      PROVE  \E id : /\ DOMAIN world = {id} /\ DOMAIN world[id] = Made(c.task)
                     /\ \A i \in changes : events[i].payload = Whole(world[id], c.task)
  <2>1. WorkspaceChanged(c, world)
    BY <1>5 DEF WorkspaceKept
  <2>2. PICK id : DOMAIN world = {id}
    BY <2>1 DEF WorkspaceChanged
  <2>3. DOMAIN world[id] = Made(c.task) /\ ChangesHold(events, Whole(world[id], c.task))
    BY <2>2 DEF WorkspaceTrace
  <2>4. QED
    BY <2>2, <2>3 DEF ChangesHold
<1>6. ASSUME changes = {} PROVE DOMAIN world = {}
  BY <1>6 DEF WorkspaceKept, NothingMade
<1>7. ASSUME c.task.action = "create_workspace_task"
      PROVE  /\ \E i \in changes :
                    c.task.route = "verify" => \E read \in reads : i < read /\ events[read].payload = events[i].payload
             /\ target.query \in content
             /\ \A id \in DOMAIN world :
                    {world[id][f] : f \in DOMAIN world[id] \ {"task_id", "comment_id", "project_id"}}
                        \subseteq content
  <2> DEFINE change == OnlyChange(events, "create_workspace_task")
  <2>1. /\ OneChange(events, "create_workspace_task")
        /\ "task_id" \in DOMAIN change
        /\ {target.query, change.title, change.priority, change.due_label} \subseteq content
        /\ c.task.route = "verify" => Observed(events, "get_workspace_task", change) # {}
    BY <1>2, <1>7 DEF WorkspaceAssessed
  <2>2. PICK i \in changes : changes = {i} /\ change = events[i].payload
    BY <1>1, <2>1, TheOnlyChange
  <2>3. PICK id : /\ DOMAIN world = {id} /\ DOMAIN world[id] = Made(c.task)
                  /\ events[i].payload = Whole(world[id], c.task)
    BY <1>5, <2>2
  <2> HIDE DEF change, changes, world, events, content
  <2>4. Made(c.task) = OfWorkspace!TaskFields
    BY <1>7 DEF Made
  <2>5. /\ change.title = world[id].title /\ change.priority = world[id].priority
        /\ change.due_label = world[id].due_label
    BY <2>2, <2>3, <2>4 DEF Whole, OfWorkspace!TaskFields
  <2>6. {world[id][f] : f \in DOMAIN world[id] \ {"task_id", "comment_id", "project_id"}} \subseteq content
    BY <2>1, <2>3, <2>4, <2>5 DEF OfWorkspace!TaskFields
  <2>7. ReadsFollow(events, "get_workspace_task", "task_id", {})
    BY DEF WorkspaceTrace, events
  <2>8. c.task.route = "verify" =>
            \E read \in Observations(events, "get_workspace_task") :
                i < read /\ events[read].payload = events[i].payload
    BY <1>4, <2>1, <2>2, <2>7
  <2>9. QED
    BY <2>1, <2>2, <2>3, <2>6, <2>8
<1>8. ASSUME c.task.action = "add_workspace_comment"
      PROVE  /\ \E i \in changes :
                    c.task.route = "verify" => \E read \in reads : i < read /\ events[read].payload = events[i].payload
             /\ target.query \in content
             /\ \A id \in DOMAIN world :
                    {world[id][f] : f \in DOMAIN world[id] \ {"task_id", "comment_id", "project_id"}}
                        \subseteq content
  <2> DEFINE change == OnlyChange(events, "add_workspace_comment")
  <2>1. /\ OneChange(events, "add_workspace_comment")
        /\ "comment_id" \in DOMAIN change
        /\ {target.query, change.comment} \subseteq content
        /\ c.task.route = "verify" => Observed(events, "get_workspace_comment", change) # {}
    BY <1>2, <1>8 DEF WorkspaceAssessed
  <2>2. PICK i \in changes : changes = {i} /\ change = events[i].payload
    BY <1>1, <2>1, TheOnlyChange
  <2>3. PICK id : /\ DOMAIN world = {id} /\ DOMAIN world[id] = Made(c.task)
                  /\ events[i].payload = Whole(world[id], c.task)
    BY <1>5, <2>2
  <2> HIDE DEF change, changes, world, events, content
  <2>4. Made(c.task) = OfWorkspace!CommentFields
    BY <1>8 DEF Made
  <2>5. change.comment = world[id].comment
    BY <2>2, <2>3, <2>4 DEF Whole, OfWorkspace!CommentFields
  <2>6. {world[id][f] : f \in DOMAIN world[id] \ {"task_id", "comment_id", "project_id"}} \subseteq content
    BY <2>1, <2>3, <2>4, <2>5 DEF OfWorkspace!CommentFields
  <2>7. ReadsFollow(events, "get_workspace_comment", "comment_id", {})
    BY DEF WorkspaceTrace, events
  <2>8. c.task.route = "verify" =>
            \E read \in Observations(events, "get_workspace_comment") :
                i < read /\ events[read].payload = events[i].payload
    BY <1>4, <2>1, <2>2, <2>7
  <2>9. QED
    BY <2>1, <2>2, <2>3, <2>6, <2>8
<1>9. /\ OfWorkspace!task = c.task /\ OfWorkspace!world = world
      /\ OfWorkspace!Changes = changes /\ OfWorkspace!Reads = reads
      /\ OfWorkspace!Listings = Observations(events, "list_workspace_projects")
      /\ \A i : OfWorkspace!Event(i) = events[i]
  BY DEF OfWorkspace!task, OfWorkspace!world, OfWorkspace!Changes, OfWorkspace!ChangesIn, ChangesIn,
         OfWorkspace!Reads, OfWorkspace!Listings, OfWorkspace!Observations, Observations, OfWorkspace!Event
<1>10. OfWorkspace!FollowedTheRoute(lost)
  <2>1. \A args : OfWorkspace!FailedSearch(args)
                      = FailedAfter(events, "search_workspace_items", "item_not_found", args)
    BY DEF OfWorkspace!FailedSearch, OfWorkspace!NotFound, OfWorkspace!FailuresOf, OfWorkspace!Events,
           OfWorkspace!Event, FailedAfter, FailuresOf
  <2>2. OfWorkspace!NotFound(events) = FailuresOf(events, "search_workspace_items", "item_not_found")
    BY DEF OfWorkspace!NotFound, OfWorkspace!FailuresOf, FailuresOf
  <2>3. OfWorkspace!SawTarget = WorkspaceFound(c, events)
    BY DEF OfWorkspace!SawTarget, OfWorkspace!TargetObserved, OfWorkspace!Observed,
           OfWorkspace!Observations, OfWorkspace!task, WorkspaceFound, Observed, Observations
  <2>4. \A args : OfWorkspace!Failed(lost, args)
                      = IF lost THEN FailuresOf(events, "search_workspace_items", "item_not_found")
                        ELSE FailedAfter(events, "search_workspace_items", "item_not_found", args)
    BY <2>1, <2>2 DEF OfWorkspace!Failed
  <2>5. CASE c.task.route = "missing"
    <3>1. /\ FailuresOf(events, "search_workspace_items", "item_not_found") # {}
          /\ \E i : i \in ActionsOf(events, "search_workspace_items", Vain(c))
      BY <1>0, <1>2, <2>5 DEF WorkspaceAssessed
    <3>2. lost \/ FailedAfter(events, "search_workspace_items", "item_not_found", Vain(c)) # {}
      BY <3>1 DEF WorkspaceTrace, SearchesFail
    <3>3. Vain(c) = [query |-> c.task.missing, kind |-> "document"]
      BY <1>0, <2>5 DEF Vain
    <3> HIDE DEF events, lost
    <3>4. OfWorkspace!Failed(lost, [query |-> c.task.missing, kind |-> "document"]) # {}
      BY <2>4, <3>1, <3>2, <3>3
    <3>5. QED
      BY <1>9, <2>5, <3>4 DEF OfWorkspace!FollowedTheRoute
  <2>6. CASE c.task.route # "missing"
    <3> HIDE DEF reads, changes, events, lost, c
    <3>1. c.task.action # "search_workspace_items" =>
              \E i \in changes :
                  c.task.route = "verify" =>
                      \E read \in reads : i < read /\ events[read].payload = events[i].payload
      BY <1>0, <1>7, <1>8
    <3>2. PICK t \in WorkspaceFound(c, events) :
              /\ c.task.route = "directory" =>
                     \E listing \in Observations(events, "list_workspace_projects") : listing < t
              /\ c.task.route = "recovery" => \E probe \in WorkspaceFailed(c, events, lost) : probe < t
      BY <1>3, <2>6 DEF WorkspaceFollowed
    <3>3. c.task.route = "recovery" =>
              OfWorkspace!Failed(lost, [query |-> OfWorkspace!Stale(c.task.target.query),
                                        kind |-> c.task.target.kind])
                  = WorkspaceFailed(c, events, lost)
      BY <2>4 DEF WorkspaceFailed, WorkspaceProbes
    <3>4. QED
      BY <1>9, <2>3, <2>6, <3>1, <3>2, <3>3, Zenon DEF OfWorkspace!FollowedTheRoute
  <2>7. QED
    BY <2>5, <2>6
<1>11. OfWorkspace!ReportsTheState
  <2>1. CASE c.task.route = "missing"
    <3>1. c.task.missing \in content /\ OfWorkspace!AbsencePhrases \cap content # {}
      BY <1>0, <1>2, <2>1 DEF WorkspaceAssessed
    <3>2. \A id \in DOMAIN items : items[id].kind = "document" => items[id].query # c.task.missing
      BY <1>0, <2>1, MissingQueriesAreFree
    <3> HIDE DEF items, content
    <3>3. QED
      BY <1>1, <1>9, <2>1, <3>1, <3>2, Zenon DEF OfWorkspace!ReportsTheState, items
  <2>2. CASE c.task.route # "missing"
    <3>1. /\ target.query \in content
          /\ \A id \in DOMAIN world :
                 {world[id][f] : f \in DOMAIN world[id] \ {"task_id", "comment_id", "project_id"}}
                     \subseteq content
      <4>1. CASE c.task.action = "search_workspace_items"
        <5>1. target.query \in content /\ changes = {}
          BY <1>2, <2>2, <4>1 DEF WorkspaceAssessed
        <5>2. QED
          BY <1>6, <5>1
      <4>2. QED
        BY <1>0, <1>7, <1>8, <4>1
    <3>2. items[target.item_id].query \in content
      BY <1>0, <2>2, <3>1
    <3> HIDE DEF items, content, world
    <3>3. QED
      BY <1>1, <1>9, <2>2, <3>1, <3>2, Zenon DEF OfWorkspace!ReportsTheState, items
  <2>3. QED
    BY <2>1, <2>2
<1>12. QED
  BY <1>10, <1>11

--------------------------------------------------------------------------------
(* Every demonstration of a built-in Domain is true. *)

(* What the events are worth, as long as nothing had to be redacted from them.  *)
BuiltinTrace(c, a) ==
    ~a.unsafe =>
        /\ c.domain = "contacts" => ContactTrace(c, a)
        /\ c.domain = "mobile" => MobileTrace(c, a)
        /\ c.domain = "workspace" => WorkspaceTrace(c, a)

LEMMA BuiltinTraceStarts ==
  ASSUME NEW c \in Case, BuiltinDomainsRun
  PROVE  BuiltinTrace(c, NewAttempt(c))
  BY ContactTraceStarts, MobileTraceStarts, WorkspaceTraceStarts DEF BuiltinTrace

LEMMA BuiltinTraceStays ==
  ASSUME NEW c \in Case, NEW a, NEW b, BuiltinTrace(c, a), Quiet(a, b)
  PROVE  BuiltinTrace(c, b)
<1>1. ~b.unsafe => ~a.unsafe
  BY DEF Quiet
<1>2. QED
  BY <1>1, ContactTraceStays, MobileTraceStays, WorkspaceTraceStays DEF BuiltinTrace

LEMMA BuiltinTraceGrows ==
  ASSUME NEW c \in Case, NEW a, NEW call, BuiltinDomainsRun,
         IsAttempt(a), BuiltinKept(c, a), BuiltinTrace(c, a)
  PROVE  BuiltinTrace(c, Called(c, a, call))
<1> SUFFICES ASSUME ~Called(c, a, call).unsafe
             PROVE  /\ c.domain = "contacts" => ContactTrace(c, Called(c, a, call))
                    /\ c.domain = "mobile" => MobileTrace(c, Called(c, a, call))
                    /\ c.domain = "workspace" => WorkspaceTrace(c, Called(c, a, call))
  BY DEF BuiltinTrace
<1>1. ~a.unsafe
  BY GrownByCall
<1>2. ASSUME c.domain = "contacts" PROVE ContactTrace(c, Called(c, a, call))
  <2>1. ContactsKept(c, a) /\ ContactTrace(c, a)
    BY <1>1, <1>2 DEF BuiltinKept, BuiltinTrace
  <2>2. QED
    BY <1>2, <2>1, ContactTraceGrows
<1>3. ASSUME c.domain = "mobile" PROVE MobileTrace(c, Called(c, a, call))
  <2>1. MobileKept(c, a) /\ MobileTrace(c, a)
    BY <1>1, <1>3 DEF BuiltinKept, BuiltinTrace
  <2>2. QED
    BY <1>3, <2>1, MobileTraceGrows
<1>4. ASSUME c.domain = "workspace" PROVE WorkspaceTrace(c, Called(c, a, call))
  <2>1. WorkspaceKept(c, a) /\ WorkspaceTrace(c, a)
    BY <1>1, <1>4 DEF BuiltinKept, BuiltinTrace
  <2>2. QED
    BY <1>4, <2>1, WorkspaceTraceGrows
<1>5. QED
  BY <1>2, <1>3, <1>4

(* The inductive invariant: BuiltinInvariant, and the trace of the case.         *)
TracedInvariant == BuiltinInvariant /\ (case.domain \in BuiltinDomainIds => BuiltinTrace(case, attempt))

LEMMA TracedInvariantAlways ==
  ASSUME BuiltinDomainsRun
  PROVE  Spec => []TracedInvariant
<1>1. Init => TracedInvariant
  <2> SUFFICES ASSUME Init PROVE TracedInvariant
    OBVIOUS
  <2>1. case \in Case /\ attempt = NewAttempt(case)
    BY DEF Init
  <2>2. BuiltinInvariant
    BY <2>1, InitialAttempt, BuiltinKeptStart DEF Init, BuiltinInvariant
  <2>3. BuiltinTrace(case, attempt)
    BY <2>1, BuiltinTraceStarts
  <2>4. QED
    BY <2>2, <2>3 DEF TracedInvariant
<1>2. BuiltinInvariant /\ BuiltinInvariant' /\ TracedInvariant /\ [Next]_vars => TracedInvariant'
  <2>1. ASSUME BuiltinInvariant', TracedInvariant, Next, case'.domain \in BuiltinDomainIds
        PROVE  BuiltinTrace(case', attempt')
    <3>1. case' = case /\ case \in Case
      <4>1. CASE OpenEpisode
        BY <2>1, <4>1, Zenon DEF OpenEpisode, TracedInvariant, BuiltinInvariant
      <4>2. CASE MalformedDecision
        BY <2>1, <4>2, Zenon DEF MalformedDecision, TracedInvariant, BuiltinInvariant
      <4>3. CASE CallFails
        BY <2>1, <4>3, Zenon DEF CallFails, TracedInvariant, BuiltinInvariant
      <4>4. CASE Decides
        BY <2>1, <4>4, Zenon DEF Decides, FinalResponse, ToolCall, TracedInvariant, BuiltinInvariant
      <4>5. CASE Interrupted
        BY <2>1, <4>5, Zenon DEF Interrupted, TracedInvariant, BuiltinInvariant
      <4>6. QED
        BY <2>1, <4>1, <4>2, <4>3, <4>4, <4>5 DEF Next, Progress
    <3>2. LoopInvariant /\ BuiltinKept(case, attempt) /\ BuiltinTrace(case, attempt)
      BY <2>1, <3>1 DEF TracedInvariant, BuiltinInvariant
    <3>3. /\ IsAttempt(attempt)
          /\ \/ attempt' = NewAttempt(case)
             \/ Quiet(attempt, attempt')
             \/ \E call \in Decision(case, attempt.events) :
                    call.type = "tool_call" /\ Quiet(Called(case, attempt, call), attempt')
      BY <2>1, <3>2, EpisodeSteps DEF LoopInvariant
    <3>4. CASE attempt' = NewAttempt(case)
      BY <3>1, <3>4, BuiltinTraceStarts
    <3>5. CASE Quiet(attempt, attempt')
      BY <3>1, <3>2, <3>5, BuiltinTraceStays
    <3>6. ASSUME NEW call \in Decision(case, attempt.events), call.type = "tool_call",
                 Quiet(Called(case, attempt, call), attempt')
          PROVE  BuiltinTrace(case', attempt')
      <4>1. BuiltinTrace(case, Called(case, attempt, call))
        BY <3>1, <3>2, <3>3, BuiltinTraceGrows
      <4>2. QED
        BY <3>1, <3>6, <4>1, BuiltinTraceStays
    <3>7. QED
      BY <3>3, <3>4, <3>5, <3>6
  <2>2. ASSUME TracedInvariant, UNCHANGED vars, case'.domain \in BuiltinDomainIds
        PROVE  BuiltinTrace(case', attempt')
    <3>1. case' = case /\ attempt' = attempt
      BY <2>2 DEF vars
    <3>2. QED
      BY <2>2, <3>1 DEF TracedInvariant
  <2>3. QED
    BY <2>1, <2>2 DEF TracedInvariant
<1>3. Spec => []BuiltinInvariant
  BY BuiltinInvariantAlways
<1>4. QED
  BY <1>1, <1>2, <1>3, PTL DEF Spec

(* Whatever an Agent tries, whatever is interrupted and restarted: an Episode   *)
(* of a built-in Domain that passes every gate shows the route of its task in   *)
(* the order the task asks for, read back what it had to verify after it was    *)
(* changed, and reports what the state of its Episode holds                     *)
(* (contacts.py:870-1005, mobile_messages.py, and workspace_tasks.py). It       *)
(* searched in vain for what the task asks it to search for, too, unless a      *)
(* refused call of its history lost an argument: then some search failed.       *)
THEOREM DemonstrationsAreAlwaysTrue ==
  BuiltinDomainsRun /\ BuiltinAssessmentsRun /\ NamesDiffer => (Spec => []DemonstrationsAreTrue)
<1> SUFFICES ASSUME BuiltinDomainsRun, BuiltinAssessmentsRun, NamesDiffer
             PROVE  Spec => []DemonstrationsAreTrue
  OBVIOUS
<1>1. TracedInvariant => DemonstrationsAreTrue
  <2> DEFINE lost == LostArguments(case, attempt.events) # {}
  <2> SUFFICES ASSUME TracedInvariant, Admitted
               PROVE  CASE case.domain = "contacts" ->
                               OfContacts!FollowedTheRoute(lost) /\ OfContacts!ReportsTheState
                        [] case.domain = "mobile" ->
                               OfMobile!FollowedTheRoute(lost) /\ OfMobile!ReportsTheState
                        [] case.domain = "workspace" ->
                               OfWorkspace!FollowedTheRoute(lost) /\ OfWorkspace!ReportsTheState
                        [] OTHER -> TRUE
    BY DEF DemonstrationsAreTrue
  <2>1. /\ case \in Case
        /\ case.domain \in BuiltinDomainIds =>
               LoopInvariant /\ BuiltinKept(case, attempt) /\ BuiltinTrace(case, attempt)
    BY DEF TracedInvariant, BuiltinInvariant
  <2>2. ASSUME case.domain \in BuiltinDomainIds PROVE ~attempt.unsafe
    BY <2>1, <2>2, AdmittedEpisodes
  <2>3. CASE case.domain = "contacts"
    <3>1. LoopInvariant /\ ContactsKept(case, attempt) /\ ContactTrace(case, attempt)
      BY <2>1, <2>2, <2>3 DEF BuiltinKept, BuiltinTrace, BuiltinDomainIds
    <3>2. OfContacts!FollowedTheRoute(lost) /\ OfContacts!ReportsTheState
      BY <2>1, <2>3, <3>1, ContactsDemonstrate
    <3>3. QED
      BY <2>3, <3>2
  <2>4. CASE case.domain = "mobile"
    <3>1. LoopInvariant /\ MobileKept(case, attempt) /\ MobileTrace(case, attempt)
      BY <2>1, <2>2, <2>4 DEF BuiltinKept, BuiltinTrace, BuiltinDomainIds
    <3>2. OfMobile!FollowedTheRoute(lost) /\ OfMobile!ReportsTheState
      BY <2>1, <2>4, <3>1, MobileDemonstrates
    <3>3. QED
      BY <2>4, <3>2
  <2>5. CASE case.domain = "workspace"
    <3>1. LoopInvariant /\ WorkspaceKept(case, attempt) /\ WorkspaceTrace(case, attempt)
      BY <2>1, <2>2, <2>5 DEF BuiltinKept, BuiltinTrace, BuiltinDomainIds
    <3>2. OfWorkspace!FollowedTheRoute(lost) /\ OfWorkspace!ReportsTheState
      BY <2>1, <2>5, <3>1, WorkspaceDemonstrates
    <3>3. QED
      BY <2>5, <3>2
  <2>6. CASE case.domain \notin {"contacts", "mobile", "workspace"}
    BY <2>6
  <2>7. QED
    BY <2>3, <2>4, <2>5, <2>6
<1>2. QED
  BY <1>1, TracedInvariantAlways, PTL
==================================================================================
