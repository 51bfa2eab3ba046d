--------------------------- MODULE AgentEpisodeProofs ---------------------------
(***************************************************************************)
(* Proofs about AgentEpisode, for any Domain and any Agent.                *)
(***************************************************************************)
EXTENDS EpisodeReplay, SequenceTheorems, TLAPS

--------------------------------------------------------------------------------
(* Events are appended one by one. *)

IsSequence(events) == \E S : events \in Seq(S)

LEMMA AppendEvent ==
  ASSUME NEW events, IsSequence(events), NEW event
  PROVE  /\ IsSequence(Append(events, event))
         /\ Len(events) \in Nat
         /\ Len(Append(events, event)) = Len(events) + 1
         /\ DOMAIN events = 1 .. Len(events)
         /\ DOMAIN Append(events, event) = 1 .. Len(events) + 1
         /\ Append(events, event)[Len(events) + 1] = event
         /\ \A i \in DOMAIN events : Append(events, event)[i] = events[i]
<1>1. PICK S : events \in Seq(S)
  BY DEF IsSequence
<1> DEFINE T == S \cup {event}
<1>2. events \in Seq(T) /\ event \in T
  <2>1. \A i \in 1 .. Len(events) : events[i] \in T
    BY <1>1, ElementOfSeq
  <2>2. events = [i \in 1 .. Len(events) |-> events[i]] /\ Len(events) \in Nat
    BY <1>1, SeqDef, LenProperties
  <2>3. QED
    BY <2>1, <2>2, IsASeq
<1>3. Append(events, event) \in Seq(T)
  BY <1>2, AppendProperties
<1>4. IsSequence(Append(events, event))
  BY <1>3 DEF IsSequence
<1>5. QED
  BY <1>2, <1>4, AppendProperties, LenProperties

--------------------------------------------------------------------------------
(* The sanitizer. *)

(* What _sanitize_value leaves of a text is allowed.                            *)
LEMMA CleanTextsAreAllowed ==
  ASSUME NEW text
  PROVE  /\ Clean(text) \notin Unsafe
         /\ text \notin Unsafe => Clean(text) = text
  BY SanitizerAssumption DEF Clean

LEMMA CleanContentsAreAllowed ==
  ASSUME NEW content
  PROVE  /\ CleanContent(content) \cap Unsafe = {}
         /\ content \cap Unsafe = {} => CleanContent(content) = content
  BY SanitizerAssumption DEF CleanContent

(* A bounded payload has declared fields only and nothing to redact.            *)
LEMMA BoundedIsClean ==
  ASSUME NEW payload, NEW fields
  PROVE  /\ DOMAIN Bounded(payload, fields) \subseteq fields
         /\ ~UnsafePayload(Bounded(payload, fields))
<1> DEFINE bounded == Bounded(payload, fields)
<1>1. /\ DOMAIN bounded = (DOMAIN payload \cap fields) \ ForbiddenKey
      /\ \A f \in DOMAIN bounded : bounded[f] = CleanValue(f, payload[f])
  BY DEF Bounded
<1>2. ASSUME NEW f \in DOMAIN bounded, f \in Listing, NEW text \in bounded[f] PROVE text \notin Unsafe
  BY <1>1, <1>2, CleanTextsAreAllowed DEF CleanValue
<1>3. ASSUME NEW f \in DOMAIN bounded, f \notin Listing PROVE bounded[f] \notin Unsafe
  BY <1>1, <1>3, CleanTextsAreAllowed DEF CleanValue
<1>4. ASSUME NEW text \in Mentions(bounded) PROVE text \notin Unsafe
  <2>1. PICK f \in DOMAIN bounded : text \in IF f \in Listing THEN bounded[f] ELSE {bounded[f]}
    BY <1>4 DEF Mentions
  <2>2. QED
    BY <2>1, <1>2, <1>3
<1>5. QED
  BY <1>1, <1>4 DEF UnsafePayload

(* Nothing is redacted of a payload that is safe: what is left of it mentions   *)
(* what it mentioned.                                                           *)
LEMMA SafePayloadsAreKept ==
  ASSUME NEW payload, NEW fields, ~UnsafePayload(payload)
  PROVE  Mentions(Bounded(payload, fields)) \subseteq Mentions(payload)
<1> DEFINE bounded == Bounded(payload, fields)
<1>1. /\ DOMAIN bounded \subseteq DOMAIN payload
      /\ \A f \in DOMAIN bounded : bounded[f] = CleanValue(f, payload[f])
  BY DEF Bounded
<1>2. ASSUME NEW text \in Mentions(bounded) PROVE text \in Mentions(payload)
  <2>1. PICK f \in DOMAIN bounded : text \in IF f \in Listing THEN bounded[f] ELSE {bounded[f]}
    BY <1>2 DEF Mentions
  <2>2. \A t : t \in (IF f \in Listing THEN payload[f] ELSE {payload[f]}) => t \in Mentions(payload)
    BY <1>1 DEF Mentions
  <2>3. CASE f \in Listing
    <3>1. PICK t \in payload[f] : text = Clean(t)
      BY <1>1, <2>1, <2>3 DEF CleanValue
    <3>2. t \in Mentions(payload) /\ t \notin Unsafe
      BY <3>1, <2>2, <2>3 DEF UnsafePayload
    <3>3. QED
      BY <3>1, <3>2, CleanTextsAreAllowed
  <2>4. CASE f \notin Listing
    <3>1. text = Clean(payload[f])
      BY <1>1, <2>1, <2>4 DEF CleanValue
    <3>2. payload[f] \in Mentions(payload) /\ payload[f] \notin Unsafe
      BY <2>2, <2>4 DEF UnsafePayload
    <3>3. QED
      BY <3>1, <3>2, CleanTextsAreAllowed
  <2>5. QED
    BY <2>3, <2>4
<1>3. QED
  BY <1>2

--------------------------------------------------------------------------------
(* What a Domain and an Agent are asked for. *)

Callable(c, call) ==
    /\ call.tool \in DOMAIN EpisodeTools(c)
    /\ ValidArguments(EpisodeTools(c)[call.tool], call.args)

ResultType == {"observation", "state_change", "unauthorized_mutation", "tool_failure", "raises"}

(* A session is a record that holds the world of its Episode.                   *)
IsSession(session) ==
    /\ session = [f \in DOMAIN session |-> session[f]]
    /\ "world" \in DOMAIN session

(* A tool answers in one of the ways ToolExecutionResult has, and leaves the    *)
(* world of its session alone unless it answers with a change.                  *)
DomainContract ==
    \A c \in Case :
        /\ IsSession(EpisodeStart(c))
        /\ \A session, call :
               IsSession(session) /\ Callable(c, call) =>
                   LET done == ExecuteTool(c, session, call)
                   IN  /\ IsSession(done.session)
                       /\ done.result.type \in ResultType
                       /\ done.result.type # "state_change" => done.session.world = session.world

(* A history mentions the texts of a vocabulary only, where nothing was         *)
(* redacted: the marker of the sanitizer is none of them.                       *)
PlainEvent(Texts, e) ==
    /\ e.type = "action" => Mentions(e.args) \subseteq Texts
    /\ e.type \in {"observation", "state_change"} => Mentions(e.payload) \subseteq Texts
    /\ e.type = "final_response" => e.content \subseteq Texts

(* The arguments of a call are a record, a JSON object of the code.             *)
Told(Texts, args) ==
    /\ args = [f \in DOMAIN args |-> args[f]]
    /\ Mentions(args) \subseteq Texts

(* An Agent that reads the texts of a vocabulary says nothing else itself.      *)
AgentsKeepTo(Texts) ==
    \A c \in Case : \A events : (\A i \in DOMAIN events : PlainEvent(Texts, events[i])) =>
        \A decision \in Decision(c, events) :
            /\ decision.type = "tool_call" => Told(Texts, decision.args)
            /\ decision.type = "final_response" => decision.content \subseteq Texts

(* Nor does a tool that is told them; Sessions are those a case can get to.     *)
ToolsKeepTo(Texts, Sessions) ==
    \A c \in Case :
        /\ EpisodeStart(c) \in Sessions[c]
        /\ \A session \in Sessions[c] : \A call :
               Callable(c, call) /\ Told(Texts, call.args) =>
                   LET done == ExecuteTool(c, session, call)
                   IN  /\ done.session \in Sessions[c]
                       /\ done.result.type \in {"observation", "state_change"} =>
                              Mentions(done.result.payload) \subseteq Texts

(* The marker comes from the sanitizer: there is a vocabulary without it that   *)
(* Agents and tools keep to, as long as nothing was redacted.                   *)
MarkerContract ==
    \E Texts, Sessions :
        Redacted \notin Texts /\ AgentsKeepTo(Texts) /\ ToolsKeepTo(Texts, Sessions)

(* An assessment that gives reasons gives one that is there.                    *)
AssessmentContract ==
    \A c \in Case : \A events, authorization :
        LET assessed == AssessEvents(c, events, authorization)
        IN  assessed # None /\ assessed.reasons # <<>> => assessed.reasons[1] # None

--------------------------------------------------------------------------------
(* One tool call. *)

LEMMA ErrorsAreClean ==
  ASSUME NEW c \in Case, NEW tool, NEW code
  PROVE  /\ CleanEvent(c, Saved(ToolError(tool, code)))
         /\ CleanEvent(c, Saved(ErrorEvent(code)))
         /\ ToolError(tool, code).type = "error" /\ ErrorEvent(code).type = "error"
<1>1. Clean(tool) \notin Unsafe /\ None \notin Unsafe
  BY CleanTextsAreAllowed, SanitizerAssumption
<1>2. CASE tool = None
  BY <1>1, <1>2 DEF CleanEvent, Saved, ToolError, ErrorEvent
<1>3. CASE tool # None
  BY <1>1, <1>3 DEF CleanEvent, Saved, ToolError, ErrorEvent
<1>4. QED
  BY <1>2, <1>3

LEMMA ActionsAreClean ==
  ASSUME NEW c \in Case, NEW call
  PROVE  /\ ActionEvent(c, call).type = "action"
         /\ CleanEvent(c, Saved(ActionEvent(c, call)))
         /\ ~UnsafePayload(call.args) =>
                \A Texts : Mentions(call.args) \subseteq Texts => PlainEvent(Texts, ActionEvent(c, call))
<1> DEFINE fields == InputFields(EpisodeTools(c), call.tool)
           event == ActionEvent(c, call)
<1>1. /\ event.type = "action" /\ event.tool = Clean(call.tool) /\ Saved(event) = event
      /\ event.args = Bounded(call.args, fields)
  BY DEF ActionEvent, Saved
<1>2. fields \subseteq InputFields(EpisodeTools(c), Clean(call.tool))
  <2>1. CASE call.tool \in Unsafe
    BY <2>1, SanitizerAssumption DEF InputFields
  <2>2. CASE call.tool \notin Unsafe
    BY <2>2, CleanTextsAreAllowed
  <2>3. QED
    BY <2>1, <2>2
<1>3. CleanEvent(c, Saved(event))
  <2>1. ~UnsafePayload(event.args) /\ DOMAIN event.args \subseteq fields
    BY <1>1, BoundedIsClean
  <2>2. DOMAIN event.args \subseteq InputFields(EpisodeTools(c), event.tool)
    BY <1>1, <1>2, <2>1
  <2>3. QED
    BY <1>1, <2>1, <2>2, Zenon DEF CleanEvent
<1>4. ASSUME ~UnsafePayload(call.args), NEW Texts, Mentions(call.args) \subseteq Texts
      PROVE  PlainEvent(Texts, event)
  BY <1>1, <1>4, SafePayloadsAreKept DEF PlainEvent
<1>5. QED
  BY <1>1, <1>3, <1>4

(* What _execute_tool_decision makes of a call: an event, and the authorization *)
(* it establishes.                                                              *)
LEMMA ExecutedCalls ==
  ASSUME NEW c \in Case, NEW session, NEW call,
         Callable(c, call) => ExecuteTool(c, session, call).result.type \in ResultType
  PROVE  LET done == ExecuteToolDecision(c, session, call)
             answer == ExecuteTool(c, session, call)
         IN  /\ done.event.type \in {"observation", "state_change", "error"}
             /\ done.authorization \in {"not_applicable", "authorized", "rejected"}
             /\ done.event.type = "state_change" <=> done.authorization = "authorized"
             /\ CleanEvent(c, Saved(done.event))
             /\ IF Callable(c, call)
                THEN /\ done.session = answer.session
                     /\ done.event.type = "state_change" <=> answer.result.type = "state_change"
                     /\ answer.result.type \in {"observation", "state_change"} =>
                            /\ done.event.payload = Bounded(answer.result.payload,
                                                        OutputFields(EpisodeTools(c), call.tool))
                            /\ done.unsafe = UnsafePayload(answer.result.payload)
                     /\ answer.result.type \notin {"observation", "state_change"} =>
                            done.event.type = "error"
                ELSE done.session = session /\ done.event.type = "error"
<1> DEFINE done == ExecuteToolDecision(c, session, call)
           answer == ExecuteTool(c, session, call)
           output == OutputFields(EpisodeTools(c), call.tool)
<1>1. ASSUME NEW s, NEW code
      PROVE  LET refused == Refused(s, call, code)
             IN  /\ refused.event.type = "error" /\ refused.authorization = "not_applicable"
                 /\ CleanEvent(c, Saved(refused.event))
                 /\ refused.session = s
  BY ErrorsAreClean DEF Refused, ToolError
<1>2. CASE ~Callable(c, call)
  <2>1. \E code : done = Refused(session, call, code)
    BY <1>2 DEF ExecuteToolDecision, Callable
  <2>2. QED
    BY <1>1, <1>2, <2>1
<1>3. CASE Callable(c, call)
  <2>1. done = Answered(c, call, answer.session, answer.result)
    BY <1>3 DEF ExecuteToolDecision, Callable
  <2>2. answer.result.type \in ResultType
    BY <1>3
  <2>3. CASE answer.result.type = "raises"
    <3>1. done = Refused(answer.session, call, "tool_failure")
      BY <2>1, <2>3 DEF Answered
    <3>2. QED
      BY <1>1, <1>3, <2>3, <3>1
  <2>4. CASE answer.result.type \in {"tool_failure", "unauthorized_mutation"}
    <3>1. /\ done.event = ToolError(call.tool, answer.result.code)
          /\ done.authorization \in {"not_applicable", "rejected"}
          /\ done.session = answer.session
      BY <2>1, <2>4 DEF Answered
    <3>2. QED
      BY <1>3, <2>4, <3>1, ErrorsAreClean DEF ToolError
  <2>5. CASE answer.result.type \in {"observation", "state_change"}
    <3>1. /\ done.event = [type |-> answer.result.type, tool |-> call.tool,
                           payload |-> Bounded(answer.result.payload, output)]
          /\ answer.result.type = "state_change" <=> done.authorization = "authorized"
          /\ done.authorization \in {"not_applicable", "authorized", "rejected"}
          /\ done.session = answer.session
      BY <2>1, <2>5 DEF Answered
    <3>2. done.unsafe = UnsafePayload(answer.result.payload)
      <4>1. \E authorization :
                done = [event |-> [type |-> answer.result.type, tool |-> call.tool,
                                   payload |-> Bounded(answer.result.payload, output)],
                        authorization |-> authorization,
                        unsafe |-> UnsafePayload(answer.result.payload), session |-> answer.session]
        BY <2>1, <2>5 DEF Answered
      <4>2. PICK authorization :
                done = [event |-> [type |-> answer.result.type, tool |-> call.tool,
                                   payload |-> Bounded(answer.result.payload, output)],
                        authorization |-> authorization,
                        unsafe |-> UnsafePayload(answer.result.payload), session |-> answer.session]
        BY <4>1
      <4> HIDE DEF done
      <4>3. QED
        BY <4>2, Zenon
    <3>3. CleanEvent(c, Saved(done.event))
      <4>1. Saved(done.event) = done.event /\ done.event.type = answer.result.type
        BY <2>5, <3>1 DEF Saved
      <4>2. ~UnsafePayload(done.event.payload) /\ DOMAIN done.event.payload \subseteq output
        BY <3>1, BoundedIsClean
      <4>3. DOMAIN done.event.payload \subseteq OutputFields(EpisodeTools(c), done.event.tool)
        BY <3>1, <4>2
      <4>4. QED
        BY <2>5, <4>1, <4>2, <4>3 DEF CleanEvent
    <3>4. QED
      BY <1>3, <2>5, <3>1, <3>2, <3>3
  <2>6. QED
    BY <2>2, <2>3, <2>4, <2>5 DEF ResultType
<1>4. QED
  BY <1>2, <1>3

--------------------------------------------------------------------------------
(* Attempts: the local state of _run_agent_episode. *)

AttemptFields == {"session", "events", "authorization", "steps", "repairs", "terminal", "unsafe"}

IsAttempt(a) ==
    /\ a = [f \in AttemptFields |-> a[f]]
    /\ IsSequence(a.events)

(* The loop goes on: nothing has ended the attempt yet.                         *)
Open(a) ==
    /\ a.terminal = None /\ a.authorization # "rejected"
    /\ \A i \in DOMAIN a.events : a.events[i].type # "final_response"

Changed(a) == \E i \in DOMAIN a.events : a.events[i].type = "state_change"

(* Authorization and world are what the events say.                             *)
Explained(c, a) ==
    /\ IsSession(a.session)
    /\ a.authorization \in {"not_applicable", "authorized", "rejected"}
    /\ a.authorization = "rejected" <=> a.terminal = "unauthorized_mutation"
    /\ a.authorization = "authorized" <=> Changed(a) /\ a.terminal # "unauthorized_mutation"
    /\ ~Changed(a) => a.session.world = EpisodeStart(c).world

(* Every event is clean, and what was redacted is remembered.                   *)
Earned(Texts, Sessions, c, a) ==
    /\ \A i \in DOMAIN a.events : CleanEvent(c, Saved(a.events[i]))
    /\ ~a.unsafe => a.session \in Sessions[c] /\ EpisodeTexts(c) \cap Unsafe = {}
    /\ ~a.unsafe => \A i \in DOMAIN a.events : PlainEvent(Texts, a.events[i])

LEMMA RecordedEvent ==
  ASSUME NEW a, NEW event, IsAttempt(a)
  PROVE  /\ IsAttempt(Record(a, event))
         /\ \A f \in AttemptFields \ {"events"} : Record(a, event)[f] = a[f]
         /\ DOMAIN a.events = 1 .. Len(a.events) /\ Len(a.events) \in Nat
         /\ DOMAIN Record(a, event).events = 1 .. Len(a.events) + 1
         /\ Len(Record(a, event).events) = Len(a.events) + 1
         /\ Record(a, event).events[Len(a.events) + 1] = event
         /\ \A i \in DOMAIN a.events : Record(a, event).events[i] = a.events[i]
<1> DEFINE b == Record(a, event)
<1>1. b.events = Append(a.events, event) /\ b = [f \in AttemptFields |-> b[f]]
  BY DEF IsAttempt, Record, AttemptFields
<1>2. \A f \in AttemptFields \ {"events"} : b[f] = a[f]
  BY DEF IsAttempt, Record, AttemptFields
<1>3. IsSequence(a.events)
  BY DEF IsAttempt
<1> HIDE DEF b
<1> DEFINE longer == Append(a.events, event)
<1>4. /\ IsSequence(longer) /\ Len(a.events) \in Nat /\ DOMAIN a.events = 1 .. Len(a.events)
      /\ DOMAIN longer = 1 .. Len(a.events) + 1 /\ Len(longer) = Len(a.events) + 1
      /\ longer[Len(a.events) + 1] = event
      /\ \A i \in DOMAIN a.events : longer[i] = a.events[i]
  BY <1>3, AppendEvent
<1> HIDE DEF longer
<1>5. b.events = longer
  BY <1>1 DEF longer
<1>6. IsAttempt(b)
  BY <1>1, <1>4, <1>5, Zenon DEF IsAttempt
<1>7. QED
  BY <1>2, <1>4, <1>5, <1>6 DEF b

LEMMA FailedAttempt ==
  ASSUME NEW a, NEW code, IsAttempt(a)
  PROVE  LET b == Fail(a, code)
         IN  /\ IsAttempt(b)
             /\ \A f \in AttemptFields \ {"events", "terminal"} : b[f] = a[f]
             /\ b.terminal = code
             /\ DOMAIN a.events = 1 .. Len(a.events) /\ Len(a.events) \in Nat
             /\ DOMAIN b.events = 1 .. Len(a.events) + 1
             /\ b.events[Len(a.events) + 1] = ErrorEvent(code)
             /\ \A i \in DOMAIN a.events : b.events[i] = a.events[i]
<1> DEFINE r == Record(a, ErrorEvent(code))
           b == Fail(a, code)
<1>1. b = [r EXCEPT !.terminal = code]
  BY DEF Fail
<1>2. r = [f \in AttemptFields |-> r[f]] /\ IsSequence(r.events)
  BY RecordedEvent DEF IsAttempt
<1>3. /\ b = [f \in AttemptFields |-> b[f]] /\ b.terminal = code
      /\ \A f \in AttemptFields \ {"terminal"} : b[f] = r[f]
  BY <1>1, <1>2 DEF AttemptFields
<1>4. b.events = r.events
  BY <1>3 DEF AttemptFields
<1> HIDE DEF r, b
<1>5. QED
  BY <1>2, <1>3, <1>4, RecordedEvent DEF IsAttempt, r, b

LEMMA StartedAttempt ==
  ASSUME NEW c \in Case
  PROVE  LET a == NewAttempt(c)
         IN  /\ IsAttempt(a) /\ Open(a)
             /\ a.events = <<>> /\ DOMAIN a.events = {}
             /\ a.session = EpisodeStart(c) /\ a.authorization = "not_applicable"
             /\ ~a.unsafe => EpisodeTexts(c) \cap Unsafe = {}
<1> DEFINE a == NewAttempt(c)
<1>1. a = [f \in AttemptFields |-> a[f]]
  BY DEF NewAttempt, AttemptFields
<1>2. /\ a.events = <<>> /\ a.terminal = None /\ a.session = EpisodeStart(c)
      /\ a.authorization = "not_applicable"
  BY DEF NewAttempt
<1>3. IsSequence(<<>>) /\ DOMAIN <<>> = {}
  BY EmptySeq, LenProperties DEF IsSequence
<1>4. ~a.unsafe => EpisodeTexts(c) \cap Unsafe = {}
  <2>1. a.unsafe = (EpisodeTexts(c) \cap Unsafe # {})
    BY Zenon DEF NewAttempt
  <2>2. QED
    BY <2>1
<1> HIDE DEF a
<1>5. QED
  BY <1>1, <1>2, <1>3, <1>4 DEF IsAttempt, Open, a

LEMMA ErrorKeepsOpen ==
  ASSUME NEW a, IsAttempt(a), Open(a), NEW code
  PROVE  Open(Record(a, ErrorEvent(code)))
<1> DEFINE b == Record(a, ErrorEvent(code))
<1>1. b.terminal = a.terminal /\ b.authorization = a.authorization
  BY RecordedEvent DEF AttemptFields
<1>2. ErrorEvent(code).type # "final_response"
  BY DEF ErrorEvent
<1>3. \A i \in DOMAIN b.events : b.events[i] = ErrorEvent(code) \/ (i \in DOMAIN a.events /\ b.events[i] = a.events[i])
  BY RecordedEvent
<1> HIDE DEF b
<1>4. QED
  BY <1>1, <1>2, <1>3 DEF Open, b

(* The attempt after a final response, and after a tool call.                   *)
Finished(a, decision) ==
    [Record(a, [type |-> "final_response", content |-> CleanContent(decision.content)])
       EXCEPT !.steps = @ + 1, !.unsafe = @ \/ decision.content \cap Unsafe # {}]

Called(c, a, call) ==
    LET done == ExecuteToolDecision(c, a.session, call)
    IN  [Record(Record(a, ActionEvent(c, call)), done.event)
           EXCEPT !.steps = @ + 1, !.session = done.session,
                  !.authorization = Authorized(@, done.authorization),
                  !.unsafe = \/ @ \/ done.unsafe
                             \/ UnsafePayload(call.args) \/ call.tool \in Unsafe]

LEMMA FinishedAttempt ==
  ASSUME NEW a, NEW decision, IsAttempt(a)
  PROVE  LET b == Finished(a, decision)
             event == [type |-> "final_response", content |-> CleanContent(decision.content)]
         IN  /\ IsAttempt(b)
             /\ \A f \in AttemptFields \ {"events", "steps", "unsafe"} : b[f] = a[f]
             /\ b.events = Record(a, event).events
             /\ ~b.unsafe => ~a.unsafe /\ decision.content \cap Unsafe = {}
<1> DEFINE event == [type |-> "final_response", content |-> CleanContent(decision.content)]
           r == Record(a, event)
           b == Finished(a, decision)
<1>1. IsAttempt(r) /\ \A f \in AttemptFields \ {"events"} : r[f] = a[f]
  BY RecordedEvent
<1>2. b = [r EXCEPT !.steps = @ + 1, !.unsafe = @ \/ decision.content \cap Unsafe # {}]
  BY DEF Finished
<1> HIDE DEF r, b
<1>3. /\ b = [f \in AttemptFields |-> b[f]]
      /\ \A f \in AttemptFields \ {"steps", "unsafe"} : b[f] = r[f]
  BY <1>1, <1>2 DEF IsAttempt, AttemptFields
<1>4. "unsafe" \in DOMAIN r
  BY <1>1 DEF IsAttempt, AttemptFields
<1>5. b.unsafe = (r.unsafe \/ decision.content \cap Unsafe # {})
  BY <1>2, <1>4, Zenon
<1>6. b.events = r.events /\ r.unsafe = a.unsafe
  BY <1>1, <1>3 DEF AttemptFields
<1>7. ~b.unsafe => ~a.unsafe /\ decision.content \cap Unsafe = {}
  BY <1>5, <1>6, Zenon
<1>8. IsAttempt(b)
  BY <1>1, <1>3, <1>6 DEF IsAttempt
<1>9. QED
  BY <1>1, <1>3, <1>6, <1>7, <1>8 DEF r, b

LEMMA RecordedTwice ==
  ASSUME NEW a, NEW action, NEW event, IsAttempt(a)
  PROVE  LET r == Record(Record(a, action), event)
         IN  /\ IsAttempt(r)
             /\ \A f \in AttemptFields \ {"events"} : r[f] = a[f]
             /\ Len(a.events) \in Nat /\ DOMAIN a.events = 1 .. Len(a.events)
             /\ DOMAIN r.events = 1 .. Len(a.events) + 2
             /\ r.events[Len(a.events) + 1] = action /\ r.events[Len(a.events) + 2] = event
             /\ \A i \in DOMAIN a.events : r.events[i] = a.events[i]
<1> DEFINE q == Record(a, action)
           r == Record(q, event)
<1>1. /\ IsAttempt(q) /\ \A f \in AttemptFields \ {"events"} : q[f] = a[f]
      /\ Len(a.events) \in Nat /\ DOMAIN a.events = 1 .. Len(a.events)
      /\ DOMAIN q.events = 1 .. Len(a.events) + 1 /\ Len(q.events) = Len(a.events) + 1
      /\ q.events[Len(a.events) + 1] = action
      /\ \A i \in DOMAIN a.events : q.events[i] = a.events[i]
  BY RecordedEvent
<1> HIDE DEF q
<1>2. /\ IsAttempt(r) /\ \A f \in AttemptFields \ {"events"} : r[f] = q[f]
      /\ DOMAIN r.events = 1 .. Len(q.events) + 1
      /\ r.events[Len(q.events) + 1] = event
      /\ \A i \in DOMAIN q.events : r.events[i] = q.events[i]
  BY <1>1, RecordedEvent
<1> HIDE DEF r
<1>3. QED
  BY <1>1, <1>2 DEF r, q

LEMMA CalledAttempt ==
  ASSUME NEW c, NEW a, NEW call, IsAttempt(a)
  PROVE  LET b == Called(c, a, call)
             done == ExecuteToolDecision(c, a.session, call)
             action == ActionEvent(c, call)
         IN  /\ IsAttempt(b)
             /\ b.terminal = a.terminal /\ b.session = done.session
             /\ b.authorization = Authorized(a.authorization, done.authorization)
             /\ ~b.unsafe => /\ ~a.unsafe /\ ~done.unsafe
                             /\ ~UnsafePayload(call.args) /\ call.tool \notin Unsafe
             /\ DOMAIN a.events \subseteq DOMAIN b.events
             /\ \A i \in DOMAIN a.events : b.events[i] = a.events[i]
             /\ \A i \in DOMAIN b.events \ DOMAIN a.events : b.events[i] \in {action, done.event}
             /\ \E i \in DOMAIN b.events : b.events[i] = done.event
<1> DEFINE done == ExecuteToolDecision(c, a.session, call)
           action == ActionEvent(c, call)
           r == Record(Record(a, action), done.event)
           b == Called(c, a, call)
<1>1. /\ IsAttempt(r) /\ \A f \in AttemptFields \ {"events"} : r[f] = a[f]
      /\ Len(a.events) \in Nat /\ DOMAIN a.events = 1 .. Len(a.events)
      /\ DOMAIN r.events = 1 .. Len(a.events) + 2
      /\ r.events[Len(a.events) + 1] = action /\ r.events[Len(a.events) + 2] = done.event
      /\ \A i \in DOMAIN a.events : r.events[i] = a.events[i]
  BY RecordedTwice
<1>2. b = [r EXCEPT !.steps = @ + 1, !.session = done.session,
                    !.authorization = Authorized(@, done.authorization),
                    !.unsafe = \/ @ \/ done.unsafe
                               \/ UnsafePayload(call.args) \/ call.tool \in Unsafe]
  BY DEF Called
<1> HIDE DEF r, b, done, action
<1>3. /\ b = [f \in AttemptFields |-> b[f]]
      /\ \A f \in AttemptFields \ {"steps", "unsafe", "session", "authorization"} : b[f] = r[f]
      /\ b.session = done.session
      /\ b.authorization = Authorized(r.authorization, done.authorization)
  BY <1>1, <1>2 DEF IsAttempt, AttemptFields
<1>4. "unsafe" \in DOMAIN r
  BY <1>1 DEF IsAttempt, AttemptFields
<1>5. b.unsafe = (\/ r.unsafe \/ done.unsafe
                  \/ UnsafePayload(call.args) \/ call.tool \in Unsafe)
  BY <1>2, <1>4, Zenon
<1>6. /\ b.events = r.events /\ b.terminal = a.terminal /\ r.unsafe = a.unsafe
      /\ r.authorization = a.authorization
  BY <1>1, <1>3 DEF AttemptFields
<1>7. ~b.unsafe => ~a.unsafe /\ ~done.unsafe /\ ~UnsafePayload(call.args) /\ call.tool \notin Unsafe
  BY <1>5, <1>6, Zenon
<1>8. IsAttempt(b)
  BY <1>1, <1>3, <1>6 DEF IsAttempt
<1>9. /\ DOMAIN a.events \subseteq DOMAIN r.events
      /\ \A i \in DOMAIN a.events : r.events[i] = a.events[i]
      /\ \A i \in DOMAIN r.events \ DOMAIN a.events : r.events[i] \in {action, done.event}
      /\ \E i \in DOMAIN r.events : r.events[i] = done.event
  <2>1. \A i \in DOMAIN r.events \ DOMAIN a.events : i = Len(a.events) + 1 \/ i = Len(a.events) + 2
    BY <1>1
  <2>2. QED
    BY <1>1, <2>1
<1>10. QED
  BY <1>3, <1>6, <1>7, <1>8, <1>9 DEF r, b, done, action

(* Where a call leaves its action and the answer.                               *)
LEMMA CalledEvents ==
  ASSUME NEW c, NEW a, NEW call, IsAttempt(a)
  PROVE  LET b == Called(c, a, call)
             done == ExecuteToolDecision(c, a.session, call)
             n == Len(a.events)
         IN  /\ n \in Nat /\ DOMAIN a.events = 1 .. n /\ DOMAIN b.events = 1 .. n + 2
             /\ b.events[n + 1] = ActionEvent(c, call) /\ b.events[n + 2] = done.event
             /\ \A i \in 1 .. n : b.events[i] = a.events[i]
<1> DEFINE done == ExecuteToolDecision(c, a.session, call)
           action == ActionEvent(c, call)
           r == Record(Record(a, action), done.event)
           b == Called(c, a, call)
<1>1. /\ Len(a.events) \in Nat /\ DOMAIN a.events = 1 .. Len(a.events)
      /\ DOMAIN r.events = 1 .. Len(a.events) + 2
      /\ r.events[Len(a.events) + 1] = action /\ r.events[Len(a.events) + 2] = done.event
      /\ \A i \in DOMAIN a.events : r.events[i] = a.events[i]
  BY RecordedTwice
<1>2. b.events = r.events
  <2>1. b = [r EXCEPT !.steps = @ + 1, !.session = done.session,
                      !.authorization = Authorized(@, done.authorization),
                      !.unsafe = \/ @ \/ done.unsafe
                                 \/ UnsafePayload(call.args) \/ call.tool \in Unsafe]
    BY DEF Called
  <2>2. IsAttempt(r)
    BY RecordedTwice
  <2> HIDE DEF b, r, done
  <2>3. QED
    BY <2>1, <2>2 DEF IsAttempt, AttemptFields
<1> HIDE DEF r, b, done, action
<1>3. QED
  BY <1>1, <1>2 DEF b, done, action

--------------------------------------------------------------------------------
(* Steps of the rollout, as what they make of the attempt. *)

(* The loop of _run_agent_episode: an attempt that has not ended is open, and   *)
(* one that ended by nothing else ends in its one final response.               *)
LoopInvariant ==
    /\ case \in Case
    /\ IsAttempt(attempt)
    /\ phase = "ready" => attempt = NewAttempt(case)
    /\ phase = "running" => Open(attempt)
    /\ phase = "ended" /\ attempt.terminal = None =>
           /\ Len(attempt.events) \in DOMAIN attempt.events
           /\ \A i \in DOMAIN attempt.events :
                  attempt.events[i].type = "final_response" <=> i = Len(attempt.events)

FailureCode == {"episode_open_failure", "malformed_agent_decision", "agent_request_failed",
                "step_budget_exhausted"}

Starts == attempt' = NewAttempt(case) /\ phase' \in {"ready", "running"}
Fails ==
    \E code \in FailureCode : attempt' = Fail(attempt, code) /\ phase' \in {"ended", "raised"}
Repairs ==
    /\ attempt' = [Record(attempt, ErrorEvent("malformed_agent_decision")) EXCEPT !.repairs = @ + 1]
    /\ phase' = "running"
Finishes(decision) ==
    /\ decision.type = "final_response"
    /\ attempt' = Finished(attempt, decision) /\ phase' \in {"ended", "raised"}
Calls(call) ==
    /\ call.type = "tool_call"
    /\ LET done == ExecuteToolDecision(case, attempt.session, call)
           a == Called(case, attempt, call)
       IN  \/ /\ done.authorization = "rejected"
              /\ attempt' = [a EXCEPT !.terminal = "unauthorized_mutation"]
              /\ phase' \in {"ended", "raised"}
           \/ /\ done.authorization # "rejected"
              /\ attempt' = Fail(a, "step_budget_exhausted") /\ phase' \in {"ended", "raised"}
           \/ /\ done.authorization # "rejected"
              /\ attempt' = a /\ phase' = "running"

LEMMA NextSteps ==
  ASSUME LoopInvariant, Next
  PROVE  /\ case' = case
         /\ \/ Starts
            \/ /\ Open(attempt)
               /\ \/ Fails \/ Repairs
                  \/ \E decision \in Decision(case, attempt.events) :
                         Finishes(decision) \/ Calls(decision)
<1>1. CASE OpenEpisode
  <2>1. attempt = NewAttempt(case) /\ Open(attempt)
    BY <1>1, StartedAttempt DEF OpenEpisode, LoopInvariant
  <2>2. QED
    BY <1>1, <2>1 DEF OpenEpisode, Conclude, Starts, Fails, FailureCode
<1>2. CASE MalformedDecision
  <2>1. Open(attempt) /\ case' = case
    BY <1>2 DEF MalformedDecision, LoopInvariant
  <2>2. CASE attempt.repairs >= RepairLimit
    <3>1. /\ attempt' = Fail(attempt, "malformed_agent_decision")
          /\ phase' \in {"ended", "raised"}
      BY <1>2, <2>2 DEF MalformedDecision, Conclude, Fail
    <3>2. QED
      BY <2>1, <3>1 DEF Fails, FailureCode
  <2>3. CASE ~(attempt.repairs >= RepairLimit)
    <3>1. Repairs
      BY <1>2, <2>3 DEF MalformedDecision, Repairs
    <3>2. QED
      BY <2>1, <3>1
  <2>4. QED
    BY <2>2, <2>3
<1>3. CASE CallFails
  BY <1>3 DEF CallFails, LoopInvariant, Conclude, Fails, FailureCode
<1>4. CASE Decides
  <2>1. PICK decision \in Decision(case, attempt.events) :
            FinalResponse(decision) \/ ToolCall(decision)
    BY <1>4 DEF Decides
  <2>2. Open(attempt)
    BY <1>4 DEF Decides, LoopInvariant
  <2>3. CASE FinalResponse(decision)
    <3>1. case' = case /\ Finishes(decision)
      BY <2>3 DEF FinalResponse, Conclude, Finishes, Finished
    <3>2. QED
      BY <2>2, <3>1
  <2>4. CASE ToolCall(decision)
    <3> DEFINE done == ExecuteToolDecision(case, attempt.session, decision)
               a == Called(case, attempt, decision)
    <3>1. /\ case' = case /\ decision.type = "tool_call"
          /\ IF done.authorization = "rejected"
             THEN Conclude([a EXCEPT !.terminal = "unauthorized_mutation"])
             ELSE Continue(a)
      BY <2>4 DEF ToolCall, Called
    <3>2. Calls(decision)
      BY <3>1 DEF Continue, Conclude, Calls
    <3>3. QED
      BY <2>2, <3>1, <3>2
  <2>5. QED
    BY <2>1, <2>3, <2>4
<1>5. CASE Interrupted
  BY <1>5 DEF Interrupted, Starts
<1>6. QED
  BY <1>1, <1>2, <1>3, <1>4, <1>5 DEF Next, Progress

(* An attempt with another terminal cause or another count of repairs.          *)
LEMMA TerminatedAttempt ==
  ASSUME NEW a, NEW code, IsAttempt(a)
  PROVE  LET b == [a EXCEPT !.terminal = code]
         IN  /\ IsAttempt(b) /\ b.terminal = code
             /\ \A f \in AttemptFields \ {"terminal"} : b[f] = a[f]
<1> DEFINE b == [a EXCEPT !.terminal = code]
<1>1. /\ b = [f \in AttemptFields |-> b[f]] /\ b.terminal = code
      /\ \A f \in AttemptFields \ {"terminal"} : b[f] = a[f]
  BY DEF IsAttempt, AttemptFields
<1>2. b.events = a.events
  BY <1>1 DEF AttemptFields
<1> HIDE DEF b
<1>3. QED
  BY <1>1, <1>2 DEF IsAttempt, b

LEMMA RepairedAttempt ==
  ASSUME NEW a, IsAttempt(a)
  PROVE  LET b == [a EXCEPT !.repairs = @ + 1]
         IN  IsAttempt(b) /\ \A f \in AttemptFields \ {"repairs"} : b[f] = a[f]
<1> DEFINE b == [a EXCEPT !.repairs = @ + 1]
<1>1. /\ b = [f \in AttemptFields |-> b[f]]
      /\ \A f \in AttemptFields \ {"repairs"} : b[f] = a[f]
  BY DEF IsAttempt, AttemptFields
<1>2. b.events = a.events
  BY <1>1 DEF AttemptFields
<1> HIDE DEF b
<1>3. QED
  BY <1>1, <1>2 DEF IsAttempt, b

(* The tools the Agent calls next answer in a way the engine knows.             *)
AnswersAreKnown ==
    \A call \in Decision(case, attempt.events) :
        call.type = "tool_call" /\ Callable(case, call) =>
            ExecuteTool(case, attempt.session, call).result.type \in ResultType

LEMMA CallsKeepOpen ==
  ASSUME NEW c \in Case, NEW a, IsAttempt(a), Open(a), NEW call,
         Callable(c, call) => ExecuteTool(c, a.session, call).result.type \in ResultType,
         ExecuteToolDecision(c, a.session, call).authorization # "rejected"
  PROVE  Open(Called(c, a, call))
<1> DEFINE b == Called(c, a, call)
           done == ExecuteToolDecision(c, a.session, call)
           action == ActionEvent(c, call)
<1>1. /\ action.type # "final_response" /\ done.event.type # "final_response"
      /\ done.authorization \in {"not_applicable", "authorized"}
  BY ActionsAreClean, ExecutedCalls
<1>2. /\ b.terminal = a.terminal
      /\ b.authorization = Authorized(a.authorization, done.authorization)
      /\ \A i \in DOMAIN a.events : b.events[i] = a.events[i]
      /\ \A i \in DOMAIN b.events \ DOMAIN a.events : b.events[i] \in {action, done.event}
  BY CalledAttempt
<1> HIDE DEF b, done, action
<1>3. b.authorization # "rejected"
  BY <1>1, <1>2 DEF Authorized, Open
<1>4. QED
  BY <1>1, <1>2, <1>3 DEF Open, b

LEMMA LoopStep ==
  ASSUME LoopInvariant, AnswersAreKnown, Next
  PROVE  LoopInvariant'
<1>1. /\ case' = case /\ case \in Case /\ IsAttempt(attempt)
      /\ \/ Starts
         \/ /\ Open(attempt)
            /\ \/ Fails \/ Repairs
               \/ \E decision \in Decision(case, attempt.events) :
                      Finishes(decision) \/ Calls(decision)
  BY NextSteps DEF LoopInvariant
<1>2. CASE Starts
  BY <1>1, <1>2, StartedAttempt DEF Starts, LoopInvariant
<1>3. ASSUME Open(attempt), Fails PROVE LoopInvariant'
  <2>1. PICK code \in FailureCode :
            attempt' = Fail(attempt, code) /\ phase' \in {"ended", "raised"}
    BY <1>3 DEF Fails
  <2>2. IsAttempt(Fail(attempt, code)) /\ Fail(attempt, code).terminal = code
    BY <1>1, FailedAttempt
  <2>3. code # None
    BY SanitizerAssumption DEF FailureCode
  <2>4. QED
    BY <1>1, <2>1, <2>2, <2>3 DEF LoopInvariant
<1>4. ASSUME Open(attempt), Repairs PROVE LoopInvariant'
  <2> DEFINE r == Record(attempt, ErrorEvent("malformed_agent_decision"))
  <2>1. IsAttempt(r) /\ Open(r)
    BY <1>1, <1>4, RecordedEvent, ErrorKeepsOpen
  <2>2. attempt' = [r EXCEPT !.repairs = @ + 1] /\ phase' = "running"
    BY <1>4 DEF Repairs
  <2> HIDE DEF r
  <2>3. /\ IsAttempt(attempt') /\ attempt'.terminal = r.terminal
        /\ attempt'.authorization = r.authorization /\ attempt'.events = r.events
    BY <2>1, <2>2, RepairedAttempt DEF AttemptFields
  <2>4. Open(attempt')
    BY <2>1, <2>3 DEF Open
  <2>5. QED
    BY <1>1, <2>2, <2>3, <2>4 DEF LoopInvariant, Open
<1>5. ASSUME Open(attempt), NEW decision, Finishes(decision) PROVE LoopInvariant'
  <2> DEFINE event == [type |-> "final_response", content |-> CleanContent(decision.content)]
             r == Record(attempt, event)
  <2>1. attempt' = Finished(attempt, decision) /\ phase' \in {"ended", "raised"}
    BY <1>5 DEF Finishes
  <2>2. IsAttempt(attempt') /\ attempt'.events = r.events
    BY <1>1, <2>1, FinishedAttempt
  <2>3. /\ Len(attempt.events) \in Nat /\ DOMAIN attempt.events = 1 .. Len(attempt.events)
        /\ DOMAIN r.events = 1 .. Len(attempt.events) + 1
        /\ Len(r.events) = Len(attempt.events) + 1
        /\ r.events[Len(attempt.events) + 1] = event
        /\ \A i \in DOMAIN attempt.events : r.events[i] = attempt.events[i]
    BY <1>1, RecordedEvent
  <2>4. event.type = "final_response"
    OBVIOUS
  <2> HIDE DEF event, r
  <2>5. /\ Len(r.events) \in DOMAIN r.events
        /\ \A i \in DOMAIN r.events : r.events[i].type = "final_response" <=> i = Len(r.events)
    BY <1>5, <2>3, <2>4 DEF Open
  <2>6. QED
    BY <1>1, <2>1, <2>2, <2>5 DEF LoopInvariant
<1>6. ASSUME Open(attempt), NEW call \in Decision(case, attempt.events), Calls(call)
      PROVE  LoopInvariant'
  <2> DEFINE done == ExecuteToolDecision(case, attempt.session, call)
             a == Called(case, attempt, call)
  <2>1. IsAttempt(a)
    BY <1>1, CalledAttempt
  <2>2. Callable(case, call) => ExecuteTool(case, attempt.session, call).result.type \in ResultType
    BY <1>6 DEF AnswersAreKnown, Calls
  <2>3. \/ /\ attempt' = [a EXCEPT !.terminal = "unauthorized_mutation"]
           /\ phase' \in {"ended", "raised"}
        \/ attempt' = Fail(a, "step_budget_exhausted") /\ phase' \in {"ended", "raised"}
        \/ done.authorization # "rejected" /\ attempt' = a /\ phase' = "running"
    BY <1>6 DEF Calls
  <2>4. CASE attempt' = [a EXCEPT !.terminal = "unauthorized_mutation"] /\ phase' \in {"ended", "raised"}
    <3>1. IsAttempt(attempt') /\ attempt'.terminal = "unauthorized_mutation"
      BY <2>1, <2>4, TerminatedAttempt
    <3>2. QED
      BY <1>1, <2>4, <3>1, SanitizerAssumption DEF LoopInvariant
  <2>5. CASE attempt' = Fail(a, "step_budget_exhausted") /\ phase' \in {"ended", "raised"}
    <3>1. IsAttempt(attempt') /\ attempt'.terminal = "step_budget_exhausted"
      BY <2>1, <2>5, FailedAttempt
    <3>2. QED
      BY <1>1, <2>5, <3>1, SanitizerAssumption DEF LoopInvariant
  <2>6. CASE done.authorization # "rejected" /\ attempt' = a /\ phase' = "running"
    <3>1. Open(a)
      BY <1>1, <1>6, <2>2, <2>6, CallsKeepOpen
    <3>2. QED
      BY <1>1, <2>1, <2>6, <3>1 DEF LoopInvariant, Open
  <2>7. QED
    BY <2>3, <2>4, <2>5, <2>6
<1>7. QED
  BY <1>1, <1>2, <1>3, <1>4, <1>5, <1>6

--------------------------------------------------------------------------------
(* What an Episode did is what its events say. *)

LEMMA KeptExplained ==
  ASSUME NEW c \in Case, NEW a, IsAttempt(a), Explained(c, a), NEW b,
         b.session = a.session, b.authorization = a.authorization, Changed(b) <=> Changed(a),
         b.terminal = "unauthorized_mutation" <=> a.terminal = "unauthorized_mutation"
  PROVE  Explained(c, b)
  BY DEF Explained

LEMMA FailuresAreExplained ==
  ASSUME NEW c \in Case, NEW a, IsAttempt(a), Explained(c, a), Open(a),
         NEW code \in FailureCode
  PROVE  Explained(c, Fail(a, code))
<1> DEFINE b == Fail(a, code)
<1>1. /\ b.session = a.session /\ b.authorization = a.authorization /\ b.terminal = code
      /\ Len(a.events) \in Nat
      /\ DOMAIN a.events = 1 .. Len(a.events) /\ DOMAIN b.events = 1 .. Len(a.events) + 1
      /\ b.events[Len(a.events) + 1] = ErrorEvent(code)
      /\ \A i \in DOMAIN a.events : b.events[i] = a.events[i]
  BY FailedAttempt DEF AttemptFields
<1> HIDE DEF b
<1>2. \A i \in DOMAIN b.events : i \in DOMAIN a.events \/ b.events[i].type = "error"
  BY <1>1 DEF ErrorEvent
<1>3. Changed(b) <=> Changed(a)
  BY <1>1, <1>2 DEF Changed
<1>4. a.terminal # "unauthorized_mutation" /\ b.terminal # "unauthorized_mutation"
  BY <1>1, SanitizerAssumption DEF Open, FailureCode
<1>5. QED
  BY <1>1, <1>3, <1>4, KeptExplained DEF b

LEMMA CallsAreExplained ==
  ASSUME DomainContract, NEW c \in Case,
         NEW a, IsAttempt(a), Explained(c, a), Open(a), NEW call
  PROVE  LET b == Called(c, a, call)
             done == ExecuteToolDecision(c, a.session, call)
         IN  /\ IsSession(b.session)
             /\ b.authorization \in {"not_applicable", "authorized", "rejected"}
             /\ b.authorization = "rejected" <=> done.authorization = "rejected"
             /\ b.authorization = "authorized" <=> Changed(b) /\ done.authorization # "rejected"
             /\ ~Changed(b) => b.session.world = EpisodeStart(c).world
<1> DEFINE b == Called(c, a, call)
           done == ExecuteToolDecision(c, a.session, call)
           answer == ExecuteTool(c, a.session, call)
           action == ActionEvent(c, call)
<1>1. IsSession(a.session)
  BY DEF Explained
<1>2. Callable(c, call) =>
        /\ IsSession(answer.session) /\ answer.result.type \in ResultType
        /\ answer.result.type # "state_change" => answer.session.world = a.session.world
  BY <1>1 DEF DomainContract
<1>3. /\ done.authorization \in {"not_applicable", "authorized", "rejected"}
      /\ done.event.type = "state_change" <=> done.authorization = "authorized"
      /\ IF Callable(c, call)
         THEN /\ done.session = answer.session
              /\ done.event.type = "state_change" <=> answer.result.type = "state_change"
         ELSE done.session = a.session
  BY <1>2, ExecutedCalls
<1>4. /\ b.session = done.session
      /\ b.authorization = Authorized(a.authorization, done.authorization)
      /\ DOMAIN a.events \subseteq DOMAIN b.events
      /\ \A i \in DOMAIN a.events : b.events[i] = a.events[i]
      /\ \A i \in DOMAIN b.events \ DOMAIN a.events : b.events[i] \in {action, done.event}
      /\ \E i \in DOMAIN b.events : b.events[i] = done.event
  BY CalledAttempt
<1>5. action.type = "action"
  BY ActionsAreClean
<1> HIDE DEF b, done, answer, action
<1>6. Changed(b) <=> Changed(a) \/ done.authorization = "authorized"
  BY <1>3, <1>4, <1>5 DEF Changed
<1>7. a.authorization \in {"not_applicable", "authorized"} /\ (a.authorization = "authorized" <=> Changed(a))
  BY SanitizerAssumption DEF Open, Explained
<1>8. /\ b.authorization \in {"not_applicable", "authorized", "rejected"}
      /\ b.authorization = "rejected" <=> done.authorization = "rejected"
      /\ b.authorization = "authorized" <=> Changed(b) /\ done.authorization # "rejected"
  BY <1>3, <1>4, <1>6, <1>7 DEF Authorized
<1>9. IsSession(b.session)
  BY <1>1, <1>2, <1>3, <1>4
<1>10. ASSUME ~Changed(b) PROVE b.session.world = EpisodeStart(c).world
  <2>1. ~Changed(a) /\ a.session.world = EpisodeStart(c).world
    BY <1>6, <1>10 DEF Explained
  <2>2. done.session.world = a.session.world
    BY <1>2, <1>3, <1>6, <1>10
  <2>3. QED
    BY <1>4, <2>1, <2>2
<1>11. QED
  BY <1>8, <1>9, <1>10 DEF b, done

LEMMA ExplainedStep ==
  ASSUME DomainContract, LoopInvariant,
         Explained(case, attempt), Next
  PROVE  Explained(case, attempt)'
<1>1. /\ case' = case /\ case \in Case /\ IsAttempt(attempt)
      /\ \/ Starts
         \/ /\ Open(attempt)
            /\ \/ Fails \/ Repairs
               \/ \E decision \in Decision(case, attempt.events) :
                      Finishes(decision) \/ Calls(decision)
  BY NextSteps DEF LoopInvariant
<1> SUFFICES Explained(case, attempt')
  BY <1>1 DEF Explained, Changed
<1>2. CASE Starts
  <2>1. /\ DOMAIN attempt'.events = {} /\ attempt'.session = EpisodeStart(case)
        /\ attempt'.authorization = "not_applicable" /\ attempt'.terminal = None
    BY <1>1, <1>2, StartedAttempt DEF Starts, Open
  <2>2. IsSession(EpisodeStart(case))
    BY <1>1 DEF DomainContract
  <2>3. QED
    BY <2>1, <2>2, SanitizerAssumption DEF Explained, Changed
<1>3. ASSUME Open(attempt), Fails PROVE Explained(case, attempt')
  BY <1>1, <1>3, FailuresAreExplained DEF Fails
<1>4. ASSUME Open(attempt), Repairs PROVE Explained(case, attempt')
  <2> DEFINE r == Record(attempt, ErrorEvent("malformed_agent_decision"))
  <2>1. /\ IsAttempt(r) /\ r.session = attempt.session /\ r.authorization = attempt.authorization
        /\ r.terminal = attempt.terminal
        /\ Len(attempt.events) \in Nat
        /\ DOMAIN attempt.events = 1 .. Len(attempt.events)
        /\ DOMAIN r.events = 1 .. Len(attempt.events) + 1
        /\ r.events[Len(attempt.events) + 1].type = "error"
        /\ \A i \in DOMAIN attempt.events : r.events[i] = attempt.events[i]
    BY <1>1, RecordedEvent DEF AttemptFields, ErrorEvent
  <2>2. attempt' = [r EXCEPT !.repairs = @ + 1]
    BY <1>4 DEF Repairs
  <2> HIDE DEF r
  <2>3. /\ attempt'.terminal = r.terminal /\ attempt'.session = r.session
        /\ attempt'.authorization = r.authorization /\ attempt'.events = r.events
    BY <2>1, <2>2, RepairedAttempt DEF AttemptFields
  <2>4. Changed(attempt') <=> Changed(attempt)
    BY <2>1, <2>3 DEF Changed
  <2>5. QED
    BY <1>1, <2>1, <2>3, <2>4, KeptExplained
<1>5. ASSUME Open(attempt), NEW decision, Finishes(decision) PROVE Explained(case, attempt')
  <2> DEFINE event == [type |-> "final_response", content |-> CleanContent(decision.content)]
             r == Record(attempt, event)
  <2>1. attempt' = Finished(attempt, decision)
    BY <1>5 DEF Finishes
  <2>2. /\ attempt'.events = r.events /\ attempt'.session = attempt.session
        /\ attempt'.terminal = attempt.terminal /\ attempt'.authorization = attempt.authorization
    BY <1>1, <2>1, FinishedAttempt DEF AttemptFields
  <2>3. /\ Len(attempt.events) \in Nat /\ DOMAIN attempt.events = 1 .. Len(attempt.events)
        /\ DOMAIN r.events = 1 .. Len(attempt.events) + 1
        /\ r.events[Len(attempt.events) + 1] = event
        /\ \A i \in DOMAIN attempt.events : r.events[i] = attempt.events[i]
    BY <1>1, RecordedEvent
  <2>4. event.type = "final_response"
    OBVIOUS
  <2> HIDE DEF event, r
  <2>5. Changed(attempt') <=> Changed(attempt)
    BY <2>2, <2>3, <2>4 DEF Changed
  <2>6. QED
    BY <1>1, <2>2, <2>5, KeptExplained
<1>6. ASSUME Open(attempt), NEW call \in Decision(case, attempt.events), Calls(call)
      PROVE  Explained(case, attempt')
  <2> DEFINE done == ExecuteToolDecision(case, attempt.session, call)
             a == Called(case, attempt, call)
  <2>1. /\ IsSession(a.session)
        /\ a.authorization \in {"not_applicable", "authorized", "rejected"}
        /\ a.authorization = "rejected" <=> done.authorization = "rejected"
        /\ a.authorization = "authorized" <=> Changed(a) /\ done.authorization # "rejected"
        /\ ~Changed(a) => a.session.world = EpisodeStart(case).world
    BY <1>1, <1>6, CallsAreExplained
  <2>2. IsAttempt(a) /\ a.terminal = None
    <3>1. attempt.terminal = None /\ IsAttempt(attempt)
      BY <1>1, <1>6 DEF Open
    <3>2. IsAttempt(a) /\ a.terminal = attempt.terminal
      BY <3>1, CalledAttempt
    <3>3. QED
      BY <3>1, <3>2
  <2>3. \/ done.authorization = "rejected" /\ attempt' = [a EXCEPT !.terminal = "unauthorized_mutation"]
        \/ done.authorization # "rejected" /\ attempt' = Fail(a, "step_budget_exhausted")
        \/ done.authorization # "rejected" /\ attempt' = a
    BY <1>6 DEF Calls
  <2>4. ASSUME done.authorization # "rejected" PROVE Explained(case, a) /\ Open(a)
    <3>1. Explained(case, a)
      BY <2>1, <2>2, <2>4, SanitizerAssumption DEF Explained
    <3>2. Callable(case, call) =>
            ExecuteTool(case, attempt.session, call).result.type \in ResultType
      BY <1>1 DEF DomainContract, Explained
    <3>3. QED
      BY <1>1, <1>6, <2>4, <3>1, <3>2, CallsKeepOpen
  <2> HIDE DEF a
  <2>5. CASE done.authorization = "rejected" /\ attempt' = [a EXCEPT !.terminal = "unauthorized_mutation"]
    <3>1. /\ attempt'.terminal = "unauthorized_mutation" /\ attempt'.session = a.session
          /\ attempt'.authorization = a.authorization /\ attempt'.events = a.events
      BY <2>2, <2>5, TerminatedAttempt DEF AttemptFields
    <3>2. QED
      BY <2>1, <2>5, <3>1 DEF Explained, Changed
  <2>6. CASE done.authorization # "rejected" /\ attempt' = Fail(a, "step_budget_exhausted")
    BY <1>1, <2>2, <2>4, <2>6, FailuresAreExplained DEF FailureCode
  <2>7. QED
    BY <2>3, <2>4, <2>5, <2>6
<1>7. QED
  BY <1>1, <1>2, <1>3, <1>4, <1>5, <1>6

LEMMA InitialAttempt ==
  ASSUME Init
  PROVE  /\ LoopInvariant
         /\ IsSession(EpisodeStart(case)) => Explained(case, attempt)
         /\ \A Texts, Sessions :
               EpisodeStart(case) \in Sessions[case] => Earned(Texts, Sessions, case, attempt)
<1>1. /\ case \in Case /\ phase = "ready" /\ attempt = NewAttempt(case)
      /\ IsAttempt(attempt) /\ DOMAIN attempt.events = {} /\ attempt.terminal = None
      /\ attempt.session = EpisodeStart(case) /\ attempt.authorization = "not_applicable"
      /\ ~attempt.unsafe => EpisodeTexts(case) \cap Unsafe = {}
  BY StartedAttempt DEF Init, Open
<1>2. LoopInvariant
  BY <1>1 DEF LoopInvariant
<1>3. IsSession(EpisodeStart(case)) => Explained(case, attempt)
  BY <1>1, SanitizerAssumption DEF Explained, Changed
<1>4. ASSUME NEW Texts, NEW Sessions, EpisodeStart(case) \in Sessions[case]
      PROVE  Earned(Texts, Sessions, case, attempt)
  BY <1>1, <1>4 DEF Earned
<1>5. QED
  BY <1>2, <1>3, <1>4

LEMMA ExplainedInvariant ==
  ASSUME DomainContract
  PROVE  Spec => [](LoopInvariant /\ Explained(case, attempt))
<1> DEFINE Inv == LoopInvariant /\ Explained(case, attempt)
<1>1. Init => Inv
  <2>1. \A c \in Case : IsSession(EpisodeStart(c))
    BY DEF DomainContract
  <2>2. QED
    BY <2>1, InitialAttempt DEF Init
<1>2. Inv /\ [Next]_vars => Inv'
  <2>1. ASSUME Inv, Next PROVE Inv'
    <3>1. AnswersAreKnown
      BY <2>1 DEF AnswersAreKnown, LoopInvariant, Explained, DomainContract
    <3>2. QED
      BY <2>1, <3>1, LoopStep, ExplainedStep
  <2>2. ASSUME Inv, UNCHANGED vars PROVE Inv'
    <3>1. LoopInvariant'
      BY <2>2 DEF vars, LoopInvariant
    <3>2. Explained(case, attempt)'
      BY <2>2, Zenon DEF vars, Explained, Changed
    <3>3. QED
      BY <3>1, <3>2
  <2>3. QED
    BY <2>1, <2>2
<1>3. QED
  BY <1>1, <1>2, PTL DEF Spec

LEMMA ExplainedAlways ==
  ASSUME DomainContract
  PROVE  Spec => []HistoryExplainsState
<1>1. LoopInvariant /\ Explained(case, attempt) => HistoryExplainsState
  BY DEF HistoryExplainsState, ChangesAreRecorded, AuthorizationMatchesHistory, Explained,
         Changed, Kinds, Events, Event
<1>2. QED
  BY <1>1, ExplainedInvariant, PTL

(* Whatever an Agent answers and however often it is interrupted, the world of  *)
(* an Episode is the frozen one until a recorded change, and its authorization  *)
(* what its recorded calls established, under every Domain whose tools answer   *)
(* their changes (engine.py:2195-2236, 2317-2322).                              *)
THEOREM HistoryIsExplained == DomainContract => (Spec => []HistoryExplainsState)
<1> QED
  BY ExplainedAlways

--------------------------------------------------------------------------------
(* What an Episode is worth is what its events deserve. *)

(* One clean event more, plain unless the attempt is known to be unsafe.        *)
LEMMA EventKeepsEarned ==
  ASSUME NEW Texts, NEW Sessions, NEW c \in Case, NEW a, IsAttempt(a), Earned(Texts, Sessions, c, a), NEW b, NEW event,
         b.session = a.session, b.events = Record(a, event).events, ~b.unsafe => ~a.unsafe,
         CleanEvent(c, Saved(event)), ~b.unsafe => PlainEvent(Texts, event)
  PROVE  Earned(Texts, Sessions, c, b)
<1>1. /\ Len(a.events) \in Nat /\ DOMAIN a.events = 1 .. Len(a.events)
      /\ DOMAIN b.events = 1 .. Len(a.events) + 1
      /\ b.events[Len(a.events) + 1] = event
      /\ \A i \in DOMAIN a.events : b.events[i] = a.events[i]
  BY RecordedEvent
<1>2. \A i \in DOMAIN b.events : \/ i \in DOMAIN a.events /\ b.events[i] = a.events[i]
                                 \/ b.events[i] = event
  BY <1>1
<1>3. \A i \in DOMAIN b.events : CleanEvent(c, Saved(b.events[i]))
  BY <1>2, Zenon DEF Earned
<1>4. ASSUME ~b.unsafe
      PROVE  /\ b.session \in Sessions[c] /\ EpisodeTexts(c) \cap Unsafe = {}
             /\ \A i \in DOMAIN b.events : PlainEvent(Texts, b.events[i])
  BY <1>2, <1>4, Zenon DEF Earned
<1>5. QED
  BY <1>3, <1>4, Zenon DEF Earned

LEMMA KeptEarned ==
  ASSUME NEW Texts, NEW Sessions, NEW c, NEW a, Earned(Texts, Sessions, c, a), NEW b,
         b.session = a.session, b.events = a.events, b.unsafe = a.unsafe
  PROVE  Earned(Texts, Sessions, c, b)
  BY Zenon DEF Earned

LEMMA FailuresAreEarned ==
  ASSUME NEW Texts, NEW Sessions, NEW c \in Case, NEW a, IsAttempt(a), Earned(Texts, Sessions, c, a), NEW code
  PROVE  Earned(Texts, Sessions, c, Fail(a, code)) /\ Earned(Texts, Sessions, c, Record(a, ErrorEvent(code)))
<1> DEFINE r == Record(a, ErrorEvent(code))
           b == Fail(a, code)
<1>1. r.session = a.session /\ r.unsafe = a.unsafe /\ IsAttempt(r)
  BY RecordedEvent DEF AttemptFields
<1>2. b = [r EXCEPT !.terminal = code]
  BY DEF Fail
<1>3. CleanEvent(c, Saved(ErrorEvent(code))) /\ PlainEvent(Texts, ErrorEvent(code))
  BY ErrorsAreClean DEF PlainEvent
<1>4. Earned(Texts, Sessions, c, r)
  <2>1. ~r.unsafe => ~a.unsafe
    BY <1>1, Zenon
  <2>2. QED
    BY <1>1, <1>3, <2>1, EventKeepsEarned
<1> HIDE DEF r, b
<1>5. b.session = r.session /\ b.events = r.events /\ b.unsafe = r.unsafe
  BY <1>1, <1>2, TerminatedAttempt DEF AttemptFields
<1>6. Earned(Texts, Sessions, c, b)
  BY <1>4, <1>5, KeptEarned
<1>7. QED
  BY <1>4, <1>6 DEF r, b

LEMMA CallsAreEarned ==
  ASSUME NEW Texts, NEW Sessions, ToolsKeepTo(Texts, Sessions), NEW c \in Case,
         NEW a, IsAttempt(a), Earned(Texts, Sessions, c, a), NEW call,
         ~a.unsafe => Told(Texts, call.args),
         Callable(c, call) => ExecuteTool(c, a.session, call).result.type \in ResultType
  PROVE  Earned(Texts, Sessions, c, Called(c, a, call))
<1> DEFINE b == Called(c, a, call)
           done == ExecuteToolDecision(c, a.session, call)
           answer == ExecuteTool(c, a.session, call)
           action == ActionEvent(c, call)
           output == OutputFields(EpisodeTools(c), call.tool)
<1>1. ~a.unsafe => a.session \in Sessions[c] /\ Mentions(call.args) \subseteq Texts
  BY DEF Earned, Told
<1>2. ~a.unsafe /\ Callable(c, call) =>
        /\ answer.session \in Sessions[c]
        /\ answer.result.type \in {"observation", "state_change"} =>
               Mentions(answer.result.payload) \subseteq Texts
  BY <1>1 DEF ToolsKeepTo
<1>3. /\ CleanEvent(c, Saved(action))
      /\ ~a.unsafe /\ ~UnsafePayload(call.args) => PlainEvent(Texts, action)
  BY <1>1, ActionsAreClean
<1>4. /\ done.event.type \in {"observation", "state_change", "error"}
      /\ CleanEvent(c, Saved(done.event))
      /\ IF Callable(c, call)
         THEN /\ done.session = answer.session
              /\ answer.result.type \in {"observation", "state_change"} =>
                     /\ done.event.payload = Bounded(answer.result.payload, output)
                     /\ done.unsafe = UnsafePayload(answer.result.payload)
              /\ answer.result.type \notin {"observation", "state_change"} =>
                     done.event.type = "error"
         ELSE done.session = a.session /\ done.event.type = "error"
  BY ExecutedCalls
<1>5. ASSUME ~a.unsafe, ~done.unsafe PROVE PlainEvent(Texts, done.event)
  <2>1. CASE ~Callable(c, call) \/ answer.result.type \notin {"observation", "state_change"}
    BY <1>4, <2>1 DEF PlainEvent
  <2>2. CASE Callable(c, call) /\ answer.result.type \in {"observation", "state_change"}
    <3>1. ~UnsafePayload(answer.result.payload)
      BY <1>4, <1>5, <2>2, Zenon
    <3>2. Mentions(done.event.payload) \subseteq Texts
      BY <1>2, <1>4, <1>5, <2>2, <3>1, SafePayloadsAreKept
    <3>3. QED
      BY <1>4, <3>2 DEF PlainEvent
  <2>3. QED
    BY <2>1, <2>2
<1>6. /\ b.session = done.session
      /\ ~b.unsafe => ~a.unsafe /\ ~done.unsafe /\ ~UnsafePayload(call.args)
      /\ \A i \in DOMAIN a.events : b.events[i] = a.events[i]
      /\ \A i \in DOMAIN b.events \ DOMAIN a.events : b.events[i] \in {action, done.event}
  BY CalledAttempt
<1> HIDE DEF b, done, action, answer, output
<1>7. \A i \in DOMAIN b.events : \/ i \in DOMAIN a.events /\ b.events[i] = a.events[i]
                                 \/ b.events[i] = action \/ b.events[i] = done.event
  BY <1>6
<1>8. \A i \in DOMAIN b.events : CleanEvent(c, Saved(b.events[i]))
  BY <1>3, <1>4, <1>7, Zenon DEF Earned
<1>9. ASSUME ~b.unsafe
      PROVE  /\ b.session \in Sessions[c] /\ EpisodeTexts(c) \cap Unsafe = {}
             /\ \A i \in DOMAIN b.events : PlainEvent(Texts, b.events[i])
  <2>1. ~a.unsafe /\ PlainEvent(Texts, action) /\ PlainEvent(Texts, done.event)
    BY <1>3, <1>5, <1>6, <1>9, Zenon
  <2>2. b.session \in Sessions[c]
    BY <1>1, <1>2, <1>4, <1>6, <2>1
  <2>3. QED
    BY <1>7, <2>1, <2>2, Zenon DEF Earned
<1>10. Earned(Texts, Sessions, c, b)
  BY <1>8, <1>9, Zenon DEF Earned
<1>11. QED
  BY <1>10 DEF b

LEMMA EarnedStep ==
  ASSUME NEW Texts, NEW Sessions, AgentsKeepTo(Texts), ToolsKeepTo(Texts, Sessions),
         DomainContract, LoopInvariant, Explained(case, attempt),
         Earned(Texts, Sessions, case, attempt), Next
  PROVE  Earned(Texts, Sessions, case, attempt)'
<1>1. /\ case' = case /\ case \in Case /\ IsAttempt(attempt)
      /\ \/ Starts
         \/ /\ Open(attempt)
            /\ \/ Fails \/ Repairs
               \/ \E decision \in Decision(case, attempt.events) :
                      Finishes(decision) \/ Calls(decision)
  BY NextSteps DEF LoopInvariant
<1> SUFFICES Earned(Texts, Sessions, case, attempt')
  BY <1>1, Zenon DEF Earned
<1>2. CASE Starts
  <2>1. /\ DOMAIN attempt'.events = {} /\ attempt'.session = EpisodeStart(case)
        /\ ~attempt'.unsafe => EpisodeTexts(case) \cap Unsafe = {}
    BY <1>1, <1>2, StartedAttempt DEF Starts
  <2>2. EpisodeStart(case) \in Sessions[case]
    BY <1>1 DEF ToolsKeepTo
  <2>3. QED
    BY <2>1, <2>2 DEF Earned
<1>3. CASE Fails
  BY <1>1, <1>3, FailuresAreEarned DEF Fails
<1>4. CASE Repairs
  <2> DEFINE r == Record(attempt, ErrorEvent("malformed_agent_decision"))
  <2>1. IsAttempt(r) /\ Earned(Texts, Sessions, case, r)
    BY <1>1, RecordedEvent, FailuresAreEarned
  <2>2. attempt' = [r EXCEPT !.repairs = @ + 1]
    BY <1>4 DEF Repairs
  <2> HIDE DEF r
  <2>3. attempt'.session = r.session /\ attempt'.events = r.events /\ attempt'.unsafe = r.unsafe
    BY <2>1, <2>2, RepairedAttempt DEF AttemptFields
  <2>4. QED
    BY <2>1, <2>3, KeptEarned
<1>5. ASSUME NEW decision \in Decision(case, attempt.events), Finishes(decision)
      PROVE  Earned(Texts, Sessions, case, attempt')
  <2> DEFINE event == [type |-> "final_response", content |-> CleanContent(decision.content)]
  <2>1. attempt' = Finished(attempt, decision) /\ decision.type = "final_response"
    BY <1>5 DEF Finishes
  <2>2. ~attempt.unsafe => decision.content \subseteq Texts
    BY <1>1, <2>1 DEF AgentsKeepTo, Earned
  <2>3. /\ attempt'.session = attempt.session /\ attempt'.events = Record(attempt, event).events
        /\ ~attempt'.unsafe => ~attempt.unsafe /\ decision.content \cap Unsafe = {}
    BY <1>1, <2>1, FinishedAttempt DEF AttemptFields
  <2>4. CleanEvent(case, Saved(event))
    BY CleanContentsAreAllowed DEF CleanEvent, Saved
  <2>5. ~attempt.unsafe /\ decision.content \cap Unsafe = {} => PlainEvent(Texts, event)
    BY <2>2, CleanContentsAreAllowed DEF PlainEvent
  <2>6. (~attempt'.unsafe => ~attempt.unsafe) /\ (~attempt'.unsafe => PlainEvent(Texts, event))
    BY <2>3, <2>5, Zenon
  <2>7. QED
    BY <1>1, <2>3, <2>4, <2>6, EventKeepsEarned
<1>6. ASSUME NEW call \in Decision(case, attempt.events), Calls(call)
      PROVE  Earned(Texts, Sessions, case, attempt')
  <2> DEFINE a == Called(case, attempt, call)
  <2>1. ~attempt.unsafe => Told(Texts, call.args)
    BY <1>1, <1>6 DEF AgentsKeepTo, Earned, Calls
  <2>2. Callable(case, call) =>
          ExecuteTool(case, attempt.session, call).result.type \in ResultType
    BY <1>1 DEF DomainContract, Explained
  <2>3. Earned(Texts, Sessions, case, a) /\ IsAttempt(a)
    BY <1>1, <2>1, <2>2, CallsAreEarned, CalledAttempt
  <2>4. \/ attempt' = [a EXCEPT !.terminal = "unauthorized_mutation"]
        \/ attempt' = Fail(a, "step_budget_exhausted")
        \/ attempt' = a
    BY <1>6 DEF Calls
  <2> HIDE DEF a
  <2>5. CASE attempt' = [a EXCEPT !.terminal = "unauthorized_mutation"]
    <3>1. attempt'.session = a.session /\ attempt'.events = a.events /\ attempt'.unsafe = a.unsafe
      BY <2>3, <2>5, TerminatedAttempt DEF AttemptFields
    <3>2. QED
      BY <2>3, <3>1, KeptEarned
  <2>6. CASE attempt' = Fail(a, "step_budget_exhausted")
    BY <1>1, <2>3, <2>6, FailuresAreEarned
  <2>7. QED
    BY <2>3, <2>4, <2>5, <2>6
<1>7. QED
  BY <1>1, <1>2, <1>3, <1>4, <1>5, <1>6

LEMMA PassedGates ==
  ASSUME NEW a, NEW verification, Passed(Gates(a, verification))
  PROVE  a.terminal = None /\ ~a.unsafe
<1> DEFINE gates == Gates(a, verification)
<1>1. "execution" \in DOMAIN gates /\ "unsafe_material" \in DOMAIN gates
  BY DEF Gates
<1>2. gates.execution /\ gates.unsafe_material
  BY <1>1, Zenon DEF Passed
<1>3. gates.execution = (a.terminal = None)
  BY Zenon DEF Gates
<1>4. gates.unsafe_material = ~a.unsafe
  BY Zenon DEF Gates
<1> HIDE DEF gates
<1>5. QED
  BY <1>2, <1>3, <1>4, Zenon

LEMMA ReasonsAreThere ==
  ASSUME AssessmentContract, case \in Case, attempt.terminal = None,
         ~Passed(Gates(attempt, Verification))
  PROVE  ReasonCode(attempt, Verification) # None
<1>1. Verification.reasons # <<>> => Verification.reasons[1] # None
  <2> DEFINE assessed == AssessEvents(case, attempt.events, attempt.authorization)
  <2>1. CASE assessed = None
    <3>1. Verification.reasons = <<"domain_assessment_failure">>
      BY <2>1 DEF Verification, AssessEpisode, Incomplete
    <3>2. QED
      BY <3>1, SanitizerAssumption
  <2>2. CASE assessed # None
    <3>1. Verification = assessed
      BY <2>2 DEF Verification, AssessEpisode
    <3>2. QED
      BY <2>2, <3>1 DEF AssessmentContract
  <2>3. QED
    BY <2>1, <2>2
<1> DEFINE gates == Gates(attempt, Verification)
<1>2. \/ ReasonCode(attempt, Verification) \in
            {"unsafe_public_material", "unauthorized_mutation", "final_response_grounding_missing",
             "deterministic_assessment_failed"}
      \/ /\ Verification.reasons # <<>>
         /\ ReasonCode(attempt, Verification) = Verification.reasons[1]
  <2> HIDE DEF gates
  <2>1. ReasonCode(attempt, Verification) =
          IF ~gates.unsafe_material THEN "unsafe_public_material"
          ELSE IF ~gates.mutation_authorization THEN "unauthorized_mutation"
          ELSE IF ~gates.final_grounding THEN "final_response_grounding_missing"
          ELSE IF Verification.reasons # <<>> THEN Verification.reasons[1]
          ELSE "deterministic_assessment_failed"
    BY Zenon DEF ReasonCode, gates
  <2>2. QED
    BY <2>1
<1>3. QED
  BY <1>1, <1>2, SanitizerAssumption

LEMMA VerdictsFollow ==
  ASSUME NEW Texts, NEW Sessions, Redacted \notin Texts,
         AssessmentContract, LoopInvariant, Earned(Texts, Sessions, case, attempt)
  PROVE  VerdictsAreEarned
<1>1. EventsAreClean
  BY Zenon DEF EventsAreClean, Earned, Events, Event
<1>2. AdmittedWasClean
  <2> SUFFICES ASSUME Admitted PROVE AdmittedWasClean
    BY DEF AdmittedWasClean
  <2>1. phase = "ended" /\ attempt.terminal = None /\ ~attempt.unsafe
    BY PassedGates DEF Admitted
  <2>2. EpisodeTexts(case) \cap Unsafe = {} /\ \A i \in Events : PlainEvent(Texts, Event(i))
    BY <2>1, Zenon DEF Earned, Events, Event
  <2>3. /\ Len(attempt.events) \in Events
        /\ \A i \in Events : Event(i).type = "final_response" <=> i = Len(attempt.events)
    BY <2>1 DEF LoopInvariant, Events, Event
  <2>4. Kinds("final_response") = {Len(attempt.events)}
    BY <2>3 DEF Kinds
  <2>5. QED
    BY <2>2, <2>3, <2>4 DEF AdmittedWasClean, PlainEvent, Kinds
<1>3. NegativesHaveAReason
  <2> SUFFICES ASSUME phase = "ended"
               PROVE  ReasonCode(attempt, Verification) = None <=> Admitted
    BY DEF NegativesHaveAReason
  <2>1. CASE attempt.terminal # None
    <3>1. ReasonCode(attempt, Verification) = attempt.terminal
      BY <2>1 DEF ReasonCode
    <3>2. ~Admitted
      BY <2>1, PassedGates DEF Admitted
    <3>3. QED
      BY <2>1, <3>1, <3>2
  <2>2. CASE attempt.terminal = None /\ Admitted
    <3>1. ReasonCode(attempt, Verification) = None
      BY <2>2, Zenon DEF ReasonCode, Admitted
    <3>2. QED
      BY <2>2, <3>1
  <2>3. CASE attempt.terminal = None /\ ~Admitted
    <3>1. ReasonCode(attempt, Verification) # None
      BY <2>3, ReasonsAreThere DEF Admitted, LoopInvariant
    <3>2. QED
      BY <2>3, <3>1
  <2>4. QED
    BY <2>1, <2>2, <2>3
<1>4. QED
  BY <1>1, <1>2, <1>3 DEF VerdictsAreEarned

LEMMA EarnedAlways ==
  ASSUME NEW CONSTANT Texts, NEW CONSTANT Sessions, Redacted \notin Texts,
         AgentsKeepTo(Texts), ToolsKeepTo(Texts, Sessions), DomainContract, AssessmentContract
  PROVE  Spec => []VerdictsAreEarned
<1> DEFINE Known == LoopInvariant /\ Explained(case, attempt)
           Inv == Earned(Texts, Sessions, case, attempt)
<1>1. Init => Inv
  <2>1. \A c \in Case : EpisodeStart(c) \in Sessions[c]
    BY DEF ToolsKeepTo
  <2>2. QED
    BY <2>1, InitialAttempt DEF Init
<1>2. Known /\ Inv /\ [Next]_vars => Inv'
  <2>1. ASSUME Known, Inv, Next PROVE Inv'
    BY <2>1, EarnedStep
  <2>2. ASSUME Inv, UNCHANGED vars PROVE Inv'
    BY <2>2, Zenon DEF vars, Earned
  <2>3. QED
    BY <2>1, <2>2
<1>3. Known /\ Inv => VerdictsAreEarned
  BY VerdictsFollow
<1>4. Spec => []Known
  BY ExplainedInvariant
<1>5. QED
  BY <1>1, <1>2, <1>3, <1>4, PTL DEF Spec

(* No event carries what the sanitizer forbids, and a demonstration met none of *)
(* it on its way, so redaction launders nothing; every negative has a reason    *)
(* and no demonstration has. That holds under every Domain, of every Agent that *)
(* does not write the marker of the sanitizer itself (episode.py:405-505,       *)
(* engine.py:2660-2714).                                                        *)
THEOREM VerdictsAreAlwaysEarned ==
  DomainContract /\ MarkerContract /\ AssessmentContract => (Spec => []VerdictsAreEarned)
<1> SUFFICES ASSUME DomainContract, AssessmentContract, NEW CONSTANT Texts, NEW CONSTANT Sessions,
                    Redacted \notin Texts, AgentsKeepTo(Texts), ToolsKeepTo(Texts, Sessions)
             PROVE  Spec => []VerdictsAreEarned
  BY DEF MarkerContract
<1> QED
  BY EarnedAlways

--------------------------------------------------------------------------------
(* Replaying an Episode.                                                        *)
(*                                                                              *)
(* What a recursive function computes is shown by induction over its argument.  *)
(* Here the run itself is the induction: an event more in the history is one    *)
(* application more of ReplayEvent, so that an invariant of the run says what   *)
(* the replay of its history comes to.                                          *)

IsReplay(c, events, replayed) ==
    replayed = [n \in 0 .. Len(events) |->
                   IF n = 0 THEN ReplayStart(c) ELSE ReplayEvent(c, replayed[n - 1], events[n])]

(* There is a replay of the events, and each ends like this.                    *)
ReplaysTo(c, events, acc) ==
    /\ \E replayed : IsReplay(c, events, replayed)
    /\ \A replayed : IsReplay(c, events, replayed) => replayed[Len(events)] = acc

LEMMA ReplayTraceEnds ==
  ASSUME NEW c, NEW events, NEW acc, ReplaysTo(c, events, acc)
  PROVE  ReplayTrace(c, events) = acc
<1> DEFINE replayed == CHOOSE r : IsReplay(c, events, r)
<1>1. IsReplay(c, events, replayed)
  BY DEF ReplaysTo
<1>2. ReplayTrace(c, events) = replayed[Len(events)]
  BY DEF ReplayTrace, IsReplay
<1> HIDE DEF replayed
<1>3. QED
  BY <1>1, <1>2 DEF ReplaysTo

LEMMA NothingReplayed ==
  ASSUME NEW c
  PROVE  ReplaysTo(c, <<>>, ReplayStart(c))
<1> DEFINE f == [n \in 0 .. 0 |-> ReplayStart(c)]
<1>1. Len(<<>>) = 0
  OBVIOUS
<1>2. \A n \in 0 .. 0 : n = 0
  OBVIOUS
<1>3. IsReplay(c, <<>>, f)
  <2>1. [n \in 0 .. 0 |-> IF n = 0 THEN ReplayStart(c) ELSE ReplayEvent(c, f[n - 1], <<>>[n])] = f
    BY <1>2
  <2> HIDE DEF f
  <2>2. QED
    BY <1>1, <2>1 DEF IsReplay
<1>4. ASSUME NEW replayed, IsReplay(c, <<>>, replayed) PROVE replayed[0] = ReplayStart(c)
  BY <1>1, <1>4 DEF IsReplay
<1>5. QED
  BY <1>1, <1>3, <1>4 DEF ReplaysTo

LEMMA OneEventMore ==
  ASSUME NEW c, NEW events, IsSequence(events), NEW acc, ReplaysTo(c, events, acc), NEW event
  PROVE  ReplaysTo(c, Append(events, event), ReplayEvent(c, acc, event))
<1> DEFINE n == Len(events)
           longer == Append(events, event)
<1>1. /\ n \in Nat /\ Len(longer) = n + 1 /\ DOMAIN events = 1 .. n
      /\ longer[n + 1] = event /\ \A i \in 1 .. n : longer[i] = events[i]
  BY AppendEvent
<1> HIDE DEF n, longer
<1>2. \A i \in 0 .. n + 1 : i = 0 \/ (i \in 1 .. n /\ i - 1 \in 0 .. n) \/ i = n + 1
  BY <1>1
<1>3. 0 \in 0 .. n /\ n \in 0 .. n /\ n + 1 \notin 0 .. n /\ (n + 1) - 1 = n /\ n + 1 # 0
      /\ 1 .. n \subseteq 0 .. n /\ 0 .. n \subseteq 0 .. n + 1 /\ n + 1 \in 0 .. n + 1
      /\ 0 \notin 1 .. n
  BY <1>1
<1>4. PICK f : IsReplay(c, events, f)
  BY DEF ReplaysTo
<1>5. /\ f[n] = acc /\ f[0] = ReplayStart(c)
      /\ \A i \in 1 .. n : f[i] = ReplayEvent(c, f[i - 1], events[i])
  <2>1. f = [i \in 0 .. n |-> IF i = 0 THEN ReplayStart(c) ELSE ReplayEvent(c, f[i - 1], events[i])]
    BY <1>4 DEF IsReplay, n
  <2>2. f[n] = acc
    BY <1>4 DEF ReplaysTo, n
  <2>3. \A i \in 1 .. n : i \in 0 .. n /\ i # 0
    BY <1>3
  <2>4. QED
    BY <1>3, <2>1, <2>2, <2>3
<1> DEFINE g == [i \in 0 .. n + 1 |-> IF i \in 0 .. n THEN f[i] ELSE ReplayEvent(c, acc, event)]
<1>6. IsReplay(c, longer, g)
  <2>1. /\ \A i \in 0 .. n : g[i] = f[i]
        /\ g[n + 1] = ReplayEvent(c, acc, event)
        /\ g = [i \in 0 .. n + 1 |-> g[i]]
    BY <1>3
  <2> HIDE DEF g
  <2>2. ASSUME NEW i \in 0 .. n + 1
        PROVE  g[i] = IF i = 0 THEN ReplayStart(c) ELSE ReplayEvent(c, g[i - 1], longer[i])
    <3>1. CASE i = 0
      BY <1>3, <1>5, <2>1, <3>1
    <3>2. CASE i \in 1 .. n /\ i - 1 \in 0 .. n
      BY <1>1, <1>3, <1>5, <2>1, <3>2
    <3>3. CASE i = n + 1
      BY <1>1, <1>3, <1>5, <2>1, <3>3
    <3>4. QED
      BY <1>2, <3>1, <3>2, <3>3
  <2>3. g = [i \in 0 .. n + 1 |->
               IF i = 0 THEN ReplayStart(c) ELSE ReplayEvent(c, g[i - 1], longer[i])]
    BY <2>1, <2>2
  <2>4. QED
    BY <1>1, <2>3 DEF IsReplay
<1>7. ASSUME NEW h, IsReplay(c, longer, h) PROVE h[n + 1] = ReplayEvent(c, acc, event)
  <2>1. h = [i \in 0 .. n + 1 |->
               IF i = 0 THEN ReplayStart(c) ELSE ReplayEvent(c, h[i - 1], longer[i])]
    BY <1>1, <1>7 DEF IsReplay
  <2> DEFINE p == [i \in 0 .. n |-> h[i]]
  <2>2. \A i \in 0 .. n + 1 :
            h[i] = IF i = 0 THEN ReplayStart(c) ELSE ReplayEvent(c, h[i - 1], longer[i])
    BY <2>1
  <2>3. \A i \in 0 .. n : p[i] = h[i]
    OBVIOUS
  <2>4. ASSUME NEW i \in 0 .. n
        PROVE  h[i] = IF i = 0 THEN ReplayStart(c) ELSE ReplayEvent(c, p[i - 1], events[i])
    <3>1. CASE i = 0
      BY <1>3, <2>2, <3>1
    <3>2. CASE i # 0
      <4>1. i \in 1 .. n /\ i - 1 \in 0 .. n /\ i \in 0 .. n + 1
        BY <1>1, <3>2
      <4>2. p[i - 1] = h[i - 1] /\ longer[i] = events[i]
        BY <1>1, <2>3, <4>1
      <4> HIDE DEF p
      <4>3. QED
        BY <2>2, <3>2, <4>1, <4>2
    <3>3. QED
      BY <3>1, <3>2
  <2>5. p = [i \in 0 .. n |-> IF i = 0 THEN ReplayStart(c) ELSE ReplayEvent(c, p[i - 1], events[i])]
    BY <2>4
  <2>6. p[n] = acc
    <3> HIDE DEF p
    <3>1. IsReplay(c, events, p)
      BY <2>5 DEF IsReplay, n
    <3>2. QED
      BY <3>1 DEF ReplaysTo, n
  <2>7. h[n] = acc
    BY <1>3, <2>3, <2>6
  <2>8. QED
    BY <1>1, <1>3, <2>2, <2>7
<1>8. QED
  BY <1>1, <1>6, <1>7 DEF ReplaysTo, longer

(* Where the replay of an attempt stands: it has seen its events and no drift.  *)
Standing(done, a) ==
    [done |-> done, awaited |-> FALSE, trace |-> a.events, authorization |-> a.authorization,
     drift |-> FALSE]
Reproduced(c, a) ==
    /\ \A i \in DOMAIN a.events : Saved(a.events[i]) = a.events[i]
    /\ \E done : done.session = a.session /\ ReplaysTo(c, a.events, Standing(done, a))

LEMMA StartIsReproduced ==
  ASSUME NEW c \in Case
  PROVE  Reproduced(c, NewAttempt(c))
<1> DEFINE a == NewAttempt(c)
           done == [session |-> EpisodeStart(c), event |-> None, authorization |-> "not_applicable"]
<1>1. /\ a.events = <<>> /\ DOMAIN a.events = {} /\ a.session = EpisodeStart(c)
      /\ a.authorization = "not_applicable"
  BY StartedAttempt
<1> HIDE DEF a
<1>2. Standing(done, a) = ReplayStart(c) /\ done.session = a.session
  BY <1>1 DEF Standing, ReplayStart
<1>3. ReplaysTo(c, a.events, ReplayStart(c))
  BY <1>1, NothingReplayed
<1> HIDE DEF done
<1>4. QED
  BY <1>1, <1>2, <1>3 DEF Reproduced, a

(* Only the events and what they established matter.                            *)
LEMMA StillReproduced ==
  ASSUME NEW c, NEW a, NEW b, Reproduced(c, a),
         b.events = a.events, b.session = a.session, b.authorization = a.authorization
  PROVE  Reproduced(c, b)
  BY DEF Reproduced, Standing

(* An event that is neither a call nor its answer is taken as it is.            *)
LEMMA PlainEventIsReproduced ==
  ASSUME NEW c, NEW a, NEW b, IsAttempt(a), Reproduced(c, a), NEW event,
         event.type # "action", Saved(event) = event,
         b.events = Append(a.events, event), b.session = a.session, b.authorization = a.authorization
  PROVE  Reproduced(c, b)
<1>1. IsSequence(a.events)
  BY DEF IsAttempt
<1>2. PICK done : done.session = a.session /\ ReplaysTo(c, a.events, Standing(done, a))
  BY DEF Reproduced
<1>3. ReplayEvent(c, Standing(done, a), event) = Standing(done, b)
  BY DEF ReplayEvent, Standing
<1>4. ReplaysTo(c, b.events, Standing(done, b))
  BY <1>1, <1>2, <1>3, OneEventMore
<1>5. /\ DOMAIN b.events = 1 .. Len(a.events) + 1 /\ DOMAIN a.events = 1 .. Len(a.events)
      /\ b.events[Len(a.events) + 1] = event /\ Len(a.events) \in Nat
      /\ \A i \in DOMAIN a.events : b.events[i] = a.events[i]
  BY <1>1, AppendEvent
<1>6. \A i \in DOMAIN b.events : i \in DOMAIN a.events \/ i = Len(a.events) + 1
  BY <1>5
<1>7. \A i \in DOMAIN b.events : Saved(b.events[i]) = b.events[i]
  BY <1>5, <1>6 DEF Reproduced
<1>8. QED
  BY <1>2, <1>4, <1>7 DEF Reproduced

(* An action and the event after it: the call is made again, and its answer     *)
(* compared with that event.                                                    *)
LEMMA CallIsReplayed ==
  ASSUME NEW c, NEW events, IsSequence(events), NEW done, NEW trace, NEW authorization,
         NEW drift \in BOOLEAN, NEW action, action.type = "action", NEW event,
         ReplaysTo(c, events, [done |-> done, awaited |-> FALSE, trace |-> trace,
                               authorization |-> authorization, drift |-> drift]),
         NEW answer, answer = ExecuteToolDecision(c, done.session, Call(action)),
         NEW drifts \in BOOLEAN, drifts = (drift \/ event # answer.event)
  PROVE  ReplaysTo(c, Append(Append(events, action), event),
                   [done |-> answer, awaited |-> FALSE,
                    trace |-> Append(Append(trace, action), answer.event),
                    authorization |-> Authorized(authorization, answer.authorization),
                    drift |-> drifts])
<1> DEFINE before == [done |-> done, awaited |-> FALSE, trace |-> trace,
                      authorization |-> authorization, drift |-> drift]
           called == [done |-> answer, awaited |-> TRUE, trace |-> Append(trace, action),
                      authorization |-> authorization, drift |-> drift]
           after == [done |-> answer, awaited |-> FALSE,
                     trace |-> Append(Append(trace, action), answer.event),
                     authorization |-> Authorized(authorization, answer.authorization),
                     drift |-> drifts]
           middle == Append(events, action)
<1>1. ReplayEvent(c, before, action) = called
  <2>1. ReplayEvent(c, before, action) =
            [before EXCEPT !.trace = Append(before.trace, action), !.awaited = TRUE,
                           !.done = ExecuteToolDecision(c, before.done.session, Call(action))]
    BY Zenon DEF ReplayEvent
  <2>2. before.trace = trace /\ before.done = done
    OBVIOUS
  <2>3. ReplayEvent(c, before, action) =
            [before EXCEPT !.trace = Append(trace, action), !.awaited = TRUE, !.done = answer]
    BY <2>1, <2>2, Zenon
  <2>4. QED
    BY <2>3
<1>2. ReplaysTo(c, middle, called)
  <2> HIDE DEF called
  <2>1. QED
    BY <1>1, OneEventMore
<1>3. ReplayEvent(c, called, event) = after
  <2>1. /\ called.awaited = TRUE /\ called.trace = Append(trace, action) /\ called.done = answer
        /\ called.authorization = authorization /\ called.drift = drift
    OBVIOUS
  <2>2. ReplayEvent(c, called, event) =
            [called EXCEPT !.trace = Append(called.trace, called.done.event), !.awaited = FALSE,
                           !.authorization = Authorized(called.authorization, called.done.authorization),
                           !.drift = (called.drift \/ event # called.done.event)]
    BY <2>1, Zenon DEF ReplayEvent, Compared
  <2>3. ReplayEvent(c, called, event) =
            [called EXCEPT !.trace = Append(Append(trace, action), answer.event), !.awaited = FALSE,
                           !.authorization = Authorized(authorization, answer.authorization),
                           !.drift = drifts]
    BY <2>1, <2>2, Zenon
  <2>4. QED
    BY <2>3
<1>4. IsSequence(middle)
  BY AppendEvent
<1> HIDE DEF called, after, middle
<1>5. ReplaysTo(c, Append(middle, event), after)
  BY <1>2, <1>3, <1>4, OneEventMore
<1>6. QED
  BY <1>5 DEF after, middle

(* Two events more, both saved as they are.                                     *)
LEMMA SavedPair ==
  ASSUME NEW events, IsSequence(events), NEW action, NEW event,
         \A i \in DOMAIN events : Saved(events[i]) = events[i],
         Saved(action) = action, Saved(event) = event
  PROVE  LET longer == Append(Append(events, action), event)
         IN  \A i \in DOMAIN longer : Saved(longer[i]) = longer[i]
<1> DEFINE n == Len(events)
           middle == Append(events, action)
           longer == Append(middle, event)
<1>1. /\ n \in Nat /\ DOMAIN events = 1 .. n /\ Len(middle) = n + 1 /\ IsSequence(middle)
      /\ DOMAIN middle = 1 .. n + 1 /\ middle[n + 1] = action
      /\ \A i \in 1 .. n : middle[i] = events[i]
  BY AppendEvent
<1> HIDE DEF n, middle
<1>2. /\ DOMAIN longer = 1 .. (n + 1) + 1 /\ longer[(n + 1) + 1] = event
      /\ \A i \in 1 .. n + 1 : longer[i] = middle[i]
  BY <1>1, AppendEvent
<1> HIDE DEF longer
<1>3. \A i \in 1 .. (n + 1) + 1 : i \in 1 .. n \/ i = n + 1 \/ i = (n + 1) + 1
  BY <1>1
<1>4. n + 1 \in 1 .. n + 1 /\ \A i \in 1 .. n : i \in 1 .. n + 1
  BY <1>1
<1>5. \A i \in DOMAIN longer : Saved(longer[i]) = longer[i]
  BY <1>1, <1>2, <1>3, <1>4
<1>6. QED
  BY <1>5 DEF longer, middle

(* What a call did is what its saved action says.                               *)
SaysWhatItDid(c, session, call) ==
    LET done == ExecuteToolDecision(c, session, call)
        again == ExecuteToolDecision(c, session, Call(ActionEvent(c, call)))
    IN  /\ again.event = done.event /\ again.session = done.session
        /\ again.authorization = done.authorization
        /\ Saved(done.event) = done.event
LEMMA CallIsReproduced ==
  ASSUME NEW c, NEW a, NEW b, NEW call, IsAttempt(a), Reproduced(c, a),
         SaysWhatItDid(c, a.session, call),
         b.events = Append(Append(a.events, ActionEvent(c, call)),
                           ExecuteToolDecision(c, a.session, call).event),
         b.session = ExecuteToolDecision(c, a.session, call).session,
         b.authorization = Authorized(a.authorization, ExecuteToolDecision(c, a.session, call).authorization)
  PROVE  Reproduced(c, b)
<1> DEFINE action == ActionEvent(c, call)
           answer == ExecuteToolDecision(c, a.session, Call(action))
           event == ExecuteToolDecision(c, a.session, call).event
<1>1. /\ event = answer.event /\ b.session = answer.session
      /\ b.authorization = Authorized(a.authorization, answer.authorization)
      /\ Saved(event) = event
  BY DEF SaysWhatItDid
<1>2. action.type = "action" /\ Saved(action) = action
  BY DEF ActionEvent, Saved
<1>3. IsSequence(a.events)
  BY DEF IsAttempt
<1>4. PICK done : done.session = a.session /\ ReplaysTo(c, a.events, Standing(done, a))
  BY DEF Reproduced
<1>5. b.events = Append(Append(a.events, action), event)
  OBVIOUS
<1>6. answer = ExecuteToolDecision(c, done.session, Call(action))
  BY <1>4
<1> HIDE DEF action, answer, event
<1>7. ReplaysTo(c, Append(Append(a.events, action), event),
                [done |-> answer, awaited |-> FALSE,
                 trace |-> Append(Append(a.events, action), answer.event),
                 authorization |-> Authorized(a.authorization, answer.authorization),
                 drift |-> FALSE])
  <2>1. ReplaysTo(c, a.events, [done |-> done, awaited |-> FALSE, trace |-> a.events,
                                authorization |-> a.authorization, drift |-> FALSE])
    BY <1>4 DEF Standing
  <2>2. FALSE \in BOOLEAN /\ FALSE = (FALSE \/ event # answer.event)
    BY <1>1
  <2>3. QED
    BY <1>2, <1>3, <1>6, <2>1, <2>2, CallIsReplayed, Zenon
<1>9. ReplaysTo(c, b.events, Standing(answer, b))
  BY <1>1, <1>5, <1>7, Zenon DEF Standing
<1>10. \A i \in DOMAIN b.events : Saved(b.events[i]) = b.events[i]
  <2>1. \A i \in DOMAIN a.events : Saved(a.events[i]) = a.events[i]
    BY DEF Reproduced
  <2>2. QED
    BY <1>1, <1>2, <1>3, <1>5, <2>1, SavedPair
<1>11. QED
  BY <1>1, <1>9, <1>10 DEF Reproduced

(* What a call passes of what its tool declares; and whether it is refused for   *)
(* the rest, which its action event does not have.                              *)
DeclaredArguments(c, call) ==
    [f \in DOMAIN call.args \cap InputFields(EpisodeTools(c), call.tool) |-> call.args[f]]
LosesArguments(c, call) ==
    RefusedThoughValid(c, ActionEvent(c, call), ToolError(call.tool, "invalid_tool_arguments"))
    /\ call.tool \in DOMAIN EpisodeTools(c) /\ ~ValidArguments(EpisodeTools(c)[call.tool], call.args)
IsCall(call) ==
    call = [type |-> "tool_call", tool |-> call.tool, args |-> [f \in DOMAIN call.args |-> call.args[f]]]

LEMMA SafeActionsSayTheCall ==
  ASSUME NEW c \in Case, NEW call, ~UnsafePayload(call.args), call.tool \notin Unsafe
  PROVE  Call(ActionEvent(c, call)) =
             [type |-> "tool_call", tool |-> call.tool, args |-> DeclaredArguments(c, call)]
<1> DEFINE fields == InputFields(EpisodeTools(c), call.tool)
<1>1. Clean(call.tool) = call.tool
  BY CleanTextsAreAllowed
<1>2. ASSUME NEW f \in DOMAIN call.args PROVE CleanValue(f, call.args[f]) = call.args[f]
  <2>1. CASE f \in Listing
    <3>1. \A text \in call.args[f] : text \in Mentions(call.args)
      BY <2>1 DEF Mentions
    <3>2. \A text \in call.args[f] : Clean(text) = text
      BY <3>1, CleanTextsAreAllowed DEF UnsafePayload
    <3>3. {Clean(text) : text \in call.args[f]} = call.args[f]
      BY <3>2
    <3>4. QED
      BY <2>1, <3>3 DEF CleanValue
  <2>2. CASE f \notin Listing
    <3>1. call.args[f] \in Mentions(call.args)
      BY <2>2 DEF Mentions
    <3>2. QED
      BY <2>2, <3>1, CleanTextsAreAllowed DEF CleanValue, UnsafePayload
  <2>3. QED
    BY <2>1, <2>2
<1>3. (DOMAIN call.args \cap fields) \ ForbiddenKey = DOMAIN call.args \cap fields
  BY DEF UnsafePayload
<1>4. Bounded(call.args, fields) = DeclaredArguments(c, call)
  BY <1>2, <1>3 DEF Bounded, DeclaredArguments
<1>5. QED
  BY <1>1, <1>4 DEF ActionEvent, Call

LEMMA SafeCallsSayWhatTheyDid ==
  ASSUME NEW c \in Case, NEW session, NEW call, IsCall(call), ~LosesArguments(c, call),
         ~UnsafePayload(call.args), call.tool \notin Unsafe,
         Callable(c, call) => ExecuteTool(c, session, call).result.type \in ResultType
  PROVE  SaysWhatItDid(c, session, call)
<1> DEFINE done == ExecuteToolDecision(c, session, call)
           declared == DeclaredArguments(c, call)
           same == [type |-> "tool_call", tool |-> call.tool, args |-> declared]
           again == ExecuteToolDecision(c, session, same)
<1>1. Call(ActionEvent(c, call)) = same
  BY SafeActionsSayTheCall
<1>2. SUFFICES /\ again.event = done.event /\ again.session = done.session
               /\ again.authorization = done.authorization
               /\ Saved(done.event) = done.event
  BY <1>1 DEF SaysWhatItDid
<1>3. \A code : Saved(ToolError(call.tool, code)) = ToolError(call.tool, code)
  <2>1. Clean(call.tool) = call.tool
    BY CleanTextsAreAllowed
  <2>2. QED
    BY <2>1 DEF Saved, ToolError
<1>4. same.tool = call.tool /\ same.args = declared
  OBVIOUS
<1> HIDE DEF same
<1>5. ASSUME NEW code, done = Refused(session, call, code), again = Refused(session, same, code)
      PROVE  /\ again.event = done.event /\ again.session = done.session
             /\ again.authorization = done.authorization
             /\ Saved(done.event) = done.event
  BY <1>3, <1>4, <1>5 DEF Refused
<1>6. CASE call.tool \notin DOMAIN EpisodeTools(c)
  <2>1. /\ done = Refused(session, call, "unknown_tool")
        /\ again = Refused(session, same, "unknown_tool")
    BY <1>4, <1>6 DEF ExecuteToolDecision
  <2>2. QED
    BY <1>5, <2>1
<1>7. CASE call.tool \in DOMAIN EpisodeTools(c) /\ ~Callable(c, call)
  <2>1. ~ValidArguments(EpisodeTools(c)[call.tool], call.args)
    BY <1>7 DEF Callable
  <2>2. ~ValidArguments(EpisodeTools(c)[call.tool], declared)
    <3>1. ActionEvent(c, call).tool = call.tool /\ ActionEvent(c, call).args = declared
      BY SafeActionsSayTheCall DEF Call
    <3>2. ActionEvent(c, call).type = "action"
      BY DEF ActionEvent
    <3> HIDE DEF declared
    <3>3. QED
      BY <1>7, <2>1, <3>1, <3>2 DEF LosesArguments, RefusedThoughValid, ToolError
  <2>3. /\ done = Refused(session, call, "invalid_tool_arguments")
        /\ again = Refused(session, same, "invalid_tool_arguments")
    BY <1>4, <1>7, <2>1, <2>2 DEF ExecuteToolDecision
  <2>4. QED
    BY <1>5, <2>3
<1>8. CASE Callable(c, call)
  <2>1. DOMAIN call.args \subseteq InputFields(EpisodeTools(c), call.tool)
    BY <1>8 DEF Callable, ValidArguments, InputFields
  <2>2. declared = [f \in DOMAIN call.args |-> call.args[f]]
    BY <2>1 DEF DeclaredArguments
  <2>3. same = call
    BY <2>2 DEF IsCall, same
  <2>4. done.event.type \in {"observation", "state_change", "error"}
    BY <1>8, ExecutedCalls
  <2>5. Saved(done.event) = done.event
    <3>1. CASE done.event.type # "error"
      BY <3>1 DEF Saved
    <3>2. CASE done.event.type = "error"
      <4> DEFINE answer == ExecuteTool(c, session, call)
      <4>1. done = Answered(c, call, answer.session, answer.result)
        BY <1>8 DEF ExecuteToolDecision, Callable
      <4>2. answer.result.type \in ResultType
        BY <1>8
      <4>3. \E code : done.event = ToolError(call.tool, code)
        <5>1. CASE answer.result.type \in {"observation", "state_change"}
          BY <3>2, <4>1, <5>1 DEF Answered
        <5>2. CASE answer.result.type \in {"unauthorized_mutation", "tool_failure"}
          BY <4>1, <5>2 DEF Answered
        <5>3. CASE answer.result.type = "raises"
          BY <4>1, <5>3 DEF Answered, Refused
        <5>4. QED
          BY <4>2, <5>1, <5>2, <5>3 DEF ResultType
      <4>4. QED
        BY <1>3, <4>3
    <3>3. QED
      BY <3>1, <3>2
  <2>6. QED
    BY <2>3, <2>5
<1>9. QED
  BY <1>6, <1>7, <1>8 DEF Callable

LEMMA SafeAnswersAreSaved ==
  ASSUME NEW c \in Case, NEW session, NEW call, call.tool \notin Unsafe,
         Callable(c, call) => ExecuteTool(c, session, call).result.type \in ResultType
  PROVE  LET event == ExecuteToolDecision(c, session, call).event IN Saved(event) = event
<1> DEFINE done == ExecuteToolDecision(c, session, call)
           answer == ExecuteTool(c, session, call)
<1>1. \A code : Saved(ToolError(call.tool, code)) = ToolError(call.tool, code)
  <2>1. Clean(call.tool) = call.tool
    BY CleanTextsAreAllowed
  <2>2. QED
    BY <2>1 DEF Saved, ToolError
<1>2. done.event.type # "error" \/ \E code : done.event = ToolError(call.tool, code)
  <2>1. CASE ~Callable(c, call)
    <3>1. \E code : done = Refused(session, call, code)
      BY <2>1 DEF ExecuteToolDecision, Callable
    <3>2. QED
      BY <3>1 DEF Refused
  <2>2. CASE Callable(c, call)
    <3>1. done = Answered(c, call, answer.session, answer.result)
      BY <2>2 DEF ExecuteToolDecision, Callable
    <3>2. CASE answer.result.type \in {"observation", "state_change"}
      BY <3>1, <3>2 DEF Answered
    <3>3. CASE answer.result.type \in {"unauthorized_mutation", "tool_failure"}
      BY <3>1, <3>3 DEF Answered
    <3>4. CASE answer.result.type = "raises"
      BY <3>1, <3>4 DEF Answered, Refused
    <3>5. QED
      BY <2>2, <3>2, <3>3, <3>4 DEF ResultType
  <2>3. QED
    BY <2>1, <2>2
<1>3. CASE done.event.type # "error"
  BY <1>3 DEF Saved
<1>4. QED
  BY <1>1, <1>2, <1>3

LEMMA CalledHistory ==
  ASSUME NEW c \in Case, NEW a, NEW call, IsAttempt(a)
  PROVE  Called(c, a, call).events =
             Append(Append(a.events, ActionEvent(c, call)), ExecuteToolDecision(c, a.session, call).event)
<1> DEFINE done == ExecuteToolDecision(c, a.session, call)
           action == ActionEvent(c, call)
           r == Record(Record(a, action), done.event)
           b == Called(c, a, call)
<1>1. r.events = Append(Append(a.events, action), done.event)
  BY DEF IsAttempt, Record, AttemptFields
<1>2. b = [r EXCEPT !.steps = @ + 1, !.session = done.session,
                    !.authorization = Authorized(@, done.authorization),
                    !.unsafe = \/ @ \/ done.unsafe
                               \/ UnsafePayload(call.args) \/ call.tool \in Unsafe]
  BY DEF Called
<1>3. IsAttempt(r)
  BY RecordedTwice
<1> HIDE DEF b, r, done, action
<1>4. b.events = r.events
  BY <1>2, <1>3 DEF IsAttempt, AttemptFields
<1>5. QED
  BY <1>1, <1>4 DEF b, done, action

LEMMA CallsAreReproduced ==
  ASSUME NEW c \in Case, NEW a, NEW call, IsAttempt(a), Reproduced(c, a),
         IsCall(call), ~LosesArguments(c, call),
         ~UnsafePayload(call.args), call.tool \notin Unsafe,
         Callable(c, call) => ExecuteTool(c, a.session, call).result.type \in ResultType
  PROVE  Reproduced(c, Called(c, a, call))
<1> DEFINE done == ExecuteToolDecision(c, a.session, call)
           action == ActionEvent(c, call)
           b == Called(c, a, call)
<1>1. b.session = done.session /\ b.authorization = Authorized(a.authorization, done.authorization)
  BY CalledAttempt
<1>2. b.events = Append(Append(a.events, action), done.event)
  BY CalledHistory
<1>3. SaysWhatItDid(c, a.session, call)
  BY SafeCallsSayWhatTheyDid
<1> HIDE DEF b
<1>4. QED
  BY <1>1, <1>2, <1>3, CallIsReproduced DEF b

(* Which arguments a history lost. *)

LEMMA LostStays ==
  ASSUME NEW c, NEW before, NEW after, NEW n \in Nat, NEW m \in Nat, n <= m,
         DOMAIN before = 1 .. n, DOMAIN after = 1 .. m, \A i \in 1 .. n : after[i] = before[i]
  PROVE  LostArguments(c, before) \subseteq LostArguments(c, after)
BY DEF LostArguments

LEMMA NothingElseIsLost ==
  ASSUME NEW c, NEW events, IsSequence(events), NEW event,
         ~(event.type = "error" /\ event.code = "invalid_tool_arguments")
  PROVE  LostArguments(c, Append(events, event)) = LostArguments(c, events)
<1> DEFINE n == Len(events)
           longer == Append(events, event)
<1>1. /\ n \in Nat /\ DOMAIN events = 1 .. n /\ DOMAIN longer = 1 .. n + 1
      /\ longer[n + 1] = event /\ \A i \in 1 .. n : longer[i] = events[i]
  BY AppendEvent
<1> HIDE DEF n, longer
<1>2. LostArguments(c, events) \subseteq LostArguments(c, longer)
  BY <1>1, LostStays
<1>3. ASSUME NEW i \in LostArguments(c, longer) PROVE i \in LostArguments(c, events)
  <2>1. /\ i \in 1 .. n + 1 /\ i + 1 \in 1 .. n + 1
        /\ RefusedThoughValid(c, longer[i], longer[i + 1])
    BY <1>1, <1>3 DEF LostArguments
  <2>2. i + 1 # n + 1
    BY <1>1, <2>1 DEF RefusedThoughValid
  <2>3. i \in 1 .. n /\ i + 1 \in 1 .. n
    BY <1>1, <2>1, <2>2
  <2>4. QED
    BY <1>1, <2>1, <2>3 DEF LostArguments
<1>4. QED
  BY <1>2, <1>3 DEF longer

LEMMA LostByCall ==
  ASSUME NEW c \in Case, NEW a, NEW call, IsAttempt(a)
  PROVE  LET before == LostArguments(c, a.events)
             after == LostArguments(c, Called(c, a, call).events)
             lost == RefusedThoughValid(c, ActionEvent(c, call),
                                        ExecuteToolDecision(c, a.session, call).event)
         IN  after = {} <=> before = {} /\ ~lost
<1> DEFINE n == Len(a.events)
           b == Called(c, a, call)
           action == ActionEvent(c, call)
           event == ExecuteToolDecision(c, a.session, call).event
<1>1. /\ n \in Nat /\ DOMAIN a.events = 1 .. n /\ DOMAIN b.events = 1 .. n + 2
      /\ b.events[n + 1] = action /\ b.events[n + 2] = event
      /\ \A i \in 1 .. n : b.events[i] = a.events[i]
  BY CalledEvents
<1>2. action.type = "action"
  BY DEF ActionEvent
<1> HIDE DEF n, b, action, event
<1>3. LostArguments(c, a.events) \subseteq LostArguments(c, b.events)
  <2>1. n + 2 \in Nat /\ n <= n + 2
    BY <1>1
  <2>2. QED
    BY <1>1, <2>1, LostStays
<1>4. RefusedThoughValid(c, action, event) => n + 1 \in LostArguments(c, b.events)
  <2>1. n + 1 \in 1 .. n + 2 /\ (n + 1) + 1 \in 1 .. n + 2 /\ (n + 1) + 1 = n + 2
    BY <1>1
  <2>2. QED
    BY <1>1, <2>1 DEF LostArguments
<1>5. ASSUME NEW i \in LostArguments(c, b.events), ~RefusedThoughValid(c, action, event)
      PROVE  i \in LostArguments(c, a.events)
  <2>1. /\ i \in 1 .. n + 2 /\ i + 1 \in 1 .. n + 2
        /\ RefusedThoughValid(c, b.events[i], b.events[i + 1])
    BY <1>1, <1>5 DEF LostArguments
  <2>2. i # n + 1
    <3>1. i = n + 1 => i + 1 = n + 2
      BY <1>1
    <3>2. QED
      BY <1>1, <1>5, <2>1, <3>1
  <2>3. i + 1 # n + 1
    BY <1>1, <1>2, <2>1 DEF RefusedThoughValid
  <2>4. i \in 1 .. n /\ i + 1 \in 1 .. n
    BY <1>1, <2>1, <2>2, <2>3
  <2>5. QED
    BY <1>1, <2>1, <2>4 DEF LostArguments
<1>6. QED
  BY <1>3, <1>4, <1>5 DEF b, action, event

LEMMA LosingIsSeen ==
  ASSUME NEW c \in Case, NEW session, NEW call, LosesArguments(c, call)
  PROVE  RefusedThoughValid(c, ActionEvent(c, call), ExecuteToolDecision(c, session, call).event)
<1>1. ExecuteToolDecision(c, session, call) = Refused(session, call, "invalid_tool_arguments")
  BY DEF LosesArguments, ExecuteToolDecision
<1>2. ExecuteToolDecision(c, session, call).event = ToolError(call.tool, "invalid_tool_arguments")
  BY <1>1 DEF Refused
<1>3. QED
  BY <1>2 DEF LosesArguments

--------------------------------------------------------------------------------
(* A replay that has found drift, and always will.                              *)

Drifted(c, a) ==
    /\ \A i \in DOMAIN a.events : Saved(a.events[i]) = a.events[i]
    /\ \E done, trace, authorization :
           ReplaysTo(c, a.events, [done |-> done, awaited |-> FALSE, trace |-> trace,
                                   authorization |-> authorization, drift |-> TRUE])

LEMMA DriftStays ==
  ASSUME NEW c, NEW a, NEW b, IsAttempt(a), Drifted(c, a), NEW event,
         event.type # "action", Saved(event) = event, b.events = Append(a.events, event)
  PROVE  Drifted(c, b)
<1>1. IsSequence(a.events)
  BY DEF IsAttempt
<1>2. PICK done, trace, authorization :
          ReplaysTo(c, a.events, [done |-> done, awaited |-> FALSE, trace |-> trace,
                                  authorization |-> authorization, drift |-> TRUE])
  BY DEF Drifted
<1>3. ReplayEvent(c, [done |-> done, awaited |-> FALSE, trace |-> trace,
                      authorization |-> authorization, drift |-> TRUE], event)
      = [done |-> done, awaited |-> FALSE, trace |-> Append(trace, event),
         authorization |-> authorization, drift |-> TRUE]
  BY DEF ReplayEvent
<1>4. ReplaysTo(c, b.events, [done |-> done, awaited |-> FALSE, trace |-> Append(trace, event),
                              authorization |-> authorization, drift |-> TRUE])
  BY <1>1, <1>2, <1>3, OneEventMore
<1>5. /\ DOMAIN b.events = 1 .. Len(a.events) + 1 /\ DOMAIN a.events = 1 .. Len(a.events)
      /\ b.events[Len(a.events) + 1] = event /\ Len(a.events) \in Nat
      /\ \A i \in DOMAIN a.events : b.events[i] = a.events[i]
  BY <1>1, AppendEvent
<1>6. \A i \in DOMAIN b.events : i \in DOMAIN a.events \/ i = Len(a.events) + 1
  BY <1>5
<1>7. \A i \in DOMAIN b.events : Saved(b.events[i]) = b.events[i]
  BY <1>5, <1>6 DEF Drifted
<1>8. QED
  BY <1>4, <1>7 DEF Drifted

LEMMA DriftOutlivesCalls ==
  ASSUME NEW c \in Case, NEW a, NEW call, IsAttempt(a), Drifted(c, a),
         Saved(ExecuteToolDecision(c, a.session, call).event) =
             ExecuteToolDecision(c, a.session, call).event
  PROVE  Drifted(c, Called(c, a, call))
<1> DEFINE action == ActionEvent(c, call)
           event == ExecuteToolDecision(c, a.session, call).event
           b == Called(c, a, call)
<1>1. b.events = Append(Append(a.events, action), event)
  BY CalledHistory
<1>2. IsSequence(a.events) /\ \A i \in DOMAIN a.events : Saved(a.events[i]) = a.events[i]
  BY DEF IsAttempt, Drifted
<1>3. action.type = "action" /\ Saved(action) = action
  BY DEF ActionEvent, Saved
<1>4. PICK done, trace, authorization :
          ReplaysTo(c, a.events, [done |-> done, awaited |-> FALSE, trace |-> trace,
                                  authorization |-> authorization, drift |-> TRUE])
  BY DEF Drifted
<1> DEFINE answer == ExecuteToolDecision(c, done.session, Call(action))
<1>5. Saved(event) = event
  OBVIOUS
<1> HIDE DEF action, event, b
<1>6. ReplaysTo(c, Append(Append(a.events, action), event),
                [done |-> answer, awaited |-> FALSE,
                 trace |-> Append(Append(trace, action), answer.event),
                 authorization |-> Authorized(authorization, answer.authorization),
                 drift |-> TRUE])
  <2>1. TRUE \in BOOLEAN /\ TRUE = (TRUE \/ event # answer.event)
    OBVIOUS
  <2>2. answer = ExecuteToolDecision(c, done.session, Call(action))
    OBVIOUS
  <2> HIDE DEF answer
  <2>3. QED
    BY <1>2, <1>3, <1>4, <2>1, <2>2, CallIsReplayed, Zenon
<1> HIDE DEF answer
<1>8. \A i \in DOMAIN b.events : Saved(b.events[i]) = b.events[i]
  BY <1>1, <1>2, <1>3, <1>5, SavedPair
<1>9. QED
  BY <1>1, <1>6, <1>8, Zenon DEF Drifted, b

(* Which Agents and Domains replay is about. An Agent answers with records; the *)
(* structural keys of a Domain are not the engine's own word for an Episode     *)
(* that was not assessed, nor are its failures the engine's own word for a call *)
(* it refused.                                                                  *)
CallsAreRecords ==
    \A c \in Case : \A events : \A call \in Decision(c, events) :
        call.type = "tool_call" => IsCall(call)
KeysAreTheDomains ==
    \A c \in Case : \A events, authorization :
        LET assessed == AssessEvents(c, events, authorization)
        IN  assessed # None => assessed.key # "incomplete"
FailuresAreTheDomains ==
    \A c \in Case : \A session, call :
        LET result == ExecuteTool(c, session, call).result
        IN  IsSession(session) /\ Callable(c, call)
            /\ result.type \in {"tool_failure", "unauthorized_mutation"}
            => result.code # "invalid_tool_arguments"

(* A call that lost an argument is executed by the replay, and so answered      *)
(* otherwise than the Episode answered it.                                      *)
LEMMA LostCallsDrift ==
  ASSUME NEW c \in Case, NEW a, NEW call, IsAttempt(a), Reproduced(c, a), IsSession(a.session),
         DomainContract, FailuresAreTheDomains, ~UnsafePayload(call.args), call.tool \notin Unsafe,
         RefusedThoughValid(c, ActionEvent(c, call), ExecuteToolDecision(c, a.session, call).event)
  PROVE  Drifted(c, Called(c, a, call))
<1> DEFINE action == ActionEvent(c, call)
           event == ExecuteToolDecision(c, a.session, call).event
           b == Called(c, a, call)
           same == Call(action)
           answer == ExecuteToolDecision(c, a.session, same)
<1>1. b.events = Append(Append(a.events, action), event)
  BY CalledHistory
<1>2. IsSequence(a.events) /\ \A i \in DOMAIN a.events : Saved(a.events[i]) = a.events[i]
  BY DEF IsAttempt, Reproduced
<1>3. action.type = "action" /\ Saved(action) = action
  BY DEF ActionEvent, Saved
<1>4. Saved(event) = event
  <2>1. Callable(c, call) => ExecuteTool(c, a.session, call).result.type \in ResultType
    BY DEF DomainContract
  <2>2. QED
    BY <2>1, SafeAnswersAreSaved
<1>5. event # answer.event
  <2>1. Callable(c, same)
    BY DEF RefusedThoughValid, Callable, Call
  <2> HIDE DEF same, event, action
  <2> DEFINE result == ExecuteTool(c, a.session, same).result
  <2>2. answer = Answered(c, same, ExecuteTool(c, a.session, same).session, result)
    BY <2>1 DEF ExecuteToolDecision, Callable
  <2>3. /\ result.type \in ResultType
        /\ result.type \in {"tool_failure", "unauthorized_mutation"} =>
               result.code # "invalid_tool_arguments"
    BY <2>1 DEF DomainContract, FailuresAreTheDomains
  <2> HIDE DEF result, answer
  <2>4. CASE result.type \in {"observation", "state_change"}
    <3>1. answer.event.type # "error"
      BY <2>2, <2>4 DEF Answered
    <3>2. QED
      BY <3>1 DEF RefusedThoughValid, event
  <2>5. CASE result.type \in {"tool_failure", "unauthorized_mutation"}
    <3>1. answer.event.code = result.code
      BY <2>2, <2>5 DEF Answered, ToolError
    <3>2. QED
      BY <2>3, <2>5, <3>1 DEF RefusedThoughValid, event
  <2>6. CASE result.type = "raises"
    <3>1. answer.event.code = "tool_failure"
      BY <2>2, <2>6 DEF Answered, Refused, ToolError
    <3>2. QED
      BY <3>1 DEF RefusedThoughValid, event
  <2>7. QED
    BY <2>3, <2>4, <2>5, <2>6 DEF ResultType
<1>6. PICK done : done.session = a.session /\ ReplaysTo(c, a.events, Standing(done, a))
  BY DEF Reproduced
<1>7. answer = ExecuteToolDecision(c, done.session, Call(action))
  BY <1>6
<1> HIDE DEF action, event, b, same, answer
<1>8. ReplaysTo(c, Append(Append(a.events, action), event),
                [done |-> answer, awaited |-> FALSE,
                 trace |-> Append(Append(a.events, action), answer.event),
                 authorization |-> Authorized(a.authorization, answer.authorization),
                 drift |-> TRUE])
  <2>1. ReplaysTo(c, a.events, [done |-> done, awaited |-> FALSE, trace |-> a.events,
                                authorization |-> a.authorization, drift |-> FALSE])
    BY <1>6 DEF Standing
  <2>2. FALSE \in BOOLEAN /\ TRUE \in BOOLEAN /\ TRUE = (FALSE \/ event # answer.event)
    BY <1>5
  <2>3. QED
    BY <1>2, <1>3, <1>7, <2>1, <2>2, CallIsReplayed, Zenon
<1>10. \A i \in DOMAIN b.events : Saved(b.events[i]) = b.events[i]
  BY <1>1, <1>2, <1>3, <1>4, SavedPair
<1>11. QED
  BY <1>1, <1>8, <1>10, Zenon DEF Drifted, b

(* The inductive invariant: as long as nothing had to be redacted, a replay of  *)
(* what is saved so far stands where the Episode does, or has drifted if a call *)
(* lost an argument; and a case that cannot be opened has ended at once.        *)
Followed(c, a) ==
    IF LostArguments(c, a.events) = {} THEN Reproduced(c, a) ELSE Drifted(c, a)
ReplayInvariant ==
    /\ ~attempt.unsafe => Followed(case, attempt)
    /\ phase = "running" => EpisodeOpens(case)
    /\ phase = "ended" => (attempt.terminal = "episode_open_failure" <=> ~EpisodeOpens(case))

LEMMA PlainEventIsFollowed ==
  ASSUME NEW c, NEW a, NEW b, IsAttempt(a), Followed(c, a), NEW event,
         event.type # "action", Saved(event) = event,
         ~(event.type = "error" /\ event.code = "invalid_tool_arguments"),
         b.events = Append(a.events, event), b.session = a.session, b.authorization = a.authorization
  PROVE  Followed(c, b)
<1>1. IsSequence(a.events)
  BY DEF IsAttempt
<1>2. LostArguments(c, b.events) = LostArguments(c, a.events)
  BY <1>1, NothingElseIsLost
<1>3. CASE LostArguments(c, a.events) = {}
  <2>1. Reproduced(c, b)
    BY <1>3, PlainEventIsReproduced DEF Followed
  <2>2. QED
    BY <1>2, <1>3, <2>1 DEF Followed
<1>4. CASE LostArguments(c, a.events) # {}
  <2>1. Drifted(c, b)
    BY <1>4, DriftStays DEF Followed
  <2>2. QED
    BY <1>2, <1>4, <2>1 DEF Followed
<1>5. QED
  BY <1>3, <1>4

LEMMA FailuresAreFollowed ==
  ASSUME NEW c, NEW a, NEW code \in FailureCode, IsAttempt(a), Followed(c, a)
  PROVE  Followed(c, Fail(a, code))
<1> DEFINE b == Fail(a, code)
<1>1. b.events = Append(a.events, ErrorEvent(code))
  BY DEF Fail, Record, IsAttempt, AttemptFields
<1>2. b.session = a.session /\ b.authorization = a.authorization
  BY FailedAttempt DEF AttemptFields
<1>3. /\ ErrorEvent(code).type # "action" /\ Saved(ErrorEvent(code)) = ErrorEvent(code)
      /\ ErrorEvent(code).code # "invalid_tool_arguments"
  BY DEF ErrorEvent, Saved, FailureCode
<1> HIDE DEF b
<1>4. QED
  BY <1>1, <1>2, <1>3, PlainEventIsFollowed DEF b

LEMMA CallsAreFollowed ==
  ASSUME NEW c \in Case, NEW a, NEW call, IsAttempt(a), Followed(c, a), IsSession(a.session),
         DomainContract, FailuresAreTheDomains, IsCall(call),
         ~UnsafePayload(call.args), call.tool \notin Unsafe
  PROVE  Followed(c, Called(c, a, call))
<1> DEFINE b == Called(c, a, call)
           lost == RefusedThoughValid(c, ActionEvent(c, call),
                                      ExecuteToolDecision(c, a.session, call).event)
<1>1. Callable(c, call) => ExecuteTool(c, a.session, call).result.type \in ResultType
  BY DEF DomainContract
<1>2. LostArguments(c, b.events) = {} <=> LostArguments(c, a.events) = {} /\ ~lost
  BY LostByCall
<1>3. LosesArguments(c, call) => lost
  BY LosingIsSeen
<1> HIDE DEF b
<1>4. CASE LostArguments(c, a.events) # {}
  <2>1. Drifted(c, b)
    <3>1. Saved(ExecuteToolDecision(c, a.session, call).event) =
              ExecuteToolDecision(c, a.session, call).event
      BY <1>1, SafeAnswersAreSaved
    <3>2. Drifted(c, a)
      BY <1>4 DEF Followed
    <3>3. QED
      BY <3>1, <3>2, DriftOutlivesCalls DEF b
  <2>2. QED
    BY <1>2, <1>4, <2>1 DEF Followed, b
<1>5. CASE LostArguments(c, a.events) = {} /\ lost
  <2>1. Drifted(c, b)
    BY <1>5, LostCallsDrift DEF Followed, b
  <2>2. QED
    BY <1>2, <1>5, <2>1 DEF Followed, b
<1>6. CASE LostArguments(c, a.events) = {} /\ ~lost
  <2>1. Reproduced(c, b)
    BY <1>1, <1>3, <1>6, CallsAreReproduced DEF Followed, b
  <2>2. QED
    BY <1>2, <1>6, <2>1 DEF Followed, b
<1>7. QED
  BY <1>4, <1>5, <1>6 DEF b

LEMMA FollowedStep ==
  ASSUME DomainContract, CallsAreRecords, FailuresAreTheDomains,
         LoopInvariant, Explained(case, attempt), ReplayInvariant, Next, ~attempt'.unsafe
  PROVE  Followed(case', attempt')
<1>1. /\ case' = case /\ case \in Case /\ IsAttempt(attempt)
      /\ \/ Starts
         \/ Fails \/ Repairs
         \/ \E decision \in Decision(case, attempt.events) :
                Finishes(decision) \/ Calls(decision)
  BY NextSteps DEF LoopInvariant
<1>2. CASE Starts
  <2>1. /\ attempt' = NewAttempt(case) /\ Reproduced(case, NewAttempt(case))
        /\ DOMAIN NewAttempt(case).events = {}
    BY <1>1, <1>2, StartIsReproduced, StartedAttempt DEF Starts
  <2>2. LostArguments(case, NewAttempt(case).events) = {}
    BY <2>1 DEF LostArguments
  <2>3. QED
    BY <1>1, <2>1, <2>2 DEF Followed
<1>3. CASE Fails
  <2>1. PICK code \in FailureCode : attempt' = Fail(attempt, code)
    BY <1>3 DEF Fails
  <2>2. attempt'.unsafe = attempt.unsafe
    BY <1>1, <2>1, FailedAttempt DEF AttemptFields
  <2>3. Followed(case, attempt)
    BY <2>2 DEF ReplayInvariant
  <2>4. QED
    BY <1>1, <2>1, <2>3, FailuresAreFollowed
<1>4. CASE Repairs
  <2> DEFINE event == ErrorEvent("malformed_agent_decision")
             r == Record(attempt, event)
  <2>1. attempt' = [r EXCEPT !.repairs = @ + 1]
    BY <1>4 DEF Repairs
  <2>2. IsAttempt(r) /\ \A f \in AttemptFields \ {"events"} : r[f] = attempt[f]
    BY <1>1, RecordedEvent
  <2>3. r.events = Append(attempt.events, event)
    BY <1>1 DEF Record, IsAttempt, AttemptFields
  <2>4. event.type # "action" /\ Saved(event) = event /\ event.code # "invalid_tool_arguments"
    BY DEF ErrorEvent, Saved
  <2> HIDE DEF r, event
  <2>5. \A f \in AttemptFields \ {"repairs"} : attempt'[f] = r[f]
    BY <2>1, <2>2, RepairedAttempt
  <2>6. /\ attempt'.unsafe = attempt.unsafe /\ attempt'.session = attempt.session
        /\ attempt'.authorization = attempt.authorization
        /\ attempt'.events = Append(attempt.events, event)
    BY <2>2, <2>3, <2>5 DEF AttemptFields
  <2>7. Followed(case, attempt)
    BY <2>6 DEF ReplayInvariant
  <2>8. QED
    BY <1>1, <2>4, <2>6, <2>7, PlainEventIsFollowed
<1>5. ASSUME NEW decision, Finishes(decision) PROVE Followed(case', attempt')
  <2> DEFINE event == [type |-> "final_response", content |-> CleanContent(decision.content)]
             b == Finished(attempt, decision)
  <2>1. attempt' = b
    BY <1>5 DEF Finishes
  <2>2. /\ b.events = Record(attempt, event).events /\ b.session = attempt.session
        /\ b.authorization = attempt.authorization /\ (~b.unsafe => ~attempt.unsafe)
    BY <1>1, FinishedAttempt DEF AttemptFields
  <2>3. Record(attempt, event).events = Append(attempt.events, event)
    BY <1>1 DEF Record, IsAttempt, AttemptFields
  <2>4. event.type # "action" /\ Saved(event) = event /\ event.type # "error"
    BY DEF Saved
  <2> HIDE DEF event, b
  <2>5. Followed(case, attempt)
    BY <2>1, <2>2 DEF ReplayInvariant
  <2>6. QED
    BY <1>1, <2>1, <2>2, <2>3, <2>4, <2>5, PlainEventIsFollowed
<1>6. ASSUME NEW call \in Decision(case, attempt.events), Calls(call)
      PROVE  Followed(case', attempt')
  <2> DEFINE b == Called(case, attempt, call)
  <2>1. /\ IsAttempt(b)
        /\ ~b.unsafe => ~attempt.unsafe /\ ~UnsafePayload(call.args) /\ call.tool \notin Unsafe
    BY <1>1, CalledAttempt
  <2>2. IsCall(call) /\ IsSession(attempt.session)
    BY <1>1, <1>6 DEF Calls, CallsAreRecords, Explained
  <2>3. \/ attempt' = [b EXCEPT !.terminal = "unauthorized_mutation"]
        \/ attempt' = Fail(b, "step_budget_exhausted")
        \/ attempt' = b
    BY <1>6 DEF Calls
  <2> HIDE DEF b
  <2>4. /\ attempt' = [b EXCEPT !.terminal = "unauthorized_mutation"] =>
               \A f \in AttemptFields \ {"terminal"} : attempt'[f] = b[f]
        /\ attempt' = Fail(b, "step_budget_exhausted") =>
               \A f \in AttemptFields \ {"events", "terminal"} : attempt'[f] = b[f]
    BY <2>1, TerminatedAttempt, FailedAttempt
  <2>5. ~b.unsafe
    BY <2>3, <2>4 DEF AttemptFields
  <2>6. Followed(case, attempt)
    BY <2>1, <2>5 DEF ReplayInvariant
  <2>7. Followed(case, b)
    BY <1>1, <2>1, <2>2, <2>5, <2>6, CallsAreFollowed DEF b
  <2>8. CASE attempt' = [b EXCEPT !.terminal = "unauthorized_mutation"]
    <3>1. /\ attempt'.events = b.events /\ attempt'.session = b.session
          /\ attempt'.authorization = b.authorization
      BY <2>4, <2>8 DEF AttemptFields
    <3>2. QED
      BY <1>1, <2>7, <3>1, StillReproduced DEF Followed, Drifted
  <2>9. CASE attempt' = Fail(b, "step_budget_exhausted")
    <3>1. "step_budget_exhausted" \in FailureCode
      BY DEF FailureCode
    <3>2. QED
      BY <1>1, <2>1, <2>7, <2>9, <3>1, FailuresAreFollowed
  <2>10. QED
    BY <1>1, <2>3, <2>7, <2>8, <2>9
<1>7. QED
  BY <1>1, <1>2, <1>3, <1>4, <1>5, <1>6

LEMMA OpeningStep ==
  ASSUME LoopInvariant, ReplayInvariant, Next
  PROVE  /\ phase' = "running" => EpisodeOpens(case')
         /\ phase' = "ended" => (attempt'.terminal = "episode_open_failure" <=> ~EpisodeOpens(case'))
<1>1. case \in Case /\ IsAttempt(attempt) /\ "episode_open_failure" # None
  BY SanitizerAssumption DEF LoopInvariant
<1>2. CASE OpenEpisode
  <2>1. IsAttempt(NewAttempt(case)) /\ case' = case
    BY <1>1, <1>2, StartedAttempt DEF OpenEpisode
  <2>2. Fail(NewAttempt(case), "episode_open_failure").terminal = "episode_open_failure"
    BY <2>1, FailedAttempt
  <2>3. \/ EpisodeOpens(case) /\ phase' = "running"
        \/ ~EpisodeOpens(case) /\ phase' # "running"
           /\ attempt' = Fail(NewAttempt(case), "episode_open_failure")
    BY <1>2 DEF OpenEpisode, Conclude
  <2>4. QED
    BY <2>1, <2>2, <2>3
<1>3. CASE MalformedDecision
  <2>1. /\ phase = "running" /\ case' = case
        /\ \/ phase' = "running"
           \/ attempt' = [Record(attempt, ErrorEvent("malformed_agent_decision"))
                             EXCEPT !.terminal = "malformed_agent_decision"]
    BY <1>3 DEF MalformedDecision, Conclude
  <2>2. IsAttempt(Record(attempt, ErrorEvent("malformed_agent_decision")))
    BY <1>1, RecordedEvent
  <2>3. phase' = "running" \/ attempt'.terminal = "malformed_agent_decision"
    BY <2>1, <2>2, TerminatedAttempt
  <2>4. QED
    BY <2>1, <2>3 DEF ReplayInvariant
<1>4. CASE CallFails
  <2>1. phase = "running" /\ case' = case /\ attempt' = Fail(attempt, "agent_request_failed")
    BY <1>4 DEF CallFails, Conclude
  <2>2. attempt'.terminal = "agent_request_failed"
    BY <1>1, <2>1, FailedAttempt
  <2>3. QED
    BY <2>1, <2>2 DEF ReplayInvariant
<1>5. CASE Decides
  <2>1. PICK decision \in Decision(case, attempt.events) :
            FinalResponse(decision) \/ ToolCall(decision)
    BY <1>5 DEF Decides
  <2>2. phase = "running" /\ attempt.terminal = None /\ EpisodeOpens(case)
    BY <1>5 DEF Decides, LoopInvariant, Open, ReplayInvariant
  <2>3. CASE FinalResponse(decision)
    <3>1. case' = case /\ attempt' = Finished(attempt, decision)
      BY <2>3 DEF FinalResponse, Conclude, Finished
    <3>2. attempt'.terminal = None
      BY <1>1, <2>2, <3>1, FinishedAttempt DEF AttemptFields
    <3>3. QED
      BY <1>1, <2>2, <3>1, <3>2
  <2>4. CASE ToolCall(decision)
    <3> DEFINE a == Called(case, attempt, decision)
    <3>1. /\ case' = case
          /\ \/ attempt' = [a EXCEPT !.terminal = "unauthorized_mutation"]
             \/ attempt' = Fail(a, "step_budget_exhausted")
             \/ attempt' = a
      BY <2>4 DEF ToolCall, Called, Continue, Conclude
    <3>2. IsAttempt(a) /\ a.terminal = None
      BY <1>1, <2>2, CalledAttempt
    <3> HIDE DEF a
    <3>3. attempt'.terminal \in {None, "unauthorized_mutation", "step_budget_exhausted"}
      <4>1. [a EXCEPT !.terminal = "unauthorized_mutation"].terminal = "unauthorized_mutation"
        BY <3>2, TerminatedAttempt
      <4>2. Fail(a, "step_budget_exhausted").terminal = "step_budget_exhausted"
        BY <3>2, FailedAttempt
      <4>3. QED
        BY <3>1, <3>2, <4>1, <4>2
    <3>4. QED
      BY <1>1, <2>2, <3>1, <3>3
  <2>5. QED
    BY <2>1, <2>3, <2>4
<1>6. CASE Interrupted
  BY <1>6 DEF Interrupted
<1>7. QED
  BY <1>2, <1>3, <1>4, <1>5, <1>6 DEF Next, Progress

LEMMA ReplayInvariantAlways ==
  ASSUME DomainContract, CallsAreRecords, FailuresAreTheDomains
  PROVE  Spec => []ReplayInvariant
<1> DEFINE Kept == LoopInvariant /\ Explained(case, attempt)
<1>1. Init => ReplayInvariant
  <2> SUFFICES ASSUME Init PROVE ReplayInvariant
    OBVIOUS
  <2>1. /\ case \in Case /\ attempt = NewAttempt(case) /\ phase = "ready"
        /\ Reproduced(case, NewAttempt(case)) /\ DOMAIN NewAttempt(case).events = {}
    BY StartIsReproduced, StartedAttempt DEF Init
  <2>2. LostArguments(case, NewAttempt(case).events) = {}
    BY <2>1 DEF LostArguments
  <2>3. QED
    BY <2>1, <2>2 DEF ReplayInvariant, Followed
<1>2. Kept /\ ReplayInvariant /\ [Next]_vars => ReplayInvariant'
  <2>1. ASSUME Kept, ReplayInvariant, Next PROVE ReplayInvariant'
    <3>1. ASSUME ~attempt'.unsafe PROVE Followed(case', attempt')
      BY <2>1, <3>1, FollowedStep
    <3>2. /\ phase' = "running" => EpisodeOpens(case')
          /\ phase' = "ended" => (attempt'.terminal = "episode_open_failure" <=> ~EpisodeOpens(case'))
      BY <2>1, OpeningStep
    <3>3. QED
      BY <3>1, <3>2, Zenon DEF ReplayInvariant
  <2>2. ASSUME ReplayInvariant, UNCHANGED vars PROVE ReplayInvariant'
    BY <2>2, Zenon DEF vars, ReplayInvariant
  <2>3. QED
    BY <2>1, <2>2
<1>3. Spec => []Kept
  BY ExplainedInvariant
<1>4. QED
  BY <1>1, <1>2, <1>3, PTL DEF Spec

(* What replaying an Episode that stands for itself finds.                      *)
LEMMA ReproducedIsAligned ==
  ASSUME KeysAreTheDomains, case \in Case, IsAttempt(attempt), Reproduced(case, attempt), EpisodeOpens(case)
  PROVE  ReplayStatus = "aligned"
<1>1. PICK done : ReplaysTo(case, attempt.events, Standing(done, attempt))
  BY DEF Reproduced
<1> DEFINE replayed == Standing(done, attempt)
           saved == Verification
           Over(acc) == IF acc.awaited THEN Compared(acc, TRUE) ELSE acc
<1>2. SavedEvents = attempt.events
  <2>1. SavedEvents = [i \in DOMAIN attempt.events |-> attempt.events[i]]
    BY DEF Reproduced, SavedEvents
  <2>2. attempt.events = [i \in DOMAIN attempt.events |-> attempt.events[i]]
    <3>1. PICK S : attempt.events \in Seq(S)
      BY DEF IsAttempt, IsSequence
    <3>2. QED
      BY <3>1
  <2>3. QED
    BY <2>1, <2>2
<1>3. ReplayTrace(case, SavedEvents) = replayed
  BY <1>1, <1>2, ReplayTraceEnds
<1>4. /\ replayed.awaited = FALSE /\ replayed.trace = attempt.events /\ replayed.drift = FALSE
      /\ replayed.authorization = attempt.authorization
  BY DEF Standing
<1> HIDE DEF replayed
<1>5. Over(replayed) = replayed
  BY <1>4
<1>6. ReplayAssessment(case, replayed, saved) = saved
  <2> DEFINE assessed == AssessEvents(case, attempt.events, attempt.authorization)
  <2>1. CASE attempt.terminal # None
    <3>1. saved = Incomplete(attempt.terminal)
      BY <2>1 DEF Verification, AssessEpisode
    <3> HIDE DEF saved
    <3>2. saved.key = "incomplete" /\ saved.reasons[1] = attempt.terminal
      BY <3>1 DEF Incomplete
    <3>3. QED
      BY <3>1, <3>2 DEF ReplayAssessment
  <2>2. CASE attempt.terminal = None /\ assessed = None
    <3>1. saved = Incomplete("domain_assessment_failure")
      BY <2>2 DEF Verification, AssessEpisode
    <3> HIDE DEF saved
    <3>2. saved.key = "incomplete" /\ saved.reasons[1] = "domain_assessment_failure"
      BY <3>1 DEF Incomplete
    <3>3. QED
      BY <3>1, <3>2 DEF ReplayAssessment
  <2>3. CASE attempt.terminal = None /\ assessed # None
    <3>1. saved = assessed
      BY <2>3 DEF Verification, AssessEpisode
    <3>2. saved.key # "incomplete"
      BY <2>3, <3>1 DEF KeysAreTheDomains
    <3>3. AssessEpisode(case, replayed.trace, replayed.authorization, None) = assessed
      BY <1>4, <2>3 DEF AssessEpisode
    <3> HIDE DEF saved, assessed
    <3>4. QED
      BY <3>1, <3>2, <3>3 DEF ReplayAssessment
  <2>4. QED
    BY <2>1, <2>2, <2>3
<1>7. Drift(case, replayed, saved) = "aligned"
  BY <1>4, <1>6 DEF Drift
<1>8. ReplayStatus =
          CHOOSE status \in {Drift(case, Over(r), v) : r \in {ReplayTrace(case, SavedEvents)},
                                                      v \in {Verification}} : TRUE
  BY DEF ReplayStatus
<1> HIDE DEF Over, saved
<1>9. \A status \in {Drift(case, Over(r), v) : r \in {ReplayTrace(case, SavedEvents)},
                                              v \in {Verification}} : status = "aligned"
  BY <1>3, <1>5, <1>7 DEF saved
<1>10. \E status \in {Drift(case, Over(r), v) : r \in {ReplayTrace(case, SavedEvents)},
                                               v \in {Verification}} : TRUE
  OBVIOUS
<1>11. QED
  BY <1>8, <1>9, <1>10

(* And one that drifted: the observations drift, whatever the assessment says.  *)
LEMMA DriftedIsSeen ==
  ASSUME Drifted(case, attempt), IsAttempt(attempt), EpisodeOpens(case)
  PROVE  ReplayStatus \in {"observation_drift", "observation_and_assessment_drift"}
<1>1. PICK done, trace, authorization :
          ReplaysTo(case, attempt.events, [done |-> done, awaited |-> FALSE, trace |-> trace,
                                           authorization |-> authorization, drift |-> TRUE])
  BY DEF Drifted
<1> DEFINE replayed == [done |-> done, awaited |-> FALSE, trace |-> trace,
                        authorization |-> authorization, drift |-> TRUE]
           Over(acc) == IF acc.awaited THEN Compared(acc, TRUE) ELSE acc
           Drifts == {"observation_drift", "observation_and_assessment_drift"}
<1>2. SavedEvents = attempt.events
  <2>1. SavedEvents = [i \in DOMAIN attempt.events |-> attempt.events[i]]
    BY DEF Drifted, SavedEvents
  <2>2. attempt.events = [i \in DOMAIN attempt.events |-> attempt.events[i]]
    <3>1. PICK S : attempt.events \in Seq(S)
      BY DEF IsAttempt, IsSequence
    <3>2. QED
      BY <3>1
  <2>3. QED
    BY <2>1, <2>2
<1>3. ReplayTrace(case, SavedEvents) = replayed
  BY <1>1, <1>2, ReplayTraceEnds
<1>4. replayed.awaited = FALSE /\ replayed.drift = TRUE
  OBVIOUS
<1> HIDE DEF replayed
<1>5. Over(replayed) = replayed
  BY <1>4
<1>6. ASSUME NEW saved PROVE Drift(case, replayed, saved) \in Drifts
  <2>1. CASE ReplayAssessment(case, replayed, saved) # saved
    BY <1>4, <2>1 DEF Drift
  <2>2. CASE ReplayAssessment(case, replayed, saved) = saved
    BY <1>4, <2>2 DEF Drift
  <2>3. QED
    BY <2>1, <2>2
<1>7. ReplayStatus =
          CHOOSE status \in {Drift(case, Over(r), v) : r \in {ReplayTrace(case, SavedEvents)},
                                                      v \in {Verification}} : TRUE
  BY DEF ReplayStatus
<1> HIDE DEF Over, Drifts
<1>8. \A status \in {Drift(case, Over(r), v) : r \in {ReplayTrace(case, SavedEvents)},
                                              v \in {Verification}} : status \in Drifts
  BY <1>3, <1>5, <1>6
<1>9. \E status \in {Drift(case, Over(r), v) : r \in {ReplayTrace(case, SavedEvents)},
                                              v \in {Verification}} : TRUE
  OBVIOUS
<1>10. QED
  BY <1>7, <1>8, <1>9 DEF Drifts

(* Only an Episode that could not be opened has nothing to replay.              *)
LEMMA ReplayFails ==
  ReplayStatus = "replay_failed" <=> ~EpisodeOpens(case)
<1> DEFINE Over(acc) == IF acc.awaited THEN Compared(acc, TRUE) ELSE acc
           statuses == {Drift(case, Over(r), v) : r \in {ReplayTrace(case, SavedEvents)},
                                                  v \in {Verification}}
<1>1. \A acc, saved : Drift(case, acc, saved) # "replay_failed"
  BY DEF Drift
<1>2. EpisodeOpens(case) => ReplayStatus = CHOOSE status \in statuses : TRUE
  BY DEF ReplayStatus
<1> HIDE DEF Over
<1>3. (\E status \in statuses : TRUE) /\ \A status \in statuses : status # "replay_failed"
  BY <1>1
<1> HIDE DEF statuses
<1>4. EpisodeOpens(case) => ReplayStatus # "replay_failed"
  BY <1>2, <1>3
<1>5. ~EpisodeOpens(case) => ReplayStatus = "replay_failed"
  BY DEF ReplayStatus
<1>6. QED
  BY <1>4, <1>5

(* What a replay can tell, of every Agent and every Domain: an Episode that met *)
(* nothing to redact replays without drift if no call lost an argument on its   *)
(* way to the action event, and with drift if one did (engine.py:671-722, 2301, *)
(* 2882-3010). It asks of a Domain that it keeps its contract and does not use  *)
(* the engine's own words, "incomplete" and "invalid_tool_arguments".           *)
THEOREM EpisodesReplay ==
  DomainContract /\ KeysAreTheDomains /\ FailuresAreTheDomains /\ CallsAreRecords
  => (Spec => []ReplayReproduces)
<1> SUFFICES ASSUME DomainContract, KeysAreTheDomains, FailuresAreTheDomains, CallsAreRecords
             PROVE  Spec => []ReplayReproduces
  OBVIOUS
<1>1. LoopInvariant /\ ReplayInvariant => ReplayReproduces
  <2> SUFFICES ASSUME LoopInvariant, ReplayInvariant, phase = "ended"
               PROVE  ReplayReproduces
    BY DEF ReplayReproduces
  <2>1. /\ attempt.terminal = "episode_open_failure" <=> ~EpisodeOpens(case)
        /\ case \in Case /\ IsAttempt(attempt)
    BY DEF ReplayInvariant, LoopInvariant
  <2>2. ReplayStatus = "replay_failed" <=> ~EpisodeOpens(case)
    BY ReplayFails
  <2>3. ASSUME ~attempt.unsafe, EpisodeOpens(case)
        PROVE  IF LostArguments(case, attempt.events) = {} THEN ReplayStatus = "aligned"
               ELSE ReplayStatus \in {"observation_drift", "observation_and_assessment_drift"}
    <3>1. Followed(case, attempt)
      BY <2>3 DEF ReplayInvariant
    <3>2. CASE LostArguments(case, attempt.events) = {}
      BY <2>1, <2>3, <3>1, <3>2, ReproducedIsAligned DEF Followed
    <3>3. CASE LostArguments(case, attempt.events) # {}
      BY <2>1, <2>3, <3>1, <3>3, DriftedIsSeen DEF Followed
    <3>4. QED
      BY <3>2, <3>3
  <2>4. QED
    BY <2>1, <2>2, <2>3 DEF ReplayReproduces
<1>2. (Spec => [](LoopInvariant /\ Explained(case, attempt))) /\ (Spec => []ReplayInvariant)
  BY ExplainedInvariant, ReplayInvariantAlways
<1>3. QED
  BY <1>1, <1>2, PTL

(* Of demonstrations, which are clean: each replays aligned if and only if no   *)
(* call on the way to it was refused for an argument its event has lost.        *)
THEOREM DemonstrationsReplay ==
  DomainContract /\ KeysAreTheDomains /\ FailuresAreTheDomains /\ CallsAreRecords
  => (Spec => [](Admitted => (ReplayStatus = "aligned" <=> LostArguments(case, attempt.events) = {})))
<1> SUFFICES ASSUME DomainContract, KeysAreTheDomains, FailuresAreTheDomains, CallsAreRecords
             PROVE  Spec => [](Admitted => (ReplayStatus = "aligned" <=>
                                                LostArguments(case, attempt.events) = {}))
  OBVIOUS
<1>1. LoopInvariant /\ ReplayReproduces
      => (Admitted => (ReplayStatus = "aligned" <=> LostArguments(case, attempt.events) = {}))
  <2> SUFFICES ASSUME LoopInvariant, ReplayReproduces, Admitted
               PROVE  ReplayStatus = "aligned" <=> LostArguments(case, attempt.events) = {}
    OBVIOUS
  <2>1. phase = "ended" /\ attempt.terminal = None /\ ~attempt.unsafe
    BY PassedGates DEF Admitted
  <2>2. attempt.terminal # "episode_open_failure"
    BY <2>1, SanitizerAssumption
  <2>3. QED
    BY <2>1, <2>2 DEF ReplayReproduces
<1>2. (Spec => [](LoopInvariant /\ Explained(case, attempt))) /\ (Spec => []ReplayReproduces)
  BY ExplainedInvariant, EpisodesReplay
<1>3. QED
  BY <1>1, <1>2, PTL
================================================================================
