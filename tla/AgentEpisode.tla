------------------------------ MODULE AgentEpisode ------------------------------
(* One Agent executing one compiled task: engine._run_agent_episode with the    *)
(* tool calls it makes, the assessment of what happened, the admission gates    *)
(* and the sanitizer of episode.py that every public event passes. The Domain   *)
(* is a parameter; Contacts, MobileMessages and WorkspaceTasks provide it.      *)
(*                                                                              *)
(* A text is a string, a payload a record of texts; the fields in Listing hold  *)
(* a set of texts. A final response is the set of texts it mentions.            *)
EXTENDS DomainCommon

CONSTANTS
    Case,            \* the compiled tasks an Episode may be opened for
    EpisodeOpens(_), \* whether open_episode accepts the case
    EpisodeStart(_), \* the Domain session of a case, rebuilt from the frozen state
    EpisodeTexts(_), \* the texts its public task mentions
    EpisodeTools(_), \* the tools its public task declares: name -> [input, required, output]
    ExecuteTool(_, _, _),  \* execute_tool_call: case, session, call -> [session, result]
    AssessEvents(_, _, _), \* assess: case, events, authorization -> assessment, None if it raises
    Decision(_, _),  \* what an Agent may answer to a case and a history
    Unsafe,          \* the texts _forbidden_text matches
    ForbiddenKey,    \* the field names _forbidden_key matches
    Listing,         \* the fields that hold a set of texts
    StepLimit, RepairLimit,
    HashLimit,       \* max_length of RoleLineage.response_hashes
    MaxRestarts,     \* bound of the model: attempts of one sequence cut short
    Faults(_)        \* which failures of the Agent's calls happen in a case

ASSUME EpisodeAssumption ==
    /\ StepLimit \in 1 .. 64 /\ RepairLimit \in 0 .. 1
    /\ HashLimit \in Nat /\ HashLimit >= StepLimit + RepairLimit /\ MaxRestarts \in Nat
    /\ \A c \in Case : Faults(c) \subseteq {"malformed", "failed", "interrupted"}

VARIABLES
    case,            \* the compiled task
    phase,           \* ready | running | ended | raised
    attempt,         \* the local state of _run_agent_episode
    hashes,          \* response hashes the ledger holds for this sequence
    restarts

vars == <<case, phase, attempt, hashes, restarts>>

--------------------------------------------------------------------------------
(* The sanitizer. *)
Redacted == "[redacted]"
NotText == "(not a string)"    \* an argument of another JSON type

(* A redacted text is not redacted again, nor is what is not there, which is no *)
(* reason to end an Episode or to refuse it; and no tool of a Domain is named   *)
(* by a text that would be redacted.                                            *)
ASSUME SanitizerAssumption ==
    /\ Redacted \notin Unsafe /\ None \notin Unsafe
    /\ None \notin {"episode_open_failure", "malformed_agent_decision", "agent_request_failed",
                    "step_budget_exhausted", "unauthorized_mutation", "unsafe_public_material",
                    "final_response_grounding_missing", "domain_assessment_failure",
                    "deterministic_assessment_failed"}
    /\ \A c \in Case : DOMAIN EpisodeTools(c) \cap Unsafe = {}

Clean(text) == IF text \in Unsafe THEN Redacted ELSE text
CleanValue(field, value) ==
    IF field \in Listing THEN {Clean(text) : text \in value} ELSE Clean(value)

(* _sanitize_value and _limit_event_payloads on one payload. *)
Bounded(payload, fields) ==
    [f \in (DOMAIN payload \cap fields) \ ForbiddenKey |-> CleanValue(f, payload[f])]

Mentions(payload) ==
    UNION {IF f \in Listing THEN payload[f] ELSE {payload[f]} : f \in DOMAIN payload}
UnsafePayload(payload) ==
    DOMAIN payload \cap ForbiddenKey # {} \/ Mentions(payload) \cap Unsafe # {}

CleanContent(content) == IF content \cap Unsafe = {} THEN content ELSE {Redacted}

InputFields(declared, tool) ==
    IF tool \in DOMAIN declared THEN declared[tool].input ELSE {}
OutputFields(declared, tool) ==
    IF tool \in DOMAIN declared THEN declared[tool].output ELSE {}

ActionEvent(c, call) ==
    [type |-> "action", tool |-> Clean(call.tool),
     args |-> Bounded(call.args, InputFields(EpisodeTools(c), call.tool))]
ErrorEvent(code) == [type |-> "error", tool |-> None, code |-> code]
ToolError(tool, code) == [type |-> "error", tool |-> tool, code |-> code]

(* What an Episode keeps of an event once sanitized_episode_record wrote it: an *)
(* error names the tool the Agent asked for, which nothing cleaned before.      *)
Saved(event) ==
    IF event.type = "error" /\ event.tool # None
    THEN [event EXCEPT !.tool = Clean(@)] ELSE event

--------------------------------------------------------------------------------
(* One tool call: _execute_tool_decision. *)
ValidArguments(tool, args) ==
    /\ tool.required \subseteq DOMAIN args
    /\ DOMAIN args \subseteq tool.input
    /\ \A f \in DOMAIN args : args[f] # NotText

(* The event, the authorization it establishes, whether it was unsafe, and the  *)
(* session afterwards.                                                          *)
Refused(session, call, code) ==
    [event |-> ToolError(call.tool, code), authorization |-> "not_applicable",
     unsafe |-> UnsafePayload(call.args) \/ call.tool \in Unsafe, session |-> session]

Answered(c, call, session, result) ==
    LET output == OutputFields(EpisodeTools(c), call.tool)
        payload == [type |-> result.type, tool |-> call.tool,
                    payload |-> Bounded(result.payload, output)]
    IN  CASE result.type = "observation" ->
               [event |-> payload, authorization |-> "not_applicable",
                unsafe |-> UnsafePayload(result.payload), session |-> session]
          [] result.type = "state_change" ->
               [event |-> payload, authorization |-> "authorized",
                unsafe |-> UnsafePayload(result.payload), session |-> session]
          [] result.type = "unauthorized_mutation" ->
               [event |-> ToolError(call.tool, result.code), authorization |-> "rejected",
                unsafe |-> FALSE, session |-> session]
          [] result.type = "tool_failure" ->
               [event |-> ToolError(call.tool, result.code), authorization |-> "not_applicable",
                unsafe |-> FALSE, session |-> session]
          [] result.type = "raises" -> Refused(session, call, "tool_failure")

ExecuteToolDecision(c, session, call) ==
    IF call.tool \notin DOMAIN EpisodeTools(c) THEN Refused(session, call, "unknown_tool")
    ELSE IF ~ValidArguments(EpisodeTools(c)[call.tool], call.args)
    THEN Refused(session, call, "invalid_tool_arguments")
    ELSE LET done == ExecuteTool(c, session, call) IN Answered(c, call, done.session, done.result)

Authorized(before, result) == IF result = "not_applicable" THEN before ELSE result

--------------------------------------------------------------------------------
(* What an Episode that ended is worth. *)
Incomplete(reason) == [reasons |-> <<reason>>, grounded |-> FALSE, key |-> "incomplete"]

AssessEpisode(c, events, authorization, terminal) ==
    LET assessed == AssessEvents(c, events, authorization)
    IN  IF terminal # None THEN Incomplete(terminal)
        ELSE IF assessed = None THEN Incomplete("domain_assessment_failure")
        ELSE assessed

Verification ==
    AssessEpisode(case, attempt.events, attempt.authorization, attempt.terminal)

FaultyGates(a, verification) ==
    [execution |-> a.terminal = None,
     mutation_authorization |-> a.authorization # "rejected",
     assessment |-> verification.reasons = <<>>,
     final_grounding |-> verification.grounded,
     unsafe_material |-> TRUE]
(* semantic_key is always TRUE for an Episode that was executed. *)
Gates(a, verification) ==
    [execution |-> a.terminal = None,
     mutation_authorization |-> a.authorization # "rejected",
     assessment |-> verification.reasons = <<>>,
     final_grounding |-> verification.grounded,
     unsafe_material |-> ~a.unsafe]

Passed(gates) == \A gate \in DOMAIN gates : gates[gate]
Admitted == phase = "ended" /\ Passed(Gates(attempt, Verification))

ReasonCode(a, verification) ==
    LET gates == Gates(a, verification)
    IN  IF a.terminal # None THEN a.terminal
        ELSE IF Passed(gates) THEN None
        ELSE IF ~gates.unsafe_material THEN "unsafe_public_material"
        ELSE IF ~gates.mutation_authorization THEN "unauthorized_mutation"
        ELSE IF ~gates.final_grounding THEN "final_response_grounding_missing"
        ELSE IF verification.reasons # <<>> THEN verification.reasons[1]
        ELSE "deterministic_assessment_failed"

--------------------------------------------------------------------------------
NewAttempt(c) ==
    [session |-> EpisodeStart(c), events |-> <<>>, authorization |-> "not_applicable",
     steps |-> 0, repairs |-> 0, terminal |-> None,
     unsafe |-> EpisodeTexts(c) \cap Unsafe # {}]

Record(a, event) == [a EXCEPT !.events = Append(@, event)]
Fail(a, code) == [Record(a, ErrorEvent(code)) EXCEPT !.terminal = code]

(* The loop is left: the Episode is built, and its lineage with it. *)
Conclude(a) ==
    /\ attempt' = a
    /\ phase' = IF hashes' <= HashLimit THEN "ended" ELSE "raised"

(* The loop is entered again unless the step budget is spent. *)
Continue(a) ==
    IF a.steps = StepLimit THEN Conclude(Fail(a, "step_budget_exhausted"))
    ELSE attempt' = a /\ phase' = "running"

FaultyOpenEpisode ==
    /\ phase = "ready" /\ EpisodeOpens(case)
    /\ attempt' = NewAttempt(case) /\ phase' = "running"
    /\ UNCHANGED <<case, hashes, restarts>>
OpenEpisode ==
    /\ phase = "ready"
    /\ IF EpisodeOpens(case)
       THEN attempt' = NewAttempt(case) /\ phase' = "running" /\ UNCHANGED hashes
       ELSE UNCHANGED hashes /\ Conclude(Fail(NewAttempt(case), "episode_open_failure"))
    /\ UNCHANGED <<case, restarts>>

(* The Agent answers with something that is no decision. *)
MalformedDecision ==
    /\ phase = "running" /\ "malformed" \in Faults(case)
    /\ hashes' = hashes + 1
    /\ LET a == Record(attempt, ErrorEvent("malformed_agent_decision"))
       IN  IF attempt.repairs >= RepairLimit
           THEN Conclude([a EXCEPT !.terminal = "malformed_agent_decision"])
           ELSE attempt' = [a EXCEPT !.repairs = @ + 1] /\ phase' = "running"
    /\ UNCHANGED <<case, restarts>>

(* The call fails for good; a response that arrived has its hash recorded. *)
CallFails ==
    /\ phase = "running" /\ "failed" \in Faults(case)
    /\ hashes' \in {hashes, hashes + 1}
    /\ Conclude(Fail(attempt, "agent_request_failed"))
    /\ UNCHANGED <<case, restarts>>

FinalResponse(decision) ==
    /\ decision.type = "final_response"
    /\ hashes' = hashes + 1
    /\ Conclude([Record(attempt, [type |-> "final_response",
                                  content |-> CleanContent(decision.content)])
                   EXCEPT !.steps = @ + 1,
                          !.unsafe = @ \/ decision.content \cap Unsafe # {}])
    /\ UNCHANGED <<case, restarts>>

ToolCall(decision) ==
    /\ decision.type = "tool_call"
    /\ hashes' = hashes + 1
    /\ LET done == ExecuteToolDecision(case, attempt.session, decision)
           a == [Record(Record(attempt, ActionEvent(case, decision)), done.event)
                   EXCEPT !.steps = @ + 1, !.session = done.session,
                          !.authorization = Authorized(@, done.authorization),
                          !.unsafe = \/ @ \/ done.unsafe
                                     \/ UnsafePayload(decision.args) \/ decision.tool \in Unsafe]
       IN  IF done.authorization = "rejected"
           THEN Conclude([a EXCEPT !.terminal = "unauthorized_mutation"])
           ELSE Continue(a)
    /\ UNCHANGED <<case, restarts>>

Decides ==
    /\ phase = "running"
    /\ \E decision \in Decision(case, attempt.events) :
           FinalResponse(decision) \/ ToolCall(decision)

(* Cancelled, out of budget or killed, or the worker raised: nothing of the     *)
(* attempt is kept but its requests, and a resume starts from the frozen state. *)
FaultyInterrupted ==
    /\ phase \in {"running", "raised"} /\ "interrupted" \in Faults(case) /\ restarts < MaxRestarts
    /\ phase' = "running" /\ attempt' = [NewAttempt(case) EXCEPT !.session = attempt.session]
    /\ restarts' = restarts + 1
    /\ UNCHANGED <<case, hashes>>
Interrupted ==
    /\ phase \in {"running", "raised"} /\ "interrupted" \in Faults(case) /\ restarts < MaxRestarts
    /\ phase' = "ready" /\ attempt' = NewAttempt(case)
    /\ restarts' = restarts + 1
    /\ UNCHANGED <<case, hashes>>

Init ==
    /\ case \in Case
    /\ phase = "ready" /\ attempt = NewAttempt(case)
    /\ hashes = 0 /\ restarts = 0

Progress == OpenEpisode \/ MalformedDecision \/ CallFails \/ Decides
Next == Progress \/ Interrupted

Spec == Init /\ [][Next]_vars
(* A thread that runs goes on: nothing in the loop waits but for the Agent's    *)
(* call, which is bounded by its timeout.                                       *)
FairSpec == Spec /\ WF_vars(Progress)

--------------------------------------------------------------------------------
(* Properties. *)
Event(i) == attempt.events[i]
Events == DOMAIN attempt.events
Kinds(kind) == {i \in Events : Event(i).type = kind}

(* A call is valid only if every argument is declared, and its action event has *)
(* the declared ones only (engine.py:2301, 2369; episode.py:437): a call that   *)
(* was refused for one that is not leaves an action that reads like a valid     *)
(* one, beside the error that refused it.                                       *)
RefusedThoughValid(c, action, answer) ==
    /\ action.type = "action" /\ action.tool \in DOMAIN EpisodeTools(c)
    /\ ValidArguments(EpisodeTools(c)[action.tool], action.args)
    /\ answer.type = "error" /\ answer.code = "invalid_tool_arguments"
LostArguments(c, events) ==
    {i \in DOMAIN events : i + 1 \in DOMAIN events /\ RefusedThoughValid(c, events[i], events[i + 1])}

(* What the trace says of authorization is what its calls established, however  *)
(* many harmless calls came after (engine.py:2317-2322): authorized exactly     *)
(* when a change was made and none refused, rejected exactly when the Episode   *)
(* ended by a refused one.                                                      *)
AuthorizationMatchesHistory ==
    /\ attempt.authorization = "rejected" <=> attempt.terminal = "unauthorized_mutation"
    /\ attempt.authorization = "authorized" <=>
           Kinds("state_change") # {} /\ attempt.terminal # "unauthorized_mutation"

(* Nothing the sanitizer would redact is left in an event another request or    *)
(* the published Episode carries, undeclared fields included.                   *)
CleanEvent(c, e) ==
    CASE e.type = "action" ->
             ~UnsafePayload(e.args)
             /\ DOMAIN e.args \subseteq InputFields(EpisodeTools(c), e.tool)
      [] e.type \in {"observation", "state_change"} ->
             ~UnsafePayload(e.payload)
             /\ DOMAIN e.payload \subseteq OutputFields(EpisodeTools(c), e.tool)
      [] e.type = "final_response" -> e.content \cap Unsafe = {}
      [] OTHER -> e.tool \notin Unsafe
EventsAreClean == \A i \in Events : CleanEvent(case, Saved(Event(i)))

(* Redaction does not launder: an Episode that became a demonstration met no    *)
(* unsafe text anywhere on the way, so redacting it changed nothing, and it     *)
(* ends in the Agent's own final response.                                      *)
AdmittedWasClean ==
    Admitted => /\ \A i \in Kinds("action") : Redacted \notin Mentions(Event(i).args)
                /\ \A i \in Kinds("observation") \cup Kinds("state_change") :
                       Redacted \notin Mentions(Event(i).payload)
                /\ EpisodeTexts(case) \cap Unsafe = {}
                /\ Kinds("final_response") = {Len(attempt.events)}
                /\ Redacted \notin Event(Len(attempt.events)).content

(* Every negative says why, with the first gate it failed; no demonstration     *)
(* does (engine.py:2702-2714).                                                  *)
NegativesHaveAReason ==
    phase = "ended" => (ReasonCode(attempt, Verification) = None <=> Admitted)

(* The world of an Episode is the frozen one until a call whose event says so   *)
(* changes it: what an interrupted attempt did is gone when the next one starts *)
(* (engine.py:2195-2236).                                                       *)
ChangesAreRecorded ==
    Kinds("state_change") = {} => attempt.session.world = EpisodeStart(case).world

(* The world and the authorization of an Episode are what its calls made of     *)
(* them: frozen until a recorded change and again after an interruption;        *)
(* authorized exactly when a change was made and none refused, however many     *)
(* harmless calls came after (engine.py:2195-2236, 2317-2322).                  *)
HistoryExplainsState == ChangesAreRecorded /\ AuthorizationMatchesHistory

(* Nothing an event says needs redacting, redaction never launders an Episode   *)
(* into a demonstration, and a negative names the first gate it failed          *)
(* (episode.py:405-505, engine.py:2660-2714).                                   *)
VerdictsAreEarned == EventsAreClean /\ AdmittedWasClean /\ NegativesHaveAReason

(* Every Episode concludes, whatever the Agent answers. Only one that was cut   *)
(* short before may raise in the end: it can have more charged responses than   *)
(* its lineage holds (engine.py:2821-2842).                                     *)
Concludes == <>(phase = "ended" \/ (phase = "raised" /\ restarts > 0))
=================================================================================
