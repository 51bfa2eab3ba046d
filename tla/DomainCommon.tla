------------------------------- MODULE DomainCommon ------------------------------
(* What contacts.py, mobile_messages.py and workspace_tasks.py each write out    *)
(* for themselves in the same way: the kinds of task, the results of compiling  *)
(* and of a tool call, and what an assessment looks for in the events.          *)
EXTENDS Integers, Sequences, FiniteSets, SequencesExt, TLC

CONSTANT None

Observations(events, tool) ==
    {i \in DOMAIN events : events[i].type = "observation" /\ events[i].tool = tool}
Observed(events, tool, payload) ==
    {i \in Observations(events, tool) : events[i].payload = payload}
ActionsOf(events, tool, args) ==
    {i \in DOMAIN events :
        events[i].type = "action" /\ events[i].tool = tool /\ events[i].args = args}
FailuresOf(events, tool, code) ==
    {i \in DOMAIN events :
        events[i].type = "error" /\ events[i].tool = tool /\ events[i].code = code}
ChangesIn(events) == {i \in DOMAIN events : events[i].type = "state_change"}

First(indexes) == CHOOSE i \in indexes : \A j \in indexes : i <= j

(* The one change of the requested tool, or NoChange when there is none or more *)
(* than one: changes[0] if len(changes) == 1.                                   *)
NoChange == [nothing |-> "changed"]
OnlyChange(events, tool) ==
    LET changes == {i \in ChangesIn(events) : events[i].tool = tool}
    IN  IF Cardinality(changes) = 1 THEN events[First(changes)].payload ELSE NoChange
OneChange(events, tool) ==
    /\ Cardinality(ChangesIn(events)) = 1
    /\ \A i \in ChangesIn(events) : events[i].tool = tool

(* The texts the last final response mentions. *)
FinalContent(events) ==
    UNION {events[i].content : i \in {j \in DOMAIN events : events[j].type = "final_response"}}

(* An EpisodeAssessment: checks is the sequence of <<reason, passed>>; the last *)
(* one is always final_response_grounded.                                       *)
Assessment(checks, key) ==
    LET failed == {i \in DOMAIN checks : ~checks[i][2]}
        Failed(n) == CHOOSE i \in failed : Cardinality({j \in failed : j <= i}) = n
    IN  [reasons |-> [n \in 1 .. Cardinality(failed) |-> checks[Failed(n)][1]],
         grounded |-> checks[Len(checks)][2], key |-> key]

(* A chain of early returns: the reason of the first condition that holds, or   *)
(* otherwise what comes after them.                                             *)
EarlyReturn(checks, otherwise) ==
    LET holds == {i \in DOMAIN checks : checks[i][1]}
    IN  IF holds = {} THEN otherwise ELSE checks[First(holds)][2]

(* Op of a value that is computed once, however often Op uses it.               *)
With(value, Op(_)) == CHOOSE result \in {Op(v) : v \in {value}} : TRUE

(* The elements that pass, in their order: (x for x in seq if Passes(x)).        *)
Those(seq, Passes(_)) ==
    FlattenSeq([i \in DOMAIN seq |-> IF Passes(seq[i]) THEN <<seq[i]>> ELSE <<>>])

(* A table with an entry written to it.                                         *)
Put(table, key, entry) ==
    [k \in DOMAIN table \cup {key} |-> IF k = key THEN entry ELSE table[k]]

(* The fields of both records.                                                  *)
Both(a, b) == [f \in DOMAIN a \cup DOMAIN b |-> IF f \in DOMAIN a THEN a[f] ELSE b[f]]

(* record.get(name) of the code, for a record whose fields vary.                *)
Get(record, name, missing) == IF name \in DOMAIN record THEN record[name] ELSE missing

--------------------------------------------------------------------------------
TaskSpec(kind, action, route, constraint) ==
    [kind |-> kind, action |-> action, route |-> route, constraint |-> constraint]

Rejection(reason) == [reason |-> reason, task |-> None]
Compiled(task) == [reason |-> None, task |-> task]

(* A tool with all its inputs required; a ToolExecutionResult with the session  *)
(* it leaves behind.                                                            *)
Tool(input, output) == [input |-> input, required |-> input, output |-> output]
Observation(payload) == [type |-> "observation", payload |-> payload]
StateChange(payload) == [type |-> "state_change", payload |-> payload]
Failure(code) == [type |-> "tool_failure", code |-> code]
Unauthorized(code) == [type |-> "unauthorized_mutation", code |-> code]
Answer(session, result) == [session |-> session, result |-> result]

(* The refusals every compiler makes of a proposal before it looks at its       *)
(* fields: [parses, negated, fields], where parses says whether it is a JSON    *)
(* object, text or another value, and negated whether its text denies.          *)
NotAnObject(proposal) ==
    <<<<proposal.parses = "text" /\ proposal.negated, "negated_action">>,
      <<proposal.parses = "text", "proposal_not_json">>,
      <<proposal.parses # "object", "proposal_not_object">>>>
=================================================================================
