------------------------------ MODULE MCAgentEpisode ------------------------------
(* A Domain without any rule of its own: a call names the answer it gets, so   *)
(* that every path of the rollout, the gates and the replay is taken. A case is *)
(* a record [domain, opens, text, raises].                                      *)
EXTENDS Integers, Sequences, FiniteSets, TLC

CONSTANTS None, NotText

MCCase ==
    {[domain |-> "any", opens |-> TRUE, text |-> "task", raises |-> FALSE],
     [domain |-> "any", opens |-> TRUE, text |-> "task", raises |-> TRUE],
     [domain |-> "any", opens |-> FALSE, text |-> "task", raises |-> FALSE],
     [domain |-> "any", opens |-> TRUE, text |-> "secret", raises |-> FALSE]}
MCUnsafe == {"secret"}
MCForbiddenKey == {"reasoning"}
MCListing == {"list"}
MCFaults == {"malformed", "failed", "interrupted"}
MCOpens(c) == c.opens
MCFresh(c) == [world |-> 0]
MCTaskTexts(c) == {c.text}
MCTools(c) ==
    [name \in {"read", "write"} |->
        [input |-> {"value"}, required |-> {"value"}, output |-> {"value", "list"}]]

(* The world counts the changes; value says what becomes of the call. *)
MCExecute(c, session, call) ==
    LET changed == [session EXCEPT !.world = @ + 1]
        Same(result) == [session |-> session, result |-> result]
    IN  CASE call.args.value = "refuse" ->
                 Same([type |-> "unauthorized_mutation", code |-> "mutation_not_authorized"])
          [] call.args.value = "fail" -> Same([type |-> "tool_failure", code |-> "not_found"])
          [] call.args.value = "raise" -> Same([type |-> "raises"])
          [] call.tool = "write" /\ call.args.value = "ok" ->
                 [session |-> changed,
                  result |-> [type |-> "state_change", payload |-> [value |-> "ok", other |-> "x"]]]
          [] call.args.value \in {"leak", "secret"} ->
                 Same([type |-> "observation", payload |-> [list |-> {"secret", "ok"}]])
          [] OTHER -> Same([type |-> "observation",
                            payload |-> [value |-> ToString(session.world), reasoning |-> "x"]])

(* The task asks for exactly one change and a final answer naming it. *)
MCAssess(c, events, authorization) ==
    LET changes == {i \in DOMAIN events : events[i].type = "state_change"}
        final == events[Len(events)]
        grounded == final.type = "final_response" /\ "ok" \in final.content
    IN  IF c.raises THEN None
        ELSE [reasons |-> IF Cardinality(changes) # 1 THEN <<"unintended_state_change">>
                          ELSE IF ~grounded THEN <<"final_response_not_grounded">> ELSE <<>>,
              grounded |-> grounded, key |-> "toy"]

Call(tool, args) == [type |-> "tool_call", tool |-> tool, args |-> args]
(* An argument that no tool declares is one of them. *)
MCCalls ==
    {Call(tool, [value |-> v]) : tool \in {"read"}, v \in {"ok", "fail", "leak", "secret", NotText}}
        \cup {Call("write", [value |-> v]) : v \in {"ok", "refuse", "raise"}}
        \cup {Call(tool, [value |-> v, limit |-> "1"]) : tool \in {"read", "write"}, v \in {"ok"}}
        \cup {Call("read", [value |-> NotText, limit |-> "1"])}
        \cup {Call("secret", <<>>), Call("read", <<>>)}
MCFinal == {[type |-> "final_response", content |-> s] : s \in {{"ok"}, {}, {"ok", "secret"}}}
(* Any call while the trace is short, then a few that keep it going. What a task *)
(* says and an assessment that raises do not depend on more than one call.       *)
MCDecision(c, events) ==
    IF Cardinality({i \in DOMAIN events : events[i].type = "action"})
           < (IF c.raises \/ c.text \in MCUnsafe THEN 1 ELSE 2)
    THEN MCCalls \cup MCFinal
    ELSE {Call("read", [value |-> "ok"]), Call("write", [value |-> "ok"]),
          [type |-> "final_response", content |-> {"ok"}]}
====================================================================================
