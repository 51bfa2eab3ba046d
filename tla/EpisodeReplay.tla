------------------------------ MODULE EpisodeReplay ------------------------------
(* Replay of a saved Episode on the frozen state: engine._replay_episode with   *)
(* _replay_trace and _replay_assessment. It calls no model, so it is a function *)
(* of what the run saved.                                                       *)
EXTENDS AgentEpisode

SavedEvents == [i \in DOMAIN attempt.events |-> Saved(attempt.events[i])]

(* What a replay keeps. done is the result of the last action, the session      *)
(* it left included; while it is awaited, _replay_trace compares it with the    *)
(* next saved event and skips that.                                             *)
ReplayStart(c) ==
    [done |-> [session |-> EpisodeStart(c), event |-> None, authorization |-> "not_applicable"],
     awaited |-> FALSE, trace |-> <<>>, authorization |-> "not_applicable", drift |-> FALSE]

Call(event) == [type |-> "tool_call", tool |-> event.tool, args |-> event.args]
Compared(acc, drifts) ==
    [acc EXCEPT !.trace = Append(@, acc.done.event), !.awaited = FALSE,
                !.authorization = Authorized(@, acc.done.authorization), !.drift = @ \/ drifts]

FaultyReplayEvent(c, acc, event) ==
    IF event.type # "action" THEN [acc EXCEPT !.trace = Append(@, event)]
    ELSE [acc EXCEPT !.trace = Append(@, event), !.awaited = TRUE,
                     !.done = ExecuteToolDecision(c, acc.done.session, Call(event))]
ReplayEvent(c, acc, event) ==
    IF acc.awaited THEN Compared(acc, event # acc.done.event)
    ELSE IF event.type # "action" THEN [acc EXCEPT !.trace = Append(@, event)]
    ELSE [acc EXCEPT !.trace = Append(@, event), !.awaited = TRUE,
                     !.done = ExecuteToolDecision(c, acc.done.session, Call(event))]
ReplayTrace(c, events) ==
    LET replayed[n \in 0 .. Len(events)] ==
            IF n = 0 THEN ReplayStart(c) ELSE ReplayEvent(c, replayed[n - 1], events[n])
    IN  replayed[Len(events)]

ReplayAssessment(c, replayed, saved) ==
    IF saved.key = "incomplete" THEN Incomplete(saved.reasons[1])
    ELSE AssessEpisode(c, replayed.trace, replayed.authorization, None)

Drift(c, replayed, saved) ==
    LET observation == replayed.drift \/ replayed.authorization # attempt.authorization
        assessment == ReplayAssessment(c, replayed, saved) # saved
    IN  CASE observation /\ assessment -> "observation_and_assessment_drift"
          [] observation /\ ~assessment -> "observation_drift"
          [] ~observation /\ assessment -> "assessment_drift"
          [] OTHER -> "aligned"

(* The status of one Episode with a task case. An action that is the last event *)
(* is one whose result was not saved.                                           *)
ReplayStatus ==
    LET Finished(acc) == IF acc.awaited THEN Compared(acc, TRUE) ELSE acc
    IN  IF ~EpisodeOpens(case) THEN "replay_failed"
        ELSE CHOOSE status \in {Drift(case, Finished(replayed), saved) :
                                    replayed \in {ReplayTrace(case, SavedEvents)},
                                    saved \in {Verification}} : TRUE

(* What replay can tell of an Episode that met nothing to redact: it finds no   *)
(* drift if no call lost an argument on the way to its action event; and if one *)
(* did, it executes what the Episode refused and always finds that it drifts    *)
(* (engine.py:671-722, 2301; episode.py:437). Where something was redacted,     *)
(* what was executed is not saved and nothing is promised. An Episode has       *)
(* nothing to replay exactly if it could not be opened.                         *)
ReplayReproduces ==
    phase = "ended" =>
        LET status == ReplayStatus
        IN  /\ status = "replay_failed" <=> attempt.terminal = "episode_open_failure"
            /\ ~attempt.unsafe /\ attempt.terminal # "episode_open_failure" =>
                   IF LostArguments(case, attempt.events) = {} THEN status = "aligned"
                   ELSE status \in {"observation_drift", "observation_and_assessment_drift"}
=================================================================================
