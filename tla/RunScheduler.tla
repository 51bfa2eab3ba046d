------------------------------ MODULE RunScheduler ------------------------------
(***************************************************************************)
(* The scheduler of one run directory: _drive_run, _call_model, the        *)
(* control of _run_agent_episode, resume and _finalize_run of              *)
(* src/agent_synthesis/engine.py, over the tables of PrivateLedger.        *)
(*                                                                         *)
(* One main thread generates, compiles, dispatches, collects and commits;  *)
(* a ThreadPoolExecutor runs one Agent episode per future.  The threads    *)
(* share the ledger, where every method is one transaction, and the        *)
(* cancellation flag.  The process may be killed between any two steps and *)
(* be resumed: what is not in the ledger is then lost.                     *)
(*                                                                         *)
(* `pc` is the place of the main thread.  A step runs from one point where *)
(* another thread, the operator or a kill can make a difference (a ledger  *)
(* transaction, a read of the cancellation flag, the provider) to the      *)
(* next, and performs at most one ledger transaction.  Where a request is  *)
(* charged, a request leaves or a future is submitted, the flag is read in *)
(* a step of its own and a cancel can come before the use.  The other      *)
(* reads of the flag share a step with a claim, which is given back, or    *)
(* with the start of a commit or a batch, which reads it again.            *)
(***************************************************************************)
EXTENDS PrivateLedger

CONSTANTS
    SlotCount,          \* slots the Domain emits, at most slot_limit
    AcceptedTarget,     \* configuration.accepted_target, or None
    BatchSize,          \* configuration.generation_batch_size
    MaxConcurrency,     \* configuration.max_concurrency
    ProbeSize,          \* compiled items one dispatch looks at
    RetryLimit,         \* configuration.transport_retry_limit
    CallLimit,          \* logical calls of an Episode: step_limit + decision_repair_limit
    JudgeMode,          \* no judge model, shadow judgments, or enforced admission
    Faults,             \* which of a kill, an operator cancel, a raising worker occur
    MaxInvocations      \* bound of the model: run() and its resumes

(* ProbeSize is max(16 * max_concurrency, 64) and generation_batch_size is   *)
(* at most 64 (configuration.py), so a probe always covers a batch.          *)
ASSUME SchedulerAssumption ==
    /\ SlotCount \in 0 .. SlotLimit
    /\ AcceptedTarget \in (1 .. SlotLimit) \cup {None}
    /\ None \notin 1 .. SlotLimit
    /\ BatchSize \in Nat \ {0}
    /\ MaxConcurrency \in Nat \ {0}
    /\ ProbeSize \in Nat /\ ProbeSize >= BatchSize
    /\ RetryLimit \in Nat
    /\ CallLimit \in Nat \ {0}
    /\ JudgeMode \in {"off", "shadow", "enforced"}
    /\ Faults \subseteq {"kill", "cancel", "raise"}
    /\ MaxInvocations \in Nat
    /\ {"pass", "unavailable"} \subseteq Verdict

(* owner_prefix is fresh in every process; the rest names the work. *)
ASSUME OwnerAssumption ==
    \A i \in 1 .. MaxInvocations, s \in Sequence, kind \in {"episode", "generation"} :
        <<i, kind, s>> \in Owner

VARIABLES
    runStatus,      \* run_status: the single row of status and reason
    invocation,     \* which process this is (its owner_prefix)
    pc,             \* where the main thread is
    cancelled,      \* the CancellationSignal of this process
    stopReason,     \* stop_reason
    accepted,       \* accepted_count
    admittedKeys,   \* admitted_semantic_keys
    activeKeys,     \* active_semantic_keys
    inFlight,       \* futures, by sequence
    probe,          \* compiled items the current dispatch has still to look at
    batch,          \* items of the current generation batch still to settle
    job,            \* arguments of the commit_terminal call in progress
    call            \* state of each thread's current _call_model

processVars == <<runStatus, invocation, cancelled>>
cacheVars == <<accepted, admittedKeys>>
futureVars == <<activeKeys, inFlight>>
todoVars == <<probe, batch>>
mainVars == <<processVars, pc, stopReason, cacheVars, futureVars, todoVars, job>>
vars == <<ledgerVars, mainVars, call>>

Main == 0
Thread == {Main} \cup Sequence

--------------------------------------------------------------------------------
(* Helpers *)

(* works from the other end *)
FaultyLeast(S) == CHOOSE s \in S : \A t \in S : s >= t

Least(S) == CHOOSE s \in S : \A t \in S : s <= t

(* ORDER BY sequence LIMIT n *)
First(n, S) == {s \in S : Cardinality({t \in S : t < s}) < n}

EpisodeOwner(s) == <<invocation, "episode", s>>
GenerationOwner == <<invocation, "generation", Least(batch)>>

TargetReached == AcceptedTarget # None /\ accepted >= AcceptedTarget

(* available_workers of dispatch_ready_work *)
Available ==
    LET free == MaxConcurrency - Cardinality(inFlight)
        wanted == AcceptedTarget - accepted - Cardinality(inFlight)
    IN  IF AcceptedTarget = None \/ free <= wanted THEN free ELSE wanted

IsDuplicate(s) == taskCase[s] \in admittedKeys

(* dispatches two tasks of one key at a time *)
FaultyIsActive(s) == FALSE
IsActive(s) == taskCase[s] \in activeKeys

(* never forgets an active key *)
FaultyKeysWithout(s) == activeKeys
KeysWithout(s) == activeKeys \ {taskCase[s]}

(* overlooks a future that ended without an Episode *)
FaultyFinished ==
    {s \in inFlight : call[s].at = "done" /\ call[s].result \in {"admitted", "rejected"}}
Finished == {s \in inFlight : call[s].at = "done"}

Unjudged == {s \in Sequence : outcome[s] # None /\ judgment[s] = None}

--------------------------------------------------------------------------------
(* _call_model: the thread's current logical call.  `attempt` counts the     *)
(* transport retries, `step` the logical calls of an Episode, `request` is   *)
(* the reservation of the current attempt.                                   *)

IdleCall == [at |-> "idle", step |-> 0, attempt |-> 0, request |-> 0, result |-> None]
NewCall(step) == [IdleCall EXCEPT !.at = "reserve", !.step = step]

Returns(c, result) ==
    call' = [call EXCEPT ![c].at = "returned", ![c].request = 0, ![c].result = result]

(* ignores the cancellation signal *)
FaultyStopped(heeds) == FALSE

(* heeds: the call was given the cancellation signal, and it is set *)
Stopped(heeds) == heeds /\ cancelled

(* The flag is read before the reservation and again before the dispatch. *)
CallGivesUp(c, role, heeds) ==
    /\ \/ /\ Stopped(heeds)
          /\ call[c].at \in {"reserve", "reserved"}
          /\ Returns(c, "operator_cancelled")
       \/ /\ call[c].at = "charging"
          /\ ~BudgetAvailable(role)
          /\ Returns(c, "provider_request_budget_exhausted")
    /\ UNCHANGED ledgerVars

(* What the flag did not stop goes ahead, whatever the operator does next. *)
CallProceeds(c, heeds) ==
    /\ ~Stopped(heeds)
    /\ call[c].at \in {"reserve", "reserved"}
    /\ call' = [call EXCEPT ![c].at = IF @ = "reserve" THEN "charging" ELSE "sending"]
    /\ UNCHANGED ledgerVars

CallReserves(c, role, about) ==
    /\ call[c].at = "charging"
    /\ ReserveProviderRequest(role, about)
    /\ call' = [call EXCEPT ![c].at = "reserved", ![c].request = Len(requests) + 1]

CallDispatches(c) ==
    /\ call[c].at = "sending"
    /\ call' = [call EXCEPT ![c].at = "sent"]
    /\ UNCHANGED ledgerVars

CallSucceeds(c) ==
    /\ call[c].at = "sent"
    /\ FinishProviderRequest(call[c].request, "completed")
    /\ Returns(c, "ok")

(* Only a retryable failure, and only RetryLimit times, is tried again. *)
MayRetry(c) == call[c].attempt < RetryLimit

CallFails(c) ==
    /\ call[c].at = "sent"
    /\ FinishProviderRequest(call[c].request, "failed")
    /\ \/ /\ MayRetry(c)
          /\ call' = [call EXCEPT ![c].at = "reserve", ![c].request = 0,
                                  ![c].attempt = @ + 1]
       \/ Returns(c, "failed")

CallStep(c, role, about, heeds) ==
    \/ CallGivesUp(c, role, heeds)
    \/ CallProceeds(c, heeds)
    \/ CallReserves(c, role, about)
    \/ CallDispatches(c)
    \/ CallSucceeds(c)
    \/ CallFails(c)

--------------------------------------------------------------------------------
(* _run_agent_episode, by the thread of a future: a bounded series of Agent  *)
(* calls that ends in an Episode that passes its gates, one that does not,   *)
(* or no Episode at all (partial_reason).                                    *)

EpisodeEnds(s, result) ==
    call' = [call EXCEPT ![s] = [IdleCall EXCEPT !.at = "done", !.result = result]]

AgentCalls(s) ==
    /\ s \in inFlight
    /\ CallStep(s, "agent", {s}, TRUE)
    /\ UNCHANGED mainVars

(* domain_run.open_episode raises before the first call *)
AgentCannotOpen(s) ==
    /\ s \in inFlight
    /\ call[s] = NewCall(1)
    /\ EpisodeEnds(s, "rejected")
    /\ UNCHANGED <<ledgerVars, mainVars>>

AgentContinues(s) ==
    /\ s \in inFlight
    /\ call[s].at = "returned"
    /\ \/ /\ call[s].result = "ok"
          /\ \/ /\ call[s].step < CallLimit
                /\ call' = [call EXCEPT ![s] = NewCall(call[s].step + 1)]
             \/ \E verdict \in {"admitted", "rejected"} : EpisodeEnds(s, verdict)
       \/ call[s].result = "failed" /\ EpisodeEnds(s, "rejected")
       \/ call[s].result \notin {"ok", "failed"} /\ EpisodeEnds(s, call[s].result)
    /\ UNCHANGED <<ledgerVars, mainVars>>

(* An exception the episode does not turn into an Episode (a failed ledger   *)
(* transaction, a record that does not validate, an injected failure).       *)
AgentRaises(s) ==
    /\ "raise" \in Faults
    /\ s \in inFlight
    /\ call[s].at # "done"
    /\ EpisodeEnds(s, "raised")
    /\ UNCHANGED <<ledgerVars, mainVars>>

AgentStep(s) == AgentCalls(s) \/ AgentCannotOpen(s) \/ AgentContinues(s)

--------------------------------------------------------------------------------
(* commit_terminal *)

(* The entry: an admitted Episode whose key is already admitted becomes a    *)
(* duplicate_semantic_task negative; enforced mode asks the judge first.     *)
CommitTerminal(s, key, decision, back) ==
    /\ job' = [sequence |-> s, key |-> key, verdict |-> None, back |-> back,
               decision |-> IF decision = "admitted" /\ key \in admittedKeys
                            THEN "duplicate" ELSE decision]
    /\ pc' = IF JudgeMode = "enforced" THEN "judge" ELSE "commit"

(* forgets the admitted key *)
FaultyCommitReturns ==
    /\ accepted' = IF job.decision = "admitted" THEN accepted + 1 ELSE accepted
    /\ pc' = job.back
    /\ job' = None
    /\ UNCHANGED admittedKeys

(* The return: the caches follow the commit. *)
CommitReturns ==
    /\ accepted' = IF job.decision = "admitted" THEN accepted + 1 ELSE accepted
    /\ admittedKeys' = IF job.decision = "admitted"
                       THEN admittedKeys \cup {job.key} ELSE admittedKeys
    /\ pc' = job.back
    /\ job' = None

AskJudge ==
    /\ pc = "judge"
    /\ call[Main].at = "idle"
    /\ call' = [call EXCEPT ![Main] = NewCall(1)]
    /\ UNCHANGED <<ledgerVars, processVars, pc, stopReason, cacheVars, futureVars,
                   todoVars, job>>

CallJudge ==
    /\ pc = "judge"
    /\ CallStep(Main, "quality_judge", {job.sequence}, FALSE)
    /\ UNCHANGED mainVars

(* lets only a fail keep an Episode out *)
FaultyEnforce(decision, verdict) ==
    IF decision = "admitted" /\ verdict = "fail" THEN "rejected" ELSE decision

(* _apply_semantic_enforcement: gates and a pass are both needed. *)
Enforce(decision, verdict) ==
    IF decision = "admitted" /\ verdict # "pass" THEN "rejected" ELSE decision

JudgeReturns ==
    /\ pc = "judge"
    /\ call[Main].at = "returned"
    /\ \E v \in Verdict :
          /\ call[Main].result # "ok" => v = "unavailable"
          /\ job' = [job EXCEPT !.verdict = v, !.decision = Enforce(@, v)]
    /\ pc' = "commit"
    /\ call' = [call EXCEPT ![Main] = IdleCall]
    /\ UNCHANGED <<ledgerVars, processVars, stopReason, cacheVars, futureVars,
                   todoVars>>

Commit ==
    /\ pc = "commit"
    /\ CommitTerminalOutcome(job.sequence, job.key, job.decision)
    /\ IF JudgeMode = "enforced"
       THEN pc' = "judgment" /\ UNCHANGED <<cacheVars, job>>
       ELSE CommitReturns
    /\ UNCHANGED <<processVars, stopReason, futureVars, todoVars, call>>

RecordJudgment ==
    /\ pc = "judgment"
    /\ RecordQualityJudgment(job.sequence, job.verdict)
    /\ CommitReturns
    /\ UNCHANGED <<processVars, stopReason, futureVars, todoVars, call>>

--------------------------------------------------------------------------------
(* The main loop of _drive_run and collect_completed. *)

(* One finished future: discarded, then returned to ready or committed.  The *)
(* code collects a set of them one by one, which is this step repeated.      *)
Collect(s) ==
    /\ pc \in {"loop", "await"}
    /\ s \in Finished
    /\ inFlight' = inFlight \ {s}
    /\ activeKeys' = KeysWithout(s)
    /\ call' = [call EXCEPT ![s] = IdleCall]
    /\ \/ /\ call[s].result = "raised"
          /\ pc' = "unwind"
          /\ UNCHANGED <<ledgerVars, stopReason, job>>
       \/ /\ call[s].result \in {"operator_cancelled", "provider_request_budget_exhausted"}
          /\ ReturnWorkToReady(s, EpisodeOwner(s))
          /\ stopReason' = IF stopReason = None THEN call[s].result ELSE stopReason
          /\ pc' = "loop"
          /\ UNCHANGED job
       \/ /\ call[s].result \in {"admitted", "rejected"}
          /\ CommitTerminal(s, taskCase[s], call[s].result, "loop")
          /\ UNCHANGED <<ledgerVars, stopReason>>
    /\ UNCHANGED <<processVars, cacheVars, todoVars>>

DecideToStop ==
    /\ pc = "loop"
    /\ Finished = {} /\ stopReason = None
    /\ cancelled \/ TargetReached
    /\ stopReason' = IF cancelled THEN "operator_cancelled" ELSE "accepted_target_reached"
    /\ UNCHANGED <<ledgerVars, processVars, pc, cacheVars, futureVars, todoVars, job,
                   call>>

(* does not wait for the futures in flight *)
FaultyLeaveLoop ==
    /\ pc = "loop"
    /\ stopReason # None
    /\ pc' = "finish"
    /\ UNCHANGED <<ledgerVars, processVars, stopReason, cacheVars, futureVars, todoVars,
                   job, call>>

LeaveLoop ==
    /\ pc = "loop"
    /\ stopReason # None /\ inFlight = {}
    /\ pc' = "finish"
    /\ UNCHANGED <<ledgerVars, processVars, stopReason, cacheVars, futureVars, todoVars,
                   job, call>>

--------------------------------------------------------------------------------
(* dispatch_ready_work *)

BeginDispatch ==
    /\ pc = "loop"
    /\ Finished = {} /\ stopReason = None
    /\ ~cancelled /\ ~TargetReached
    /\ pc' = "dispatch"
    /\ probe' = IF Available > 0 THEN First(ProbeSize, WithStatus("compiled")) ELSE {}
    /\ UNCHANGED <<ledgerVars, processVars, stopReason, cacheVars, futureVars, batch,
                   job, call>>

StopDispatch(reason) ==
    /\ stopReason' = reason
    /\ pc' = "loop"
    /\ probe' = {}

(* One compiled item of the probe, in sequence order. *)
DispatchItem(s) ==
    /\ pc = "dispatch"
    /\ probe # {} /\ s = Least(probe)
    /\ \/ /\ cancelled
          /\ StopDispatch("operator_cancelled")
          /\ UNCHANGED <<ledgerVars, job>>
       \/ /\ ~cancelled /\ Available <= 0
          /\ probe' = {}
          /\ UNCHANGED <<ledgerVars, pc, stopReason, job>>
       \/ /\ ~cancelled /\ Available > 0
          /\ IsDuplicate(s)
          /\ CommitTerminal(s, taskCase[s], "duplicate", "dispatch")
          /\ probe' = probe \ {s}
          /\ UNCHANGED <<ledgerVars, stopReason>>
       \/ /\ ~cancelled /\ Available > 0
          /\ ~IsDuplicate(s) /\ IsActive(s)
          /\ probe' = probe \ {s}
          /\ UNCHANGED <<ledgerVars, pc, stopReason, job>>
       \/ /\ ~cancelled /\ Available > 0
          /\ ~IsDuplicate(s) /\ ~IsActive(s)
          /\ ~BudgetAvailable("agent")
          /\ StopDispatch("provider_request_budget_exhausted")
          /\ UNCHANGED <<ledgerVars, job>>
       \/ /\ ~cancelled /\ Available > 0
          /\ ~IsDuplicate(s) /\ ~IsActive(s)
          /\ BudgetAvailable("agent")
          /\ \/ (* task_case_restore_failure *)
                /\ CommitTerminal(s, taskCase[s], "rejected", "dispatch")
                /\ probe' = probe \ {s}
                /\ UNCHANGED <<ledgerVars, stopReason>>
             \/ /\ ClaimWork(s, EpisodeOwner(s), "running")
                /\ pc' = "submit"
                /\ UNCHANGED <<stopReason, probe, job>>
    /\ UNCHANGED <<processVars, cacheVars, futureVars, batch, call>>

(* After the claim the flag is read once more. *)
ConfirmDispatch(s) ==
    /\ pc = "submit"
    /\ s = Least(probe)
    /\ \/ /\ cancelled
          /\ ReturnWorkToReady(s, EpisodeOwner(s))
          /\ StopDispatch("operator_cancelled")
       \/ /\ ~cancelled
          /\ pc' = "submitting"
          /\ UNCHANGED <<ledgerVars, stopReason, probe>>
    /\ UNCHANGED <<processVars, cacheVars, futureVars, batch, job, call>>

(* The Episode's generation records are read, then the future is submitted: *)
(* a cancel that comes meanwhile is left to the Episode's own calls.        *)
Submit(s) ==
    /\ pc = "submitting"
    /\ s = Least(probe)
    /\ inFlight' = inFlight \cup {s}
    /\ activeKeys' = activeKeys \cup {taskCase[s]}
    /\ call' = [call EXCEPT ![s] = NewCall(1)]
    /\ probe' = probe \ {s}
    /\ pc' = "dispatch"
    /\ UNCHANGED <<ledgerVars, processVars, stopReason, cacheVars, batch, job>>

(* Nothing more to dispatch: wait for a future, else generate, else leave. *)
DispatchReturns ==
    /\ pc = "dispatch"
    /\ probe = {}
    /\ \/ inFlight # {} /\ pc' = "await" /\ UNCHANGED stopReason
       \/ /\ inFlight = {} /\ WithStatus("pending") # {}
          /\ pc' = "generate"
          /\ UNCHANGED stopReason
       \/ /\ inFlight = {} /\ WithStatus("pending") = {}
          /\ pc' = "finish"
          /\ stopReason' = IF WithStatus("compiled") # {}
                           THEN "scheduler_no_progress" ELSE stopReason
    /\ UNCHANGED <<ledgerVars, processVars, cacheVars, futureVars, todoVars, job, call>>

--------------------------------------------------------------------------------
(* generate_pending_batch.  No future is in flight meanwhile. *)

BeginBatch ==
    /\ pc = "generate"
    /\ \/ /\ cancelled
          /\ stopReason' = "operator_cancelled" /\ pc' = "loop"
          /\ UNCHANGED batch
       \/ /\ ~cancelled /\ ~BudgetAvailable("task_generation")
          /\ stopReason' = "provider_request_budget_exhausted" /\ pc' = "loop"
          /\ UNCHANGED batch
       \/ /\ ~cancelled /\ BudgetAvailable("task_generation")
          /\ batch' = First(BatchSize, WithStatus("pending"))
          /\ pc' = "claim"
          /\ UNCHANGED stopReason
    /\ UNCHANGED <<ledgerVars, processVars, cacheVars, futureVars, probe, job, call>>

Unclaimed == {s \in batch : work[s].status = "pending"}

(* The items are claimed one by one; the flag is read before each and after  *)
(* the last.                                                                 *)
ClaimBatch ==
    /\ pc = "claim"
    /\ \/ /\ cancelled
          /\ stopReason' = "operator_cancelled" /\ pc' = "return"
          /\ UNCHANGED <<ledgerVars, call>>
       \/ /\ ~cancelled /\ Unclaimed # {}
          /\ ClaimWork(Least(Unclaimed), GenerationOwner, "generating")
          /\ UNCHANGED <<pc, stopReason, call>>
       \/ /\ ~cancelled /\ Unclaimed = {}
          /\ pc' = "call"
          /\ call' = [call EXCEPT ![Main] = NewCall(1)]
          /\ UNCHANGED <<ledgerVars, stopReason>>
    /\ UNCHANGED <<processVars, cacheVars, futureVars, todoVars, job>>

(* The claimed items go back one by one, in sequence order. *)
ReturnBatch ==
    /\ pc = "return"
    /\ LET claimed == batch \ Unclaimed
       IN  \/ /\ claimed # {}
              /\ ReturnWorkToReady(Least(claimed), GenerationOwner)
              /\ UNCHANGED <<pc, batch>>
           \/ /\ claimed = {}
              /\ pc' = "loop" /\ batch' = {}
              /\ UNCHANGED ledgerVars
    /\ UNCHANGED <<processVars, stopReason, cacheVars, futureVars, probe, job, call>>

CallGenerator ==
    /\ pc = "call"
    /\ CallStep(Main, "task_generation", batch, TRUE)
    /\ UNCHANGED mainVars

(* A response maps to one proposal per slot, or (malformed, slot mismatch)   *)
(* rejects the whole batch like a failed call.                               *)
GeneratorReturns ==
    /\ pc = "call"
    /\ call[Main].at = "returned"
    /\ call' = [call EXCEPT ![Main] = IdleCall]
    /\ \/ /\ call[Main].result = "ok"
          /\ pc' \in {"compile", "reject"}
          /\ UNCHANGED stopReason
       \/ /\ call[Main].result = "failed"
          /\ pc' = "reject"
          /\ UNCHANGED stopReason
       \/ /\ call[Main].result \notin {"ok", "failed"}
          /\ pc' = "return"
          /\ stopReason' = call[Main].result
    /\ UNCHANGED <<ledgerVars, processVars, cacheVars, futureVars, todoVars, job>>

RejectItem(s) ==
    /\ pc = "reject"
    /\ batch # {} /\ s = Least(batch)
    /\ CommitTerminal(s, None, "rejected", "reject")
    /\ batch' = batch \ {s}
    /\ UNCHANGED <<ledgerVars, processVars, stopReason, cacheVars, futureVars, probe,
                   call>>

(* The Domain compiles one proposal: a private case, or a rejection. *)
CompileItem(s) ==
    /\ pc = "compile"
    /\ batch # {} /\ s = Least(batch)
    /\ batch' = batch \ {s}
    /\ \/ \E k \in Key : RecordTaskCase(s, k) /\ UNCHANGED <<pc, job>>
       \/ CommitTerminal(s, None, "rejected", "compile") /\ UNCHANGED ledgerVars
    /\ UNCHANGED <<processVars, stopReason, cacheVars, futureVars, probe, call>>

EndBatch ==
    /\ pc \in {"compile", "reject"}
    /\ batch = {}
    /\ pc' = "loop"
    /\ UNCHANGED <<ledgerVars, processVars, stopReason, cacheVars, futureVars, todoVars,
                   job, call>>

--------------------------------------------------------------------------------
(* The end of _drive_run, and the shadow judgments of _finalize_run. *)

Report(status, reason) == [status |-> status, reason |-> reason]

(* _incomplete_target_reason; "bounded_replacement_exhausted" also stands    *)
(* for "unknown_task_capacity", the same end of a Domain that cannot count.  *)
Shortfall ==
    IF Cardinality(Allocated) < SlotLimit
    THEN "domain_slot_exhausted" ELSE "bounded_replacement_exhausted"

(* trusts stop_reason for the cancellation *)
FaultyReportCancel ==
    CASE stopReason = "operator_cancelled" -> Report("cancelled", "operator_cancelled")
      [] OTHER -> Report("completed", None)

(* does not look at stop_reason *)
FaultyReportShortfall ==
    CASE cancelled -> Report("cancelled", "operator_cancelled")
      [] ~cancelled /\ (TargetReached \/ AcceptedTarget = None) -> Report("completed", None)
      [] OTHER -> Report("partial", Shortfall)

FinalReport ==
    CASE cancelled -> Report("cancelled", "operator_cancelled")
      [] ~cancelled /\ TargetReached -> Report("completed", None)
      [] OTHER ->
           IF stopReason \in {"provider_request_budget_exhausted", "scheduler_no_progress"}
           THEN Report("partial", stopReason)
           ELSE IF AcceptedTarget # None THEN Report("partial", Shortfall)
                ELSE Report("completed", None)

Finish ==
    /\ pc = "finish"
    /\ runStatus' = FinalReport
    /\ pc' = "finalize"
    /\ UNCHANGED <<ledgerVars, invocation, cancelled, stopReason, cacheVars, futureVars,
                   todoVars, job, call>>

(* shadow_judge.model is None, or allow_provider_calls is false *)
JudgeSilent == JudgeMode = "off" \/ runStatus.status = "cancelled"

(* Every terminal Episode without a judgment gets one, in sequence order:    *)
(* unavailable when no judge may be called, else the judge's.                *)
JudgeUnavailable(s) ==
    /\ pc = "finalize"
    /\ Unjudged # {} /\ s = Least(Unjudged)
    /\ JudgeSilent
    /\ RecordQualityJudgment(s, "unavailable")
    /\ UNCHANGED <<mainVars, call>>

JudgeShadow(s) ==
    /\ pc = "finalize"
    /\ Unjudged # {} /\ s = Least(Unjudged)
    /\ ~JudgeSilent
    /\ \/ /\ call[Main].at = "idle"
          /\ call' = [call EXCEPT ![Main] = NewCall(1)]
          /\ UNCHANGED ledgerVars
       \/ CallStep(Main, "quality_judge", {s}, FALSE)
       \/ /\ call[Main].at = "returned"
          /\ \E v \in Verdict :
                /\ call[Main].result # "ok" => v = "unavailable"
                /\ RecordQualityJudgment(s, v)
          /\ call' = [call EXCEPT ![Main] = IdleCall]
    /\ UNCHANGED mainVars

--------------------------------------------------------------------------------
(* Processes: run() and resume(), their end, and their loss. *)

(* What a process forgets when it ends. *)
ProcessEnds ==
    /\ pc' = "down"
    /\ cancelled' = FALSE /\ stopReason' = None
    /\ accepted' = 0 /\ admittedKeys' = {} /\ activeKeys' = {}
    /\ inFlight' = {} /\ probe' = {} /\ batch' = {} /\ job' = None
    /\ call' = [c \in Thread |-> IdleCall]
    /\ UNCHANGED <<ledgerVars, runStatus, invocation>>

Exit ==
    /\ pc = "finalize"
    /\ Unjudged = {}
    /\ ProcessEnds

(* A worker's exception leaves the `with ThreadPoolExecutor` block, which    *)
(* first waits for every other future; their results are never collected.    *)
Unwind ==
    /\ pc = "unwind"
    /\ Finished = inFlight
    /\ ProcessEnds

Kill ==
    /\ "kill" \in Faults
    /\ pc # "down"
    /\ ProcessEnds

Cancel ==
    /\ "cancel" \in Faults
    /\ pc # "down"
    /\ ~cancelled
    /\ cancelled' = TRUE
    /\ UNCHANGED <<ledgerVars, runStatus, invocation, pc, stopReason, cacheVars,
                   futureVars, todoVars, job, call>>

(* The writer lock admits one process at a time.  run() allocates; so does a *)
(* resume that finds a running status and no slots.                          *)
Open ==
    /\ pc = "down"
    /\ invocation < MaxInvocations
    /\ invocation' = invocation + 1
    /\ pc' = IF runStatus.status = "running" /\ Allocated = {} THEN "allocate" ELSE "recover"
    /\ UNCHANGED <<ledgerVars, runStatus, cancelled, stopReason, cacheVars, futureVars,
                   todoVars, job, call>>

Allocate ==
    /\ pc = "allocate"
    /\ RecordAllocatedSlots(1 .. SlotCount)
    /\ pc' = "recover"
    /\ UNCHANGED <<processVars, stopReason, cacheVars, futureVars, todoVars, job, call>>

(* sends every undecided item back to generation *)
FaultyRecover ==
    /\ pc = "recover"
    /\ work' = [s \in Sequence |-> IF work[s].status \in Ready \cup InFlight
                                   THEN Item("pending", None) ELSE work[s]]
    /\ pc' = "start"
    /\ UNCHANGED <<taskCase, outcome, judgment, requests, processVars, stopReason,
                   cacheVars, futureVars, todoVars, job, call>>

Recover ==
    /\ pc = "recover"
    /\ RecoverInflightWork
    /\ pc' = "start"
    /\ UNCHANGED <<processVars, stopReason, cacheVars, futureVars, todoVars, job, call>>

(* a resumed process does not load the admitted keys *)
FaultyStartDrive ==
    /\ pc = "start"
    /\ runStatus' = Report("running", None)
    /\ accepted' = Cardinality(Admitted)
    /\ pc' = "loop"
    /\ UNCHANGED <<ledgerVars, invocation, cancelled, stopReason, admittedKeys,
                   futureVars, todoVars, job, call>>

(* _drive_run starts from the ledger's own counts. *)
StartDrive ==
    /\ pc = "start"
    /\ runStatus' = Report("running", None)
    /\ accepted' = Cardinality(Admitted)
    /\ admittedKeys' = AdmittedKeys
    /\ pc' = "loop"
    /\ UNCHANGED <<ledgerVars, invocation, cancelled, stopReason, futureVars, todoVars,
                   job, call>>

(* The last invocation of the model is over. *)
Halted ==
    /\ pc = "down" /\ invocation = MaxInvocations
    /\ UNCHANGED vars

--------------------------------------------------------------------------------
Init ==
    /\ LedgerInit
    /\ runStatus = Report("running", None)
    /\ invocation = 0
    /\ pc = "down"
    /\ cancelled = FALSE /\ stopReason = None
    /\ accepted = 0 /\ admittedKeys = {} /\ activeKeys = {}
    /\ inFlight = {} /\ probe = {} /\ batch = {} /\ job = None
    /\ call = [c \in Thread |-> IdleCall]

DriveStep ==
    \/ DecideToStop \/ LeaveLoop \/ BeginDispatch \/ DispatchReturns
    \/ \E s \in Sequence : Collect(s) \/ DispatchItem(s) \/ ConfirmDispatch(s) \/ Submit(s)

GenerateStep ==
    \/ BeginBatch \/ ClaimBatch \/ ReturnBatch
    \/ CallGenerator \/ GeneratorReturns \/ EndBatch
    \/ \E s \in Sequence : RejectItem(s) \/ CompileItem(s)

CommitStep == AskJudge \/ CallJudge \/ JudgeReturns \/ Commit \/ RecordJudgment

FinalizeStep ==
    \/ Finish \/ Exit \/ Unwind
    \/ \E s \in Sequence : JudgeUnavailable(s) \/ JudgeShadow(s)

StartStep == Allocate \/ Recover \/ StartDrive

MainStep == StartStep \/ DriveStep \/ GenerateStep \/ CommitStep \/ FinalizeStep

Next ==
    \/ MainStep
    \/ \E s \in Sequence : AgentStep(s) \/ AgentRaises(s)
    \/ Open \/ Kill \/ Cancel \/ Halted

Spec == Init /\ [][Next]_vars

(* The operating system runs both kinds of threads, and every provider call  *)
(* ends (timeout_seconds): no thread with something to do waits for ever.    *)
(* Nothing obliges the operator, the kill or a raising worker.               *)
Fairness ==
    /\ WF_vars(MainStep)
    /\ \A s \in Sequence : WF_vars(AgentStep(s))

FairSpec == Spec /\ Fairness
================================================================================
