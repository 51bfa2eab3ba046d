------------------------- MODULE RunSchedulerProperties -------------------------
(***************************************************************************)
(* What RunScheduler must keep: a type invariant, the safety properties of *)
(* admission, ownership, budget and status, and what happens eventually.   *)
(* Quoted sentences are from docs/product-specs/agent-first-core-rebuild   *)
(* .md, sections "Persistence, Recovery, and Capacity" and "Shadow Review  *)
(* and Optional Enforcement".                                              *)
(***************************************************************************)
EXTENDS RunScheduler

ProgramCounter ==
    {"down", "allocate", "recover", "start", "loop", "await", "dispatch", "submit",
     "submitting", "generate", "claim", "return", "call", "reject", "compile", "judge",
     "commit", "judgment", "finish", "finalize", "unwind"}

StopReason == {"operator_cancelled", "accepted_target_reached",
               "provider_request_budget_exhausted", "scheduler_no_progress"}

CallResult == {"ok", "failed", "admitted", "rejected", "raised"} \cup StopReason

Call == [at : {"idle", "reserve", "charging", "reserved", "sending", "sent", "returned",
               "done"},
         step : 0 .. CallLimit, attempt : 0 .. RetryLimit,
         request : 0 .. TotalLimit, result : CallResult \cup {None}]

Job == [sequence : Sequence, key : Key \cup {None}, verdict : Verdict \cup {None},
        back : ProgramCounter, decision : Decision]

RunStatus == [status : {"running", "completed", "partial", "cancelled"},
              reason : StopReason \cup {"domain_slot_exhausted",
                          "bounded_replacement_exhausted", None}]

(* None is no reason and no commit in progress.                              *)
ASSUME AbsenceAssumption ==
    None \notin StopReason \cup {"domain_slot_exhausted", "bounded_replacement_exhausted"} \cup Job

(* Ledger rows, the run status and every local variable of the process have  *)
(* their types; nothing is in flight in a process that is down.              *)
TypeOK ==
    /\ LedgerTypeOK
    /\ runStatus \in RunStatus
    /\ invocation \in 0 .. MaxInvocations
    /\ pc \in ProgramCounter
    /\ cancelled \in BOOLEAN
    /\ stopReason \in StopReason \cup {None}
    /\ accepted \in 0 .. SlotLimit
    /\ admittedKeys \subseteq Key /\ activeKeys \subseteq Key
    /\ inFlight \subseteq Sequence /\ probe \subseteq Sequence /\ batch \subseteq Sequence
    /\ job \in Job \cup {None}
    /\ call \in [Thread -> Call]

(* The run keeps the contract of RunContract: the outcome table, the number  *)
(* of charged requests and the status are all a consumer ever sees of it.    *)
Contract == INSTANCE RunContract WITH
    Slot <- Sequence, Offered <- 1 .. SlotCount, Target <- AcceptedTarget,
    Ceiling <- TotalLimit, decided <- outcome, charged <- Len(requests),
    report <- runStatus.status

(* Threads, kills, resumes and caches together do nothing the contract does  *)
(* not allow: each step decides one open slot, charges one request, changes  *)
(* the report, or is invisible.                                              *)
KeepsContract == Contract!ContractSpec

(* The whole scheduler, threads, kills and resumes included, only ever uses  *)
(* the ledger as its methods allow: one method, or none, per step.           *)
UsesLedger == LedgerSpec

(* "Concurrent completion and duplicate admission have stable ordering and   *)
(* deterministic winners": among the tasks of one semantic key the earliest  *)
(* sequence that can be admitted is, whatever the order in which Episodes    *)
(* complete: every earlier task of an admitted key was tried and lost, and   *)
(* every duplicate lost to an earlier admitted task.                         *)
EarliestCandidateWins ==
    /\ \A s \in Admitted, t \in Sequence :
           t < s /\ taskCase[t] = taskCase[s] => outcome[t] # None /\ t \notin Admitted
    /\ \A s \in Sequence : outcome[s] # None /\ outcome[s].decision = "duplicate" =>
           \E t \in Admitted : t < s /\ outcome[t].key = outcome[s].key

(* accepted_count and admitted_semantic_keys are read from the ledger once   *)
(* and then maintained: outside a commit they are what the ledger says.      *)
CachesCoherent ==
    pc \notin {"down", "allocate", "recover", "start", "judgment", "unwind"} =>
        /\ accepted = Cardinality(Admitted)
        /\ admittedKeys = AdmittedKeys
        /\ activeKeys = {taskCase[s] : s \in inFlight}
        /\ Cardinality(activeKeys) = Cardinality(inFlight)

(* An item is claimed and its future not yet submitted. *)
Submitting == {"submit", "submitting"}

Driving == pc \notin {"down", "allocate", "recover", "unwind"}

(* While a process drives the run, claimed work is exactly the work it still *)
(* has a thread, a batch or a commit for, under its own owner ids: no item   *)
(* is orphaned, and none is owned by a process that is gone.                 *)
ClaimsMatchThreads ==
    Driving =>
        /\ \A s \in WithStatus("running") : work[s].owner = EpisodeOwner(s)
        /\ WithStatus("running") =
             inFlight \cup (IF pc \in Submitting THEN {Least(probe)} ELSE {})
                      \cup (IF job # None /\ job.back = "loop" /\ outcome[job.sequence] = None
                            THEN {job.sequence} ELSE {})
        /\ \A s \in WithStatus("generating") : work[s].owner[1] = invocation
        /\ WithStatus("generating") =
             (batch \ Unclaimed)
                \cup (IF job # None /\ job.back \in {"compile", "reject"}
                         /\ outcome[job.sequence] = None
                      THEN {job.sequence} ELSE {})

(* The scheduler's own "scheduler_no_progress" stop is never reached: a      *)
(* compiled item is always dispatched, settled or the cause of another stop. *)
(* Generation waits until everything compiled is settled, so the backlog     *)
(* never exceeds one batch and one probe of the dispatcher sees all of it.   *)
NeverStalls ==
    /\ stopReason # "scheduler_no_progress"
    /\ Cardinality(WithStatus("compiled") \cup WithStatus("running")
                      \cup WithStatus("generating")) <= BatchSize

(* A status that says the run is over was earned.  Completed: the target is  *)
(* met exactly, or every slot is decided.  Out of slots: every slot is       *)
(* decided.  Out of requests: a ceiling really is reached.  In every case    *)
(* nothing is left claimed, and a resume would find only ready work.         *)
ReportIsEarned ==
    LET settled == \A s \in Allocated : outcome[s] # None
    IN  runStatus.status # "running" /\ pc \in {"finalize", "down"} =>
          /\ WithStatus("running") \cup WithStatus("generating") = {}
          /\ runStatus.status = "completed" =>
               IF AcceptedTarget = None THEN settled
               ELSE Cardinality(Admitted) = AcceptedTarget
          /\ runStatus.reason \in {"domain_slot_exhausted", "bounded_replacement_exhausted"} =>
               settled /\ Cardinality(Admitted) < AcceptedTarget
          /\ runStatus.reason = "provider_request_budget_exhausted" =>
               ~BudgetAvailable("agent") \/ ~BudgetAvailable("task_generation")

(* The target is met exactly and by the earliest sequences.  In-flight        *)
(* Episodes count against it, so concurrent completions never admit more     *)
(* than the run asked for; and whatever a run that completed left undecided  *)
(* before its last admitted task repeats a key that was admitted.            *)
TargetTakesTheEarliest ==
    AcceptedTarget # None =>
        /\ Cardinality(Admitted) + Cardinality(inFlight \ Admitted) <= AcceptedTarget
        /\ runStatus.status = "completed" =>
               \A s \in Admitted, t \in Sequence :
                   t < s /\ outcome[t] = None => taskCase[t] \in AdmittedKeys

(* "Enforce admits only judge-pass Episodes ... Fail, uncertain, and          *)
(* unavailable judgments stay out": no demonstration of an enforced run has  *)
(* any other judgment on record.                                             *)
AdmittedPassTheJudge ==
    JudgeMode = "enforced" =>
        \A s \in Admitted : judgment[s] \in {None, "pass"}

(* "It promises no repeated terminal work": no process, the first or a       *)
(* resumed one, charges an Agent or generation request for a sequence that   *)
(* already has its outcome.                                                  *)
NoWorkAfterTerminal ==
    [][\A i \in DOMAIN requests' \ DOMAIN requests :
          requests'[i].role # "quality_judge" =>
              \A s \in requests'[i].about : outcome[s] = None]_vars

(* A thread's call was given the cancellation signal: the judge's are not.   *)
Heeds(c) == c = Main => pc = "call"

(* Threads that read the signal, found it clear, and have still to charge or *)
(* to send their request.                                                    *)
Undeterred == {c \in Thread : Heeds(c) /\ call[c].at \in {"charging", "sending"}}

(* The signal is read before it is obeyed, so a cancel cannot stop all that  *)
(* comes after it; but it bounds it.  No thread passes a check any more: an  *)
(* Agent or generation request charged or sent from then on is by a thread   *)
(* that had passed one before, and that has spent it with this.  There are   *)
(* never more of these than max_concurrency, the generator included; at most *)
(* one more future is submitted, and its Episode charges and sends nothing.  *)
CancelBoundsDispatch ==
    /\ [](Cardinality(Undeterred) <= MaxConcurrency)
    /\ [][cancelled =>
             /\ Undeterred' \subseteq Undeterred
             /\ \A c \in Thread :
                   /\ Heeds(c)
                   /\ call'[c].at \in {"reserved", "sent"} /\ call'[c].at # call[c].at
                   => c \in Undeterred \ Undeterred'
             /\ pc' = "submitting" => pc = "submitting"
             /\ \A s \in inFlight' \ inFlight : pc = "submitting" /\ s = Least(probe)]_vars

(* Under fairness every process that starts comes to its end.                *)
ProcessesEnd == pc # "down" ~> pc = "down"

(* An Episode that ran to its end is committed even when the operator        *)
(* cancels or another worker runs out of budget meanwhile.                   *)
FinishedEpisodesAreKept ==
    \A s \in Sequence :
        (s \in inFlight /\ call[s].result \in {"admitted", "rejected"}) ~> (outcome[s] # None)

(* A cancellation that arrives before the status is decided ends the run as  *)
(* cancelled, whatever the workers were doing.                               *)
CancelIsReported ==
    (cancelled /\ pc \notin {"finalize", "down"}) ~> (runStatus.status = "cancelled")
================================================================================
