-------------------------- MODULE RunSchedulerInvariant --------------------------
(***************************************************************************)
(* Why the properties of RunScheduler hold: one inductive invariant, in    *)
(* layers.  Each layer is preserved by every step given the layers before  *)
(* it and the invariants of the ledger.                                    *)
(***************************************************************************)
EXTENDS RunSchedulerProperties

--------------------------------------------------------------------------------
(* Control: what the main thread has in hand at each of its places. *)

Committing == {"judge", "commit", "judgment"}
Starting == {"down", "allocate", "recover", "start"}
Dispatching == {"dispatch"} \cup Submitting
Generating == {"claim", "call", "return", "compile", "reject"}

(* Where the main thread is, or where the commit in progress returns to. *)
Place == IF pc \in Committing THEN job.back ELSE pc

(* The arguments with which the engine calls commit_terminal. *)
CommitArguments ==
    [sequence : Sequence, key : Key \cup {None}, verdict : Verdict \cup {None},
     back : {"loop", "dispatch", "reject", "compile"}, decision : Decision]

(* A commit is only in progress at its own places; futures exist while the   *)
(* loop runs or unwinds, a probe while it dispatches, a batch while it       *)
(* generates.                                                                *)
Control ==
    /\ pc \in ProgramCounter
    /\ cancelled \in BOOLEAN
    /\ inFlight \subseteq Sequence /\ probe \subseteq Sequence /\ batch \subseteq Sequence
    /\ pc \in Committing => job \in CommitArguments
    /\ pc \notin Committing => job = None
    /\ pc = "judgment" => JudgeMode = "enforced"
    /\ inFlight # {} => Place \in {"loop", "await", "unwind"} \cup Dispatching
    /\ probe # {} => Place \in Dispatching
    /\ pc \in Submitting => probe # {}
    /\ batch # {} => Place \in Generating
    /\ pc \in Starting => stopReason = None /\ accepted = 0 /\ admittedKeys = {}

--------------------------------------------------------------------------------
(* Claims: who holds the work that is claimed. *)

(* A commit that has not reached the outcome table. *)
Deciding == pc \in {"judge", "commit"}

RunningHeld(s) ==
    \/ s \in inFlight
    \/ pc \in Submitting /\ s = Least(probe)
    \/ Deciding /\ job.back = "loop" /\ s = job.sequence

GeneratingHeld(s) ==
    \/ s \in batch
    \/ Deciding /\ job.back \in {"compile", "reject"} /\ s = job.sequence

(* Whoever holds an item holds it alone, in the state and under the owner    *)
(* its claim gave it; while the process drives, nothing else is claimed.     *)
Claims ==
    /\ \A s \in Sequence : RunningHeld(s) => work[s] = Item("running", EpisodeOwner(s))
    /\ \A s \in batch : work[s].status \in {"pending", "generating"}
    /\ Place \in {"call", "compile", "reject"} =>
           \A s \in Sequence : GeneratingHeld(s) => work[s].status = "generating"
    /\ Driving => \A s \in Sequence :
           /\ work[s].status = "running" => RunningHeld(s)
           /\ work[s].status = "generating" => GeneratingHeld(s) /\ work[s].owner[1] = invocation
    /\ \A s \in probe : work[s].status = "compiled" \/ (pc \in Submitting /\ s = Least(probe))
    /\ pc \in Submitting => Least(probe) \notin inFlight
    /\ Deciding => job.sequence \notin inFlight \cup probe \cup batch
    /\ Deciding /\ job.back = "dispatch" => work[job.sequence].status = "compiled"
    /\ pc = "judgment" => outcome[job.sequence] # None /\ judgment[job.sequence] = None

--------------------------------------------------------------------------------
(* Caches: what the process remembers of the ledger. *)

(* Between a commit and its return the ledger is one outcome ahead. *)
Settled ==
    IF pc = "judgment" /\ job.decision = "admitted" THEN Admitted \ {job.sequence} ELSE Admitted

Caches ==
    /\ pc \notin Starting =>
           /\ accepted = Cardinality(Settled)
           /\ admittedKeys = {outcome[s].key : s \in Settled}
    /\ activeKeys = {taskCase[s] : s \in inFlight}
    /\ \A s \in Admitted : outcome[s].key = taskCase[s] /\ taskCase[s] # None
    /\ pc \in Committing /\ job.decision # "rejected" =>
           job.key = taskCase[job.sequence] /\ job.key # None
    /\ pc \in Committing /\ job.decision = "admitted" =>
           job.back = "loop" /\ job.key \notin admittedKeys
    /\ pc = "judgment" => outcome[job.sequence] = [key |-> job.key, decision |-> job.decision]

--------------------------------------------------------------------------------
(* Order: slots are generated in sequence order. *)

Ungenerated == {"absent", "pending", "generating"}

WorkOrder ==
    /\ \A s \in Sequence : work[s].status # "absent" => s <= SlotCount
    /\ \A s, t \in 1 .. SlotCount : work[s].status = "absent" => work[t].status = "absent"
    /\ \A s, t \in Sequence :
           t < s /\ work[t].status \in Ungenerated => work[s].status \in Ungenerated
    /\ \A s, t \in Sequence :
           GeneratingHeld(s) /\ ~GeneratingHeld(t) /\ work[t].status \in Ungenerated => s < t
    /\ Deciding /\ job.back \in {"compile", "reject"} => \A s \in batch : job.sequence < s

--------------------------------------------------------------------------------
(* Winners: dispatch looks at everything compiled, in sequence order, and    *)
(* passes over a task only while its key is in flight.                       *)

Contender(s) == work[s].status = "running" \/ s \in Admitted

Winners ==
    /\ \A s, t \in Sequence :
           Contender(s) /\ t < s /\ taskCase[t] = taskCase[s] =>
               outcome[t] # None /\ t \notin Admitted
    /\ \A s \in Sequence : outcome[s] # None /\ outcome[s].decision = "duplicate" =>
           \E t \in Admitted : t < s /\ outcome[t].key = outcome[s].key
    /\ Deciding /\ job.decision = "duplicate" =>
           \E t \in Admitted : t < job.sequence /\ outcome[t].key = job.key

InHand == IF Deciding /\ job.back = "dispatch" THEN {job.sequence} ELSE {}

ProbeCovers ==
    Place \in Dispatching =>
        /\ ~TargetReached
        /\ probe # {} => \A t \in WithStatus("compiled") \ (probe \cup InHand) :
                             taskCase[t] \in activeKeys
        /\ inFlight = {} => WithStatus("compiled") \subseteq probe \cup InHand

--------------------------------------------------------------------------------
(* Backlog: one batch at a time. *)

Backlog == WithStatus("compiled") \cup WithStatus("running") \cup WithStatus("generating")

OneBatch ==
    /\ Cardinality(Backlog \cup batch) <= BatchSize
    /\ pc = "generate" => WithStatus("compiled") = {}
    /\ stopReason # "scheduler_no_progress"

--------------------------------------------------------------------------------
(* Target: the keys that may still win with what is in flight.  A task that  *)
(* dispatch passed over counts as long as its key has not been admitted.     *)

Reached(t) == \E s \in Sequence : Contender(s) /\ t <= s

RivalKeys ==
    {taskCase[t] : t \in {u \in WithStatus("compiled") \cup WithStatus("running") : Reached(u)}}
        \ AdmittedKeys

WithinTarget ==
    AcceptedTarget # None => Cardinality(Admitted) + Cardinality(RivalKeys) <= AcceptedTarget

--------------------------------------------------------------------------------
(* Stops: a reason to stop, and a reported status, stay true; a process that *)
(* has started has all its slots.                                            *)

Exhausted == ~BudgetAvailable("agent") \/ ~BudgetAvailable("task_generation")

OutOfBudget(c) ==
    call[c].at \in {"returned", "done"} /\ call[c].result = "provider_request_budget_exhausted"

AllDecided == \A s \in Allocated : outcome[s] # None

(* What a call ended with is true. *)
Sound(c) ==
    /\ OutOfBudget(c) => Exhausted
    /\ call[c].at \in {"returned", "done"} /\ call[c].result = "operator_cancelled" => cancelled

Signals == (\A s \in Sequence : Sound(s)) /\ (pc = "call" => Sound(Main))

TrueReason(reason) ==
    /\ reason \in StopReason
    /\ reason = "operator_cancelled" => cancelled
    /\ reason = "accepted_target_reached" => TargetReached
    /\ reason = "provider_request_budget_exhausted" => Exhausted

(* A process that finishes for no other reason has nothing ready left. *)
NothingReady ==
    pc = "finish" /\ stopReason = None => WithStatus("pending") \cup WithStatus("compiled") = {}

Stops ==
    /\ stopReason = None \/ TrueReason(stopReason)
    /\ Signals
    /\ NothingReady

Reports ==
    /\ runStatus \in RunStatus
    /\ pc = "allocate" => runStatus.status = "running" /\ Allocated = {}
    /\ pc \notin {"down", "allocate"} \/ runStatus.status # "running" =>
           1 .. SlotCount \subseteq Allocated
    /\ runStatus.status # "running" =>
           /\ pc \in Starting \cup {"finalize"}
           /\ WithStatus("running") \cup WithStatus("generating") = {}
           /\ runStatus.status = "completed" =>
                IF AcceptedTarget = None THEN AllDecided
                ELSE Cardinality(Admitted) = AcceptedTarget
           /\ runStatus.reason \in {"domain_slot_exhausted", "bounded_replacement_exhausted"} =>
                AllDecided /\ Cardinality(Admitted) < AcceptedTarget
           /\ runStatus.reason = "provider_request_budget_exhausted" => Exhausted

--------------------------------------------------------------------------------
(* Calls: what each thread's current call can be. *)

CallEnds == {"ok", "failed", "operator_cancelled", "provider_request_budget_exhausted"}
EpisodeResults ==
    {"admitted", "rejected", "raised", "operator_cancelled", "provider_request_budget_exhausted"}

Calls ==
    /\ call \in [Thread -> Call]
    /\ \A c \in Thread : call[c].at = "returned" => call[c].result \in CallEnds
    /\ \A c \in Thread : call[c].at = "done" => c # Main /\ call[c].result \in EpisodeResults

(* Concurrency: a call belongs to a future, and a future to a worker.        *)

Workers ==
    /\ Cardinality(inFlight) <= MaxConcurrency
    /\ pc \in Submitting => Cardinality(inFlight) < MaxConcurrency
    /\ \A s \in Sequence : call[s].at # "idle" => s \in inFlight

--------------------------------------------------------------------------------
(* Judge: an enforced admission carries its pass until it is on record. *)
JudgedPass ==
    JudgeMode = "enforced" =>
        /\ pc \in {"commit", "judgment"} /\ job.decision = "admitted" => job.verdict = "pass"
        /\ "kill" \notin Faults =>
               \A s \in Admitted :
                   \/ judgment[s] = "pass"
                   \/ pc = "judgment" /\ s = job.sequence

(* Why _drive_run keeps its promises: what its threads, queues and caches    *)
(* hold agrees with the ledger, slots are taken, decided and counted in      *)
(* order, and the report repeats what the ledger says, at every line where   *)
(* a kill or a cancel can come.                                              *)
SchedulerInvariant ==
    /\ Control /\ Claims /\ Caches /\ WorkOrder /\ Winners /\ ProbeCovers /\ OneBatch
    /\ WithinTarget /\ Stops /\ Reports /\ Calls /\ Workers /\ JudgedPass
================================================================================
