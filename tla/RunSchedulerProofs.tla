---------------------------- MODULE RunSchedulerProofs ----------------------------
(***************************************************************************)
(* Every step of the engine is one method of the private ledger or none,   *)
(* so the theorems about any client of the ledger hold of the engine.      *)
(*                                                                         *)
(* Most actions name the ledger method they call; what has to be proved is *)
(* that its arguments are what the method expects: owners of this process, *)
(* sequences, keys and decisions that come from local variables set steps  *)
(* earlier.  ArgumentsTyped is the invariant that says so; it is inductive *)
(* together with LedgerTypeOK.                                             *)
(***************************************************************************)
EXTENDS RunSchedulerInvariant, PrivateLedgerProofs, WellFoundedInduction

(* The places of a claimed item without a future are known in every step.  *)
USE DEF Submitting

(* Least picks the smallest of a non-empty set of sequence numbers. *)
LEMMA LeastIsLeast ==
  ASSUME NEW S \in SUBSET Nat, S # {}
  PROVE  /\ Least(S) \in S
         /\ \A t \in S : Least(S) <= t
<1>1. \E s \in S : \A t \in S : ~(<<t, s>> \in OpToRel(<, Nat))
  BY NatLessThanWellFounded, WFMin
<1>2. PICK s \in S : \A t \in S : ~(<<t, s>> \in OpToRel(<, Nat))
  BY <1>1
<1>3. \A t \in S : s <= t
  <2> SUFFICES ASSUME NEW t \in S, t < s PROVE FALSE
    OBVIOUS
  <2>1. <<t, s>> \in Nat \X Nat /\ <<t, s>>[1] < <<t, s>>[2]
    OBVIOUS
  <2>2. <<t, s>> \in OpToRel(<, Nat)
    BY <2>1, Zenon DEF OpToRel
  <2>3. QED
    BY <1>2, <2>2
<1>4. QED
  BY <1>3 DEF Least

LEMMA LeastIsSequence ==
  ASSUME NEW S \in SUBSET Sequence, S # {}
  PROVE  Least(S) \in S /\ Least(S) \in Sequence
<1>1. S \in SUBSET Nat
  BY LimitAssumption DEF Sequence
<1>2. QED
  BY <1>1, LeastIsLeast

--------------------------------------------------------------------------------
(* The arguments with which the engine calls the ledger. *)

ArgumentsTyped ==
    /\ invocation \in 0 .. MaxInvocations
    /\ pc # "down" => invocation # 0
    /\ batch \subseteq Sequence
    /\ pc \in {"judge", "commit", "judgment"} => job \in CommitArguments
    /\ pc = "commit" /\ JudgeMode = "enforced" => job.verdict \in Verdict
    /\ pc = "judgment" => job.verdict \in Verdict

(* commit_terminal is called with a sequence, its key and a decision. *)
LEMMA CommitTerminalArguments ==
  ASSUME LedgerTypeOK,
         NEW s \in Sequence, NEW k \in Key \cup {None}, NEW d \in Decision,
         NEW back \in {"loop", "dispatch", "reject", "compile"},
         CommitTerminal(s, k, d, back)
  PROVE  /\ job' \in CommitArguments
         /\ pc' \in {"judge", "commit"}
         /\ pc' = "commit" => JudgeMode # "enforced"
  BY DEF CommitTerminal, CommitArguments, Decision

(* What a call step of any thread does to the ledger. *)
LEMMA CallStepUsesLedger ==
  ASSUME NEW c \in Thread, NEW role \in Role, NEW about \in SUBSET Sequence,
         NEW heeds \in BOOLEAN, CallStep(c, role, about, heeds)
  PROVE  [LedgerNext]_ledgerVars
<1>1. CASE CallGivesUp(c, role, heeds)
  BY <1>1 DEF CallGivesUp
<1>2. CASE CallReserves(c, role, about)
  BY <1>2 DEF CallReserves, LedgerNext
<1>3. CASE CallProceeds(c, heeds) \/ CallDispatches(c)
  BY <1>3 DEF CallProceeds, CallDispatches
<1>4. CASE CallSucceeds(c)
  <2>1. call[c].request \in DOMAIN requests
    BY <1>4 DEF CallSucceeds, FinishProviderRequest
  <2>2. QED
    BY <1>4, <2>1 DEF CallSucceeds, LedgerNext
<1>5. CASE CallFails(c)
  <2>1. call[c].request \in DOMAIN requests
    BY <1>5 DEF CallFails, FinishProviderRequest
  <2>2. QED
    BY <1>5, <2>1 DEF CallFails, LedgerNext
<1>6. QED
  BY <1>1, <1>2, <1>3, <1>4, <1>5 DEF CallStep

(* Owner ids of this process. *)
LEMMA OwnersAreOwners ==
  ASSUME ArgumentsTyped, pc # "down"
  PROVE  /\ \A s \in Sequence : EpisodeOwner(s) \in Owner
         /\ batch # {} => GenerationOwner \in Owner
<1>1. invocation \in 1 .. MaxInvocations
  BY SchedulerAssumption DEF ArgumentsTyped
<1>2. batch # {} => Least(batch) \in Sequence
  BY LeastIsSequence DEF ArgumentsTyped
<1>3. QED
  BY <1>1, <1>2, OwnerAssumption DEF EpisodeOwner, GenerationOwner

LEMMA DriveUsesLedger ==
  ASSUME LedgerTypeOK, ArgumentsTyped, DriveStep
  PROVE  [LedgerNext]_ledgerVars
<1>1. CASE DecideToStop BY <1>1 DEF DecideToStop
<1>2. CASE LeaveLoop BY <1>2 DEF LeaveLoop
<1>3. CASE BeginDispatch BY <1>3 DEF BeginDispatch
<1>4. CASE DispatchReturns BY <1>4 DEF DispatchReturns
<1>5. ASSUME NEW s \in Sequence, Collect(s) PROVE [LedgerNext]_ledgerVars
  <2>1. EpisodeOwner(s) \in Owner
    BY <1>5, OwnersAreOwners DEF Collect
  <2>2. QED
    BY <1>5, <2>1 DEF Collect, LedgerNext
<1>6. ASSUME NEW s \in Sequence, DispatchItem(s) PROVE [LedgerNext]_ledgerVars
  <2>1. EpisodeOwner(s) \in Owner
    BY <1>6, OwnersAreOwners DEF DispatchItem
  <2>2. QED
    BY <1>6, <2>1 DEF DispatchItem, LedgerNext, InFlight
<1>7. ASSUME NEW s \in Sequence, ConfirmDispatch(s) \/ Submit(s) PROVE [LedgerNext]_ledgerVars
  <2>1. EpisodeOwner(s) \in Owner
    BY <1>7, OwnersAreOwners DEF ConfirmDispatch, Submit
  <2>2. QED
    BY <1>7, <2>1 DEF ConfirmDispatch, Submit, LedgerNext
<1>8. QED
  BY <1>1, <1>2, <1>3, <1>4, <1>5, <1>6, <1>7 DEF DriveStep

LEMMA GenerateUsesLedger ==
  ASSUME LedgerTypeOK, ArgumentsTyped, GenerateStep
  PROVE  [LedgerNext]_ledgerVars
<1> USE DEF ArgumentsTyped
<1>1. CASE BeginBatch BY <1>1 DEF BeginBatch
<1>2. CASE ClaimBatch
  <2>1. CASE Unclaimed # {} /\ ClaimWork(Least(Unclaimed), GenerationOwner, "generating")
    <3>1. Unclaimed \subseteq batch
      BY DEF Unclaimed
    <3>2. Least(Unclaimed) \in Sequence
      BY <2>1, <3>1, LeastIsSequence
    <3>3. GenerationOwner \in Owner
      BY <1>2, <2>1, <3>1, OwnersAreOwners DEF ClaimBatch
    <3>4. QED
      BY <2>1, <3>2, <3>3 DEF LedgerNext, InFlight
  <2>2. CASE UNCHANGED ledgerVars
    BY <2>2
  <2>3. QED
    BY <1>2, <2>1, <2>2 DEF ClaimBatch
<1>3. CASE ReturnBatch
  <2> DEFINE claimed == batch \ Unclaimed
  <2>1. CASE claimed # {} /\ ReturnWorkToReady(Least(claimed), GenerationOwner)
    <3>1. Least(claimed) \in Sequence
      BY <2>1, LeastIsSequence
    <3>2. GenerationOwner \in Owner
      BY <1>3, <2>1, OwnersAreOwners DEF ReturnBatch
    <3>3. QED
      BY <2>1, <3>1, <3>2 DEF LedgerNext
  <2>2. CASE UNCHANGED ledgerVars
    BY <2>2
  <2>3. QED
    BY <1>3, <2>1, <2>2 DEF ReturnBatch
<1>4. CASE CallGenerator
  BY <1>4, CallStepUsesLedger DEF CallGenerator, Thread, Role
<1>5. CASE GeneratorReturns BY <1>5 DEF GeneratorReturns
<1>6. CASE EndBatch BY <1>6 DEF EndBatch
<1>7. ASSUME NEW s \in Sequence, RejectItem(s) PROVE [LedgerNext]_ledgerVars
  BY <1>7 DEF RejectItem
<1>8. ASSUME NEW s \in Sequence, CompileItem(s) PROVE [LedgerNext]_ledgerVars
  BY <1>8 DEF CompileItem, LedgerNext
<1>9. QED
  BY <1>1, <1>2, <1>3, <1>4, <1>5, <1>6, <1>7, <1>8 DEF GenerateStep

LEMMA CommitUsesLedger ==
  ASSUME LedgerTypeOK, ArgumentsTyped, CommitStep
  PROVE  [LedgerNext]_ledgerVars
<1>1. CASE AskJudge BY <1>1 DEF AskJudge
<1>2. CASE CallJudge
  <2>1. job.sequence \in Sequence
    BY <1>2 DEF CallJudge, ArgumentsTyped, CommitArguments
  <2>2. QED
    BY <1>2, <2>1, CallStepUsesLedger DEF CallJudge, Thread, Role
<1>3. CASE JudgeReturns BY <1>3 DEF JudgeReturns
<1>4. CASE Commit
  <2>1. /\ job.sequence \in Sequence
        /\ job.key \in Key \cup {None}
        /\ job.decision \in Decision
    BY <1>4 DEF Commit, ArgumentsTyped, CommitArguments
  <2>2. QED
    BY <1>4, <2>1 DEF Commit, LedgerNext
<1>5. CASE RecordJudgment
  <2>1. job.sequence \in Sequence /\ job.verdict \in Verdict
    BY <1>5 DEF RecordJudgment, ArgumentsTyped, CommitArguments
  <2>2. QED
    BY <1>5, <2>1 DEF RecordJudgment, LedgerNext
<1>6. QED
  BY <1>1, <1>2, <1>3, <1>4, <1>5 DEF CommitStep

LEMMA FinalizeUsesLedger ==
  ASSUME LedgerTypeOK, ArgumentsTyped, FinalizeStep
  PROVE  [LedgerNext]_ledgerVars
<1>1. CASE Finish BY <1>1 DEF Finish
<1>2. CASE Exit BY <1>2 DEF Exit, ProcessEnds
<1>3. CASE Unwind BY <1>3 DEF Unwind, ProcessEnds
<1>4. ASSUME NEW s \in Sequence, JudgeUnavailable(s) PROVE [LedgerNext]_ledgerVars
  BY <1>4, SchedulerAssumption DEF JudgeUnavailable, LedgerNext
<1>5. ASSUME NEW s \in Sequence, JudgeShadow(s) PROVE [LedgerNext]_ledgerVars
  <2>1. CASE UNCHANGED ledgerVars
    BY <2>1
  <2>2. CASE CallStep(Main, "quality_judge", {s}, FALSE)
    BY <2>2, CallStepUsesLedger DEF Thread, Role
  <2>3. CASE \E v \in Verdict : RecordQualityJudgment(s, v)
    BY <2>3 DEF LedgerNext
  <2>4. QED
    BY <1>5, <2>1, <2>2, <2>3 DEF JudgeShadow
<1>6. QED
  BY <1>1, <1>2, <1>3, <1>4, <1>5 DEF FinalizeStep

LEMMA StartUsesLedger ==
  ASSUME LedgerTypeOK, ArgumentsTyped, StartStep
  PROVE  [LedgerNext]_ledgerVars
<1>1. CASE Allocate
  <2>1. 1 .. SlotCount \in SUBSET Sequence
    BY SchedulerAssumption, LimitAssumption DEF Sequence
  <2>2. QED
    BY <1>1, <2>1 DEF Allocate, LedgerNext
<1>2. CASE Recover BY <1>2 DEF Recover, LedgerNext
<1>3. CASE StartDrive BY <1>3 DEF StartDrive
<1>4. QED
  BY <1>1, <1>2, <1>3 DEF StartStep

LEMMA AgentUsesLedger ==
  ASSUME NEW s \in Sequence, AgentStep(s) \/ AgentRaises(s)
  PROVE  [LedgerNext]_ledgerVars
<1>1. CASE AgentCalls(s)
  BY <1>1, CallStepUsesLedger DEF AgentCalls, Thread, Role
<1>2. CASE AgentCannotOpen(s) BY <1>2 DEF AgentCannotOpen
<1>3. CASE AgentContinues(s) BY <1>3 DEF AgentContinues
<1>4. CASE AgentRaises(s) BY <1>4 DEF AgentRaises
<1>5. QED
  BY <1>1, <1>2, <1>3, <1>4 DEF AgentStep

(* Every step of the engine is one ledger method, or none. *)
LEMMA EveryStepUsesLedger ==
  ASSUME LedgerTypeOK, ArgumentsTyped, [Next]_vars
  PROVE  [LedgerNext]_ledgerVars
<1>1. CASE MainStep
  BY <1>1, StartUsesLedger, DriveUsesLedger, GenerateUsesLedger, CommitUsesLedger,
     FinalizeUsesLedger DEF MainStep
<1>2. ASSUME NEW s \in Sequence, AgentStep(s) \/ AgentRaises(s)
      PROVE  [LedgerNext]_ledgerVars
  BY <1>2, AgentUsesLedger
<1>3. CASE Open BY <1>3 DEF Open
<1>4. CASE Kill BY <1>4 DEF Kill, ProcessEnds
<1>5. CASE Cancel BY <1>5 DEF Cancel
<1>6. CASE UNCHANGED vars BY <1>6 DEF vars
<1>7. QED
  BY <1>1, <1>2, <1>3, <1>4, <1>5, <1>6 DEF Next, Halted

--------------------------------------------------------------------------------
(* The arguments stay typed. *)

(* Steps that neither start a commit nor move the process or the batch. *)
LEMMA QuietStepKeepsArguments ==
  ASSUME ArgumentsTyped, UNCHANGED <<invocation, batch, job, pc>>
  PROVE  ArgumentsTyped'
  BY DEF ArgumentsTyped

LEMMA DriveKeepsArguments ==
  ASSUME LedgerTypeOK, ArgumentsTyped, DriveStep
  PROVE  ArgumentsTyped'
<1> USE DEF ArgumentsTyped, processVars, cacheVars, futureVars, todoVars
<1>1. CASE DecideToStop BY <1>1 DEF DecideToStop
<1>2. CASE LeaveLoop BY <1>2 DEF LeaveLoop
<1>3. CASE BeginDispatch BY <1>3 DEF BeginDispatch
<1>4. CASE DispatchReturns BY <1>4 DEF DispatchReturns
<1>5. ASSUME NEW s \in Sequence, Collect(s) PROVE ArgumentsTyped'
  <2>1. CASE /\ call[s].result \in {"admitted", "rejected"}
             /\ CommitTerminal(s, taskCase[s], call[s].result, "loop")
    BY <1>5, <2>1, CommitTerminalArguments DEF Collect, LedgerTypeOK, Decision
  <2>2. CASE pc' \in {"unwind", "loop"}
    BY <1>5, <2>2 DEF Collect
  <2>3. QED
    BY <1>5, <2>1, <2>2 DEF Collect
<1>6. ASSUME NEW s \in Sequence, DispatchItem(s) PROVE ArgumentsTyped'
  <2>1. CASE \E d \in {"duplicate", "rejected"} :
                CommitTerminal(s, taskCase[s], d, "dispatch")
    BY <1>6, <2>1, CommitTerminalArguments DEF DispatchItem, LedgerTypeOK, Decision
  <2>2. CASE pc' \in {"dispatch", "loop", "submit", "submitting"}
    BY <1>6, <2>2 DEF DispatchItem
  <2>3. QED
    BY <1>6, <2>1, <2>2 DEF DispatchItem, StopDispatch
<1>7. ASSUME NEW s \in Sequence, ConfirmDispatch(s) \/ Submit(s) PROVE ArgumentsTyped'
  BY <1>7 DEF ConfirmDispatch, Submit, StopDispatch
<1>8. QED
  BY <1>1, <1>2, <1>3, <1>4, <1>5, <1>6, <1>7 DEF DriveStep

LEMMA GenerateKeepsArguments ==
  ASSUME LedgerTypeOK, ArgumentsTyped, GenerateStep
  PROVE  ArgumentsTyped'
<1> USE DEF ArgumentsTyped, processVars, cacheVars, futureVars, todoVars
<1>1. CASE BeginBatch
  <2>1. First(BatchSize, WithStatus("pending")) \subseteq Sequence
    BY DEF First, WithStatus
  <2>2. QED
    BY <1>1, <2>1 DEF BeginBatch
<1>2. CASE ClaimBatch BY <1>2 DEF ClaimBatch
<1>3. CASE ReturnBatch BY <1>3 DEF ReturnBatch
<1>4. CASE CallGenerator
  BY <1>4, QuietStepKeepsArguments DEF CallGenerator, mainVars
<1>5. CASE GeneratorReturns BY <1>5 DEF GeneratorReturns
<1>6. CASE EndBatch BY <1>6 DEF EndBatch
<1>7. ASSUME NEW s \in Sequence, RejectItem(s) PROVE ArgumentsTyped'
  BY <1>7, CommitTerminalArguments DEF RejectItem, Decision
<1>8. ASSUME NEW s \in Sequence, CompileItem(s) PROVE ArgumentsTyped'
  BY <1>8, CommitTerminalArguments DEF CompileItem, Decision
<1>9. QED
  BY <1>1, <1>2, <1>3, <1>4, <1>5, <1>6, <1>7, <1>8 DEF GenerateStep

LEMMA CommitKeepsArguments ==
  ASSUME ArgumentsTyped, CommitStep
  PROVE  ArgumentsTyped'
<1> USE DEF ArgumentsTyped, processVars, cacheVars, futureVars, todoVars
<1>1. CASE AskJudge BY <1>1 DEF AskJudge
<1>2. CASE CallJudge
  BY <1>2, QuietStepKeepsArguments DEF CallJudge, mainVars
<1>3. CASE JudgeReturns
  <2>1. PICK v \in Verdict : job' = [job EXCEPT !.verdict = v, !.decision = Enforce(@, v)]
    BY <1>3 DEF JudgeReturns
  <2>2. job \in CommitArguments
    BY <1>3 DEF JudgeReturns
  <2>3. Enforce(job.decision, v) \in Decision
    BY <2>2 DEF Enforce, CommitArguments, Decision
  <2>4. job' \in CommitArguments /\ job'.verdict = v
    BY <2>1, <2>2, <2>3 DEF CommitArguments
  <2>5. QED
    BY <1>3, <2>4 DEF JudgeReturns
<1>4. CASE Commit
  <2>1. job.back \in {"loop", "dispatch", "reject", "compile"}
    BY <1>4 DEF Commit, CommitArguments
  <2>2. QED
    BY <1>4, <2>1 DEF Commit, CommitReturns
<1>5. CASE RecordJudgment
  <2>1. job.back \in {"loop", "dispatch", "reject", "compile"}
    BY <1>5 DEF RecordJudgment, CommitArguments
  <2>2. QED
    BY <1>5, <2>1 DEF RecordJudgment, CommitReturns
<1>6. QED
  BY <1>1, <1>2, <1>3, <1>4, <1>5 DEF CommitStep

LEMMA ProcessEndKeepsArguments ==
  ASSUME ArgumentsTyped, ProcessEnds
  PROVE  ArgumentsTyped'
  BY DEF ArgumentsTyped, ProcessEnds

LEMMA ArgumentsStep ==
  ASSUME LedgerTypeOK, ArgumentsTyped, [Next]_vars
  PROVE  ArgumentsTyped'
<1> USE DEF processVars, cacheVars, futureVars, todoVars
<1>1. CASE StartStep
  BY <1>1 DEF StartStep, Allocate, Recover, StartDrive, ArgumentsTyped
<1>2. CASE DriveStep \/ GenerateStep \/ CommitStep
  BY <1>2, DriveKeepsArguments, GenerateKeepsArguments, CommitKeepsArguments
<1>3. CASE FinalizeStep
  <2>1. CASE Finish BY <2>1 DEF Finish, ArgumentsTyped
  <2>2. CASE Exit \/ Unwind
    BY <2>2, ProcessEndKeepsArguments DEF Exit, Unwind
  <2>3. CASE \E s \in Sequence : JudgeUnavailable(s) \/ JudgeShadow(s)
    BY <2>3, QuietStepKeepsArguments DEF JudgeUnavailable, JudgeShadow, mainVars
  <2>4. QED
    BY <1>3, <2>1, <2>2, <2>3 DEF FinalizeStep
<1>4. ASSUME NEW s \in Sequence, AgentStep(s) \/ AgentRaises(s)
      PROVE  ArgumentsTyped'
  BY <1>4, QuietStepKeepsArguments DEF AgentStep, AgentCalls, AgentCannotOpen,
     AgentContinues, AgentRaises, mainVars
<1>5. CASE Open
  BY <1>5, SchedulerAssumption DEF Open, ArgumentsTyped
<1>6. CASE Kill BY <1>6, ProcessEndKeepsArguments DEF Kill
<1>7. CASE Cancel BY <1>7 DEF Cancel, ArgumentsTyped
<1>8. CASE UNCHANGED vars
  BY <1>8, QuietStepKeepsArguments DEF vars, mainVars
<1>9. QED
  BY <1>1, <1>2, <1>3, <1>4, <1>5, <1>6, <1>7, <1>8 DEF Next, MainStep, Halted

--------------------------------------------------------------------------------
(* The engine as a client of the ledger. *)

LEMMA SchedulerInit == Init => LedgerInit /\ ArgumentsTyped
  BY SchedulerAssumption DEF Init, ArgumentsTyped

LEMMA SchedulerTyped == Spec => [](LedgerTypeOK /\ ArgumentsTyped)
<1>1. Init => LedgerTypeOK /\ ArgumentsTyped
  BY SchedulerInit, LedgerTypeInit
<1>2. LedgerTypeOK /\ ArgumentsTyped /\ [Next]_vars => (LedgerTypeOK /\ ArgumentsTyped)'
  BY EveryStepUsesLedger, ArgumentsStep, LedgerTypeStep
<1>3. QED
  BY <1>1, <1>2, PTL DEF Spec

(* Whatever its threads, kills and resumes do, the engine only ever changes  *)
(* the ledger by one of its methods per step, with arguments of their types: *)
(* RunScheduler implements the specification of PrivateLedger.               *)
THEOREM EngineUsesLedger == Spec => UsesLedger
<1>1. Init => LedgerInit
  BY SchedulerInit
<1>2. LedgerTypeOK /\ ArgumentsTyped /\ [Next]_vars => [LedgerNext]_ledgerVars
  BY EveryStepUsesLedger
<1>3. QED
  BY <1>1, <1>2, SchedulerTyped, PTL DEF Spec, UsesLedger, LedgerSpec

(* So every run keeps what the ledger promises: consistent tables, request   *)
(* ceilings, final outcomes, charges that are never refunded and stages that *)
(* only advance, across crashes and resumes.                                 *)
THEOREM EngineKeepsLedgerPromises ==
  Spec => /\ [](LedgerConsistent /\ CeilingsHold)
          /\ TerminalIsFinal
          /\ ChargesAreKept
          /\ StagesOnlyAdvance
  BY EngineUsesLedger, LedgerStaysConsistent, CeilingsAlwaysHold, OutcomesAreFinal,
     ChargesAreNeverRefunded, StagesNeverGoBack, PTL DEF UsesLedger

--------------------------------------------------------------------------------
(* The first layers of SchedulerInvariant: control, calls and claims. *)

(* Steps of the other threads, and calls of the main one. *)
LEMMA ControlQuiet ==
  ASSUME Control, UNCHANGED mainVars
  PROVE  Control'
  BY DEF Control, Place, mainVars, processVars, cacheVars, futureVars, todoVars

LEMMA ControlDrive ==
  ASSUME Control, ArgumentsTyped', LedgerTypeOK, DriveStep
  PROVE  Control'
<1> USE DEF Control, Place, ProgramCounter, Committing, Starting, Dispatching, Generating,
            processVars, cacheVars, futureVars, todoVars, ArgumentsTyped
<1>1. CASE DecideToStop BY <1>1 DEF DecideToStop
<1>2. CASE LeaveLoop BY <1>2 DEF LeaveLoop
<1>3. CASE BeginDispatch
  <2>1. First(ProbeSize, WithStatus("compiled")) \subseteq Sequence
    BY DEF First, WithStatus
  <2>2. QED BY <1>3, <2>1 DEF BeginDispatch
<1>4. CASE DispatchReturns BY <1>4 DEF DispatchReturns
<1>5. ASSUME NEW s \in Sequence, Collect(s) PROVE Control'
  BY <1>5 DEF Collect, CommitTerminal
<1>6. ASSUME NEW s \in Sequence, DispatchItem(s) PROVE Control'
  BY <1>6 DEF DispatchItem, StopDispatch, CommitTerminal
<1>7. ASSUME NEW s \in Sequence, ConfirmDispatch(s) \/ Submit(s) PROVE Control'
  BY <1>7 DEF ConfirmDispatch, Submit, StopDispatch
<1>8. QED
  BY <1>1, <1>2, <1>3, <1>4, <1>5, <1>6, <1>7 DEF DriveStep

LEMMA ControlGenerate ==
  ASSUME Control, ArgumentsTyped', LedgerTypeOK, GenerateStep
  PROVE  Control'
<1> USE DEF Control, Place, ProgramCounter, Committing, Starting, Dispatching, Generating,
            processVars, cacheVars, futureVars, todoVars, ArgumentsTyped
<1>1. CASE BeginBatch BY <1>1 DEF BeginBatch
<1>2. CASE ClaimBatch BY <1>2 DEF ClaimBatch
<1>3. CASE ReturnBatch BY <1>3 DEF ReturnBatch
<1>4. CASE CallGenerator BY <1>4, ControlQuiet DEF CallGenerator
<1>5. CASE GeneratorReturns BY <1>5 DEF GeneratorReturns
<1>6. CASE EndBatch BY <1>6 DEF EndBatch
<1>7. ASSUME NEW s \in Sequence, RejectItem(s) PROVE Control'
  BY <1>7 DEF RejectItem, CommitTerminal
<1>8. ASSUME NEW s \in Sequence, CompileItem(s) PROVE Control'
  BY <1>8 DEF CompileItem, CommitTerminal
<1>9. QED
  BY <1>1, <1>2, <1>3, <1>4, <1>5, <1>6, <1>7, <1>8 DEF GenerateStep

LEMMA ControlCommit ==
  ASSUME Control, ArgumentsTyped', CommitStep
  PROVE  Control'
<1> USE DEF Control, Place, ProgramCounter, Committing, Starting, Dispatching, Generating,
            processVars, cacheVars, futureVars, todoVars, ArgumentsTyped
<1>1. CASE AskJudge BY <1>1 DEF AskJudge
<1>2. CASE CallJudge BY <1>2, ControlQuiet DEF CallJudge
<1>3. CASE JudgeReturns
  <2>1. job'.back = job.back
    BY <1>3 DEF JudgeReturns, CommitArguments
  <2>2. JudgeMode = "enforced" \/ pc' # "judgment"
    BY <1>3 DEF JudgeReturns
  <2>3. QED BY <1>3, <2>1, <2>2 DEF JudgeReturns
<1>4. CASE Commit BY <1>4 DEF Commit, CommitReturns, CommitArguments
<1>5. CASE RecordJudgment BY <1>5 DEF RecordJudgment, CommitReturns, CommitArguments
<1>6. QED
  BY <1>1, <1>2, <1>3, <1>4, <1>5 DEF CommitStep

LEMMA ControlProcessEnds ==
  ASSUME ProcessEnds
  PROVE  Control'
  BY DEF ProcessEnds, Control, Place, ProgramCounter, Committing, Starting

LEMMA ControlFinalize ==
  ASSUME Control, FinalizeStep
  PROVE  Control'
<1>1. CASE Finish
  BY <1>1 DEF Finish, Control, Place, ProgramCounter, Committing, Starting, Dispatching,
     Generating, cacheVars, futureVars, todoVars
<1>2. CASE Exit \/ Unwind BY <1>2, ControlProcessEnds DEF Exit, Unwind
<1>3. CASE \E s \in Sequence : JudgeUnavailable(s) \/ JudgeShadow(s)
  BY <1>3, ControlQuiet DEF JudgeUnavailable, JudgeShadow
<1>4. QED BY <1>1, <1>2, <1>3 DEF FinalizeStep

LEMMA ControlStep ==
  ASSUME LedgerTypeOK, Control, ArgumentsTyped', [Next]_vars
  PROVE  Control'
<1> USE DEF Control, Place, ProgramCounter, Committing, Starting, Dispatching, Generating,
            processVars, cacheVars, futureVars, todoVars
<1>1. CASE StartStep BY <1>1 DEF StartStep, Allocate, Recover, StartDrive
<1>2. CASE DriveStep \/ GenerateStep \/ CommitStep \/ FinalizeStep
  BY <1>2, ControlDrive, ControlGenerate, ControlCommit, ControlFinalize
<1>3. ASSUME NEW s \in Sequence, AgentStep(s) \/ AgentRaises(s)
      PROVE  Control'
  BY <1>3, ControlQuiet DEF AgentStep, AgentCalls, AgentCannotOpen, AgentContinues,
     AgentRaises
<1>4. CASE Open BY <1>4 DEF Open
<1>5. CASE Kill BY <1>5, ControlProcessEnds DEF Kill
<1>6. CASE Cancel BY <1>6 DEF Cancel
<1>7. CASE UNCHANGED vars BY <1>7, ControlQuiet DEF vars
<1>8. QED
  BY <1>1, <1>2, <1>3, <1>4, <1>5, <1>6, <1>7 DEF Next, MainStep, Halted

--------------------------------------------------------------------------------
(* Calls. *)

(* What one step of a logical call makes of it. *)
LEMMA CallStepKeepsCalls ==
  ASSUME LedgerTypeOK, CeilingsHold', Calls, NEW c \in Thread, NEW role \in Role,
         NEW about \in SUBSET Sequence, NEW heeds \in BOOLEAN,
         CallStep(c, role, about, heeds)
  PROVE  /\ Calls'
         /\ \A d \in Thread : d # c => call'[d] = call[d]
         /\ call'[c].at \in {"reserve", "charging", "reserved", "sending", "sent", "returned"}
<1> USE DEF Calls, Call, CallEnds
<1>1. CASE CallGivesUp(c, role, heeds)
  BY <1>1 DEF CallGivesUp, Returns, CallResult, StopReason
<1>2. CASE CallReserves(c, role, about)
  <2>1. Len(requests) + 1 \in 0 .. TotalLimit
    BY <1>2, LimitAssumption DEF CallReserves, ReserveProviderRequest, BudgetAvailable, LedgerTypeOK
  <2>2. QED
    BY <1>2, <2>1 DEF CallReserves
<1>3. CASE CallProceeds(c, heeds) \/ CallDispatches(c)
  BY <1>3 DEF CallProceeds, CallDispatches
<1>4. CASE CallSucceeds(c)
  <2>1. 0 \in 0 .. TotalLimit /\ "ok" \in CallResult
    BY LimitAssumption DEF CallResult
  <2>2. call' = [call EXCEPT ![c] = [call[c] EXCEPT !.at = "returned", !.request = 0, !.result = "ok"]]
    BY <1>4 DEF CallSucceeds, Returns
  <2>3. QED
    BY <2>1, <2>2
<1>5. CASE CallFails(c)
  BY <1>5, LimitAssumption, SchedulerAssumption DEF CallFails, Returns, CallResult, MayRetry
<1>6. QED
  BY <1>1, <1>2, <1>3, <1>4, <1>5 DEF CallStep

LEMMA IdleAndNewCalls ==
  /\ IdleCall \in Call
  /\ \A step \in 1 .. CallLimit : NewCall(step) \in Call /\ NewCall(step).at = "reserve"
  /\ IdleCall.at = "idle"
<1>1. /\ 0 \in 0 .. CallLimit /\ 0 \in 0 .. RetryLimit /\ 0 \in 0 .. TotalLimit
      /\ 1 .. CallLimit \subseteq 0 .. CallLimit
  BY SchedulerAssumption, LimitAssumption
<1>2. IdleCall \in Call
  BY <1>1 DEF IdleCall, Call
<1>3. \A step \in 1 .. CallLimit : NewCall(step) \in Call /\ NewCall(step).at = "reserve"
  BY <1>1, <1>2 DEF NewCall, Call
<1>4. QED
  BY <1>2, <1>3 DEF IdleCall

LEMMA CallsStep ==
  ASSUME LedgerTypeOK, CeilingsHold', ArgumentsTyped, Control, Calls, [Next]_vars
  PROVE  Calls'
<1> USE DEF processVars, cacheVars, futureVars, todoVars
<1>a. 1 \in 1 .. CallLimit /\ Main \in Thread /\ Sequence \subseteq Thread /\ Main \notin Sequence
  BY SchedulerAssumption, LimitAssumption DEF Main, Thread, Sequence
<1>1. CASE UNCHANGED call
  BY <1>1 DEF Calls
<1>2. CASE ProcessEnds
  BY <1>2, IdleAndNewCalls DEF ProcessEnds, Calls
<1>3. CASE /\ call' = [call EXCEPT ![Main] = NewCall(1)]
  BY <1>3, <1>a, IdleAndNewCalls DEF Calls
<1>4. CASE /\ call' = [call EXCEPT ![Main] = IdleCall]
  BY <1>4, <1>a, IdleAndNewCalls DEF Calls
<1>5. CASE StartStep BY <1>1, <1>5 DEF StartStep, Allocate, Recover, StartDrive
<1>6. CASE DriveStep
  <2>1. ASSUME NEW s \in Sequence, Collect(s) PROVE Calls'
    BY <2>1, <1>a, IdleAndNewCalls DEF Collect, Calls
  <2>2. ASSUME NEW s \in Sequence, ConfirmDispatch(s) \/ Submit(s) PROVE Calls'
    BY <2>2, <1>1, <1>a, IdleAndNewCalls DEF ConfirmDispatch, Submit, Calls
  <2>3. ASSUME NEW s \in Sequence, DispatchItem(s) PROVE Calls'
    BY <2>3, <1>1 DEF DispatchItem
  <2>4. QED
    BY <1>1, <1>6, <2>1, <2>2, <2>3 DEF DriveStep, DecideToStop, LeaveLoop, BeginDispatch,
       DispatchReturns
<1>7. CASE GenerateStep
  <2>1. CASE CallGenerator
    BY <2>1, <1>a, CallStepKeepsCalls DEF CallGenerator, Role, ArgumentsTyped
  <2>2. ASSUME NEW s \in Sequence, RejectItem(s) \/ CompileItem(s) PROVE Calls'
    BY <2>2, <1>1 DEF RejectItem, CompileItem
  <2>3. CASE ClaimBatch
    BY <2>3, <1>1, <1>3 DEF ClaimBatch
  <2>4. QED
    BY <1>1, <1>4, <1>7, <2>1, <2>2, <2>3 DEF GenerateStep, BeginBatch, ReturnBatch,
       GeneratorReturns, EndBatch
<1>8. CASE CommitStep
  <2>1. CASE CallJudge
    <3>1. job.sequence \in Sequence
      BY <2>1 DEF CallJudge, ArgumentsTyped, CommitArguments
    <3>2. QED
      BY <2>1, <3>1, <1>a, CallStepKeepsCalls DEF CallJudge, Role
  <2>2. QED
    BY <1>1, <1>3, <1>4, <1>8, <2>1 DEF CommitStep, AskJudge, JudgeReturns, Commit,
       RecordJudgment
<1>9. CASE FinalizeStep
  <2>1. ASSUME NEW s \in Sequence, JudgeShadow(s) PROVE Calls'
    BY <2>1, <1>a, <1>3, <1>4, CallStepKeepsCalls DEF JudgeShadow, Role
  <2>2. ASSUME NEW s \in Sequence, JudgeUnavailable(s) PROVE Calls'
    BY <2>2, <1>1 DEF JudgeUnavailable
  <2>3. QED
    BY <1>1, <1>2, <1>9, <2>1, <2>2 DEF FinalizeStep, Finish, Exit, Unwind
<1>10. ASSUME NEW s \in Sequence, AgentStep(s) \/ AgentRaises(s)
       PROVE  Calls'
  <2>1. CASE AgentCalls(s)
    BY <2>1, <1>a, CallStepKeepsCalls DEF AgentCalls, Role
  <2>2. ASSUME NEW result \in EpisodeResults, EpisodeEnds(s, result) PROVE Calls'
    BY <2>2, <1>a, IdleAndNewCalls DEF EpisodeEnds, IdleCall, Calls, Call, EpisodeResults, CallResult, StopReason
  <2>3. CASE AgentContinues(s)
    <3>1. CASE call[s].step < CallLimit /\ call' = [call EXCEPT ![s] = NewCall(call[s].step + 1)]
      <4>1. call[s].step + 1 \in 1 .. CallLimit
        BY <3>1, <1>a, SchedulerAssumption DEF Calls, Call
      <4>2. QED BY <3>1, <4>1, <1>a, IdleAndNewCalls DEF Calls
    <3>2. CASE call[s].result \notin {"ok", "failed"} /\ EpisodeEnds(s, call[s].result)
      BY <2>3, <3>2, <2>2, <1>a DEF AgentContinues, Calls, CallEnds, EpisodeResults
    <3>3. QED BY <2>3, <3>1, <3>2, <2>2 DEF AgentContinues, EpisodeResults
  <2>4. QED
    BY <1>10, <2>1, <2>2, <2>3 DEF AgentStep, AgentCannotOpen, AgentRaises, EpisodeResults
<1>11. QED
  BY <1>1, <1>2, <1>5, <1>6, <1>7, <1>8, <1>9, <1>10 DEF Next, MainStep, Open, Kill, Cancel,
     Halted, vars

--------------------------------------------------------------------------------
(* Claims. *)

LEMMA ClaimsQuiet ==
  ASSUME Claims,
         UNCHANGED <<work, outcome, judgment, invocation, pc, inFlight, probe, batch, job>>
  PROVE  Claims'
  BY DEF Claims, RunningHeld, GeneratingHeld, Deciding, Driving, Place, EpisodeOwner, Item

(* A logical call only ever writes its own thread's call and the requests. *)
LEMMA CallStepFrame ==
  ASSUME NEW c, NEW role, NEW about, NEW heeds, CallStep(c, role, about, heeds)
  PROVE  UNCHANGED <<work, taskCase, outcome, judgment>>
  BY DEF CallStep, CallGivesUp, CallProceeds, CallReserves, CallDispatches, CallSucceeds, CallFails, ledgerVars,
     ReserveProviderRequest, FinishProviderRequest

LEMMA ClaimsStart ==
  ASSUME LedgerTypeOK, Control, Control', Claims, StartStep
  PROVE  Claims'
<1> USE DEF Claims, Control, RunningHeld, GeneratingHeld, Deciding, Driving, Place, EpisodeOwner,
            Starting, Committing, Dispatching, Generating, cacheVars, futureVars, todoVars,
            processVars, LedgerTypeOK
<1>1. CASE Allocate BY <1>1 DEF Allocate
<1>2. CASE Recover BY <1>2 DEF Recover, RecoverInflightWork, InFlight, ReadyItem, Item
<1>3. CASE StartDrive BY <1>3 DEF StartDrive, ledgerVars
<1>4. QED BY <1>1, <1>2, <1>3 DEF StartStep

LEMMA ClaimsDrive ==
  ASSUME LedgerTypeOK, LedgerConsistent, Control, Control', Claims, DriveStep
  PROVE  Claims'
<1> USE DEF Claims, Control, RunningHeld, GeneratingHeld, Deciding, Driving, Place, EpisodeOwner,
            Starting, Committing, Dispatching, Generating, cacheVars, futureVars, todoVars,
            processVars, LedgerTypeOK
<1>1. CASE DecideToStop BY <1>1, ClaimsQuiet DEF DecideToStop, ledgerVars
<1>2. CASE LeaveLoop BY <1>2 DEF LeaveLoop, ledgerVars
<1>3. CASE BeginDispatch
  BY <1>3 DEF BeginDispatch, ledgerVars, First, WithStatus
<1>4. CASE DispatchReturns BY <1>4 DEF DispatchReturns, ledgerVars
<1>5. ASSUME NEW s \in Sequence, Collect(s) PROVE Claims'
  <2>a. /\ pc \in {"loop", "await"} /\ s \in inFlight /\ inFlight' = inFlight \ {s}
        /\ work[s] = Item("running", EpisodeOwner(s)) /\ probe = {} /\ batch = {}
        /\ UNCHANGED <<invocation, probe, batch>>
    BY <1>5 DEF Collect, Finished
  <2>1. CASE pc' = "unwind" /\ UNCHANGED <<ledgerVars, job>>
    BY <2>a, <2>1 DEF ledgerVars
  <2>2. CASE ReturnWorkToReady(s, EpisodeOwner(s)) /\ pc' = "loop" /\ UNCHANGED job
    BY <2>a, <2>2 DEF ReturnWorkToReady, ReadyItem, Item
  <2>3. CASE /\ CommitTerminal(s, taskCase[s], call[s].result, "loop")
             /\ UNCHANGED ledgerVars
    <3>1. job'.sequence = s /\ job'.back = "loop" /\ pc' \in {"judge", "commit"}
      BY <2>3 DEF CommitTerminal
    <3>2. QED
      BY <2>a, <2>3, <3>1 DEF ledgerVars
  <2>4. QED
    BY <1>5, <2>1, <2>2, <2>3 DEF Collect
<1>6. ASSUME NEW s \in Sequence, DispatchItem(s) PROVE Claims'
  <2>a. /\ pc = "dispatch" /\ s \in probe /\ s = Least(probe) /\ batch = {}
        /\ work[s].status = "compiled" /\ s \notin inFlight
        /\ UNCHANGED <<invocation, inFlight, batch>>
    BY <1>6, LeastIsSequence DEF DispatchItem, Item
  <2>1. CASE StopDispatch("operator_cancelled") /\ UNCHANGED <<ledgerVars, job>>
    BY <2>a, <2>1 DEF StopDispatch, ledgerVars
  <2>2. CASE probe' \subseteq probe /\ UNCHANGED <<ledgerVars, pc, job>>
    BY <2>a, <2>2 DEF ledgerVars
  <2>3. CASE /\ \E d \in Decision : CommitTerminal(s, taskCase[s], d, "dispatch")
             /\ probe' = probe \ {s} /\ UNCHANGED ledgerVars
    <3>1. job'.sequence = s /\ job'.back = "dispatch" /\ pc' \in {"judge", "commit"}
      BY <2>3 DEF CommitTerminal
    <3>2. QED
      BY <2>a, <2>3, <3>1 DEF ledgerVars
  <2>4. CASE StopDispatch("provider_request_budget_exhausted") /\ UNCHANGED <<ledgerVars, job>>
    BY <2>a, <2>4 DEF StopDispatch, ledgerVars
  <2>5. CASE /\ ClaimWork(s, EpisodeOwner(s), "running")
             /\ pc' = "submit" /\ UNCHANGED <<probe, job>>
    BY <2>a, <2>5 DEF ClaimWork, Item
  <2>6. QED
    BY <1>6, <2>1, <2>2, <2>3, <2>4, <2>5 DEF DispatchItem, Decision
<1>7. ASSUME NEW s \in Sequence, ConfirmDispatch(s) \/ Submit(s) PROVE Claims'
  <2>1. CASE Submit(s)
    BY <2>1 DEF Submit, ledgerVars
  <2>2. CASE ConfirmDispatch(s) /\ pc' = "submitting"
    BY <2>2 DEF ConfirmDispatch, StopDispatch, ledgerVars
  <2>3. CASE ConfirmDispatch(s) /\ pc' # "submitting"
    <3>1. /\ pc = "submit" /\ pc' = "loop" /\ s = Least(probe) /\ probe' = {}
          /\ work' = [work EXCEPT ![s] = ReadyItem(s)] /\ outcome' = outcome
          /\ judgment' = judgment
          /\ UNCHANGED <<invocation, inFlight, batch, job>>
      BY <2>3 DEF ConfirmDispatch, StopDispatch, ReturnWorkToReady
    <3>2. ReadyItem(s).status \in {"pending", "compiled"}
      BY DEF ReadyItem, Item
    <3>3. QED
      BY <3>1, <3>2
  <2>4. QED
    BY <1>7, <2>1, <2>2, <2>3
<1>8. QED
  BY <1>1, <1>2, <1>3, <1>4, <1>5, <1>6, <1>7 DEF DriveStep

LEMMA ClaimsGenerate ==
  ASSUME LedgerTypeOK, LedgerConsistent, Control, Control', Claims, GenerateStep
  PROVE  Claims'
<1> USE DEF Claims, Control, RunningHeld, GeneratingHeld, Deciding, Driving, Place, EpisodeOwner,
            Starting, Committing, Dispatching, Generating, cacheVars, futureVars, todoVars,
            processVars, LedgerTypeOK
<1>1. CASE BeginBatch BY <1>1 DEF BeginBatch, ledgerVars, First, WithStatus
<1>2. CASE ClaimBatch
  <2>a. /\ pc = "claim" /\ probe = {} /\ inFlight = {} /\ job = None
        /\ UNCHANGED <<invocation, inFlight, probe, batch, job>>
    BY <1>2 DEF ClaimBatch
  <2>1. CASE pc' = "return" /\ UNCHANGED ledgerVars
    BY <2>a, <2>1 DEF ledgerVars
  <2>2. CASE /\ Unclaimed # {} /\ UNCHANGED pc
             /\ ClaimWork(Least(Unclaimed), GenerationOwner, "generating")
    <3>0. Unclaimed \in SUBSET Sequence /\ Unclaimed \subseteq batch
      BY DEF Unclaimed
    <3>1. Least(Unclaimed) \in batch /\ Least(Unclaimed) \in Sequence
      BY <2>2, <3>0, LeastIsSequence
    <3>2. QED
      BY <2>a, <2>2, <3>1 DEF ClaimWork, Item, GenerationOwner
  <2>3. CASE Unclaimed = {} /\ pc' = "call" /\ UNCHANGED ledgerVars
    BY <2>a, <2>3 DEF ledgerVars, Unclaimed
  <2>4. QED
    BY <1>2, <2>1, <2>2, <2>3 DEF ClaimBatch
<1>3. CASE ReturnBatch
  <2>a. /\ pc = "return" /\ probe = {} /\ inFlight = {} /\ job = None
        /\ UNCHANGED <<invocation, inFlight, probe, job>>
    BY <1>3 DEF ReturnBatch
  <2> DEFINE claimed == batch \ Unclaimed
  <2>1. CASE /\ claimed # {} /\ UNCHANGED <<pc, batch>>
             /\ ReturnWorkToReady(Least(claimed), GenerationOwner)
    <3>1. Least(claimed) \in batch /\ Least(claimed) \in Sequence
      BY <2>1, LeastIsSequence
    <3>2. taskCase[Least(claimed)] = None
      BY <3>1 DEF LedgerConsistent, CaseMatchesStage
    <3>3. QED
      BY <2>a, <2>1, <3>1, <3>2 DEF ReturnWorkToReady, ReadyItem, Item
  <2>2. CASE claimed = {} /\ pc' = "loop" /\ batch' = {} /\ UNCHANGED ledgerVars
    BY <2>a, <2>2 DEF ledgerVars, Unclaimed
  <2>3. QED
    BY <1>3, <2>1, <2>2 DEF ReturnBatch
<1>4. CASE CallGenerator BY <1>4, ClaimsQuiet, CallStepFrame DEF CallGenerator, mainVars
<1>5. CASE GeneratorReturns BY <1>5 DEF GeneratorReturns, ledgerVars
<1>6. CASE EndBatch BY <1>6 DEF EndBatch, ledgerVars
<1>7. ASSUME NEW s \in Sequence, RejectItem(s) PROVE Claims'
  BY <1>7, LeastIsSequence DEF RejectItem, CommitTerminal, ledgerVars
<1>8. ASSUME NEW s \in Sequence, CompileItem(s) PROVE Claims'
  BY <1>8, LeastIsSequence DEF CompileItem, CommitTerminal, RecordTaskCase, ledgerVars, Item
<1>9. QED
  BY <1>1, <1>2, <1>3, <1>4, <1>5, <1>6, <1>7, <1>8 DEF GenerateStep

LEMMA ClaimsCommit ==
  ASSUME LedgerTypeOK, LedgerConsistent, ArgumentsTyped, Control, Control', Claims, CommitStep
  PROVE  Claims'
<1> USE DEF Claims, Control, RunningHeld, GeneratingHeld, Deciding, Driving, Place, EpisodeOwner,
            Starting, Committing, Dispatching, Generating, cacheVars, futureVars, todoVars,
            processVars, LedgerTypeOK
<1>1. CASE AskJudge BY <1>1, ClaimsQuiet DEF AskJudge, ledgerVars
<1>2. CASE CallJudge BY <1>2, ClaimsQuiet, CallStepFrame DEF CallJudge, mainVars
<1>3. CASE JudgeReturns
  <2>1. job'.back = job.back /\ job'.sequence = job.sequence
    BY <1>3 DEF JudgeReturns, CommitArguments
  <2>2. QED
    BY <1>3, <2>1 DEF JudgeReturns, ledgerVars
<1>4. CASE Commit
  <2>0. [key |-> job.key, decision |-> job.decision] \in Outcome /\ job.sequence \in Sequence
    BY <1>4 DEF Commit, CommitArguments, Outcome
  <2>1. /\ job \in CommitArguments /\ judgment[job.sequence] = None
        /\ outcome'[job.sequence] # None
    BY <1>4, <2>0, NoneAssumption DEF Commit, CommitTerminalOutcome, LedgerConsistent,
       JudgedIsTerminal
  <2>2. /\ pc = "commit" /\ job.sequence \notin inFlight \cup probe \cup batch
        /\ work' = [work EXCEPT ![job.sequence] = Item("terminal", None)]
        /\ judgment' = judgment
        /\ UNCHANGED <<invocation, inFlight, probe, batch>>
    BY <1>4 DEF Commit, CommitTerminalOutcome
  <2>3. CASE pc' = "judgment" /\ UNCHANGED job
    <3>1. job.back \in {"loop", "dispatch", "reject", "compile"} /\ Item("terminal", None).status = "terminal"
      BY <2>1 DEF CommitArguments, Item
    <3>2. \A s \in Sequence : s # job.sequence => work'[s] = work[s]
      BY <2>2
    <3>3. work'[job.sequence].status = "terminal"
      BY <2>0, <2>2, <3>1
    <3>4. QED
      BY <2>0, <2>1, <2>2, <2>3, <3>1, <3>2, <3>3
  <2>4. CASE pc' = job.back /\ job' = None
    <3>1. CASE job.back = "loop"
      BY <2>0, <2>1, <2>2, <2>4, <3>1 DEF Item
    <3>2. CASE job.back = "dispatch"
      BY <2>0, <2>1, <2>2, <2>4, <3>2 DEF Item
    <3>3. CASE job.back \in {"compile", "reject"}
      BY <2>0, <2>1, <2>2, <2>4, <3>3 DEF Item
    <3>4. QED
      BY <2>1, <3>1, <3>2, <3>3 DEF CommitArguments
  <2>5. QED
    BY <1>4, <2>3, <2>4 DEF Commit, CommitReturns
<1>5. CASE RecordJudgment
  BY <1>5 DEF RecordJudgment, RecordQualityJudgment, CommitReturns, CommitArguments
<1>6. QED
  BY <1>1, <1>2, <1>3, <1>4, <1>5 DEF CommitStep

LEMMA ClaimsProcessEnds ==
  ASSUME ProcessEnds
  PROVE  Claims'
  BY DEF ProcessEnds, Claims, RunningHeld, GeneratingHeld, Deciding, Driving, Place, Committing

LEMMA ClaimsFinalize ==
  ASSUME LedgerTypeOK, Control, Control', Claims, FinalizeStep
  PROVE  Claims'
<1>1. CASE Finish
  BY <1>1 DEF Finish, Claims, Control, RunningHeld, GeneratingHeld, Deciding, Driving, Place,
     EpisodeOwner, Starting, Committing, Dispatching, Generating, cacheVars, futureVars, todoVars,
     ledgerVars
<1>2. CASE Exit \/ Unwind
  BY <1>2, ClaimsProcessEnds DEF Exit, Unwind
<1>3. ASSUME NEW s \in Sequence, JudgeUnavailable(s) \/ JudgeShadow(s)
      PROVE  Claims'
  <2>1. /\ pc = "finalize" /\ UNCHANGED mainVars
        /\ UNCHANGED <<work, taskCase, outcome>>
    BY <1>3, CallStepFrame DEF JudgeUnavailable, JudgeShadow, RecordQualityJudgment, ledgerVars
  <2>2. QED
    BY <2>1 DEF mainVars, Claims, RunningHeld, GeneratingHeld, Deciding, Driving, Place,
       EpisodeOwner, Committing, processVars, futureVars, todoVars
<1>4. QED
  BY <1>1, <1>2, <1>3 DEF FinalizeStep

(* Whoever holds an item keeps holding it alone, through every step. *)
LEMMA ClaimsStep ==
  ASSUME LedgerTypeOK, LedgerConsistent, ArgumentsTyped, Control, Control', Claims, [Next]_vars
  PROVE  Claims'
<1>1. CASE MainStep
  BY <1>1, ClaimsStart, ClaimsDrive, ClaimsGenerate, ClaimsCommit, ClaimsFinalize DEF MainStep
<1>2. ASSUME NEW s \in Sequence, AgentStep(s) \/ AgentRaises(s)
      PROVE  Claims'
  BY <1>2, ClaimsQuiet, CallStepFrame DEF AgentStep, AgentCalls, AgentCannotOpen,
     AgentContinues, AgentRaises, mainVars, processVars, futureVars, todoVars, ledgerVars
<1>3. CASE Open
  BY <1>3 DEF Open, Claims, Control, RunningHeld, GeneratingHeld, Deciding, Driving, Place,
     EpisodeOwner, Starting, Committing, Dispatching, Generating, cacheVars, futureVars, todoVars,
     ledgerVars
<1>4. CASE Kill BY <1>4, ClaimsProcessEnds DEF Kill
<1>5. CASE Cancel
  BY <1>5, ClaimsQuiet DEF Cancel, ledgerVars, futureVars, todoVars
<1>6. CASE UNCHANGED vars
  BY <1>6, ClaimsQuiet DEF vars, mainVars, processVars, futureVars, todoVars, ledgerVars
<1>7. QED
  BY <1>1, <1>2, <1>3, <1>4, <1>5, <1>6 DEF Next, Halted

--------------------------------------------------------------------------------
(* The layers together, and what they say of the properties. *)

Held == LedgerTypeOK /\ LedgerConsistent /\ CeilingsHold /\ ArgumentsTyped
        /\ Control /\ Calls /\ Claims

LEMMA HeldInit == Init => Control /\ Calls /\ Claims
<1> SUFFICES ASSUME Init PROVE Control /\ Calls /\ Claims
  OBVIOUS
<1>1. Control
  BY DEF Init, Control, Place, ProgramCounter, Committing, Starting
<1>2. Calls
  BY IdleAndNewCalls DEF Init, Calls
<1>3. Claims
  BY DEF Init, Claims, RunningHeld, GeneratingHeld, Deciding, Driving, Place, Committing
<1>4. QED
  BY <1>1, <1>2, <1>3

LEMMA HeldAlways == Spec => []Held
<1>1. Init => Control /\ Calls /\ Claims
  BY HeldInit
<1>2. /\ LedgerTypeOK /\ LedgerConsistent /\ CeilingsHold' /\ ArgumentsTyped /\ ArgumentsTyped'
      /\ Control /\ Calls /\ Claims /\ [Next]_vars
      => (Control /\ Calls /\ Claims)'
  BY ControlStep, CallsStep, ClaimsStep
<1>3. QED
  BY <1>1, <1>2, SchedulerTyped, EngineKeepsLedgerPromises, PTL DEF Spec, Held

(* At every moment a driving process holds exactly the work that is claimed  *)
(* in the ledger, under its own owner ids (dispatch_ready_work,              *)
(* collect_completed, generate_pending_batch, recover_inflight_work): a      *)
(* crash, a cancellation or a raising worker never leaves an item that       *)
(* nobody works on, nor one worked on twice.                                 *)
THEOREM ClaimsAlwaysMatchThreads == Spec => []ClaimsMatchThreads
<1>1. Held => ClaimsMatchThreads
  <2> SUFFICES ASSUME Held, Driving PROVE ClaimsMatchThreads
    BY DEF ClaimsMatchThreads
  <2> USE DEF Held, LedgerTypeOK, LedgerConsistent, TerminalIffOutcome, Claims, Control,
              RunningHeld, GeneratingHeld, Deciding, Committing, WithStatus, Unclaimed, Item
  <2>1. \A s \in WithStatus("running") : work[s].owner = EpisodeOwner(s)
    OBVIOUS
  <2>2. WithStatus("running") =
             inFlight \cup (IF pc \in Submitting THEN {Least(probe)} ELSE {})
                      \cup (IF job # None /\ job.back = "loop" /\ outcome[job.sequence] = None
                            THEN {job.sequence} ELSE {})
    <3>1. pc \in Submitting => Least(probe) \in Sequence
      BY LeastIsSequence
    <3>2. pc \in Committing => job # None /\ job.sequence \in Sequence
      BY AbsenceAssumption DEF CommitArguments, Job, ProgramCounter
    <3>3. QED
      BY <3>1, <3>2
  <2>3. \A s \in WithStatus("generating") : work[s].owner[1] = invocation
    BY <2>2
  <2>4. WithStatus("generating") =
             (batch \ Unclaimed)
                \cup (IF job # None /\ job.back \in {"compile", "reject"}
                         /\ outcome[job.sequence] = None
                      THEN {job.sequence} ELSE {})
    BY AbsenceAssumption DEF CommitArguments, Job, ProgramCounter, Place
  <2>5. QED
    BY <2>1, <2>2, <2>3, <2>4 DEF ClaimsMatchThreads
<1>2. QED
  BY <1>1, HeldAlways, PTL

(* Only a call step charges, and it charges for what the call is about. *)
LEMMA CallStepCharges ==
  ASSUME LedgerTypeOK, NEW c, NEW role \in Role, NEW about \in SUBSET Sequence, NEW heeds,
         CallStep(c, role, about, heeds), NEW i \in DOMAIN requests' \ DOMAIN requests
  PROVE  requests'[i].role = role /\ requests'[i].about = about
<1>1. CASE CallReserves(c, role, about)
  <2> DEFINE row == [role |-> role, about |-> about, status |-> "reserved"]
  <2>1. requests' = Append(requests, row) /\ requests \in Seq(Request) /\ row \in Request
    BY <1>1 DEF CallReserves, ReserveProviderRequest, LedgerTypeOK, Request
  <2>2. i = Len(requests) + 1
    BY <2>1
  <2>3. QED
    BY <2>1, <2>2
<1>2. CASE DOMAIN requests' = DOMAIN requests
  BY <1>2
<1>3. QED
  BY <1>1, <1>2 DEF CallStep, CallGivesUp, CallProceeds, CallDispatches, CallSucceeds, CallFails, ledgerVars,
     FinishProviderRequest

LEMMA NewChargeIsForOpenWork ==
  ASSUME Held, Next, NEW i \in DOMAIN requests' \ DOMAIN requests,
         requests'[i].role # "quality_judge", NEW s \in requests'[i].about
  PROVE  outcome[s] = None
<1> USE DEF Held, LedgerTypeOK, LedgerConsistent, TerminalIffOutcome
<1>1. CASE \E t \in Sequence : AgentCalls(t)
  <2>1. PICK t \in Sequence : AgentCalls(t)
    BY <1>1
  <2>2. {t} \in SUBSET Sequence /\ "agent" \in Role /\ t \in inFlight
        /\ CallStep(t, "agent", {t}, TRUE)
    BY <2>1 DEF AgentCalls, Role
  <2>3. requests'[i].about = {t}
    BY <2>2, CallStepCharges
  <2>4. QED
    BY <2>2, <2>3 DEF Claims, RunningHeld, Item
<1>2. CASE CallGenerator
  <2>1. batch \in SUBSET Sequence
    BY DEF Control
  <2>2. s \in batch
    BY <1>2, <2>1, CallStepCharges DEF CallGenerator, Role
  <2>3. QED
    BY <2>1, <2>2 DEF Claims
<1>3. CASE CallJudge
  <2>1. job.sequence \in Sequence
    BY <1>3 DEF CallJudge, ArgumentsTyped, CommitArguments
  <2>2. QED
    BY <1>3, <2>1, CallStepCharges DEF CallJudge, Role
<1>4. ASSUME NEW t \in Sequence, CallStep(Main, "quality_judge", {t}, FALSE)
      PROVE  FALSE
  BY <1>4, CallStepCharges DEF Role
<1>5. CASE UNCHANGED requests
  BY <1>5
<1>6. UNCHANGED requests \/ CallGenerator \/ CallJudge
         \/ (\E t \in Sequence : AgentCalls(t) \/ CallStep(Main, "quality_judge", {t}, FALSE))
  <2>1. CASE StartStep
    BY <2>1 DEF StartStep, Allocate, Recover, StartDrive, RecordAllocatedSlots,
       RecoverInflightWork, ledgerVars
  <2>2. CASE DriveStep
    BY <2>2 DEF DriveStep, DecideToStop, LeaveLoop, BeginDispatch, DispatchReturns, Collect,
       DispatchItem, ConfirmDispatch, Submit, ReturnWorkToReady, ClaimWork, ledgerVars
  <2>3. CASE GenerateStep
    BY <2>3 DEF GenerateStep, BeginBatch, ClaimBatch, ReturnBatch, GeneratorReturns, EndBatch,
       RejectItem, CompileItem, ReturnWorkToReady, ClaimWork, RecordTaskCase, ledgerVars
  <2>4. CASE CommitStep
    BY <2>4 DEF CommitStep, AskJudge, JudgeReturns, Commit, RecordJudgment,
       CommitTerminalOutcome, RecordQualityJudgment, ledgerVars
  <2>5. CASE FinalizeStep
    BY <2>5 DEF FinalizeStep, Finish, Exit, Unwind, ProcessEnds, JudgeUnavailable, JudgeShadow,
       RecordQualityJudgment, ledgerVars
  <2>6. ASSUME NEW t \in Sequence, AgentStep(t) \/ AgentRaises(t)
        PROVE  UNCHANGED requests \/ AgentCalls(t)
    BY <2>6 DEF AgentStep, AgentCannotOpen, AgentContinues, AgentRaises, ledgerVars
  <2>7. QED
    BY <2>1, <2>2, <2>3, <2>4, <2>5, <2>6 DEF Next, MainStep, Open, Kill, ProcessEnds, Cancel,
       Halted, vars, ledgerVars
<1>7. QED
  BY <1>1, <1>2, <1>3, <1>4, <1>5, <1>6

(* No process, the first or a resumed one, charges an Agent or generation    *)
(* request for a sequence that has its outcome (_call_model,                 *)
(* reserve_provider_request): the thread that charges still holds the item,  *)
(* and a held item is not terminal.                                          *)
THEOREM NoChargeAfterTerminal == Spec => NoWorkAfterTerminal
<1>1. Held /\ [Next]_vars =>
        [\A i \in DOMAIN requests' \ DOMAIN requests :
            requests'[i].role # "quality_judge" =>
                \A s \in requests'[i].about : outcome[s] = None]_vars
  BY NewChargeIsForOpenWork
<1>2. QED
  BY <1>1, HeldAlways, PTL DEF Spec, NoWorkAfterTerminal

--------------------------------------------------------------------------------
(***************************************************************************)
(* Admission is deterministic, and what a run says of itself is true: the  *)
(* layers of SchedulerInvariant that say in which order work is generated, *)
(* dispatched and admitted, those that speak of stop reasons, of the       *)
(* reported status and of the judge, and what they give: coherent caches,  *)
(* the earliest candidate as the winner, no stall, a target met exactly,   *)
(* earned reports, judged admissions, and the refinement of RunContract.   *)
(***************************************************************************)

(* Sets of sequence numbers are finite, and counting them is monotone. *)
LEMMA SequenceSetsFinite ==
  ASSUME NEW S \in SUBSET Sequence
  PROVE  /\ IsFiniteSet(S) /\ Cardinality(S) \in Nat
         /\ \A T \in SUBSET S : Cardinality(T) <= Cardinality(S)
<1>1. IsFiniteSet(Sequence)
  BY FS_Interval, LimitAssumption DEF Sequence
<1>2. IsFiniteSet(S)
  BY <1>1, FS_Subset
<1>3. QED
  BY <1>2, FS_Subset, FS_CardinalityType

LEMMA LeastComesFirst ==
  ASSUME NEW S \in SUBSET Sequence, S # {}
  PROVE  \A s \in S \ {Least(S)} : Least(S) < s
<1>1. S \in SUBSET Nat
  BY LimitAssumption DEF Sequence
<1>2. \A s \in S : Least(S) \in Nat /\ s \in Nat /\ Least(S) <= s
  BY <1>1, LeastIsLeast
<1>3. QED
  BY <1>2

LEMMA LargestExists ==
  ASSUME NEW S \in SUBSET Sequence, S # {}
  PROVE  \E m \in S : \A t \in S : t <= m
<1> DEFINE R == {SlotLimit - s : s \in S}
<1>0. \A s \in S : s \in Nat /\ SlotLimit - s \in Nat
  BY LimitAssumption DEF Sequence
<1>1. R \in SUBSET Nat /\ R # {}
  BY <1>0
<1>2. Least(R) \in R /\ \A r \in R : Least(R) <= r
  BY <1>1, LeastIsLeast
<1>3. PICK m \in S : Least(R) = SlotLimit - m
  BY <1>2
<1>4. \A t \in S : SlotLimit - m <= SlotLimit - t
  BY <1>2, <1>3
<1>5. QED
  BY <1>0, <1>3, <1>4, LimitAssumption

(* ORDER BY sequence LIMIT n returns a lower part of the rows, at most n of  *)
(* them, and all of them when there are no more.                             *)
LEMMA FirstIsLowest ==
  ASSUME NEW n \in Nat, NEW S \in SUBSET Sequence
  PROVE  /\ First(n, S) \subseteq S
         /\ Cardinality(First(n, S)) <= n
         /\ Cardinality(S) <= n => First(n, S) = S
         /\ \A t \in First(n, S), u \in S \ First(n, S) : t < u
<1> DEFINE Below(s) == {t \in S : t < s}
           F == First(n, S)
<1>0. \A s \in S : s \in Nat
  BY LimitAssumption DEF Sequence
<1>1. F = {s \in S : Cardinality(Below(s)) < n} /\ F \subseteq S
  BY DEF First
<1>2. \A s \in S : Cardinality(Below(s)) \in Nat /\ IsFiniteSet(Below(s))
  <2> TAKE s \in S
  <2>1. Below(s) \in SUBSET Sequence
    OBVIOUS
  <2>2. QED
    BY <2>1, SequenceSetsFinite
<1>3. \A t \in F, u \in S \ F : t < u
  <2> TAKE t \in F, u \in S \ F
  <2> SUFFICES ASSUME u <= t PROVE FALSE
    BY <1>0, <1>1
  <2>1. Below(u) \subseteq Below(t) /\ Below(t) \in SUBSET Sequence
    <3>1. \A x \in S : x < u => x < t
      BY <1>0, <1>1
    <3>2. QED
      BY <3>1
  <2>2. Cardinality(Below(u)) <= Cardinality(Below(t))
    BY <2>1, SequenceSetsFinite
  <2>3. QED
    BY <1>1, <1>2, <2>2
<1>4. ASSUME Cardinality(S) <= n PROVE F = S
  <2>1. ASSUME NEW s \in S PROVE Cardinality(Below(s)) < n
    <3>1. Below(s) \subseteq S \ {s} /\ S \ {s} \in SUBSET Sequence /\ IsFiniteSet(S)
      BY <1>0, SequenceSetsFinite
    <3>2. Cardinality(S \ {s}) = Cardinality(S) - 1 /\ Cardinality(S) \in Nat
      BY <3>1, FS_RemoveElement, SequenceSetsFinite
    <3>3. Cardinality(Below(s)) <= Cardinality(S \ {s})
      BY <3>1, SequenceSetsFinite
    <3>4. QED
      BY <1>2, <1>4, <3>2, <3>3
  <2>2. QED
    BY <1>1, <2>1
<1>5. Cardinality(F) <= n
  <2>1. CASE F = {}
    BY <2>1, FS_EmptySet
  <2>2. CASE F # {}
    <3>1. PICK m \in F : \A t \in F : t <= m
      BY <1>1, <2>2, LargestExists
    <3>2. F \ {m} \subseteq Below(m) /\ Below(m) \in SUBSET Sequence
      <4>1. \A x \in F \ {m} : x \in S /\ x < m
        BY <1>0, <1>1, <3>1
      <4>2. QED
        BY <4>1
    <3>3. Cardinality(F \ {m}) <= Cardinality(Below(m))
      BY <3>2, SequenceSetsFinite
    <3>4. Cardinality(F \ {m}) = Cardinality(F) - 1 /\ Cardinality(F) \in Nat
      BY <1>1, SequenceSetsFinite, FS_RemoveElement
    <3>5. Cardinality(Below(m)) < n /\ Cardinality(Below(m)) \in Nat
      BY <1>1, <1>2
    <3>6. QED
      BY <3>3, <3>4, <3>5
  <2>3. QED
    BY <2>1, <2>2
<1>6. QED
  BY <1>1, <1>3, <1>4, <1>5

(* The keys of a set of tasks are no more than the tasks, and as many when   *)
(* no two share a key.                                                       *)
LEMMA KeysOfTasks ==
  ASSUME NEW S \in SUBSET Sequence, NEW f
  PROVE  LET K == {f[s] : s \in S}
         IN  /\ IsFiniteSet(K) /\ Cardinality(K) \in Nat
             /\ Cardinality(K) <= Cardinality(S)
             /\ (\A s, t \in S : f[s] = f[t] => s = t) => Cardinality(K) = Cardinality(S)
<1> DEFINE K == {f[s] : s \in S}
           g == [s \in S |-> f[s]]
<1>1. g \in Surjection(S, K) /\ IsFiniteSet(S)
  BY SequenceSetsFinite DEF Surjection
<1>2. /\ IsFiniteSet(K) /\ Cardinality(K) <= Cardinality(S)
      /\ Cardinality(K) = Cardinality(S) <=> g \in Injection(S, K)
  BY <1>1, FS_Surjection
<1>3. ASSUME \A s, t \in S : f[s] = f[t] => s = t
      PROVE  g \in Injection(S, K)
  <2>1. g \in [S -> K] /\ \A s \in S : g[s] = f[s]
    OBVIOUS
  <2> HIDE DEF g, K
  <2>2. QED
    BY <1>3, <2>1 DEF Injection, IsInjective
<1>4. QED
  BY <1>2, <1>3, FS_CardinalityType

--------------------------------------------------------------------------------
(* What a step can do to the work items, the cases and the outcomes. *)

ClaimsEpisode(s) == DispatchItem(s) /\ ClaimWork(s, EpisodeOwner(s), "running")
ClaimsSlot(s) == ClaimBatch /\ s \in batch /\ ClaimWork(s, GenerationOwner, "generating")
Returned(s) ==
    /\ s \in Sequence /\ work[s].status \in InFlight
    /\ work' = [work EXCEPT ![s] = ReadyItem(s)]
    /\ UNCHANGED <<taskCase, outcome>>
Compiled(s, k) == CompileItem(s) /\ RecordTaskCase(s, k)

LEMMA StepEffects ==
  ASSUME Held, Next
  PROVE  \/ UNCHANGED <<work, taskCase, outcome>>
         \/ Allocate
         \/ Recover
         \/ Commit
         \/ \E s \in Sequence : ClaimsEpisode(s) \/ ClaimsSlot(s) \/ Returned(s)
         \/ \E s \in Sequence, k \in Key : Compiled(s, k)
<1> DEFINE Quiet == UNCHANGED <<work, taskCase, outcome>>
<1>1. CASE StartStep
  BY <1>1 DEF StartStep, StartDrive, ledgerVars
<1>2. CASE DriveStep
  <2>1. CASE DecideToStop \/ LeaveLoop \/ BeginDispatch \/ DispatchReturns
    BY <2>1 DEF DecideToStop, LeaveLoop, BeginDispatch, DispatchReturns, ledgerVars
  <2>2. ASSUME NEW s \in Sequence, Collect(s) PROVE Quiet \/ Returned(s)
    <3>1. work[s] = Item("running", EpisodeOwner(s))
      BY <2>2 DEF Held, Claims, RunningHeld, Collect, Finished
    <3>2. QED
      BY <2>2, <3>1 DEF Collect, ReturnWorkToReady, Returned, InFlight, Item, ledgerVars
  <2>3. ASSUME NEW s \in Sequence, DispatchItem(s) PROVE Quiet \/ ClaimsEpisode(s)
    BY <2>3 DEF DispatchItem, ClaimsEpisode, ledgerVars
  <2>4. ASSUME NEW s \in Sequence, ConfirmDispatch(s) \/ Submit(s) PROVE Quiet \/ Returned(s)
    <3>1. work[s] = Item("running", EpisodeOwner(s))
      BY <2>4 DEF Held, Claims, RunningHeld, ConfirmDispatch, Submit
    <3>2. QED
      BY <2>4, <3>1 DEF ConfirmDispatch, Submit, ReturnWorkToReady, Returned, InFlight, Item, ledgerVars
  <2>5. QED
    BY <1>2, <2>1, <2>2, <2>3, <2>4 DEF DriveStep
<1>3. CASE GenerateStep
  <2>1. CASE BeginBatch \/ GeneratorReturns \/ EndBatch
    BY <2>1 DEF BeginBatch, GeneratorReturns, EndBatch, ledgerVars
  <2>2. CASE ClaimBatch
    <3>1. Unclaimed \in SUBSET batch /\ batch \in SUBSET Sequence
      BY DEF Unclaimed, Held, Control
    <3>2. Unclaimed # {} => Least(Unclaimed) \in batch /\ Least(Unclaimed) \in Sequence
      BY <3>1, LeastIsSequence
    <3>3. QED
      BY <2>2, <3>2 DEF ClaimBatch, ClaimsSlot, ledgerVars
  <2>3. CASE ReturnBatch
    <3> DEFINE claimed == batch \ Unclaimed
    <3>1. claimed \in SUBSET batch /\ batch \in SUBSET Sequence
      BY DEF Held, Control
    <3>2. claimed # {} => Least(claimed) \in claimed /\ Least(claimed) \in Sequence
      BY <3>1, LeastIsSequence
    <3>3. \A s \in claimed : work[s].status \in InFlight
      BY DEF Unclaimed, Held, Claims, InFlight
    <3>4. QED
      BY <2>3, <3>2, <3>3 DEF ReturnBatch, ReturnWorkToReady, Returned, ledgerVars
  <2>4. CASE CallGenerator
    BY <2>4, CallStepFrame DEF CallGenerator
  <2>5. ASSUME NEW s \in Sequence, RejectItem(s) \/ CompileItem(s)
        PROVE  Quiet \/ \E k \in Key : Compiled(s, k)
    BY <2>5 DEF RejectItem, CompileItem, Compiled, ledgerVars
  <2>6. QED
    BY <1>3, <2>1, <2>2, <2>3, <2>4, <2>5 DEF GenerateStep
<1>4. CASE CommitStep
  BY <1>4, CallStepFrame DEF CommitStep, AskJudge, CallJudge, JudgeReturns, RecordJudgment,
     RecordQualityJudgment, ledgerVars
<1>5. CASE FinalizeStep
  BY <1>5, CallStepFrame DEF FinalizeStep, Finish, Exit, Unwind, ProcessEnds, JudgeUnavailable,
     JudgeShadow, RecordQualityJudgment, ledgerVars
<1>6. ASSUME NEW s \in Sequence, AgentStep(s) \/ AgentRaises(s)
      PROVE  Quiet
  BY <1>6, CallStepFrame DEF AgentStep, AgentCalls, AgentCannotOpen, AgentContinues,
     AgentRaises, ledgerVars
<1>7. CASE Open \/ Kill \/ Cancel \/ Halted
  BY <1>7 DEF Open, Kill, ProcessEnds, Cancel, Halted, vars, ledgerVars
<1>8. QED
  BY <1>1, <1>2, <1>3, <1>4, <1>5, <1>6, <1>7 DEF Next, MainStep

--------------------------------------------------------------------------------
(* Order of generation. *)

(* The slots a batch holds stay held until they are generated, or the batch  *)
(* is given up.                                                              *)
LEMMA HeldSlots ==
  ASSUME Held, Held', Next
  PROVE  \/ BeginBatch /\ batch' = First(BatchSize, WithStatus("pending"))
         \/ \A s \in Sequence : GeneratingHeld(s)' = GeneratingHeld(s)
         \/ \A s \in Sequence : ~GeneratingHeld(s)'
         \/ \E s \in Sequence :
                /\ work'[s].status \notin Ungenerated
                /\ \A t \in Sequence : GeneratingHeld(t)' = (GeneratingHeld(t) /\ t # s)
<1> DEFINE Same == \A s \in Sequence : GeneratingHeld(s)' = GeneratingHeld(s)
           Leaves == \E s \in Sequence :
                       /\ work'[s].status \notin Ungenerated
                       /\ \A t \in Sequence : GeneratingHeld(t)' = (GeneratingHeld(t) /\ t # s)
<1> USE DEF GeneratingHeld, Deciding, processVars, cacheVars, futureVars, todoVars
<1>1. ASSUME UNCHANGED <<pc, batch, job>> PROVE Same
  BY <1>1
<1>2. CASE StartStep
  BY <1>2 DEF StartStep, Allocate, Recover, StartDrive
<1>3. CASE DriveStep
  <2>1. batch = {} /\ batch' = {} /\ pc \notin Committing
    BY <1>3 DEF DriveStep, DecideToStop, LeaveLoop, BeginDispatch, DispatchReturns, Collect,
       DispatchItem, ConfirmDispatch, Submit, Held, Control, Place, Committing, Generating
  <2>2. pc' \in {"judge", "commit"} => job'.back \in {"loop", "dispatch"}
    BY <1>3 DEF DriveStep, DecideToStop, LeaveLoop, BeginDispatch, DispatchReturns, Collect,
       DispatchItem, ConfirmDispatch, Submit, StopDispatch, CommitTerminal
  <2>3. QED
    BY <2>1, <2>2
<1>4. CASE GenerateStep
  <2>1. CASE BeginBatch
    BY <2>1 DEF BeginBatch
  <2>2. CASE ClaimBatch \/ CallGenerator \/ GeneratorReturns \/ EndBatch
    BY <2>2 DEF ClaimBatch, CallGenerator, GeneratorReturns, EndBatch, mainVars
  <2>3. CASE ReturnBatch
    BY <2>3 DEF ReturnBatch
  <2>4. ASSUME NEW s \in Sequence, NEW back \in {"compile", "reject"},
               pc \notin {"judge", "commit"},
               s \in batch, batch' = batch \ {s}, CommitTerminal(s, None, "rejected", back)
        PROVE  Same
    BY <2>4 DEF CommitTerminal
  <2>5. ASSUME NEW s \in Sequence, RejectItem(s) PROVE Same
    BY <2>4, <2>5, LeastIsSequence DEF RejectItem, Held, Control
  <2>6. ASSUME NEW s \in Sequence, CompileItem(s) PROVE Same \/ Leaves
    <3>1. s \in batch /\ batch' = batch \ {s} /\ pc = "compile"
      BY <2>6, LeastIsSequence DEF CompileItem, Held, Control
    <3>2. CASE \E k \in Key : RecordTaskCase(s, k) /\ UNCHANGED <<pc, job>>
      <4>1. work'[s].status \notin Ungenerated
        BY <3>2 DEF RecordTaskCase, Item, Ungenerated, Held, LedgerTypeOK
      <4>2. QED
        BY <3>1, <3>2, <4>1
    <3>3. QED
      BY <2>4, <2>6, <3>1, <3>2 DEF CompileItem
  <2>7. QED
    BY <1>4, <2>1, <2>2, <2>3, <2>5, <2>6 DEF GenerateStep
<1>5. CASE CommitStep
  <2>1. CASE AskJudge \/ CallJudge
    BY <2>1 DEF AskJudge, CallJudge, mainVars
  <2>2. CASE JudgeReturns
    <3>1. job'.sequence = job.sequence /\ job'.back = job.back
      BY <2>2 DEF JudgeReturns, Held, Control, CommitArguments, Committing
    <3>2. QED
      BY <2>2, <3>1 DEF JudgeReturns
  <2>3. CASE Commit
    <3>1. /\ job.sequence \in Sequence /\ job.sequence \notin batch
          /\ job.back \in {"loop", "dispatch", "reject", "compile"}
      BY <2>3 DEF Commit, Held, Control, Claims, CommitArguments, Committing
    <3>2. work'[job.sequence].status \notin Ungenerated
      BY <2>3, <3>1 DEF Commit, CommitTerminalOutcome, Item, Ungenerated, Held, LedgerTypeOK
    <3>3. pc = "commit" /\ batch' = batch /\ pc' \notin {"judge", "commit"}
      BY <2>3, <3>1 DEF Commit, CommitReturns
    <3>4. CASE job.back \in {"compile", "reject"}
      BY <3>1, <3>2, <3>3, <3>4
    <3>5. CASE job.back \in {"loop", "dispatch"}
      BY <3>1, <3>3, <3>5
    <3>6. QED
      BY <3>1, <3>4, <3>5
  <2>4. CASE RecordJudgment
    <3>1. job.back \in {"loop", "dispatch", "reject", "compile"}
      BY <2>4 DEF RecordJudgment, Held, Control, CommitArguments, Committing
    <3>2. QED
      BY <2>4, <3>1 DEF RecordJudgment, CommitReturns
  <2>5. QED
    BY <1>5, <2>1, <2>2, <2>3, <2>4 DEF CommitStep
<1>6. CASE FinalizeStep
  BY <1>6 DEF FinalizeStep, Finish, Exit, Unwind, ProcessEnds, JudgeUnavailable, JudgeShadow,
     mainVars
<1>7. ASSUME NEW s \in Sequence, AgentStep(s) \/ AgentRaises(s)
      PROVE  Same
  BY <1>7 DEF AgentStep, AgentCalls, AgentCannotOpen, AgentContinues, AgentRaises, mainVars
<1>8. CASE Open \/ Kill \/ Cancel \/ Halted
  BY <1>8 DEF Open, Kill, ProcessEnds, Cancel, Halted, vars, mainVars
<1>9. QED
  BY <1>2, <1>3, <1>4, <1>5, <1>6, <1>7, <1>8 DEF Next, MainStep

(* The part of WorkOrder that speaks of the work items alone. *)
ItemOrder ==
    /\ \A s \in Sequence : work[s].status # "absent" => s <= SlotCount
    /\ \A s, t \in 1 .. SlotCount : work[s].status = "absent" => work[t].status = "absent"
    /\ \A s, t \in Sequence :
           t < s /\ work[t].status \in Ungenerated => work[s].status \in Ungenerated

LEMMA ItemOrderStep ==
  ASSUME Held, WorkOrder, Next
  PROVE  ItemOrder'
<1> USE DEF Ungenerated, Held, LedgerTypeOK, Item
<1>0. ItemOrder /\ 1 .. SlotCount \subseteq Sequence /\ \A s \in Sequence : s \in Nat
  BY LimitAssumption, SchedulerAssumption DEF WorkOrder, ItemOrder, Sequence
<1>1. CASE UNCHANGED <<work, taskCase, outcome>>
  BY <1>0, <1>1 DEF ItemOrder
<1>2. CASE Allocate
  <2>1. /\ (1 .. SlotCount) \cap Allocated = {}
        /\ work' = [s \in Sequence |->
                     IF s \in 1 .. SlotCount THEN Item("pending", None) ELSE work[s]]
    BY <1>2 DEF Allocate, RecordAllocatedSlots
  <2>2. \A s \in Sequence : work'[s].status = IF s \in 1 .. SlotCount THEN "pending" ELSE "absent"
    BY <1>0, <2>1, SchedulerAssumption DEF ItemOrder, Sequence
  <2>3. QED
    BY <1>0, <2>2, SchedulerAssumption DEF ItemOrder, Sequence
<1>3. CASE Recover
  <2>1. \A s \in Sequence :
          /\ (work'[s].status \in Ungenerated) = (work[s].status \in Ungenerated)
          /\ (work'[s].status = "absent") = (work[s].status = "absent")
    BY <1>3 DEF Recover, RecoverInflightWork, ReadyItem, InFlight, LedgerConsistent, CaseMatchesStage
  <2>2. QED
    BY <1>0, <2>1 DEF ItemOrder
<1>4. CASE Commit
  <2>1. /\ job.sequence \in Sequence /\ work[job.sequence].status # "absent"
        /\ work' = [work EXCEPT ![job.sequence] = Item("terminal", None)]
    BY <1>4 DEF Commit, CommitTerminalOutcome, Control, Committing, CommitArguments
  <2>2. ASSUME NEW t \in Sequence, t < job.sequence, work[t].status \in Ungenerated PROVE FALSE
    <3>1. work[job.sequence].status \in Ungenerated /\ Deciding
      BY <1>0, <1>4, <2>1, <2>2 DEF ItemOrder, Commit, Deciding
    <3>2. job.back \in {"compile", "reject"}
      BY <1>4, <2>1, <3>1 DEF Claims, RunningHeld, Control, Committing, CommitArguments, Commit
    <3>3. GeneratingHeld(job.sequence) /\ (GeneratingHeld(t) => t \in batch)
      BY <1>0, <2>1, <2>2, <3>1, <3>2 DEF GeneratingHeld
    <3>4. QED
      BY <1>0, <2>1, <2>2, <3>1, <3>2, <3>3 DEF WorkOrder
  <2>3. QED
    BY <1>0, <2>1, <2>2 DEF ItemOrder
<1>5. ASSUME NEW s \in Sequence, ClaimsEpisode(s) \/ ClaimsSlot(s) PROVE ItemOrder'
  <2>1. \A t \in Sequence :
          /\ (work'[t].status \in Ungenerated) = (work[t].status \in Ungenerated)
          /\ (work'[t].status = "absent") = (work[t].status = "absent")
    BY <1>5 DEF ClaimsEpisode, ClaimsSlot, ClaimWork
  <2>2. QED
    BY <1>0, <2>1 DEF ItemOrder
<1>6. ASSUME NEW s \in Sequence, Returned(s) PROVE ItemOrder'
  BY <1>0, <1>6 DEF ItemOrder, Returned, ReadyItem, InFlight, LedgerConsistent, CaseMatchesStage
<1>7. ASSUME NEW s \in Sequence, NEW k \in Key, Compiled(s, k) PROVE ItemOrder'
  <2>1. /\ s \in batch /\ \A t \in batch : s <= t
        /\ work[s].status = "generating" /\ pc = "compile"
        /\ work' = [work EXCEPT ![s] = Item("compiled", None)]
    <3>1. batch \in SUBSET Nat /\ batch \in SUBSET Sequence
      BY <1>0 DEF Control
    <3>2. QED
      BY <1>7, <3>1, LeastIsLeast DEF Compiled, CompileItem, RecordTaskCase
  <2>2. ASSUME NEW t \in Sequence, t < s, work[t].status \in Ungenerated PROVE FALSE
    BY <1>0, <2>1, <2>2 DEF WorkOrder, GeneratingHeld, Deciding
  <2>3. QED
    BY <1>0, <2>1, <2>2 DEF ItemOrder
<1>8. QED
  BY <1>1, <1>2, <1>3, <1>4, <1>5, <1>6, <1>7, StepEffects

(* The items held for generation come before everything not yet generated. *)
LEMMA WorkOrderStep ==
  ASSUME Held, Held', WorkOrder, Next
  PROVE  WorkOrder'
<1>0. \A s \in Sequence : s \in Nat
  BY LimitAssumption DEF Sequence
<1>1. ItemOrder' /\ ItemOrder
  BY ItemOrderStep DEF WorkOrder, ItemOrder
<1>2. \A s, t \in Sequence :
        GeneratingHeld(s)' /\ ~GeneratingHeld(t)' /\ work'[t].status \in Ungenerated => s < t
  <2>1. \A t \in Sequence : work'[t].status \in Ungenerated => work[t].status \in Ungenerated
    BY StepEffects DEF Allocate, RecordAllocatedSlots, Recover, RecoverInflightWork, Commit,
       CommitTerminalOutcome, ClaimsEpisode, ClaimsSlot, ClaimWork, Returned, ReadyItem, Compiled,
       RecordTaskCase, Item, InFlight, Ungenerated, Allocated, Held, LedgerTypeOK,
       LedgerConsistent, CaseMatchesStage
  <2>2. CASE BeginBatch /\ batch' = First(BatchSize, WithStatus("pending"))
    <3>1. WithStatus("pending") \in SUBSET Sequence /\ BatchSize \in Nat
      BY SchedulerAssumption DEF WithStatus
    <3>2. /\ (batch' \subseteq WithStatus("pending") /\ pc = "generate" /\ pc' = "claim") \/ batch' = {}
          /\ \A s \in batch', t \in WithStatus("pending") \ batch' : s < t
          /\ batch = {} /\ UNCHANGED work
      BY <2>2, <3>1, FirstIsLowest DEF BeginBatch, ledgerVars, Held, Control, Place, Generating, Committing
    <3>3. ASSUME NEW s \in Sequence, NEW t \in Sequence, GeneratingHeld(s)', ~GeneratingHeld(t)',
                 work'[t].status \in Ungenerated
          PROVE  s < t
      <4>1. s \in batch' /\ t \notin batch' /\ work[s].status = "pending"
        BY <3>2, <3>3, <2>2 DEF GeneratingHeld, Deciding, BeginBatch, WithStatus
      <4>2. CASE work[t].status = "pending"
        BY <3>2, <4>1, <4>2 DEF WithStatus
      <4>3. CASE work[t].status = "generating"
        BY <2>2, <3>2, <4>3 DEF BeginBatch, Held, Claims, Driving, GeneratingHeld, Deciding
      <4>4. CASE work[t].status = "absent"
        BY <1>0, <1>1, <4>1, <4>4, SchedulerAssumption DEF ItemOrder, Sequence
      <4>5. QED
        BY <3>2, <3>3, <4>2, <4>3, <4>4 DEF Ungenerated
    <3>4. QED
      BY <3>3
  <2>3. QED
    BY <2>1, <2>2, HeldSlots DEF WorkOrder
<1>3. Deciding' /\ job'.back \in {"compile", "reject"} => \A s \in batch' : job'.sequence < s
  <2> USE DEF Deciding, mainVars, processVars, cacheVars, futureVars, todoVars
  <2>1. CASE StartStep BY <2>1 DEF StartStep, Allocate, Recover, StartDrive
  <2>2. CASE DriveStep
    BY <2>2 DEF DriveStep, DecideToStop, LeaveLoop, BeginDispatch, DispatchReturns, Collect,
       DispatchItem, ConfirmDispatch, Submit, StopDispatch, CommitTerminal, Held, Control, Committing
  <2>3. CASE GenerateStep
    <3>1. batch \in SUBSET Sequence
      BY DEF Held, Control
    <3>2. ASSUME NEW s \in Sequence, RejectItem(s) \/ CompileItem(s)
          PROVE  Deciding' => \A t \in batch' : job'.sequence < t
      <4>1. \A t \in batch \ {s} : s < t
        BY <3>1, <3>2, LeastComesFirst DEF RejectItem, CompileItem
      <4>2. QED
        BY <3>2, <4>1 DEF RejectItem, CompileItem, CommitTerminal
    <3>3. QED
      BY <2>3, <3>2 DEF GenerateStep, BeginBatch, ClaimBatch, ReturnBatch, CallGenerator,
         GeneratorReturns, EndBatch
  <2>4. CASE CommitStep
    <3>1. CASE JudgeReturns
      <4>1. job'.sequence = job.sequence /\ job'.back = job.back /\ batch' = batch
        BY <3>1 DEF JudgeReturns, Held, Control, CommitArguments, Committing
      <4>2. QED
        BY <3>1, <4>1 DEF JudgeReturns, WorkOrder
    <3>2. CASE Commit \/ RecordJudgment
      BY <3>2 DEF Commit, RecordJudgment, CommitReturns, Held, Control, CommitArguments, Committing
    <3>3. QED
      BY <2>4, <3>1, <3>2 DEF CommitStep, AskJudge, CallJudge, WorkOrder
  <2>5. CASE FinalizeStep
    BY <2>5 DEF FinalizeStep, Finish, Exit, Unwind, ProcessEnds, JudgeUnavailable, JudgeShadow
  <2>6. ASSUME NEW s \in Sequence, AgentStep(s) \/ AgentRaises(s)
        PROVE  UNCHANGED <<pc, job, batch>>
    BY <2>6 DEF AgentStep, AgentCalls, AgentCannotOpen, AgentContinues, AgentRaises
  <2>7. CASE Open \/ Kill \/ Cancel \/ Halted
    BY <2>7 DEF Open, Kill, ProcessEnds, Cancel, Halted, vars, WorkOrder
  <2>8. QED
    BY <2>1, <2>2, <2>3, <2>4, <2>5, <2>6, <2>7 DEF Next, MainStep, WorkOrder
<1>4. QED
  BY <1>1, <1>2, <1>3 DEF WorkOrder, ItemOrder

--------------------------------------------------------------------------------
(* The caches. *)

LEMMA CommitEffect ==
  ASSUME Held, Commit
  PROVE  /\ job.sequence \in Sequence /\ outcome[job.sequence] = None /\ pc = "commit"
         /\ job.back \in {"loop", "dispatch", "reject", "compile"}
         /\ outcome' = [outcome EXCEPT ![job.sequence] = [key |-> job.key, decision |-> job.decision]]
         /\ outcome'[job.sequence] # None
         /\ work[job.sequence].status \notin {"absent", "terminal"}
         /\ work' = [work EXCEPT ![job.sequence] = Item("terminal", None)]
         /\ UNCHANGED taskCase
         /\ Admitted' = IF job.decision = "admitted" THEN Admitted \cup {job.sequence} ELSE Admitted
<1>1. job \in CommitArguments /\ pc = "commit"
  BY DEF Commit, Held, Control, Committing
<1>2. /\ job.sequence \in Sequence /\ job.back \in {"loop", "dispatch", "reject", "compile"}
      /\ [key |-> job.key, decision |-> job.decision] \in Outcome
  BY <1>1 DEF CommitArguments, Outcome
<1>3. /\ outcome' = [outcome EXCEPT ![job.sequence] = [key |-> job.key, decision |-> job.decision]]
      /\ outcome[job.sequence] = None
      /\ work[job.sequence].status \notin {"absent", "terminal"}
      /\ work' = [work EXCEPT ![job.sequence] = Item("terminal", None)]
      /\ UNCHANGED taskCase
  BY DEF Commit, CommitTerminalOutcome
<1>4. outcome'[job.sequence] # None
  BY <1>2, <1>3, NoneAssumption DEF Held, LedgerTypeOK
<1>5. Admitted' = IF job.decision = "admitted" THEN Admitted \cup {job.sequence} ELSE Admitted
  BY <1>2, <1>3, <1>4 DEF Admitted, Held, LedgerTypeOK
<1>6. QED
  BY <1>1, <1>2, <1>3, <1>4, <1>5

(* accepted_count and admitted_semantic_keys against the outcome table. *)
Counted ==
    pc \notin Starting =>
        /\ accepted = Cardinality(Settled)
        /\ admittedKeys = {outcome[s].key : s \in Settled}

LEMMA CountedQuiet ==
  ASSUME Counted, UNCHANGED <<accepted, admittedKeys, outcome>>,
         pc # "judgment", pc' # "judgment", pc' \in Starting \/ pc \notin Starting
  PROVE  Counted'
  BY DEF Counted, Settled, Admitted

LEMMA AdmittedFinite == IsFiniteSet(Admitted) /\ Cardinality(Admitted) \in Nat
<1>1. Admitted \in SUBSET Sequence
  BY DEF Admitted
<1>2. QED
  BY <1>1, SequenceSetsFinite

(* commit_terminal has written what the caches are about to follow. *)
LEMMA CommitReturnsCounted ==
  ASSUME NEW S, NEW s, IsFiniteSet(S), s \notin S,
         accepted = Cardinality(S), admittedKeys = {outcome[t].key : t \in S},
         \A t \in S : outcome'[t] = outcome[t], outcome'[s].key = job.key,
         Admitted' = IF job.decision = "admitted" THEN S \cup {s} ELSE S,
         CommitReturns, pc' # "judgment"
  PROVE  Counted'
<1>1. Settled' = Admitted'
  BY DEF Settled, Admitted
<1>2. accepted' = Cardinality(Admitted')
  BY FS_AddElement DEF CommitReturns
<1>3. admittedKeys' = {outcome'[t].key : t \in Admitted'}
  BY DEF CommitReturns
<1>4. QED
  BY <1>1, <1>2, <1>3 DEF Counted

LEMMA CountedStep ==
  ASSUME Held, Held', Caches, Next
  PROVE  Counted'
<1> USE DEF Starting, mainVars, processVars, cacheVars, futureVars, todoVars
<1>0. Counted
  BY DEF Caches, Counted
<1>1. CASE StartStep
  <2>1. CASE Allocate \/ Recover
    BY <2>1 DEF Allocate, Recover, Counted
  <2>2. CASE StartDrive
    <3>1. AdmittedKeys = {outcome[s].key : s \in Admitted}
      BY NoneAssumption DEF AdmittedKeys, Caches
    <3>2. QED
      BY <2>2, <3>1 DEF StartDrive, Counted, Settled, Admitted, ledgerVars
  <2>3. QED
    BY <1>1, <2>1, <2>2 DEF StartStep
<1>2. CASE DriveStep
  <2>1. UNCHANGED <<accepted, admittedKeys, outcome>>
    BY <1>2 DEF DriveStep, DecideToStop, LeaveLoop, BeginDispatch, DispatchReturns, Collect,
       DispatchItem, ConfirmDispatch, Submit, ReturnWorkToReady, ClaimWork, ledgerVars
  <2>2. pc # "judgment" /\ pc' # "judgment" /\ pc \notin Starting
    BY <1>2 DEF DriveStep, DecideToStop, LeaveLoop, BeginDispatch, DispatchReturns, Collect,
       DispatchItem, ConfirmDispatch, Submit, StopDispatch, CommitTerminal
  <2>3. QED
    BY <1>0, <2>1, <2>2, CountedQuiet
<1>3. CASE GenerateStep
  <2>1. UNCHANGED <<accepted, admittedKeys, outcome>>
    BY <1>3, CallStepFrame DEF GenerateStep, BeginBatch, ClaimBatch, ReturnBatch, CallGenerator,
       GeneratorReturns, EndBatch, RejectItem, CompileItem, ReturnWorkToReady, ClaimWork,
       RecordTaskCase, ledgerVars
  <2>2. pc # "judgment" /\ pc' # "judgment" /\ pc \notin Starting
    BY <1>3 DEF GenerateStep, BeginBatch, ClaimBatch, ReturnBatch, CallGenerator,
       GeneratorReturns, EndBatch, RejectItem, CompileItem, CommitTerminal
  <2>3. QED
    BY <1>0, <2>1, <2>2, CountedQuiet
<1>4. CASE AskJudge \/ CallJudge \/ JudgeReturns
  <2>1. UNCHANGED <<accepted, admittedKeys, outcome>>
    BY <1>4, CallStepFrame DEF AskJudge, CallJudge, JudgeReturns, ledgerVars
  <2>2. pc # "judgment" /\ pc' # "judgment" /\ pc \notin Starting
    BY <1>4 DEF AskJudge, CallJudge, JudgeReturns
  <2>3. QED
    BY <1>0, <2>1, <2>2, CountedQuiet
<1>5. CASE Commit
  <2>1. accepted = Cardinality(Admitted) /\ admittedKeys = {outcome[t].key : t \in Admitted}
    BY <1>0, <1>5 DEF Counted, Commit, Settled
  <2>2. /\ job.sequence \notin Admitted /\ \A t \in Admitted : outcome'[t] = outcome[t]
        /\ outcome'[job.sequence].key = job.key
    BY <1>5, CommitEffect DEF Admitted, Held, LedgerTypeOK
  <2>3. CASE JudgeMode = "enforced"
    <3>1. Settled' = Admitted /\ UNCHANGED <<accepted, admittedKeys>>
      BY <1>5, <2>2, <2>3, CommitEffect DEF Commit, Settled, Admitted
    <3>2. QED
      BY <2>1, <2>2, <3>1 DEF Counted
  <2>4. CASE CommitReturns
    BY <1>5, <2>1, <2>2, <2>4, CommitEffect, CommitReturnsCounted, AdmittedFinite DEF CommitReturns
  <2>5. QED
    BY <1>5, <2>3, <2>4 DEF Commit
<1>6. CASE RecordJudgment
  <2> DEFINE S == Settled \ {job.sequence}
  <2>1. /\ accepted = Cardinality(Settled) /\ admittedKeys = {outcome[t].key : t \in Settled}
        /\ outcome[job.sequence] = [key |-> job.key, decision |-> job.decision]
        /\ outcome' = outcome /\ CommitReturns
        /\ job \in CommitArguments /\ outcome[job.sequence] # None
    BY <1>0, <1>6 DEF Counted, RecordJudgment, RecordQualityJudgment, Caches, Committing,
       Held, Control, Claims
  <2>2. job.sequence \in Sequence /\ pc' # "judgment"
    BY <2>1 DEF CommitArguments, CommitReturns
  <2>3. /\ Settled = S /\ job.sequence \notin S /\ IsFiniteSet(S)
        /\ Admitted' = IF job.decision = "admitted" THEN S \cup {job.sequence} ELSE S
    BY <1>6, <2>1, <2>2, AdmittedFinite, FS_RemoveElement DEF Settled, Admitted, RecordJudgment
  <2>4. /\ accepted = Cardinality(S) /\ admittedKeys = {outcome[t].key : t \in S}
        /\ \A t \in S : outcome'[t] = outcome[t]
        /\ outcome'[job.sequence].key = job.key
    <3>1. accepted = Cardinality(S) /\ admittedKeys = {outcome[t].key : t \in S}
      BY <2>1, <2>3
    <3>2. outcome'[job.sequence].key = job.key
      BY <2>1
    <3>3. QED
      BY <2>1, <3>1, <3>2
  <2> HIDE DEF S
  <2>5. QED
    BY <2>1, <2>2, <2>3, <2>4, CommitReturnsCounted
<1>7. CASE FinalizeStep
  <2>1. CASE Exit \/ Unwind
    BY <2>1 DEF Exit, Unwind, ProcessEnds, Counted
  <2>2. CASE Finish \/ \E s \in Sequence : JudgeUnavailable(s) \/ JudgeShadow(s)
    <3>1. UNCHANGED <<accepted, admittedKeys, outcome>>
      BY <2>2, CallStepFrame DEF Finish, JudgeUnavailable, JudgeShadow, RecordQualityJudgment,
         ledgerVars
    <3>2. pc # "judgment" /\ pc' # "judgment" /\ pc \notin Starting
      BY <2>2 DEF Finish, JudgeUnavailable, JudgeShadow
    <3>3. QED
      BY <1>0, <3>1, <3>2, CountedQuiet
  <2>3. QED
    BY <1>7, <2>1, <2>2 DEF FinalizeStep
<1>8. ASSUME NEW s \in Sequence, AgentStep(s) \/ AgentRaises(s) PROVE Counted'
  <2>1. UNCHANGED <<accepted, admittedKeys, outcome, pc, job>>
    BY <1>8, CallStepFrame DEF AgentStep, AgentCalls, AgentCannotOpen, AgentContinues,
       AgentRaises, ledgerVars
  <2>2. QED
    BY <1>0, <2>1 DEF Counted, Settled, Admitted
<1>9. CASE Open \/ Kill \/ Cancel \/ Halted
  BY <1>0, <1>9 DEF Open, Kill, ProcessEnds, Cancel, Halted, vars, ledgerVars, Counted, Settled,
     Admitted
<1>10. QED
  BY <1>1, <1>2, <1>3, <1>4, <1>5, <1>6, <1>7, <1>8, <1>9 DEF Next, MainStep, CommitStep

(* An item that is running, and whoever runs it. *)
LEMMA RunningItem ==
  ASSUME Held, NEW s \in Sequence, RunningHeld(s)
  PROVE  /\ s \in Nat /\ work[s].status = "running"
         /\ outcome[s] = None /\ taskCase[s] # None
<1>1. work[s] = Item("running", EpisodeOwner(s))
  BY DEF Held, Claims
<1>2. work[s].status = "running"
  BY <1>1 DEF Item
<1>3. outcome[s] = None /\ taskCase[s] # None
  BY <1>2 DEF Held, LedgerConsistent, TerminalIffOutcome, CaseMatchesStage
<1>4. s \in Nat
  BY LimitAssumption DEF Sequence
<1>5. QED
  BY <1>2, <1>3, <1>4

(* No two Episodes in flight share a key: the later one waited. *)
LEMMA RunningKeysDiffer ==
  ASSUME Held, Winners, NEW s \in inFlight, NEW t \in inFlight, taskCase[s] = taskCase[t]
  PROVE  s = t
<1>0. s \in Sequence /\ t \in Sequence
  BY DEF Held, Control
<1>1. /\ s \in Nat /\ work[s].status = "running" /\ outcome[s] = None
      /\ t \in Nat /\ work[t].status = "running" /\ outcome[t] = None
  BY <1>0, RunningItem DEF RunningHeld
<1>3. ~(s < t) /\ ~(t < s)
  BY <1>0, <1>1 DEF Winners, Contender
<1>4. QED
  BY <1>1, <1>3

LEMMA ActiveKeysStep ==
  ASSUME Held, Held', Caches, Winners, Next
  PROVE  activeKeys' = {taskCase'[s] : s \in inFlight'}
<1> USE DEF mainVars, processVars, cacheVars, futureVars, todoVars
<1>0. activeKeys = {taskCase[s] : s \in inFlight} /\ inFlight \subseteq Sequence
  BY DEF Caches, Held, Control
<1>1. ASSUME UNCHANGED <<activeKeys, inFlight, taskCase>>
      PROVE  activeKeys' = {taskCase'[s] : s \in inFlight'}
  BY <1>0, <1>1
<1>2. ASSUME activeKeys' = {}, inFlight' = {}
      PROVE  activeKeys' = {taskCase'[s] : s \in inFlight'}
  BY <1>2
<1>3. CASE StartStep
  BY <1>1, <1>3 DEF StartStep, Allocate, Recover, StartDrive, RecordAllocatedSlots,
     RecoverInflightWork, ledgerVars
<1>4. CASE DriveStep
  <2>1. ASSUME NEW s \in Sequence, Collect(s)
        PROVE  activeKeys' = {taskCase'[t] : t \in inFlight'}
    <3>1. /\ s \in inFlight /\ inFlight' = inFlight \ {s} /\ activeKeys' = activeKeys \ {taskCase[s]}
          /\ taskCase' = taskCase
      BY <2>1 DEF Collect, Finished, KeysWithout, ReturnWorkToReady, ledgerVars
    <3>2. \A t \in inFlight : taskCase[t] = taskCase[s] => t = s
      BY <3>1, RunningKeysDiffer
    <3>3. QED
      BY <1>0, <3>1, <3>2
  <2>2. ASSUME NEW s \in Sequence, ConfirmDispatch(s) \/ Submit(s)
        PROVE  activeKeys' = {taskCase'[t] : t \in inFlight'}
    BY <1>0, <1>1, <2>2 DEF ConfirmDispatch, Submit, ReturnWorkToReady, ledgerVars
  <2>3. CASE \E s \in Sequence : DispatchItem(s)
    BY <1>1, <2>3 DEF DispatchItem, ClaimWork, ledgerVars
  <2>4. QED
    BY <1>1, <1>4, <2>1, <2>2, <2>3 DEF DriveStep, DecideToStop, LeaveLoop, BeginDispatch,
       DispatchReturns, ledgerVars
<1>5. CASE GenerateStep
  <2>1. inFlight = {} /\ activeKeys = {} /\ UNCHANGED futureVars
    BY <1>0, <1>5 DEF GenerateStep, BeginBatch, ClaimBatch, ReturnBatch, CallGenerator,
       GeneratorReturns, EndBatch, RejectItem, CompileItem, Held, Control, Place, Committing,
       Dispatching
  <2>2. QED
    BY <1>2, <2>1
<1>6. CASE CommitStep
  BY <1>1, <1>6, CallStepFrame DEF CommitStep, AskJudge, CallJudge, JudgeReturns, Commit,
     RecordJudgment, CommitTerminalOutcome, RecordQualityJudgment, ledgerVars
<1>7. CASE FinalizeStep
  BY <1>1, <1>2, <1>7, CallStepFrame DEF FinalizeStep, Finish, Exit, Unwind, ProcessEnds,
     JudgeUnavailable, JudgeShadow, RecordQualityJudgment, ledgerVars
<1>8. ASSUME NEW s \in Sequence, AgentStep(s) \/ AgentRaises(s)
      PROVE  UNCHANGED <<activeKeys, inFlight, taskCase>>
  BY <1>8, CallStepFrame DEF AgentStep, AgentCalls, AgentCannotOpen, AgentContinues,
     AgentRaises, ledgerVars
<1>9. CASE Open \/ Kill \/ Cancel \/ Halted
  BY <1>1, <1>2, <1>9 DEF Open, Kill, ProcessEnds, Cancel, Halted, vars, ledgerVars
<1>10. QED
  BY <1>1, <1>3, <1>4, <1>5, <1>6, <1>7, <1>8, <1>9 DEF Next, MainStep

(* What a commit in progress carries. *)
Carried ==
    /\ pc \in Committing /\ job.decision # "rejected" =>
           job.key = taskCase[job.sequence] /\ job.key # None
    /\ pc \in Committing /\ job.decision = "admitted" =>
           job.back = "loop" /\ job.key \notin admittedKeys
    /\ pc = "judgment" => outcome[job.sequence] = [key |-> job.key, decision |-> job.decision]

LEMMA CarriedStep ==
  ASSUME Held, Held', Caches, Next
  PROVE  Carried'
<1> USE DEF Committing, mainVars, processVars, cacheVars, futureVars, todoVars
<1>0. Carried
  BY DEF Caches, Carried
<1>1. ASSUME pc' \notin Committing PROVE Carried'
  BY <1>1 DEF Carried
<1>2. ASSUME UNCHANGED <<pc, job, admittedKeys, taskCase, outcome>> PROVE Carried'
  BY <1>0, <1>2 DEF Carried
<1>3. CASE StartStep
  BY <1>1, <1>3 DEF StartStep, Allocate, Recover, StartDrive
<1>4. CASE DriveStep
  <2>1. ASSUME NEW s \in Sequence, Collect(s) PROVE Carried'
    <3>1. taskCase[s] # None
      BY <2>1, RunningItem DEF Collect, Finished, RunningHeld
    <3>2. CASE CommitTerminal(s, taskCase[s], call[s].result, "loop") /\ UNCHANGED ledgerVars
      <4>1. /\ job'.sequence = s /\ job'.key = taskCase[s] /\ job'.back = "loop"
            /\ job'.decision = "admitted" => taskCase[s] \notin admittedKeys
            /\ pc' # "judgment"
        BY <3>2 DEF CommitTerminal
      <4>2. QED
        BY <2>1, <3>1, <3>2, <4>1 DEF Carried, Collect, ledgerVars
    <3>3. QED
      BY <1>1, <2>1, <3>2 DEF Collect
  <2>2. ASSUME NEW s \in Sequence, DispatchItem(s) PROVE Carried'
    <3>1. work[s].status = "compiled" /\ taskCase[s] # None
      BY <2>2, LeastIsSequence DEF DispatchItem, Held, Control, Claims, LedgerConsistent,
         CaseMatchesStage
    <3>2. CASE \E d \in {"duplicate", "rejected"} :
                 CommitTerminal(s, taskCase[s], d, "dispatch") /\ UNCHANGED ledgerVars
      <4>1. /\ job'.sequence = s /\ job'.key = taskCase[s] /\ job'.decision # "admitted"
            /\ pc' # "judgment"
        BY <3>2 DEF CommitTerminal
      <4>2. QED
        BY <3>1, <3>2, <4>1 DEF Carried, ledgerVars
    <3>3. QED
      BY <1>1, <2>2, <3>2 DEF DispatchItem, StopDispatch
  <2>3. QED
    BY <1>1, <1>4, <2>1, <2>2 DEF DriveStep, DecideToStop, LeaveLoop, BeginDispatch,
       DispatchReturns, ConfirmDispatch, Submit, StopDispatch
<1>5. CASE GenerateStep
  <2>1. ASSUME NEW s \in Sequence, RejectItem(s) \/ CompileItem(s) PROVE Carried'
    <3>1. CASE pc' \in {"judge", "commit"} /\ job'.decision = "rejected"
      BY <3>1 DEF Carried
    <3>2. QED
      BY <1>1, <2>1, <3>1 DEF RejectItem, CompileItem, CommitTerminal
  <2>2. QED
    BY <1>1, <1>5, <2>1 DEF GenerateStep, BeginBatch, ClaimBatch, ReturnBatch, CallGenerator,
       GeneratorReturns, EndBatch
<1>6. CASE CommitStep
  <2>1. CASE AskJudge \/ CallJudge
    BY <1>2, <2>1, CallStepFrame DEF AskJudge, CallJudge, ledgerVars
  <2>2. CASE JudgeReturns
    <3>1. /\ job'.sequence = job.sequence /\ job'.back = job.back /\ job'.key = job.key
          /\ job'.decision \in {job.decision, "rejected"}
      BY <2>2 DEF JudgeReturns, Enforce, Held, Control, CommitArguments
    <3>2. QED
      BY <1>0, <2>2, <3>1 DEF JudgeReturns, Carried, ledgerVars
  <2>3. CASE Commit
    <3>1. CASE JudgeMode = "enforced"
      BY <1>0, <2>3, <3>1, CommitEffect DEF Commit, Carried, Held, LedgerTypeOK
    <3>2. QED
      BY <1>1, <2>3, <3>1, CommitEffect DEF Commit, CommitReturns
  <2>4. CASE RecordJudgment
    BY <1>1, <2>4 DEF RecordJudgment, CommitReturns, Held, Control, CommitArguments
  <2>5. QED
    BY <1>6, <2>1, <2>2, <2>3, <2>4 DEF CommitStep
<1>7. CASE FinalizeStep
  BY <1>1, <1>7 DEF FinalizeStep, Finish, Exit, Unwind, ProcessEnds, JudgeUnavailable, JudgeShadow
<1>8. ASSUME NEW s \in Sequence, AgentStep(s) \/ AgentRaises(s)
      PROVE  UNCHANGED <<pc, job, admittedKeys, taskCase, outcome>>
  BY <1>8, CallStepFrame DEF AgentStep, AgentCalls, AgentCannotOpen, AgentContinues,
     AgentRaises, ledgerVars
<1>9. CASE Open \/ Kill \/ Cancel \/ Halted
  BY <1>1, <1>2, <1>9 DEF Open, Kill, ProcessEnds, Cancel, Halted, vars, ledgerVars
<1>10. QED
  BY <1>2, <1>3, <1>4, <1>5, <1>6, <1>7, <1>8, <1>9 DEF Next, MainStep

LEMMA CachesStep ==
  ASSUME Held, Held', Caches, Winners, Next
  PROVE  Caches'
<1>1. \A s \in Admitted' : outcome'[s].key = taskCase'[s] /\ taskCase'[s] # None
  <2>1. CASE Commit
    <3>1. job.decision = "admitted" => job.key = taskCase[job.sequence] /\ job.key # None
      BY <2>1, CommitEffect DEF Caches, Committing
    <3>2. QED
      BY <2>1, <3>1, CommitEffect DEF Caches, Admitted, Held, LedgerTypeOK
  <2>2. CASE UNCHANGED <<taskCase, outcome>>
    BY <2>2 DEF Caches, Admitted
  <2>3. ASSUME NEW s \in Sequence, NEW k \in Key, Compiled(s, k)
        PROVE  \A t \in Admitted' : outcome'[t].key = taskCase'[t] /\ taskCase'[t] # None
    BY <2>3, NoneAssumption DEF Compiled, RecordTaskCase, Caches, Admitted, Held, LedgerTypeOK
  <2>4. QED
    BY <2>1, <2>2, <2>3, StepEffects DEF Allocate, RecordAllocatedSlots, Recover,
       RecoverInflightWork, ClaimsEpisode, ClaimsSlot, ClaimWork, Returned
<1>2. QED
  BY <1>1, CountedStep, ActiveKeysStep, CarriedStep DEF Caches, Counted, Carried

--------------------------------------------------------------------------------
(* Winners. *)

(* Every earlier task of the key was tried and lost. *)
Leads(s) ==
    \A t \in Sequence : t < s /\ taskCase[t] = taskCase[s] => outcome[t] # None /\ t \notin Admitted

LEMMA ContenderHasCase ==
  ASSUME Held, Caches, NEW s \in Sequence, Contender(s)
  PROVE  taskCase[s] # None /\ work[s].status \notin Ungenerated
<1>1. CASE work[s].status = "running"
  BY <1>1 DEF Held, LedgerConsistent, CaseMatchesStage, Ungenerated
<1>2. CASE s \in Admitted
  BY <1>2 DEF Caches, Admitted, Held, LedgerConsistent, TerminalIffOutcome, Ungenerated
<1>3. QED
  BY <1>1, <1>2 DEF Contender

(* What dispatch claims has no rival before it: the earlier tasks of its key *)
(* are not compiled (they would come first), not running and not admitted.   *)
LEMMA ClaimedLeads ==
  ASSUME Held, Caches, Winners, ProbeCovers, NEW s \in Sequence, ClaimsEpisode(s)
  PROVE  Leads(s) /\ taskCase[s] # None
<1>0. /\ pc = "dispatch" /\ probe # {} /\ s = Least(probe) /\ probe \in SUBSET Sequence
      /\ work[s].status = "compiled" /\ work'[s].status = "running"
  BY DEF ClaimsEpisode, DispatchItem, Held, Control, ClaimWork, Item, LedgerTypeOK
<1>1. /\ pc = "dispatch" /\ s \in probe /\ s = Least(probe) /\ probe \in SUBSET Sequence
      /\ taskCase[s] \notin admittedKeys /\ taskCase[s] \notin activeKeys
      /\ work[s].status = "compiled"
  BY <1>0, LeastIsSequence DEF ClaimsEpisode, DispatchItem, IsDuplicate, IsActive, ledgerVars
<1>2. taskCase[s] # None
  BY <1>1 DEF Held, LedgerConsistent, CaseMatchesStage
<1>3. ASSUME NEW t \in Sequence, t < s, taskCase[t] = taskCase[s], outcome[t] = None
      PROVE  FALSE
  <2>1. work[t].status \in {"compiled", "running"}
    BY <1>2, <1>3 DEF Held, LedgerTypeOK, WorkItem, WorkStatus, Ready, InFlight, LedgerConsistent,
       CaseMatchesStage, TerminalIffOutcome
  <2>2. t \notin probe
    <3>1. s \in Nat /\ t \in Nat
      BY LimitAssumption DEF Sequence
    <3>2. CASE t \in probe
      <4>1. s < t
        BY <1>1, <1>3, <3>1, <3>2, LeastComesFirst
      <4>2. QED
        BY <1>3, <3>1, <4>1
    <3>3. QED
      BY <3>2
  <2>3. CASE work[t].status = "compiled"
    BY <1>1, <1>3, <2>2, <2>3 DEF ProbeCovers, Place, Committing, Dispatching, InHand, Deciding,
       WithStatus
  <2>4. CASE work[t].status = "running"
    <3>1. t \in inFlight
      BY <1>1, <2>4 DEF Held, Claims, Driving, RunningHeld, Deciding
    <3>2. QED
      BY <1>1, <1>3, <3>1 DEF Caches
  <2>5. QED
    BY <2>1, <2>3, <2>4
<1>4. ASSUME NEW t \in Admitted, taskCase[t] = taskCase[s]
      PROVE  FALSE
  <2>1. Settled = Admitted /\ pc \notin Starting
    BY <1>1 DEF Settled, Starting
  <2>2. admittedKeys = {outcome[u].key : u \in Admitted} /\ outcome[t].key = taskCase[t]
    BY <2>1 DEF Caches
  <2>3. QED
    BY <1>1, <1>4, <2>2
<1>5. QED
  BY <1>2, <1>3, <1>4 DEF Leads

LEMMA LeadersStep ==
  ASSUME Held, Caches, WorkOrder, Winners, ProbeCovers, Next
  PROVE  (\A s \in Sequence : Contender(s) => Leads(s))'
<1>0. /\ \A s \in Sequence : Contender(s) => Leads(s)
      /\ \A s \in Sequence : s \in Nat
  BY LimitAssumption DEF Winners, Leads, Sequence
<1>1. ASSUME \A s \in Sequence : Contender(s)' => Contender(s), UNCHANGED <<taskCase, outcome>>
      PROVE  (\A s \in Sequence : Contender(s) => Leads(s))'
  BY <1>0, <1>1 DEF Leads, Admitted
<1>2. CASE UNCHANGED <<work, taskCase, outcome>>
  BY <1>1, <1>2 DEF Contender, Admitted
<1>3. CASE Allocate \/ Recover
  <2>1. /\ \A s \in Sequence : work'[s].status = "running" => work[s].status = "running"
        /\ UNCHANGED <<taskCase, outcome>>
    BY <1>3 DEF Allocate, RecordAllocatedSlots, Recover, RecoverInflightWork, Item, ReadyItem, InFlight
  <2>2. QED
    BY <1>1, <2>1 DEF Contender, Admitted
<1>4. ASSUME NEW s \in Sequence, ClaimsSlot(s) \/ Returned(s)
      PROVE  (\A t \in Sequence : Contender(t) => Leads(t))'
  <2>1. /\ \A t \in Sequence : work'[t].status = "running" => work[t].status = "running"
        /\ UNCHANGED <<taskCase, outcome>>
    BY <1>4 DEF ClaimsSlot, ClaimWork, Returned, Item, ReadyItem, InFlight, Held, LedgerTypeOK
  <2>2. QED
    BY <1>1, <2>1 DEF Contender, Admitted
<1>5. ASSUME NEW s \in Sequence, ClaimsEpisode(s)
      PROVE  (\A t \in Sequence : Contender(t) => Leads(t))'
  <2>1. /\ \A t \in Sequence \ {s} : work'[t] = work[t]
        /\ UNCHANGED <<taskCase, outcome>>
    BY <1>5 DEF ClaimsEpisode, ClaimWork, Held, LedgerTypeOK
  <2>2. \A t \in Sequence : Contender(t)' => Contender(t) \/ t = s
    BY <2>1 DEF Contender, Admitted
  <2>3. \A t \in Sequence : Contender(t)' => Leads(t)
    BY <1>0, <1>5, <2>2, ClaimedLeads
  <2>4. QED
    BY <2>1, <2>3 DEF Leads, Admitted
<1>6. ASSUME NEW s \in Sequence, NEW k \in Key, Compiled(s, k)
      PROVE  (\A t \in Sequence : Contender(t) => Leads(t))'
  <2>1. /\ work[s].status = "generating" /\ UNCHANGED outcome
        /\ work' = [work EXCEPT ![s] = Item("compiled", None)]
        /\ taskCase' = [taskCase EXCEPT ![s] = k]
    BY <1>6 DEF Compiled, RecordTaskCase
  <2>2. \A t \in Sequence : Contender(t)' => Contender(t) /\ t # s
    BY <2>1, ContenderHasCase DEF Contender, Admitted, Held, LedgerTypeOK, Item, Ungenerated
  <2>3. \A t \in Sequence : Contender(t) => ~(s < t)
    BY <1>0, <2>1, ContenderHasCase DEF WorkOrder, Ungenerated
  <2>4. QED
    BY <1>0, <2>1, <2>2, <2>3 DEF Leads, Admitted, Held, LedgerTypeOK
<1>7. CASE Commit
  <2> DEFINE j == job.sequence
  <2>1. /\ j \in Sequence /\ outcome[j] = None /\ UNCHANGED taskCase
        /\ \A t \in Sequence \ {j} : work'[t] = work[t] /\ outcome'[t] = outcome[t]
        /\ work'[j].status = "terminal" /\ outcome'[j] # None
        /\ Admitted' = IF job.decision = "admitted" THEN Admitted \cup {j} ELSE Admitted
    BY <1>7, CommitEffect DEF Held, LedgerTypeOK, Item
  <2>2. job.decision = "admitted" => Contender(j)
    <3>1. job.decision = "admitted" => RunningHeld(j)
      BY <1>7 DEF Caches, Commit, RunningHeld, Deciding, Committing
    <3>2. QED
      BY <2>1, <3>1, RunningItem DEF Contender
  <2>3. \A t \in Sequence : Contender(t)' => Contender(t)
    BY <2>1, <2>2 DEF Contender
  <2>4. ASSUME NEW s \in Sequence, Contender(s), NEW t \in Sequence, t < s, taskCase[t] = taskCase[s]
        PROVE  outcome'[t] # None /\ t \notin Admitted'
    <3>1. outcome[t] # None /\ t \notin Admitted
      BY <1>0, <2>4 DEF Leads
    <3>2. QED
      BY <2>1, <3>1
  <2>5. QED
    BY <2>1, <2>3, <2>4 DEF Leads
<1>8. QED
  BY <1>2, <1>3, <1>4, <1>5, <1>6, <1>7, StepEffects

(* A duplicate lost to an earlier admitted task, already when it was decided *)
(* to be one.                                                                *)
Beaten(s, key) == \E t \in Admitted : t < s /\ outcome[t].key = key

LEMMA BeatenStaysBeaten ==
  ASSUME Held, Next, NEW s, NEW key, Beaten(s, key)
  PROVE  Beaten(s, key)'
<1>1. PICK t \in Admitted : t < s /\ outcome[t].key = key
  BY DEF Beaten
<1>2. t \in Admitted' /\ outcome'[t] = outcome[t]
  <2>1. CASE Commit
    BY <1>1, <2>1, CommitEffect DEF Admitted, Held, LedgerTypeOK
  <2>2. CASE UNCHANGED outcome
    BY <1>1, <2>2 DEF Admitted
  <2>3. QED
    BY <2>1, <2>2, StepEffects DEF Allocate, RecordAllocatedSlots, Recover, RecoverInflightWork,
       ClaimsEpisode, ClaimsSlot, ClaimWork, Returned, Compiled, RecordTaskCase
<1>3. QED
  BY <1>1, <1>2 DEF Beaten

(* An open task whose key is admitted comes after the task that has it. *)
LEMMA AdmittedKeyBeats ==
  ASSUME Held, Caches, Winners, pc \in {"loop", "await", "dispatch"},
         NEW s \in Sequence, outcome[s] = None, taskCase[s] \in admittedKeys
  PROVE  Beaten(s, taskCase[s])
<1>1. Settled = Admitted /\ pc \notin Starting
  BY DEF Settled, Starting
<1>2. PICK t \in Admitted : outcome[t].key = taskCase[s]
  BY <1>1 DEF Caches
<1>3. t \in Sequence /\ t # s /\ taskCase[t] = taskCase[s] /\ t \in Nat /\ s \in Nat
  BY <1>2, LimitAssumption DEF Caches, Admitted, Sequence
<1>4. ~(s < t)
  BY <1>3 DEF Winners, Contender
<1>5. QED
  BY <1>2, <1>3, <1>4 DEF Beaten

LEMMA DecidedDuplicateIsBeaten ==
  ASSUME Held, Held', Caches, Winners, Next, Deciding', job'.decision = "duplicate"
  PROVE  Beaten(job.sequence, job.key)'
<1> USE DEF Deciding, mainVars, processVars, cacheVars, futureVars, todoVars
<1>1. CASE UNCHANGED <<pc, job>>
  BY <1>1, BeatenStaysBeaten DEF Winners, Beaten
<1>2. CASE StartStep
  BY <1>2 DEF StartStep, Allocate, Recover, StartDrive
<1>3. CASE DriveStep
  <2>1. ASSUME NEW s \in Sequence, NEW d \in Decision, NEW back, outcome[s] = None,
               pc \in {"loop", "await", "dispatch"}, taskCase[s] \in admittedKeys,
               CommitTerminal(s, taskCase[s], d, back), UNCHANGED ledgerVars
        PROVE  Beaten(job.sequence, job.key)'
    <3>1. Beaten(s, taskCase[s])
      BY <2>1, AdmittedKeyBeats
    <3>2. job'.sequence = s /\ job'.key = taskCase[s]
      BY <2>1 DEF CommitTerminal
    <3>3. QED
      BY <2>1, <3>1, <3>2 DEF Beaten, Admitted, ledgerVars
  <2>2. ASSUME NEW s \in Sequence, Collect(s) PROVE Beaten(job.sequence, job.key)'
    <3>1. outcome[s] = None
      BY <2>2, RunningItem DEF Collect, Finished, RunningHeld
    <3>2. CASE /\ call[s].result \in {"admitted", "rejected"}
               /\ CommitTerminal(s, taskCase[s], call[s].result, "loop")
               /\ UNCHANGED ledgerVars
      <4>1. taskCase[s] \in admittedKeys
        BY <3>2 DEF CommitTerminal
      <4>2. QED
        BY <2>1, <2>2, <3>1, <3>2, <4>1 DEF Collect, Decision
    <3>3. QED
      BY <2>2, <3>2 DEF Collect
  <2>3. ASSUME NEW s \in Sequence, DispatchItem(s) PROVE Beaten(job.sequence, job.key)'
    <3>1. outcome[s] = None
      <4>1. work[s].status = "compiled"
        BY <2>3, LeastIsSequence DEF DispatchItem, Held, Control, Claims
      <4>2. QED
        BY <4>1 DEF Held, LedgerConsistent, TerminalIffOutcome
    <3>2. CASE IsDuplicate(s) /\ CommitTerminal(s, taskCase[s], "duplicate", "dispatch")
               /\ UNCHANGED ledgerVars
      BY <2>1, <2>3, <3>1, <3>2 DEF IsDuplicate, DispatchItem, Decision
    <3>3. CASE CommitTerminal(s, taskCase[s], "rejected", "dispatch")
      BY <3>3 DEF CommitTerminal
    <3>4. QED
      BY <2>3, <3>2, <3>3 DEF DispatchItem, StopDispatch
  <2>4. QED
    BY <1>3, <2>2, <2>3 DEF DriveStep, DecideToStop, LeaveLoop, BeginDispatch, DispatchReturns,
       ConfirmDispatch, Submit, StopDispatch
<1>4. CASE GenerateStep
  <2>1. ASSUME NEW s \in Sequence, RejectItem(s) \/ CompileItem(s) PROVE FALSE
    BY <2>1 DEF RejectItem, CompileItem, CommitTerminal
  <2>2. QED
    BY <1>1, <1>4, <2>1 DEF GenerateStep, BeginBatch, ClaimBatch, ReturnBatch, CallGenerator,
       GeneratorReturns, EndBatch
<1>5. CASE CommitStep
  <2>1. CASE JudgeReturns
    <3>1. /\ job'.sequence = job.sequence /\ job'.key = job.key /\ job.decision = "duplicate"
      BY <2>1 DEF JudgeReturns, Enforce, Held, Control, Committing, CommitArguments
    <3>2. Beaten(job.sequence, job.key)
      BY <2>1, <3>1 DEF JudgeReturns, Winners, Beaten
    <3>3. QED
      BY <2>1, <3>1, <3>2 DEF JudgeReturns, Beaten, Admitted, ledgerVars
  <2>2. CASE Commit \/ RecordJudgment
    BY <2>2 DEF Commit, RecordJudgment, CommitReturns, Held, Control, Committing, CommitArguments
  <2>3. QED
    BY <1>1, <1>5, <2>1, <2>2 DEF CommitStep, AskJudge, CallJudge
<1>6. CASE FinalizeStep
  BY <1>1, <1>6 DEF FinalizeStep, Finish, Exit, Unwind, ProcessEnds, JudgeUnavailable, JudgeShadow
<1>7. ASSUME NEW s \in Sequence, AgentStep(s) \/ AgentRaises(s)
      PROVE  UNCHANGED <<pc, job>>
  BY <1>7 DEF AgentStep, AgentCalls, AgentCannotOpen, AgentContinues, AgentRaises
<1>8. CASE Open \/ Kill \/ Cancel \/ Halted
  BY <1>1, <1>8 DEF Open, Kill, ProcessEnds, Cancel, Halted, vars
<1>9. QED
  BY <1>1, <1>2, <1>3, <1>4, <1>5, <1>6, <1>7, <1>8 DEF Next, MainStep

LEMMA WinnersStep ==
  ASSUME Held, Held', Caches, WorkOrder, Winners, ProbeCovers, Next
  PROVE  Winners'
<1>1. \A s \in Sequence : outcome'[s] # None /\ outcome'[s].decision = "duplicate" =>
          Beaten(s, outcome[s].key)'
  <2>1. \A s \in Sequence : outcome[s] # None /\ outcome[s].decision = "duplicate" =>
          Beaten(s, outcome[s].key)
    BY DEF Winners, Beaten
  <2>2. ASSUME NEW s \in Sequence, outcome'[s] = outcome[s], outcome[s] # None,
               outcome[s].decision = "duplicate"
        PROVE  Beaten(s, outcome[s].key)'
    <3>1. Beaten(s, outcome[s].key)
      BY <2>1, <2>2
    <3>2. PICK key : key = outcome[s].key
      OBVIOUS
    <3>3. Beaten(s, key)'
      BY <3>1, <3>2, BeatenStaysBeaten
    <3>4. QED
      BY <2>2, <3>2, <3>3 DEF Beaten
  <2>3. CASE Commit
    <3>1. ASSUME NEW s \in Sequence, s = job.sequence, job.decision = "duplicate"
          PROVE  Beaten(s, outcome[s].key)'
      <4>1. PICK key : key = job.key
        OBVIOUS
      <4>2. Beaten(s, key)
        BY <2>3, <3>1, <4>1 DEF Commit, Deciding, Winners, Beaten
      <4>3. Beaten(s, key)'
        BY <4>2, BeatenStaysBeaten
      <4>4. outcome'[s].key = key
        BY <2>3, <3>1, <4>1, CommitEffect DEF Held, LedgerTypeOK
      <4>5. QED
        BY <4>3, <4>4 DEF Beaten
    <3>2. QED
      BY <2>2, <2>3, <3>1, CommitEffect DEF Held, LedgerTypeOK
  <2>4. CASE UNCHANGED outcome
    BY <2>2, <2>4
  <2>5. QED
    BY <2>3, <2>4, StepEffects DEF Allocate, RecordAllocatedSlots, Recover, RecoverInflightWork,
       ClaimsEpisode, ClaimsSlot, ClaimWork, Returned, Compiled, RecordTaskCase
<1>2. QED
  BY <1>1, LeadersStep, DecidedDuplicateIsBeaten DEF Winners, Leads, Beaten

--------------------------------------------------------------------------------
(* The probe of a dispatch, and the backlog it looks at. *)

LEMMA AcceptedIsCount ==
  ASSUME Caches, pc \in {"loop", "await", "generate"} \cup Dispatching
  PROVE  /\ accepted = Cardinality(Admitted) /\ accepted \in Nat
         /\ admittedKeys = {outcome[s].key : s \in Admitted}
<1>1. Settled = Admitted /\ pc \notin Starting
  BY DEF Settled, Starting, Dispatching
<1>2. QED
  BY <1>1, AdmittedFinite DEF Caches

(* One probe sees everything that is compiled. *)
LEMMA ProbeSeesAll ==
  ASSUME OneBatch, batch \subseteq Sequence
  PROVE  First(ProbeSize, WithStatus("compiled")) = WithStatus("compiled")
<1> DEFINE C == WithStatus("compiled")
           B == Backlog \cup batch
<1>1. C \in SUBSET Sequence /\ B \in SUBSET Sequence /\ C \in SUBSET B
  BY DEF WithStatus, Backlog
<1>2. Cardinality(C) <= Cardinality(B)
  BY <1>1, SequenceSetsFinite
<1>3. Cardinality(C) <= ProbeSize
  BY <1>1, <1>2, SequenceSetsFinite, SchedulerAssumption DEF OneBatch
<1>4. QED
  BY <1>1, <1>3, FirstIsLowest, SchedulerAssumption

(* With no Episode in flight and the target not met there is a free worker. *)
LEMMA FreeWorker ==
  ASSUME inFlight = {}, ~TargetReached, accepted \in Nat
  PROVE  Available > 0 /\ ~(Available <= 0)
<1>1. Cardinality(inFlight) = 0
  BY FS_EmptySet
<1>2. AcceptedTarget # None => AcceptedTarget \in Nat /\ AcceptedTarget > accepted
  BY SchedulerAssumption, LimitAssumption DEF TargetReached
<1>3. QED
  BY <1>1, <1>2, SchedulerAssumption DEF Available

LEMMA ProbeQuiet ==
  ASSUME ProbeCovers,
         UNCHANGED <<work, taskCase, accepted, pc, job, probe, inFlight, activeKeys>>
  PROVE  ProbeCovers'
  BY DEF ProbeCovers, Place, TargetReached, WithStatus, InHand, Deciding

LEMMA ProbeCoversStep ==
  ASSUME Held, Held', Caches, Caches', ProbeCovers, OneBatch, Next
  PROVE  ProbeCovers'
<1> USE DEF Committing, Dispatching, mainVars, processVars, cacheVars, futureVars, todoVars
<1>1. ASSUME Place' \notin Dispatching PROVE ProbeCovers'
  BY <1>1 DEF ProbeCovers
<1>2. CASE StartStep
  BY <1>1, <1>2 DEF StartStep, Allocate, Recover, StartDrive, Place
<1>3. CASE BeginDispatch
  <2>1. /\ pc' = "dispatch" /\ ~TargetReached /\ UNCHANGED <<work, taskCase, accepted, inFlight, activeKeys>>
        /\ probe' = IF Available > 0 THEN WithStatus("compiled") ELSE {}
    BY <1>3, ProbeSeesAll DEF BeginDispatch, ledgerVars, Held, Control
  <2>2. accepted \in Nat
    BY <1>3, AcceptedIsCount DEF BeginDispatch
  <2>3. inFlight = {} => Available > 0
    BY <2>1, <2>2, FreeWorker
  <2>4. QED
    BY <2>1, <2>3 DEF ProbeCovers, Place, TargetReached, WithStatus, InHand, Deciding
<1>4. ASSUME NEW s \in Sequence, DispatchItem(s) PROVE ProbeCovers'
  <2>a. /\ pc = "dispatch" /\ s \in probe /\ work[s].status = "compiled"
        /\ UNCHANGED <<accepted, inFlight, activeKeys, taskCase>>
    BY <1>4, LeastIsSequence DEF DispatchItem, Held, Control, Claims, ClaimWork, ledgerVars
  <2>b. /\ ~TargetReached /\ ~TargetReached'
        /\ \A t \in WithStatus("compiled") \ probe : taskCase[t] \in activeKeys
        /\ inFlight = {} => WithStatus("compiled") \subseteq probe
    BY <2>a DEF ProbeCovers, Place, InHand, Deciding, TargetReached
  <2>1. CASE Available <= 0 /\ probe' = {} /\ UNCHANGED <<ledgerVars, pc>>
    <3>1. inFlight # {}
      <4>1. accepted \in Nat
        BY <2>a, AcceptedIsCount
      <4>2. QED
        BY <2>1, <2>b, <4>1, FreeWorker
    <3>2. QED
      BY <2>1, <2>a, <2>b, <3>1 DEF ProbeCovers, Place
  <2>2. CASE probe' = probe \ {s} /\ pc' \in {"judge", "commit"} /\ job'.sequence = s
             /\ job'.back = "dispatch" /\ UNCHANGED ledgerVars
    BY <2>2, <2>a, <2>b DEF ProbeCovers, Place, InHand, Deciding, WithStatus, ledgerVars
  <2>3. CASE IsActive(s) /\ probe' = probe \ {s} /\ UNCHANGED <<ledgerVars, pc>>
    <3>1. inFlight # {}
      BY <2>3 DEF IsActive, Caches
    <3>2. QED
      BY <2>3, <2>a, <2>b, <3>1 DEF IsActive, ProbeCovers, Place, WithStatus, ledgerVars
  <2>4. CASE ClaimWork(s, EpisodeOwner(s), "running") /\ pc' = "submit" /\ probe' = probe
    <3>1. WithStatus("compiled")' \subseteq WithStatus("compiled")
      BY <2>4 DEF ClaimWork, WithStatus, Item, Held, LedgerTypeOK
    <3>2. QED
      BY <2>4, <2>a, <2>b, <3>1 DEF ProbeCovers, Place
  <2>5. CASE pc' = "loop"
    BY <1>1, <2>5 DEF Place
  <2>6. QED
    BY <1>4, <2>1, <2>2, <2>3, <2>4, <2>5 DEF DispatchItem, StopDispatch, CommitTerminal
<1>5. ASSUME NEW s \in Sequence, ConfirmDispatch(s) \/ Submit(s) PROVE ProbeCovers'
  <2>1. CASE pc' = "loop"
    BY <1>1, <2>1 DEF Place
  <2>2. CASE pc' = "dispatch"
    <3>1. /\ pc \in Submitting /\ probe' = probe \ {s} /\ inFlight' = inFlight \cup {s}
          /\ activeKeys' = activeKeys \cup {taskCase[s]} /\ s = Least(probe)
          /\ UNCHANGED <<work, taskCase, accepted>>
      BY <1>5, <2>2 DEF ConfirmDispatch, Submit, StopDispatch, ledgerVars
    <3>2. work[s].status = "running" /\ s \in probe
      BY <3>1, RunningItem, LeastIsSequence DEF RunningHeld, Held, Control
    <3>3. QED
      BY <2>2, <3>1, <3>2 DEF ProbeCovers, Place, InHand, Deciding, WithStatus, TargetReached
  <2>3. CASE pc' = "submitting"
    <3>1. pc = "submit" /\ UNCHANGED <<work, taskCase, accepted, inFlight, activeKeys, probe, job>>
      BY <1>5, <2>3 DEF ConfirmDispatch, Submit, StopDispatch, ledgerVars
    <3>2. QED
      BY <2>3, <3>1 DEF ProbeCovers, Place, InHand, Deciding, WithStatus, TargetReached
  <2>4. QED
    BY <1>5, <2>1, <2>2, <2>3 DEF ConfirmDispatch, Submit, StopDispatch
<1>6. CASE DriveStep
  <2>1. ASSUME NEW s \in Sequence, Collect(s) PROVE ProbeCovers'
    BY <1>1, <2>1 DEF Collect, CommitTerminal, Place
  <2>2. QED
    BY <1>1, <1>3, <1>4, <1>5, <1>6, <2>1 DEF DriveStep, DecideToStop, LeaveLoop, DispatchReturns, Place
<1>7. CASE GenerateStep
  <2>1. ASSUME NEW s \in Sequence, RejectItem(s) \/ CompileItem(s) PROVE ProbeCovers'
    BY <1>1, <2>1 DEF RejectItem, CompileItem, CommitTerminal, Place
  <2>2. QED
    BY <1>1, <1>7, <2>1 DEF GenerateStep, BeginBatch, ClaimBatch, ReturnBatch, CallGenerator,
       GeneratorReturns, EndBatch, Place
<1>8. CASE CommitStep
  <2>1. CASE AskJudge \/ CallJudge
    BY <2>1, ProbeQuiet, CallStepFrame DEF AskJudge, CallJudge, ledgerVars
  <2>2. CASE JudgeReturns
    <3>1. job'.sequence = job.sequence /\ job'.back = job.back
      BY <2>2 DEF JudgeReturns, Held, Control, CommitArguments
    <3>2. QED
      BY <2>2, <3>1 DEF JudgeReturns, ProbeCovers, Place, TargetReached, WithStatus, InHand,
         Deciding, ledgerVars
  <2>3. CASE Commit
    <3>1. job.back = "dispatch" => UNCHANGED accepted
      BY <2>3 DEF Caches, Commit, CommitReturns
    <3>2. /\ Place = job.back /\ Place' = job.back /\ ~Deciding'
          /\ UNCHANGED <<taskCase, probe, inFlight, activeKeys>>
          /\ WithStatus("compiled")' \subseteq WithStatus("compiled") \ {job.sequence}
      BY <2>3, CommitEffect DEF Commit, CommitReturns, Place, Deciding, WithStatus, Item, Held,
         LedgerTypeOK
    <3>3. InHand \subseteq {job.sequence} /\ InHand' = {}
      BY <3>2 DEF InHand
    <3>4. CASE job.back # "dispatch"
      BY <1>1, <2>3, <3>2, <3>4, CommitEffect
    <3>5. CASE job.back = "dispatch"
      BY <3>1, <3>2, <3>3, <3>5 DEF ProbeCovers, TargetReached
    <3>6. QED
      BY <3>4, <3>5
  <2>4. CASE RecordJudgment
    <3>1. job.back \in {"loop", "dispatch", "reject", "compile"}
      BY <2>4 DEF RecordJudgment, Held, Control, CommitArguments
    <3>2. job.back = "dispatch" => UNCHANGED accepted
      BY <2>4 DEF Caches, RecordJudgment, CommitReturns
    <3>3. /\ Place = job.back /\ Place' = job.back /\ ~Deciding' /\ ~Deciding
          /\ UNCHANGED <<work, taskCase, probe, inFlight, activeKeys>>
      BY <2>4, <3>1 DEF RecordJudgment, RecordQualityJudgment, CommitReturns, Place, Deciding
    <3>4. CASE job.back # "dispatch"
      BY <1>1, <3>1, <3>3, <3>4
    <3>5. CASE job.back = "dispatch"
      BY <3>2, <3>3, <3>5 DEF ProbeCovers, TargetReached, InHand, WithStatus
    <3>6. QED
      BY <3>4, <3>5
  <2>5. QED
    BY <1>8, <2>1, <2>2, <2>3, <2>4 DEF CommitStep
<1>9. CASE FinalizeStep
  BY <1>1, <1>9 DEF FinalizeStep, Finish, Exit, Unwind, ProcessEnds, JudgeUnavailable,
     JudgeShadow, Place
<1>10. ASSUME NEW s \in Sequence, AgentStep(s) \/ AgentRaises(s) PROVE ProbeCovers'
  BY <1>10, ProbeQuiet, CallStepFrame DEF AgentStep, AgentCalls, AgentCannotOpen,
     AgentContinues, AgentRaises, ledgerVars
<1>11. CASE Open \/ Kill \/ Cancel \/ Halted
  BY <1>1, <1>11, ProbeQuiet DEF Open, Kill, ProcessEnds, Cancel, Halted, vars, ledgerVars, Place
<1>12. QED
  BY <1>2, <1>6, <1>7, <1>8, <1>9, <1>10, <1>11 DEF Next, MainStep

(* One batch at a time: outside BeginBatch the backlog never grows. *)
LEMMA BacklogShrinks ==
  ASSUME Held, Held', Next
  PROVE  BeginBatch \/ (Backlog \cup batch)' \subseteq Backlog \cup batch
<1> USE DEF Backlog, WithStatus
<1>0. batch \subseteq Sequence /\ batch' \subseteq Sequence
  BY DEF Held, Control
<1>1. BeginBatch \/ batch' \subseteq batch
  <2>1. CASE StartStep BY <2>1 DEF StartStep, Allocate, Recover, StartDrive, todoVars
  <2>2. CASE DriveStep
    BY <2>2 DEF DriveStep, DecideToStop, LeaveLoop, BeginDispatch, DispatchReturns, Collect,
       DispatchItem, ConfirmDispatch, Submit, todoVars
  <2>3. CASE GenerateStep
    BY <2>3 DEF GenerateStep, ClaimBatch, ReturnBatch, CallGenerator, GeneratorReturns,
       EndBatch, RejectItem, CompileItem, mainVars, todoVars
  <2>4. CASE CommitStep
    BY <2>4 DEF CommitStep, AskJudge, CallJudge, JudgeReturns, Commit, RecordJudgment, mainVars,
       todoVars
  <2>5. CASE FinalizeStep
    BY <2>5 DEF FinalizeStep, Finish, Exit, Unwind, ProcessEnds, JudgeUnavailable, JudgeShadow,
       mainVars, todoVars
  <2>6. ASSUME NEW s \in Sequence, AgentStep(s) \/ AgentRaises(s) PROVE UNCHANGED batch
    BY <2>6 DEF AgentStep, AgentCalls, AgentCannotOpen, AgentContinues, AgentRaises, mainVars,
       todoVars
  <2>7. QED
    BY <2>1, <2>2, <2>3, <2>4, <2>5, <2>6 DEF Next, MainStep, Open, Kill, ProcessEnds, Cancel,
       Halted, vars, mainVars, todoVars
<1>2. ASSUME NEW s \in Sequence, work'[s].status \in {"compiled", "running", "generating"}
      PROVE  work[s].status \in {"compiled", "running", "generating"} \/ s \in batch
  <2> USE DEF Item, InFlight, Held, LedgerTypeOK
  <2>1. CASE UNCHANGED work BY <1>2, <2>1
  <2>2. CASE Allocate BY <1>2, <2>2 DEF Allocate, RecordAllocatedSlots
  <2>3. CASE Recover BY <1>2, <2>3 DEF Recover, RecoverInflightWork
  <2>4. CASE Commit
    BY <1>2, <2>4, CommitEffect
  <2>5. ASSUME NEW t \in Sequence, ClaimsEpisode(t)
        PROVE  work[s].status \in {"compiled", "running", "generating"}
    BY <1>2, <2>5 DEF ClaimsEpisode, ClaimWork
  <2>6. ASSUME NEW t \in Sequence, ClaimsSlot(t)
        PROVE  work[s].status \in {"compiled", "running", "generating"} \/ s \in batch
    BY <1>2, <2>6 DEF ClaimsSlot, ClaimWork
  <2>7. ASSUME NEW t \in Sequence, Returned(t)
        PROVE  work[s].status \in {"compiled", "running", "generating"}
    BY <1>2, <2>7 DEF Returned
  <2>8. ASSUME NEW t \in Sequence, NEW k \in Key, Compiled(t, k)
        PROVE  work[s].status \in {"compiled", "running", "generating"}
    BY <1>2, <2>8 DEF Compiled, RecordTaskCase
  <2>9. QED
    BY <2>1, <2>2, <2>3, <2>4, <2>5, <2>6, <2>7, <2>8, StepEffects
<1>3. QED
  BY <1>0, <1>1, <1>2

LEMMA OneBatchStep ==
  ASSUME Held, Held', ProbeCovers, OneBatch, Next
  PROVE  OneBatch'
<1> USE DEF mainVars, processVars, cacheVars, futureVars, todoVars
<1>1. Cardinality(Backlog \cup batch)' <= BatchSize
  <2>1. CASE BeginBatch
    <3>1. /\ pc = "generate" /\ inFlight = {} /\ batch = {} /\ UNCHANGED work
          /\ batch' = {} \/ batch' = First(BatchSize, WithStatus("pending"))
      BY <2>1 DEF BeginBatch, Held, Control, Place, Committing, Dispatching, Generating, ledgerVars
    <3>2. WithStatus("compiled") = {} /\ WithStatus("running") = {} /\ WithStatus("generating") = {}
      BY <3>1 DEF OneBatch, WithStatus, Held, Claims, Driving, RunningHeld, GeneratingHeld, Deciding
    <3>3. (Backlog \cup batch)' = batch'
      BY <3>1, <3>2 DEF Backlog, WithStatus
    <3>4. WithStatus("pending") \in SUBSET Sequence
      BY DEF WithStatus
    <3>5. Cardinality(batch') <= BatchSize
      <4>1. BatchSize \in Nat /\ Cardinality({}) <= BatchSize
        BY FS_EmptySet, SchedulerAssumption
      <4>2. Cardinality(First(BatchSize, WithStatus("pending"))) <= BatchSize
        BY <3>4, <4>1, FirstIsLowest
      <4>3. QED
        BY <3>1, <4>1, <4>2
    <3>6. QED
      BY <3>3, <3>5
  <2>2. CASE (Backlog \cup batch)' \subseteq Backlog \cup batch
    <3>1. Backlog \cup batch \in SUBSET Sequence
      BY DEF Backlog, WithStatus, Held, Control
    <3>2. Cardinality((Backlog \cup batch)') <= Cardinality(Backlog \cup batch)
      BY <2>2, <3>1, SequenceSetsFinite
    <3>3. (Backlog \cup batch)' \in SUBSET Sequence
      BY <2>2, <3>1
    <3>4. QED
      BY <3>1, <3>2, <3>3, SequenceSetsFinite, SchedulerAssumption DEF OneBatch
  <2>3. QED
    BY <2>1, <2>2, BacklogShrinks
<1>2. pc' = "generate" => WithStatus("compiled")' = {}
  <2>1. CASE UNCHANGED <<pc, work>>
    BY <2>1 DEF OneBatch, WithStatus
  <2>2. CASE DispatchReturns
    BY <2>2 DEF DispatchReturns, ProbeCovers, Place, Committing, Dispatching, InHand, Deciding,
       WithStatus, ledgerVars
  <2>3. CASE pc' # "generate"
    BY <2>3
  <2>4. CASE StartStep BY <2>4 DEF StartStep, Allocate, Recover, StartDrive
  <2>5. CASE DriveStep
    BY <2>2, <2>5 DEF DriveStep, DecideToStop, LeaveLoop, BeginDispatch, Collect, DispatchItem,
       ConfirmDispatch, Submit, StopDispatch, CommitTerminal
  <2>6. CASE GenerateStep
    <3>1. CASE CallGenerator
      BY <2>1, <3>1, CallStepFrame DEF CallGenerator
    <3>2. ASSUME NEW s \in Sequence, NEW back, CommitTerminal(s, None, "rejected", back)
          PROVE  pc' # "generate"
      BY <3>2 DEF CommitTerminal
    <3>3. ASSUME NEW s \in Sequence, RejectItem(s) \/ CompileItem(s) PROVE pc' # "generate"
      BY <3>2, <3>3 DEF RejectItem, CompileItem
    <3>4. QED
      BY <2>3, <2>6, <3>1, <3>3 DEF GenerateStep, BeginBatch, ClaimBatch, ReturnBatch,
         GeneratorReturns, EndBatch
  <2>7. CASE CommitStep
    <3>1. pc \in Committing => job.back # "generate"
      BY DEF Held, Control, CommitArguments
    <3>2. QED
      BY <2>7, <3>1 DEF CommitStep, AskJudge, CallJudge, JudgeReturns, Commit, RecordJudgment,
         CommitReturns, Committing
  <2>8. CASE FinalizeStep
    BY <2>8 DEF FinalizeStep, Finish, Exit, Unwind, ProcessEnds, JudgeUnavailable, JudgeShadow
  <2>9. ASSUME NEW s \in Sequence, AgentStep(s) \/ AgentRaises(s)
        PROVE  UNCHANGED <<pc, work>>
    BY <2>9, CallStepFrame DEF AgentStep, AgentCalls, AgentCannotOpen, AgentContinues,
       AgentRaises, ledgerVars
  <2>10. QED
    BY <2>1, <2>4, <2>5, <2>6, <2>7, <2>8, <2>9 DEF Next, MainStep, Open, Kill, ProcessEnds,
       Cancel, Halted, vars, ledgerVars
<1>3. stopReason' # "scheduler_no_progress"
  <2>0. stopReason # "scheduler_no_progress"
    BY DEF OneBatch
  <2>1. CASE StartStep BY <2>0, <2>1 DEF StartStep, Allocate, Recover, StartDrive
  <2>2. CASE DispatchReturns
    BY <2>0, <2>2 DEF DispatchReturns, ProbeCovers, Place, Committing, Dispatching, InHand, Deciding
  <2>3. CASE DriveStep
    BY <2>0, <2>2, <2>3 DEF DriveStep, DecideToStop, LeaveLoop, BeginDispatch, Collect,
       DispatchItem, ConfirmDispatch, Submit, StopDispatch
  <2>4. CASE GenerateStep
    BY <2>0, <2>4 DEF GenerateStep, BeginBatch, ClaimBatch, ReturnBatch, CallGenerator,
       GeneratorReturns, EndBatch, RejectItem, CompileItem, Held, Calls, CallEnds, Thread, Main
  <2>5. CASE CommitStep
    BY <2>0, <2>5 DEF CommitStep, AskJudge, CallJudge, JudgeReturns, Commit, RecordJudgment
  <2>6. CASE FinalizeStep
    BY <2>0, <2>6, AbsenceAssumption DEF StopReason, FinalizeStep, Finish, Exit, Unwind,
       ProcessEnds, JudgeUnavailable, JudgeShadow
  <2>7. ASSUME NEW s \in Sequence, AgentStep(s) \/ AgentRaises(s) PROVE UNCHANGED stopReason
    BY <2>7 DEF AgentStep, AgentCalls, AgentCannotOpen, AgentContinues, AgentRaises
  <2>8. QED
    BY <2>0, <2>1, <2>3, <2>4, <2>5, <2>6, <2>7, AbsenceAssumption DEF StopReason, Next, MainStep,
       Open, Kill, ProcessEnds, Cancel, Halted, vars
<1>4. QED
  BY <1>1, <1>2, <1>3 DEF OneBatch

--------------------------------------------------------------------------------
(* The target. *)

(* Compiled, with or without a worker, and not decided. *)
Awaits(t) == work[t].status \in {"compiled", "running"}

LEMMA RivalsFinite ==
  /\ IsFiniteSet(RivalKeys) /\ Cardinality(RivalKeys) \in Nat
  /\ \A K \in SUBSET RivalKeys : IsFiniteSet(K) /\ Cardinality(K) <= Cardinality(RivalKeys)
<1> DEFINE T == {u \in WithStatus("compiled") \cup WithStatus("running") : Reached(u)}
           K == {taskCase[t] : t \in T}
<1>1. T \in SUBSET Sequence
  BY DEF WithStatus
<1>2. IsFiniteSet(K)
  BY <1>1, KeysOfTasks
<1>3. RivalKeys \subseteq K
  BY DEF RivalKeys
<1>4. IsFiniteSet(RivalKeys)
  BY <1>2, <1>3, FS_Subset
<1>5. QED
  BY <1>4, FS_Subset, FS_CardinalityType

(* The keys of the rivals, one by one. *)
LEMMA RivalKey ==
  ASSUME NEW k
  PROVE  k \in RivalKeys <=>
           /\ k \notin AdmittedKeys
           /\ \E t, s \in Sequence : Awaits(t) /\ Contender(s) /\ t <= s /\ k = taskCase[t]
  BY DEF RivalKeys, WithStatus, Reached, Awaits

(* A step that admits nothing and gives no key a new task with a contender   *)
(* after it keeps within the target.                                         *)
LEMMA FewerRivals ==
  ASSUME WithinTarget, Admitted' = Admitted, RivalKeys' \subseteq RivalKeys
  PROVE  WithinTarget'
<1>1. Cardinality(RivalKeys') <= Cardinality(RivalKeys) /\ Cardinality(RivalKeys') \in Nat
  BY RivalsFinite, FS_CardinalityType
<1>2. Cardinality(Admitted') = Cardinality(Admitted) /\ Cardinality(Admitted) \in Nat
  BY AdmittedFinite
<1>3. Cardinality(RivalKeys)' = Cardinality(RivalKeys') /\ Cardinality(Admitted)' = Cardinality(Admitted')
  OBVIOUS
<1>4. QED
  BY <1>1, <1>2, <1>3, RivalsFinite, SchedulerAssumption, LimitAssumption DEF WithinTarget

LEMMA NoNewRivals ==
  ASSUME UNCHANGED outcome,
         \A s \in Sequence : Contender(s)' => Contender(s),
         \A t \in Sequence : Awaits(t)' /\ (\E s \in Sequence : Contender(s) /\ t <= s) =>
             Awaits(t) /\ taskCase'[t] = taskCase[t]
  PROVE  Admitted' = Admitted /\ RivalKeys' \subseteq RivalKeys
<1>1. Admitted' = Admitted /\ AdmittedKeys' = AdmittedKeys
  BY DEF Admitted, AdmittedKeys
<1>2. ASSUME NEW k, k \in RivalKeys' PROVE k \in RivalKeys
  <2>1. k \notin AdmittedKeys
    BY <1>1, <1>2 DEF RivalKeys
  <2>2. PICK t \in Sequence, s \in Sequence :
             Awaits(t)' /\ Contender(s)' /\ t <= s /\ k = taskCase'[t]
    BY <1>2 DEF RivalKeys, WithStatus, Reached, Awaits
  <2>3. QED
    BY <2>1, <2>2, RivalKey
<1>3. QED
  BY <1>1, <1>2

(* A claim adds at most the key of the claimed task, and only while the      *)
(* target leaves room for what is in flight.                                 *)
LEMMA ClaimWithinTarget ==
  ASSUME Held, Caches, ProbeCovers, WithinTarget, NEW s \in Sequence, ClaimsEpisode(s)
  PROVE  WithinTarget'
<1> DEFINE k == taskCase[s]
<1>1. /\ pc = "dispatch" /\ probe # {} /\ s = Least(probe) /\ probe \in SUBSET Sequence
      /\ Available > 0 /\ k \notin admittedKeys
      /\ work[s].status = "compiled" /\ work' = [work EXCEPT ![s] = Item("running", EpisodeOwner(s))]
      /\ UNCHANGED <<taskCase, outcome>>
  BY DEF ClaimsEpisode, DispatchItem, IsDuplicate, Held, Control, ClaimWork, Item, LedgerTypeOK,
     ledgerVars
<1>2. \A t \in Sequence : Awaits(t)' = Awaits(t) /\ Contender(t)' = (Contender(t) \/ t = s)
  BY <1>1 DEF Awaits, Contender, Item, Held, LedgerTypeOK, Admitted
<1>3. Admitted' = Admitted /\ AdmittedKeys' = AdmittedKeys
  BY <1>1 DEF Admitted, AdmittedKeys
<1>4. /\ accepted = Cardinality(Admitted) /\ accepted \in Nat
      /\ AdmittedKeys \subseteq admittedKeys
  BY <1>1, AcceptedIsCount DEF AdmittedKeys, Dispatching
<1>5. \A t \in Sequence : t \in Nat
  BY LimitAssumption DEF Sequence
<1>6. \A t \in inFlight : t \in Sequence /\ Awaits(t) /\ Contender(t) /\ t <= t
  BY <1>5, RunningItem DEF RunningHeld, Awaits, Contender, Held, Control
<1>7. \A t \in Sequence : Awaits(t) /\ t \notin probe => taskCase[t] \in activeKeys
  <2> TAKE t \in Sequence
  <2>1. CASE work[t].status = "compiled"
    BY <1>1, <2>1 DEF ProbeCovers, Place, Committing, Dispatching, InHand, Deciding, WithStatus
  <2>2. CASE work[t].status = "running"
    <3>1. t \in inFlight
      BY <1>1, <2>2 DEF Held, Claims, Driving, RunningHeld, Deciding
    <3>2. QED
      BY <3>1 DEF Caches
  <2>3. QED
    BY <2>1, <2>2 DEF Awaits
<1>8. \A key \in activeKeys : key \in AdmittedKeys \/ key \in RivalKeys
  BY <1>6, RivalKey DEF Caches
<1>9. RivalKeys' \subseteq RivalKeys \cup {k}
  <2> SUFFICES ASSUME NEW key, key \in RivalKeys', key # k PROVE key \in RivalKeys
    OBVIOUS
  <2>1. key \notin AdmittedKeys
    BY <1>3 DEF RivalKeys
  <2>2. PICK t \in Sequence, c \in Sequence :
             Awaits(t)' /\ Contender(c)' /\ t <= c /\ key = taskCase'[t]
    BY DEF RivalKeys, WithStatus, Reached, Awaits
  <2>3. Awaits(t) /\ (Contender(c) \/ c = s) /\ key = taskCase[t]
    BY <1>1, <1>2, <2>2
  <2>4. CASE Contender(c)
    BY <2>1, <2>2, <2>3, <2>4, RivalKey
  <2>5. CASE c = s
    <3>1. t # s
      BY <2>3
    <3>2. t < s
      BY <1>5, <2>2, <2>5, <3>1
    <3>3. t \notin probe
      <4>1. t \in probe => s < t
        BY <1>1, <3>1, LeastComesFirst
      <4>2. QED
        BY <1>5, <3>2, <4>1
    <3>4. key \in activeKeys
      BY <1>7, <2>3, <3>3
    <3>5. QED
      BY <1>8, <2>1, <3>4
  <2>6. QED
    BY <2>3, <2>4, <2>5
<1>10. CASE k \in RivalKeys
  <2>1. RivalKeys' \subseteq RivalKeys
    BY <1>9, <1>10
  <2>2. QED
    BY <1>3, <2>1, FewerRivals
<1>11. CASE k \notin RivalKeys
  <2>1. RivalKeys \subseteq activeKeys
    <3> SUFFICES ASSUME NEW key \in RivalKeys PROVE key \in activeKeys
      OBVIOUS
    <3>1. PICK t \in Sequence, c \in Sequence : Awaits(t) /\ Contender(c) /\ t <= c /\ key = taskCase[t]
      BY RivalKey
    <3>2. CASE t \notin probe
      BY <1>7, <3>1, <3>2
    <3>3. CASE t \in probe
      <4>1. s <= t
        BY <1>1, <1>5, <3>3, LeastComesFirst
      <4>2. s <= c
        BY <1>5, <3>1, <4>1
      <4>3. Awaits(s) /\ k \notin AdmittedKeys
        BY <1>1, <1>4 DEF Awaits
      <4>4. k \in RivalKeys
        BY <3>1, <4>2, <4>3, RivalKey
      <4>5. QED
        BY <1>11, <4>4
    <3>4. QED
      BY <3>2, <3>3
  <2>2. IsFiniteSet(activeKeys) /\ Cardinality(activeKeys) <= Cardinality(inFlight)
        /\ Cardinality(inFlight) \in Nat /\ Cardinality(activeKeys) \in Nat
    <3>1. inFlight \in SUBSET Sequence /\ activeKeys = {taskCase[t] : t \in inFlight}
      BY DEF Held, Control, Caches
    <3>2. QED
      BY <3>1, KeysOfTasks, SequenceSetsFinite
  <2>3. Cardinality(RivalKeys) <= Cardinality(inFlight) /\ Cardinality(RivalKeys) \in Nat
    BY <2>1, <2>2, FS_Subset, RivalsFinite
  <2>4. Cardinality(RivalKeys') <= Cardinality(RivalKeys) + 1 /\ Cardinality(RivalKeys') \in Nat
    <3>1. IsFiniteSet(RivalKeys \cup {k}) /\ Cardinality(RivalKeys \cup {k}) = Cardinality(RivalKeys) + 1
      BY <1>11, RivalsFinite, FS_AddElement
    <3>2. QED
      BY <1>9, <3>1, FS_Subset, FS_CardinalityType
  <2>5. AcceptedTarget # None => Cardinality(inFlight) + Cardinality(Admitted) < AcceptedTarget
    BY <1>1, <1>4, <2>2, SchedulerAssumption, LimitAssumption DEF Available
  <2>6. Cardinality(Admitted)' = Cardinality(Admitted) /\ Cardinality(RivalKeys)' = Cardinality(RivalKeys')
    BY <1>3
  <2>7. QED
    BY <2>3, <2>4, <2>5, <2>6, <2>2, AdmittedFinite, SchedulerAssumption, LimitAssumption
       DEF WithinTarget
<1>12. QED
  BY <1>10, <1>11

(* An admission turns a rival key into an admitted one.                      *)
LEMMA CommitWithinTarget ==
  ASSUME Held, Caches, WithinTarget, Commit
  PROVE  WithinTarget'
<1> DEFINE s == job.sequence
<1>1. /\ s \in Sequence /\ outcome[s] = None /\ pc = "commit"
      /\ outcome' = [outcome EXCEPT ![s] = [key |-> job.key, decision |-> job.decision]]
      /\ work' = [work EXCEPT ![s] = Item("terminal", None)]
      /\ UNCHANGED taskCase
      /\ Admitted' = IF job.decision = "admitted" THEN Admitted \cup {s} ELSE Admitted
  BY CommitEffect
<1>2. s \notin Admitted /\ Admitted \subseteq Sequence
  BY <1>1 DEF Admitted
<1>3. \A t \in Sequence : Awaits(t)' = (Awaits(t) /\ t # s) /\ taskCase'[t] = taskCase[t]
  BY <1>1 DEF Awaits, Item, Held, LedgerTypeOK
<1>4. CASE job.decision # "admitted"
  <2>1. \A t \in Sequence : Contender(t)' => Contender(t)
    BY <1>1, <1>4 DEF Contender, Item, Held, LedgerTypeOK
  <2>2. Admitted' = Admitted /\ AdmittedKeys' = AdmittedKeys
    BY <1>1, <1>2, <1>4 DEF AdmittedKeys, Held, LedgerTypeOK
  <2>3. RivalKeys' \subseteq RivalKeys
    <3> SUFFICES ASSUME NEW key, key \in RivalKeys' PROVE key \in RivalKeys
      OBVIOUS
    <3>1. key \notin AdmittedKeys
      BY <2>2 DEF RivalKeys
    <3>2. PICK t \in Sequence, c \in Sequence :
               Awaits(t)' /\ Contender(c)' /\ t <= c /\ key = taskCase'[t]
      BY DEF RivalKeys, WithStatus, Reached, Awaits
    <3>3. QED
      BY <1>3, <2>1, <3>1, <3>2, RivalKey
  <2>4. QED
    BY <2>2, <2>3, FewerRivals
<1>5. CASE job.decision = "admitted"
  <2>1. /\ job.back = "loop" /\ job.key = taskCase[s] /\ job.key # None
        /\ job.key \notin admittedKeys
    BY <1>1, <1>5 DEF Caches, Committing
  <2>2. admittedKeys = {outcome[t].key : t \in Admitted}
    BY <1>1 DEF Caches, Settled, Starting
  <2>3. Awaits(s) /\ Contender(s) /\ s \in Nat
    <3>1. RunningHeld(s)
      BY <1>1, <2>1 DEF RunningHeld, Deciding
    <3>2. QED
      BY <1>1, <3>1, RunningItem DEF Awaits, Contender
  <2>4. job.key \in RivalKeys
    <3>1. job.key \notin AdmittedKeys
      BY <2>1, <2>2 DEF AdmittedKeys
    <3>2. QED
      BY <1>1, <2>1, <2>3, <3>1, RivalKey
  <2>5. \A t \in Sequence : Contender(t)' => Contender(t)
    BY <1>1, <1>5, <2>3 DEF Contender, Item, Held, LedgerTypeOK
  <2>6. AdmittedKeys' = AdmittedKeys \cup {job.key}
    <3>1. Admitted' = Admitted \cup {s} /\ outcome'[s].key = job.key
          /\ \A t \in Admitted : outcome'[t] = outcome[t]
      BY <1>1, <1>2, <1>5 DEF Held, LedgerTypeOK
    <3>2. QED
      BY <2>1, <3>1 DEF AdmittedKeys
  <2>7. RivalKeys' \subseteq RivalKeys \ {job.key}
    <3> SUFFICES ASSUME NEW key, key \in RivalKeys' PROVE key \in RivalKeys /\ key # job.key
      OBVIOUS
    <3>1. key \notin AdmittedKeys /\ key # job.key
      BY <2>6 DEF RivalKeys
    <3>2. PICK t \in Sequence, c \in Sequence :
               Awaits(t)' /\ Contender(c)' /\ t <= c /\ key = taskCase'[t]
      BY DEF RivalKeys, WithStatus, Reached, Awaits
    <3>3. QED
      BY <1>3, <2>5, <3>1, <3>2, RivalKey
  <2>8. Cardinality(RivalKeys') <= Cardinality(RivalKeys) - 1 /\ Cardinality(RivalKeys') \in Nat
    <3>1. IsFiniteSet(RivalKeys \ {job.key})
          /\ Cardinality(RivalKeys \ {job.key}) = Cardinality(RivalKeys) - 1
      BY <2>4, RivalsFinite, FS_RemoveElement
    <3>2. QED
      BY <2>7, <3>1, FS_Subset, FS_CardinalityType
  <2>9. Cardinality(Admitted)' = Cardinality(Admitted) + 1
    BY <1>1, <1>2, <1>5, AdmittedFinite, FS_AddElement
  <2>10. QED
    BY <2>8, <2>9, AdmittedFinite, RivalsFinite, SchedulerAssumption, LimitAssumption
       DEF WithinTarget
<1>6. QED
  BY <1>4, <1>5

LEMMA WithinTargetStep ==
  ASSUME Held, Held', Caches, WorkOrder, ProbeCovers, WithinTarget, Next
  PROVE  WithinTarget'
<1> USE DEF Held, LedgerTypeOK
<1>0. \A s \in Sequence : s \in Nat
  BY LimitAssumption DEF Sequence
<1>1. CASE UNCHANGED <<work, taskCase, outcome>>
  <2>1. Admitted' = Admitted /\ RivalKeys' = RivalKeys
    BY <1>1 DEF Admitted, AdmittedKeys, RivalKeys, WithStatus, Reached, Contender
  <2>2. QED
    BY <2>1, FewerRivals
<1>2. CASE Allocate
  <2>1. \A s \in Sequence : Awaits(s)' = Awaits(s) /\ Contender(s)' = Contender(s)
    BY <1>2 DEF Allocate, RecordAllocatedSlots, Allocated, Awaits, Contender, Admitted, Item
  <2>2. QED
    BY <1>2, <2>1, NoNewRivals, FewerRivals DEF Allocate, RecordAllocatedSlots
<1>3. CASE Recover
  <2>1. \A s \in Sequence : (Awaits(s)' => Awaits(s)) /\ (Contender(s)' => Contender(s))
    BY <1>3 DEF Recover, RecoverInflightWork, ReadyItem, InFlight, Awaits, Contender, Admitted, Item,
       LedgerConsistent, CaseMatchesStage
  <2>2. QED
    BY <1>3, <2>1, NoNewRivals, FewerRivals DEF Recover, RecoverInflightWork
<1>4. ASSUME NEW s \in Sequence, ClaimsSlot(s) PROVE WithinTarget'
  <2>1. \A t \in Sequence : (Awaits(t)' => Awaits(t)) /\ (Contender(t)' => Contender(t))
    BY <1>4 DEF ClaimsSlot, ClaimWork, Awaits, Contender, Admitted, Item
  <2>2. QED
    BY <1>4, <2>1, NoNewRivals, FewerRivals DEF ClaimsSlot, ClaimWork
<1>5. ASSUME NEW s \in Sequence, Returned(s) PROVE WithinTarget'
  <2>1. \A t \in Sequence : (Awaits(t)' => Awaits(t)) /\ (Contender(t)' => Contender(t))
    BY <1>5 DEF Returned, ReadyItem, InFlight, Awaits, Contender, Admitted, Item, LedgerConsistent,
       CaseMatchesStage
  <2>2. QED
    BY <1>5, <2>1, NoNewRivals, FewerRivals DEF Returned
<1>6. ASSUME NEW s \in Sequence, NEW k \in Key, Compiled(s, k) PROVE WithinTarget'
  <2>1. /\ work[s].status = "generating" /\ UNCHANGED outcome
        /\ work' = [work EXCEPT ![s] = Item("compiled", None)]
        /\ taskCase' = [taskCase EXCEPT ![s] = k]
    BY <1>6 DEF Compiled, RecordTaskCase
  <2>2. \A t \in Sequence : Contender(t)' => Contender(t)
    BY <2>1 DEF Contender, Admitted, Item
  <2>3. \A c \in Sequence : Contender(c) => ~(s <= c)
    <3> SUFFICES ASSUME NEW c \in Sequence, Contender(c), s <= c PROVE FALSE
      OBVIOUS
    <3>1. work[c].status \notin Ungenerated
      BY ContenderHasCase
    <3>2. work[s].status \in Ungenerated /\ c # s
      BY <2>1, <3>1 DEF Ungenerated
    <3>3. s < c
      BY <1>0, <3>2
    <3>4. QED
      BY <3>1, <3>2, <3>3 DEF WorkOrder
  <2>4. \A t \in Sequence : Awaits(t)' /\ t # s => Awaits(t) /\ taskCase'[t] = taskCase[t]
    BY <2>1 DEF Awaits, Item
  <2>5. QED
    BY <2>1, <2>2, <2>3, <2>4, NoNewRivals, FewerRivals
<1>7. QED
  BY <1>1, <1>2, <1>3, <1>4, <1>5, <1>6, CommitWithinTarget, ClaimWithinTarget, StepEffects

--------------------------------------------------------------------------------
(* The layers together. *)

Ordered == Caches /\ WorkOrder /\ Winners /\ ProbeCovers /\ OneBatch /\ WithinTarget

LEMMA OrderedInit == Init => Ordered
<1> SUFFICES ASSUME Init PROVE Ordered
  OBVIOUS
<1>1. /\ \A s \in Sequence : work[s].status = "absent" /\ outcome[s] = None /\ taskCase[s] = None
      /\ pc = "down" /\ stopReason = None /\ job = None
      /\ accepted = 0 /\ admittedKeys = {} /\ activeKeys = {}
      /\ inFlight = {} /\ probe = {} /\ batch = {}
  BY DEF Init, LedgerInit, Item
<1>2. Admitted = {} /\ \A s \in Sequence : ~Contender(s) /\ ~GeneratingHeld(s)
  BY <1>1 DEF Admitted, Contender, GeneratingHeld, Deciding
<1>3. Caches
  BY <1>1, <1>2 DEF Caches, Starting, Committing
<1>4. WorkOrder
  <2>1. 1 .. SlotCount \subseteq Sequence
    BY SchedulerAssumption, LimitAssumption DEF Sequence
  <2>2. QED
    BY <1>1, <1>2, <2>1 DEF WorkOrder, Ungenerated, Deciding
<1>5. Winners
  BY <1>1, <1>2 DEF Winners, Deciding
<1>6. ProbeCovers
  BY <1>1 DEF ProbeCovers, Place, Committing, Dispatching
<1>7. OneBatch
  <2>1. Backlog \cup batch = {}
    BY <1>1 DEF Backlog, WithStatus
  <2>2. QED
    BY <1>1, <2>1, FS_EmptySet, SchedulerAssumption, AbsenceAssumption DEF OneBatch, StopReason
<1>8. WithinTarget
  <2>1. RivalKeys = {}
    BY <1>1 DEF RivalKeys, WithStatus
  <2>2. QED
    BY <1>2, <2>1, FS_EmptySet, SchedulerAssumption, LimitAssumption DEF WithinTarget
<1>9. QED
  BY <1>3, <1>4, <1>5, <1>6, <1>7, <1>8 DEF Ordered

LEMMA OrderedStutter ==
  ASSUME Ordered, UNCHANGED vars
  PROVE  Ordered'
<1> USE DEF Ordered, vars, ledgerVars, mainVars, processVars, cacheVars, futureVars, todoVars
<1>0. /\ Admitted' = Admitted /\ AdmittedKeys' = AdmittedKeys /\ Place' = Place
      /\ \A status : WithStatus(status)' = WithStatus(status)
      /\ \A s : Contender(s)' = Contender(s) /\ GeneratingHeld(s)' = GeneratingHeld(s)
  BY DEF Admitted, AdmittedKeys, Place, WithStatus, Contender, GeneratingHeld, Deciding
<1>1. Caches' BY <1>0 DEF Caches, Settled
<1>2. WorkOrder' BY <1>0 DEF WorkOrder, Deciding
<1>3. Winners' BY <1>0 DEF Winners, Deciding
<1>4. ProbeCovers' BY <1>0 DEF ProbeCovers, TargetReached, InHand, Deciding
<1>5. OneBatch' BY <1>0 DEF OneBatch, Backlog
<1>6. WithinTarget'
  <2>1. RivalKeys' = RivalKeys
    BY <1>0 DEF RivalKeys, Reached
  <2>2. QED
    BY <1>0, <2>1 DEF WithinTarget
<1>7. QED
  BY <1>1, <1>2, <1>3, <1>4, <1>5, <1>6

LEMMA OrderedAlways == Spec => []Ordered
<1>1. Held /\ Held' /\ Ordered /\ [Next]_vars => Ordered'
  <2>1. ASSUME Held, Held', Ordered, Next PROVE Ordered'
    <3>1. Caches'
      BY <2>1, CachesStep DEF Ordered
    <3>2. QED
      BY <2>1, <3>1, WorkOrderStep, WinnersStep, ProbeCoversStep, OneBatchStep, WithinTargetStep
         DEF Ordered
  <2>2. QED
    BY <2>1, OrderedStutter
<1>2. QED
  BY <1>1, OrderedInit, HeldAlways, PTL DEF Spec

--------------------------------------------------------------------------------
(* What the layers give. *)

(* What the process caches of the ledger (_drive_run's accepted_count,       *)
(* admitted_semantic_keys and active_semantic_keys) is what the ledger says, *)
(* at every point where it decides something from them.                      *)
THEOREM CachesStayCoherent == Spec => []CachesCoherent
<1>1. Held /\ Ordered => CachesCoherent
  <2> SUFFICES ASSUME Held, Ordered,
                      pc \notin {"down", "allocate", "recover", "start", "judgment", "unwind"}
               PROVE  CachesCoherent
    BY DEF CachesCoherent
  <2>1. Caches /\ Winners /\ Settled = Admitted
    BY DEF Ordered, Settled
  <2>2. accepted = Cardinality(Admitted) /\ admittedKeys = {outcome[s].key : s \in Admitted}
    BY <2>1 DEF Caches, Starting
  <2>3. admittedKeys = AdmittedKeys
    BY <2>1, <2>2 DEF Caches, AdmittedKeys
  <2>4. activeKeys = {taskCase[s] : s \in inFlight} /\ inFlight \in SUBSET Sequence
    BY <2>1 DEF Caches, Held, Control
  <2>5. \A s, t \in inFlight : taskCase[s] = taskCase[t] => s = t
    BY <2>1, RunningKeysDiffer
  <2>6. Cardinality(activeKeys) = Cardinality(inFlight)
    BY <2>4, <2>5, KeysOfTasks
  <2>7. QED
    BY <2>2, <2>3, <2>4, <2>6 DEF CachesCoherent
<1>2. QED
  BY <1>1, HeldAlways, OrderedAlways, PTL

(* Whatever the order in which Episodes complete, are returned, killed or    *)
(* resumed, the earliest task of a semantic key that can be admitted is      *)
(* (dispatch_ready_work, commit_terminal), and every duplicate lost to an    *)
(* earlier admitted task.                                                    *)
THEOREM EarliestAlwaysWins == Spec => []EarliestCandidateWins
<1>1. Ordered => EarliestCandidateWins
  BY DEF Ordered, Winners, EarliestCandidateWins, Contender, Admitted
<1>2. QED
  BY <1>1, OrderedAlways, PTL

(* The defensive stop "scheduler_no_progress" of _drive_run is unreachable   *)
(* for every batch, concurrency and probe size the configuration allows, and *)
(* never more than one generation batch is compiled or claimed.              *)
THEOREM SchedulerNeverStalls == Spec => []NeverStalls
<1>1. Held /\ Ordered => NeverStalls
  <2> SUFFICES ASSUME Held, Ordered PROVE NeverStalls
    OBVIOUS
  <2>1. OneBatch /\ Backlog \cup batch \in SUBSET Sequence
    BY DEF Ordered, Backlog, WithStatus, Held, Control
  <2>2. Backlog \in SUBSET (Backlog \cup batch) /\ Cardinality(Backlog \cup batch) \in Nat
    BY <2>1, SequenceSetsFinite
  <2>3. Cardinality(Backlog) <= Cardinality(Backlog \cup batch) /\ Cardinality(Backlog) \in Nat
    BY <2>1, <2>2, SequenceSetsFinite
  <2>4. QED
    BY <2>1, <2>2, <2>3, SchedulerAssumption DEF OneBatch, NeverStalls, Backlog
<1>2. QED
  BY <1>1, HeldAlways, OrderedAlways, PTL

--------------------------------------------------------------------------------
(* Requests are never refunded, so a spent budget stays spent. *)
LEMMA SpentStaysSpent ==
  ASSUME LedgerTypeOK, LedgerTypeOK', [LedgerNext]_ledgerVars, NEW role \in Role,
         ~BudgetAvailable(role)
  PROVE  ~BudgetAvailable(role)'
<1> USE DEF LedgerTypeOK
<1>1. /\ Len(requests) <= Len(requests')
      /\ \A i \in DOMAIN requests : i \in DOMAIN requests' /\ requests'[i].role = requests[i].role
  <2>1. CASE UNCHANGED requests
    BY <2>1
  <2>2. ASSUME NEW r \in Role, NEW about \in SUBSET Sequence, ReserveProviderRequest(r, about)
        PROVE  /\ Len(requests) <= Len(requests')
               /\ \A i \in DOMAIN requests :
                      i \in DOMAIN requests' /\ requests'[i].role = requests[i].role
    BY <2>2 DEF ReserveProviderRequest
  <2>3. ASSUME NEW j \in DOMAIN requests, NEW status \in {"completed", "failed"},
               FinishProviderRequest(j, status)
        PROVE  /\ Len(requests) <= Len(requests')
               /\ \A i \in DOMAIN requests :
                      i \in DOMAIN requests' /\ requests'[i].role = requests[i].role
    BY <2>3 DEF FinishProviderRequest, Request
  <2>4. QED
    BY <2>1, <2>2, <2>3 DEF LedgerNext, RecordAllocatedSlots, ClaimWork, ReturnWorkToReady,
       RecoverInflightWork, RecordTaskCase, CommitTerminalOutcome, RecordQualityJudgment, ledgerVars
<1>2. RequestsOf(role) \subseteq RequestsOf(role)'
  BY <1>1 DEF RequestsOf
<1>3. IsFiniteSet(RequestsOf(role)') /\ Cardinality(RequestsOf(role)') \in Nat
  <2>1. RequestsOf(role)' \subseteq 1 .. Len(requests')
    BY DEF RequestsOf
  <2>2. IsFiniteSet(1 .. Len(requests'))
    BY FS_Interval
  <2>3. IsFiniteSet(RequestsOf(role)')
    BY <2>1, <2>2, FS_Subset
  <2>4. QED
    BY <2>3, FS_CardinalityType
<1>4. Cardinality(RequestsOf(role)) <= Cardinality(RequestsOf(role)')
      /\ Cardinality(RequestsOf(role)) \in Nat
  BY <1>2, <1>3, FS_Subset, RequestsOfFinite
<1>5. Len(requests) \in Nat /\ Len(requests') \in Nat
  OBVIOUS
<1>6. Cardinality(RequestsOf(role))' = Cardinality(RequestsOf(role)')
  OBVIOUS
<1>7. QED
  BY <1>1, <1>3, <1>4, <1>5, <1>6, LimitAssumption DEF BudgetAvailable

LEMMA ExhaustedStays ==
  ASSUME Held, Held', [Next]_vars, Exhausted
  PROVE  Exhausted'
<1>1. [LedgerNext]_ledgerVars /\ LedgerTypeOK /\ LedgerTypeOK'
  BY EveryStepUsesLedger DEF Held
<1>2. QED
  BY <1>1, SpentStaysSpent DEF Exhausted, Role

--------------------------------------------------------------------------------
(* What the calls tell of the budget and of the cancellation is true. *)

LEMMA SoundStays ==
  ASSUME NEW c, Sound(c), call'[c] = call[c], Exhausted => Exhausted', cancelled => cancelled'
  PROVE  Sound(c)'
  BY DEF Sound, OutOfBudget

LEMMA SoundStart ==
  ASSUME NEW c, call'[c].at \notin {"returned", "done"}
  PROVE  Sound(c)'
  BY DEF Sound, OutOfBudget

(* A call gives up for lack of budget only without budget, and for a         *)
(* cancellation only when there is one.                                      *)
LEMMA CallStepSound ==
  ASSUME Calls, NEW c \in Thread, NEW role \in {"agent", "task_generation"}, NEW about,
         CallStep(c, role, about, TRUE), UNCHANGED cancelled, Exhausted => Exhausted'
  PROVE  Sound(c)'
<1> USE DEF Calls, Call, Sound, OutOfBudget
<1>1. CASE CallGivesUp(c, role, TRUE)
  BY <1>1 DEF CallGivesUp, Returns, Stopped, Exhausted
<1>2. CASE CallReserves(c, role, about) BY <1>2 DEF CallReserves
<1>3. CASE CallProceeds(c, TRUE) \/ CallDispatches(c) BY <1>3 DEF CallProceeds, CallDispatches
<1>4. CASE CallSucceeds(c) BY <1>4 DEF CallSucceeds, Returns
<1>5. CASE CallFails(c) BY <1>5 DEF CallFails, Returns
<1>6. QED BY <1>1, <1>2, <1>3, <1>4, <1>5 DEF CallStep

LEMMA CallStepOthers ==
  ASSUME Calls, NEW c \in Thread, NEW role, NEW about, NEW heeds, CallStep(c, role, about, heeds)
  PROVE  \A d \in Thread \ {c} : call'[d] = call[d]
  BY DEF Calls, CallStep, CallGivesUp, CallProceeds, CallReserves, CallDispatches, CallSucceeds, CallFails, Returns

LEMMA SignalsStep ==
  ASSUME Held, Held', Signals, Next
  PROVE  Signals'
<1> USE DEF mainVars, processVars, cacheVars, futureVars, todoVars
<1>0. /\ Main \in Thread /\ Sequence \subseteq Thread /\ Main \notin Sequence
      /\ Exhausted => Exhausted'
      /\ IdleCall.at = "idle" /\ \A n : NewCall(n).at = "reserve"
      /\ Calls /\ call \in [Thread -> Call] /\ Control
  BY LimitAssumption, ExhaustedStays DEF Main, Thread, Sequence, IdleCall, NewCall, Held, Calls
<1>1. CASE ProcessEnds
  <2>1. \A c \in Thread : call'[c].at \notin {"returned", "done"}
    BY <1>0, <1>1 DEF ProcessEnds
  <2>2. QED
    BY <1>0, <2>1, SoundStart DEF Signals
<1>2. ASSUME UNCHANGED call, cancelled => cancelled', pc' = "call" => pc = "call"
      PROVE  Signals'
  BY <1>0, <1>2, SoundStays DEF Signals
<1>3. ASSUME NEW c \in Thread, NEW new, new.at \notin {"returned", "done"},
             call' = [call EXCEPT ![c] = new], UNCHANGED cancelled,
             pc' = "call" => pc = "call" \/ c = Main
      PROVE  Signals'
  <2>1. call'[c] = new /\ \A d \in Thread \ {c} : call'[d] = call[d]
    BY <1>0, <1>3
  <2>2. \A d \in Thread \ {c} : Sound(d) => Sound(d)'
    BY <1>0, <1>3, <2>1, SoundStays
  <2>3. Sound(c)'
    BY <1>3, <2>1, SoundStart
  <2>4. QED
    BY <1>0, <1>3, <2>2, <2>3 DEF Signals
<1>4. CASE StartStep
  BY <1>2, <1>4 DEF StartStep, Allocate, Recover, StartDrive
<1>5. CASE DriveStep
  <2>1. ASSUME NEW s \in Sequence, Collect(s) PROVE Signals'
    <3>1. pc' # "call" /\ call' = [call EXCEPT ![s] = IdleCall] /\ UNCHANGED cancelled
      BY <2>1 DEF Collect, CommitTerminal
    <3>2. QED
      BY <1>0, <1>3, <3>1
  <2>2. ASSUME NEW s \in Sequence, ConfirmDispatch(s) \/ Submit(s) PROVE Signals'
    <3>1. pc' # "call" /\ UNCHANGED cancelled
          /\ (UNCHANGED call \/ call' = [call EXCEPT ![s] = NewCall(1)])
      BY <2>2 DEF ConfirmDispatch, Submit, StopDispatch
    <3>2. QED
      BY <1>0, <1>2, <1>3, <3>1
  <2>3. ASSUME NEW s \in Sequence, DispatchItem(s) PROVE Signals'
    BY <1>2, <2>3 DEF DispatchItem, CommitTerminal, StopDispatch
  <2>4. QED
    BY <1>2, <1>5, <2>1, <2>2, <2>3 DEF DriveStep, DecideToStop, LeaveLoop, BeginDispatch,
       DispatchReturns
<1>6. CASE GenerateStep
  <2>1. CASE CallGenerator
    <3>1. Sound(Main)'
      BY <1>0, <2>1, CallStepSound DEF CallGenerator
    <3>2. \A s \in Sequence : Sound(s)'
      BY <1>0, <2>1, CallStepOthers, SoundStays DEF CallGenerator, Signals
    <3>3. QED
      BY <3>1, <3>2 DEF Signals
  <2>2. CASE GeneratorReturns
    BY <1>0, <1>3, <2>2 DEF GeneratorReturns
  <2>3. CASE ClaimBatch
    BY <1>0, <1>2, <1>3, <2>3 DEF ClaimBatch
  <2>4. ASSUME NEW s \in Sequence, RejectItem(s) \/ CompileItem(s) PROVE Signals'
    <3>1. UNCHANGED <<call, cancelled>> /\ (pc' = "call" => pc = "call")
      BY <2>4 DEF RejectItem, CompileItem, CommitTerminal
    <3>2. QED
      BY <1>2, <3>1
  <2>5. QED
    BY <1>2, <1>6, <2>1, <2>2, <2>3, <2>4 DEF GenerateStep, BeginBatch, ReturnBatch, EndBatch
<1>7. ASSUME NEW c, CallStep(Main, "quality_judge", c, FALSE), UNCHANGED <<pc, cancelled>>, pc # "call"
      PROVE  Signals'
  BY <1>0, <1>7, CallStepOthers, SoundStays DEF Signals
<1>8. CASE CommitStep
  <2>1. pc \in Committing => job.back # "call"
    BY <1>0 DEF Control, CommitArguments
  <2>2. QED
    BY <1>0, <1>2, <1>3, <1>7, <1>8, <2>1 DEF CommitStep, AskJudge, CallJudge, JudgeReturns, Commit,
       RecordJudgment, CommitReturns, Committing
<1>9. CASE FinalizeStep
  BY <1>0, <1>1, <1>2, <1>3, <1>7, <1>9 DEF FinalizeStep, Finish, Exit, Unwind, JudgeUnavailable,
     JudgeShadow
<1>10. ASSUME NEW s \in Sequence, AgentStep(s) \/ AgentRaises(s)
       PROVE  Signals'
  <2>1. UNCHANGED <<pc, cancelled>>
    BY <1>10 DEF AgentStep, AgentCalls, AgentCannotOpen, AgentContinues, AgentRaises
  <2>2. \A d \in Thread \ {s} : call'[d] = call[d]
    BY <1>0, <1>10, CallStepOthers DEF AgentStep, AgentCalls, AgentCannotOpen, AgentContinues,
       AgentRaises, EpisodeEnds
  <2>3. Sound(s)'
    <3>1. CASE AgentCalls(s)
      BY <1>0, <2>1, <3>1, CallStepSound DEF AgentCalls
    <3>2. ASSUME NEW result \in {"admitted", "rejected", "raised"}, EpisodeEnds(s, result)
          PROVE  Sound(s)'
      BY <1>0, <3>2 DEF EpisodeEnds, Sound, OutOfBudget, IdleCall
    <3>3. CASE AgentContinues(s)
      <4>1. CASE EpisodeEnds(s, call[s].result) /\ call[s].at = "returned"
        <5>1. call'[s].result = call[s].result
          BY <1>0, <4>1 DEF EpisodeEnds, IdleCall
        <5>2. QED
          BY <1>0, <2>1, <4>1, <5>1 DEF Signals, Sound, OutOfBudget
      <4>2. CASE call' = [call EXCEPT ![s] = NewCall(call[s].step + 1)]
        BY <1>0, <4>2, SoundStart
      <4>3. QED
        BY <3>2, <3>3, <4>1, <4>2 DEF AgentContinues
    <3>4. QED
      BY <1>10, <3>1, <3>2, <3>3 DEF AgentStep, AgentCannotOpen, AgentRaises
  <2>4. QED
    BY <1>0, <2>1, <2>2, <2>3, SoundStays DEF Signals
<1>11. CASE Open \/ Kill \/ Cancel \/ Halted
  BY <1>1, <1>2, <1>11 DEF Open, Kill, Cancel, Halted, vars
<1>12. QED
  BY <1>4, <1>5, <1>6, <1>8, <1>9, <1>10, <1>11 DEF Next, MainStep

--------------------------------------------------------------------------------
(* Stop reasons. *)

(* While a process drives, its accepted_count only grows. *)
LEMMA TargetStaysReached ==
  ASSUME Held, Ordered, Next, TargetReached, pc \notin Starting
  PROVE  TargetReached' \/ ProcessEnds
<1> USE DEF processVars, cacheVars, mainVars
<1>1. accepted \in Nat
  <2>1. Settled \in SUBSET Sequence
    BY DEF Settled, Admitted
  <2>2. accepted = Cardinality(Settled)
    BY DEF Ordered, Caches
  <2>3. QED
    BY <2>1, <2>2, SequenceSetsFinite
<1>2. accepted' \in {accepted, accepted + 1} \/ ProcessEnds
  <2>1. CASE StartStep
    BY <2>1 DEF StartStep, Allocate, Recover, StartDrive, Starting
  <2>2. CASE DriveStep
    BY <2>2 DEF DriveStep, DecideToStop, LeaveLoop, BeginDispatch, DispatchReturns, Collect,
       DispatchItem, ConfirmDispatch, Submit
  <2>3. CASE GenerateStep
    BY <2>3 DEF GenerateStep, BeginBatch, ClaimBatch, ReturnBatch, CallGenerator, GeneratorReturns,
       EndBatch, RejectItem, CompileItem
  <2>4. CASE CommitStep
    BY <2>4 DEF CommitStep, AskJudge, CallJudge, JudgeReturns, Commit, RecordJudgment, CommitReturns
  <2>5. CASE FinalizeStep
    BY <2>5 DEF FinalizeStep, Finish, Exit, Unwind, JudgeUnavailable, JudgeShadow
  <2>6. ASSUME NEW s \in Sequence, AgentStep(s) \/ AgentRaises(s) PROVE UNCHANGED accepted
    BY <2>6 DEF AgentStep, AgentCalls, AgentCannotOpen, AgentContinues, AgentRaises
  <2>7. QED
    BY <2>1, <2>2, <2>3, <2>4, <2>5, <2>6 DEF Next, MainStep, Open, Kill, Cancel, Halted, vars
<1>3. AcceptedTarget \in Int
  BY SchedulerAssumption, LimitAssumption DEF TargetReached
<1>4. QED
  BY <1>1, <1>2, <1>3 DEF TargetReached

(* A stop reason, when it is set, is true. *)
LEMMA StopReasonSet ==
  ASSUME Held, Signals, Next, stopReason' # stopReason
  PROVE  TrueReason(stopReason') \/ ProcessEnds
<1> USE DEF mainVars, processVars, cacheVars, futureVars, todoVars
<1>1. CASE StartStep
  BY <1>1 DEF StartStep, Allocate, Recover, StartDrive
<1>2. CASE DriveStep
  <2>1. ASSUME NEW s \in Sequence, Collect(s) PROVE TrueReason(stopReason')
    <3>1. Sound(s) /\ call[s].at = "done" /\ stopReason' = call[s].result
          /\ stopReason' \in {"operator_cancelled", "provider_request_budget_exhausted"}
      BY <2>1 DEF Collect, Finished, Signals
    <3>2. QED
      BY <3>1 DEF Sound, OutOfBudget, TrueReason, StopReason
  <2>2. CASE DecideToStop
    BY <2>2 DEF DecideToStop, TrueReason, StopReason
  <2>3. ASSUME NEW s \in Sequence, DispatchItem(s) \/ ConfirmDispatch(s) \/ Submit(s) PROVE TrueReason(stopReason')
    BY <2>3 DEF DispatchItem, ConfirmDispatch, Submit, StopDispatch, TrueReason, StopReason, Exhausted
  <2>4. CASE DispatchReturns
    BY <2>4 DEF DispatchReturns, TrueReason, StopReason
  <2>5. QED
    BY <1>2, <2>1, <2>2, <2>3, <2>4 DEF DriveStep, LeaveLoop, BeginDispatch
<1>3. CASE GenerateStep
  <2>1. CASE GeneratorReturns
    <3>1. /\ Sound(Main) /\ call[Main].at = "returned" /\ stopReason' = call[Main].result
          /\ stopReason' \notin {"ok", "failed"}
      BY <2>1 DEF GeneratorReturns, Signals
    <3>2. stopReason' \in {"operator_cancelled", "provider_request_budget_exhausted"}
      BY <3>1 DEF Held, Calls, CallEnds, Thread
    <3>3. QED
      BY <3>1, <3>2 DEF Sound, OutOfBudget, TrueReason, StopReason
  <2>2. CASE BeginBatch \/ ClaimBatch
    BY <2>2 DEF BeginBatch, ClaimBatch, TrueReason, StopReason, Exhausted
  <2>3. QED
    BY <1>3, <2>1, <2>2 DEF GenerateStep, ReturnBatch, CallGenerator, EndBatch, RejectItem,
       CompileItem
<1>4. CASE CommitStep
  BY <1>4 DEF CommitStep, AskJudge, CallJudge, JudgeReturns, Commit, RecordJudgment
<1>5. CASE FinalizeStep
  BY <1>5 DEF FinalizeStep, Finish, Exit, Unwind, JudgeUnavailable, JudgeShadow
<1>6. ASSUME NEW s \in Sequence, AgentStep(s) \/ AgentRaises(s) PROVE UNCHANGED stopReason
  BY <1>6 DEF AgentStep, AgentCalls, AgentCannotOpen, AgentContinues, AgentRaises
<1>7. QED
  BY <1>1, <1>2, <1>3, <1>4, <1>5, <1>6 DEF Next, MainStep, Open, Kill, Cancel, Halted, vars

(* The flag is only lowered with the process. *)
LEMMA CancelledStays ==
  ASSUME Next, cancelled
  PROVE  cancelled' \/ ProcessEnds
<1> USE DEF mainVars, processVars
<1>1. CASE StartStep BY <1>1 DEF StartStep, Allocate, Recover, StartDrive
<1>2. CASE DriveStep
  BY <1>2 DEF DriveStep, DecideToStop, LeaveLoop, BeginDispatch, DispatchReturns, Collect,
     DispatchItem, ConfirmDispatch, Submit
<1>3. CASE GenerateStep
  BY <1>3 DEF GenerateStep, BeginBatch, ClaimBatch, ReturnBatch, CallGenerator, GeneratorReturns,
     EndBatch, RejectItem, CompileItem
<1>4. CASE CommitStep
  BY <1>4 DEF CommitStep, AskJudge, CallJudge, JudgeReturns, Commit, RecordJudgment
<1>5. CASE FinalizeStep
  BY <1>5 DEF FinalizeStep, Finish, Exit, Unwind, JudgeUnavailable, JudgeShadow
<1>6. ASSUME NEW s \in Sequence, AgentStep(s) \/ AgentRaises(s) PROVE UNCHANGED cancelled
  BY <1>6 DEF AgentStep, AgentCalls, AgentCannotOpen, AgentContinues, AgentRaises
<1>7. QED
  BY <1>1, <1>2, <1>3, <1>4, <1>5, <1>6 DEF Next, MainStep, Open, Kill, Cancel, Halted, vars

LEMMA NothingReadyStep ==
  ASSUME Held, NothingReady, Next
  PROVE  NothingReady'
<1> USE DEF NothingReady, mainVars, processVars, cacheVars, futureVars, todoVars
<1>1. ASSUME pc' # "finish" PROVE NothingReady'
  BY <1>1
<1>2. ASSUME UNCHANGED <<work, pc, stopReason>> PROVE NothingReady'
  BY <1>2 DEF WithStatus
<1>3. CASE StartStep BY <1>1, <1>3 DEF StartStep, Allocate, Recover, StartDrive
<1>4. CASE DriveStep
  <2>1. CASE DispatchReturns
    BY <2>1, AbsenceAssumption DEF DispatchReturns, StopReason, WithStatus, ledgerVars
  <2>2. ASSUME NEW s \in Sequence, Collect(s) \/ DispatchItem(s) \/ ConfirmDispatch(s) \/ Submit(s) PROVE pc' # "finish"
    BY <2>2 DEF Collect, DispatchItem, ConfirmDispatch, Submit, CommitTerminal, StopDispatch
  <2>3. QED
    BY <1>1, <1>4, <2>1, <2>2 DEF DriveStep, DecideToStop, LeaveLoop, BeginDispatch
<1>5. CASE GenerateStep
  <2>1. ASSUME NEW s \in Sequence, RejectItem(s) \/ CompileItem(s) PROVE pc' # "finish"
    BY <2>1 DEF RejectItem, CompileItem, CommitTerminal
  <2>2. QED
    BY <1>1, <1>5, <2>1 DEF GenerateStep, BeginBatch, ClaimBatch, ReturnBatch, CallGenerator,
       GeneratorReturns, EndBatch
<1>6. CASE CommitStep
  <2>1. pc \in Committing => job.back # "finish"
    BY DEF Held, Control, CommitArguments
  <2>2. QED
    BY <1>1, <1>6, <2>1 DEF CommitStep, AskJudge, CallJudge, JudgeReturns, Commit,
       RecordJudgment, CommitReturns, Committing
<1>7. CASE FinalizeStep
  BY <1>1, <1>7 DEF FinalizeStep, Finish, Exit, Unwind, ProcessEnds, JudgeUnavailable, JudgeShadow
<1>8. ASSUME NEW s \in Sequence, AgentStep(s) \/ AgentRaises(s)
      PROVE  UNCHANGED <<work, pc, stopReason>>
  BY <1>8, CallStepFrame DEF AgentStep, AgentCalls, AgentCannotOpen, AgentContinues, AgentRaises,
     ledgerVars
<1>9. QED
  BY <1>1, <1>2, <1>3, <1>4, <1>5, <1>6, <1>7, <1>8 DEF Next, MainStep, Open, Kill, ProcessEnds,
     Cancel, Halted, vars, ledgerVars

LEMMA StopsStep ==
  ASSUME Held, Held', Ordered, Stops, Next
  PROVE  Stops'
<1>1. (stopReason = None \/ TrueReason(stopReason)) /\ Signals /\ NothingReady
  BY DEF Stops
<1>2. Signals' /\ NothingReady'
  BY <1>1, SignalsStep, NothingReadyStep
<1>3. stopReason' = None \/ TrueReason(stopReason')
  <2>1. CASE ProcessEnds
    BY <2>1 DEF ProcessEnds
  <2>2. CASE stopReason' = stopReason
    BY <1>1, <2>2
  <2>3. QED
    BY <1>1, <2>1, <2>2, StopReasonSet
<1>4. (stopReason = None \/ TrueReason(stopReason))'
  <2>1. CASE stopReason' = None
    BY <2>1
  <2>2. CASE stopReason' # None
    <3>1. TrueReason(stopReason') /\ ~ProcessEnds
      BY <1>3, <2>2 DEF ProcessEnds
    <3>2. Exhausted => Exhausted'
      BY ExhaustedStays
    <3>3. cancelled => cancelled'
      BY <3>1, CancelledStays
    <3>4. pc \in Starting => accepted = 0 /\ ~TargetReached
      BY SchedulerAssumption, LimitAssumption DEF Held, Control, TargetReached
    <3>5. TargetReached => TargetReached'
      BY <3>1, <3>4, TargetStaysReached
    <3>6. QED
      BY <3>1, <3>2, <3>3, <3>5 DEF TrueReason
  <2>3. QED
    BY <2>1, <2>2
<1>5. QED
  BY <1>2, <1>4 DEF Stops

--------------------------------------------------------------------------------
(* Reports. *)

LEMMA AllocatedGrows ==
  ASSUME Held, Next
  PROVE  Allocated \subseteq Allocated'
<1> USE DEF Held, LedgerTypeOK, Allocated, Item
<1>1. CASE Commit BY <1>1, CommitEffect
<1>2. CASE Allocate BY <1>2 DEF Allocate, RecordAllocatedSlots
<1>3. CASE Recover BY <1>3 DEF Recover, RecoverInflightWork, ReadyItem
<1>4. ASSUME NEW s \in Sequence, ClaimsEpisode(s) \/ ClaimsSlot(s) \/ Returned(s)
      PROVE  Allocated \subseteq Allocated'
  BY <1>4 DEF ClaimsEpisode, ClaimsSlot, ClaimWork, Returned, ReadyItem
<1>5. ASSUME NEW s \in Sequence, NEW k \in Key, Compiled(s, k)
      PROVE  Allocated \subseteq Allocated'
  BY <1>5 DEF Compiled, RecordTaskCase
<1>6. QED
  BY <1>1, <1>2, <1>3, <1>4, <1>5, StepEffects

LEMMA ReportQuiet ==
  ASSUME Reports, UNCHANGED <<runStatus, work, outcome>>, Exhausted => Exhausted',
         pc' = "allocate" => pc = "allocate",
         pc' \in {"down", "allocate"} \/ pc \notin {"down", "allocate"},
         pc \in Starting \cup {"finalize"} => pc' \in Starting \cup {"finalize"}
  PROVE  Reports'
<1>1. /\ Allocated' = Allocated /\ AllDecided' = AllDecided /\ Admitted' = Admitted
      /\ \A status : WithStatus(status)' = WithStatus(status)
  BY DEF Allocated, AllDecided, Admitted, WithStatus
<1>2. Cardinality(Admitted)' = Cardinality(Admitted)
  BY <1>1
<1> HIDE DEF Starting, RunStatus
<1>3. QED
  BY <1>1, <1>2 DEF Reports

LEMMA ReportRunning ==
  ASSUME Held, Next, Reports, runStatus.status = "running", UNCHANGED runStatus,
         pc \notin {"down", "allocate"}, pc' # "allocate"
  PROVE  Reports'
  BY AllocatedGrows DEF Reports

(* What _drive_run reports at its end is true. *)
LEMMA FinalReportEarned ==
  ASSUME Held, Ordered, Stops, pc = "finish"
  PROVE  /\ FinalReport \in RunStatus
         /\ WithStatus("running") \cup WithStatus("generating") = {}
         /\ FinalReport.status = "completed" =>
                IF AcceptedTarget = None THEN AllDecided
                ELSE Cardinality(Admitted) = AcceptedTarget
         /\ FinalReport.reason \in {"domain_slot_exhausted", "bounded_replacement_exhausted"} =>
                AllDecided /\ Cardinality(Admitted) < AcceptedTarget
         /\ FinalReport.reason = "provider_request_budget_exhausted" => Exhausted
<1>1. inFlight = {} /\ batch = {} /\ probe = {}
  BY DEF Held, Control, Place, Committing, Dispatching, Generating
<1>2. WithStatus("running") \cup WithStatus("generating") = {}
  BY <1>1 DEF Held, Claims, Driving, RunningHeld, GeneratingHeld, Deciding, WithStatus
<1>3. stopReason = None => AllDecided
  BY <1>2 DEF Stops, NothingReady, AllDecided, Allocated, WithStatus, Held, LedgerTypeOK, WorkItem,
     WorkStatus, Ready, InFlight, LedgerConsistent, TerminalIffOutcome
<1>4. accepted = Cardinality(Admitted) /\ accepted \in Nat
  BY AdmittedFinite DEF Ordered, Caches, Starting, Settled
<1>5. AcceptedTarget # None => AcceptedTarget \in Nat /\ Cardinality(Admitted) <= AcceptedTarget
  BY RivalsFinite, <1>4, SchedulerAssumption, LimitAssumption DEF Ordered, WithinTarget
<1>6. TargetReached => AcceptedTarget # None /\ Cardinality(Admitted) = AcceptedTarget
  BY <1>4, <1>5 DEF TargetReached
<1>7. ~TargetReached /\ AcceptedTarget # None => Cardinality(Admitted) < AcceptedTarget
  BY <1>4, <1>5 DEF TargetReached
<1>8. Shortfall \in {"domain_slot_exhausted", "bounded_replacement_exhausted"}
  BY DEF Shortfall
<1>9. stopReason = None \/ TrueReason(stopReason)
  BY DEF Stops
<1>10. None \notin StopReason
       /\ None \notin {"domain_slot_exhausted", "bounded_replacement_exhausted"}
  BY AbsenceAssumption
<1> HIDE DEF Shortfall, TargetReached
<1>11. CASE cancelled
  <2>1. FinalReport = Report("cancelled", "operator_cancelled")
    BY <1>11 DEF FinalReport
  <2>2. QED
    BY <1>2, <2>1 DEF Report, RunStatus, StopReason
<1>12. CASE ~cancelled /\ TargetReached
  <2>1. FinalReport = Report("completed", None)
    BY <1>12 DEF FinalReport
  <2>2. QED
    BY <1>2, <1>6, <1>10, <1>12, <2>1 DEF Report, RunStatus, StopReason
<1>13. CASE ~cancelled /\ ~TargetReached
  <2>1. FinalReport =
           IF stopReason \in {"provider_request_budget_exhausted", "scheduler_no_progress"}
           THEN Report("partial", stopReason)
           ELSE IF AcceptedTarget # None THEN Report("partial", Shortfall)
                ELSE Report("completed", None)
    BY <1>13 DEF FinalReport
  <2>2. CASE stopReason \in {"provider_request_budget_exhausted", "scheduler_no_progress"}
    BY <1>2, <1>9, <1>10, <2>1, <2>2 DEF Report, RunStatus, StopReason, TrueReason
  <2>3. CASE stopReason \notin {"provider_request_budget_exhausted", "scheduler_no_progress"}
    <3>1. AllDecided
      BY <1>3, <1>9, <1>13, <2>3 DEF TrueReason, StopReason
    <3>2. QED
      BY <1>2, <1>7, <1>8, <1>10, <1>13, <2>1, <2>3, <3>1 DEF Report, RunStatus, StopReason
  <2>4. QED
    BY <2>2, <2>3
<1>14. QED
  BY <1>11, <1>12, <1>13

LEMMA ReportsStep ==
  ASSUME Held, Held', Ordered, Stops, Reports, Next
  PROVE  Reports'
<1> USE DEF mainVars, processVars, cacheVars, futureVars, todoVars
<1>0. Exhausted => Exhausted'
  BY ExhaustedStays
<1>1. ASSUME pc \notin Starting \cup {"finalize"}, UNCHANGED runStatus, pc' # "allocate"
      PROVE  Reports'
  BY <1>1, ReportRunning DEF Reports, Starting
<1>2. CASE StartStep
  <2>1. CASE Allocate
    <3>1. runStatus'.status = "running" /\ pc' = "recover" /\ runStatus' \in RunStatus
      BY <2>1 DEF Allocate, Reports
    <3>2. 1 .. SlotCount \subseteq Allocated'
      <4>1. 1 .. SlotCount \subseteq Sequence
        BY SchedulerAssumption, LimitAssumption DEF Sequence
      <4>2. QED
        BY <2>1, <4>1 DEF Allocate, RecordAllocatedSlots, Allocated, Item
    <3>3. QED
      BY <3>1, <3>2 DEF Reports
  <2>2. CASE Recover
    <3>1. CASE runStatus.status = "running"
      BY <2>2, <3>1, ReportRunning DEF Recover
    <3>2. CASE runStatus.status # "running"
      <4>1. \A s \in Sequence : work[s].status \notin InFlight
        BY <3>2 DEF Reports, WithStatus, InFlight
      <4>2. UNCHANGED <<work, outcome>>
        BY <2>2, <4>1 DEF Recover, RecoverInflightWork, Held, LedgerTypeOK
      <4>3. QED
        BY <1>0, <2>2, <4>2, ReportQuiet DEF Recover, Starting
    <3>3. QED
      BY <3>1, <3>2
  <2>3. CASE StartDrive
    BY <2>3, AllocatedGrows DEF StartDrive, Reports, Report, RunStatus
  <2>4. QED
    BY <1>2, <2>1, <2>2, <2>3 DEF StartStep
<1>3. CASE DriveStep
  BY <1>1, <1>3 DEF DriveStep, DecideToStop, LeaveLoop, BeginDispatch, DispatchReturns, Collect,
     DispatchItem, ConfirmDispatch, Submit, CommitTerminal, StopDispatch, Starting
<1>4. CASE GenerateStep
  <2>1. ASSUME NEW s \in Sequence, RejectItem(s) \/ CompileItem(s) PROVE Reports'
    <3>1. pc \in {"reject", "compile"} /\ UNCHANGED runStatus /\ pc' \in {pc, "judge", "commit"}
      BY <2>1 DEF RejectItem, CompileItem, CommitTerminal
    <3>2. QED
      BY <1>1, <3>1 DEF Starting
  <2>2. QED
    BY <1>1, <1>4, <2>1 DEF GenerateStep, BeginBatch, ClaimBatch, ReturnBatch, CallGenerator,
       GeneratorReturns, EndBatch, Starting
<1>5. CASE CommitStep
  <2>1. pc \in Committing => job.back # "allocate"
    BY DEF Held, Control, CommitArguments
  <2>2. QED
    BY <1>1, <1>5, <2>1 DEF CommitStep, AskJudge, CallJudge, JudgeReturns, Commit,
       RecordJudgment, CommitReturns, Committing, Starting
<1>6. CASE FinalizeStep
  <2>1. CASE Finish
    <3>1. /\ runStatus' = FinalReport /\ pc' = "finalize" /\ pc = "finish"
          /\ UNCHANGED <<work, outcome>>
      BY <2>1 DEF Finish, ledgerVars
    <3>2. /\ Allocated' = Allocated /\ AllDecided' = AllDecided
          /\ Cardinality(Admitted)' = Cardinality(Admitted)
          /\ \A status : WithStatus(status)' = WithStatus(status)
      BY <3>1 DEF Allocated, AllDecided, Admitted, WithStatus
    <3>3. 1 .. SlotCount \subseteq Allocated
      BY <3>1 DEF Reports
    <3> HIDE DEF FinalReport
    <3>4. QED
      BY <1>0, <3>1, <3>2, <3>3, FinalReportEarned DEF Reports
  <2>2. CASE Exit \/ Unwind
    BY <1>0, <2>2, ReportQuiet DEF Exit, Unwind, ProcessEnds, ledgerVars, Starting
  <2>3. ASSUME NEW s \in Sequence, JudgeUnavailable(s) \/ JudgeShadow(s) PROVE Reports'
    BY <1>0, <2>3, ReportQuiet, CallStepFrame DEF JudgeUnavailable, JudgeShadow,
       RecordQualityJudgment, ledgerVars
  <2>4. QED
    BY <1>6, <2>1, <2>2, <2>3 DEF FinalizeStep
<1>7. ASSUME NEW s \in Sequence, AgentStep(s) \/ AgentRaises(s) PROVE Reports'
  <2>1. UNCHANGED <<work, outcome, runStatus, pc>>
    BY <1>7, CallStepFrame DEF AgentStep, AgentCalls, AgentCannotOpen, AgentContinues,
       AgentRaises, ledgerVars
  <2>2. QED
    BY <1>0, <2>1, ReportQuiet
<1>8. CASE Open
  <2>1. /\ pc = "down" /\ UNCHANGED <<work, outcome, runStatus>>
        /\ pc' = IF runStatus.status = "running" /\ Allocated = {} THEN "allocate" ELSE "recover"
    BY <1>8 DEF Open, ledgerVars
  <2>2. Allocated # {} => 1 .. SlotCount \subseteq Allocated
    <3> SUFFICES ASSUME NEW s \in Allocated PROVE 1 .. SlotCount \subseteq Allocated
      OBVIOUS
    <3>1. s \in 1 .. SlotCount /\ 1 .. SlotCount \subseteq Sequence
      BY SchedulerAssumption, LimitAssumption DEF Allocated, Sequence, Ordered, WorkOrder
    <3>2. QED
      BY <3>1 DEF Ordered, WorkOrder, Allocated
  <2>3. /\ Allocated' = Allocated /\ AllDecided' = AllDecided
        /\ Cardinality(Admitted)' = Cardinality(Admitted)
        /\ \A status : WithStatus(status)' = WithStatus(status)
    BY <2>1 DEF Allocated, AllDecided, Admitted, WithStatus
  <2>4. QED
    BY <1>0, <2>1, <2>2, <2>3 DEF Reports, Starting
<1>9. CASE Kill \/ Cancel \/ Halted
  BY <1>0, <1>9, ReportQuiet DEF Kill, ProcessEnds, Cancel, Halted, vars, ledgerVars, Starting
<1>10. QED
  BY <1>2, <1>3, <1>4, <1>5, <1>6, <1>7, <1>8, <1>9 DEF Next, MainStep

--------------------------------------------------------------------------------
(* The judge. *)

LEMMA JudgedPassStep ==
  ASSUME Held, Caches, JudgedPass, Next
  PROVE  JudgedPass'
<1> SUFFICES ASSUME JudgeMode = "enforced" PROVE JudgedPass'
  BY DEF JudgedPass
<1> USE DEF mainVars, processVars, cacheVars, futureVars, todoVars
<1>0. "pass" # None /\ judgment \in [Sequence -> Verdict \cup {None}]
  BY SchedulerAssumption, NoneAssumption DEF Held, LedgerTypeOK
<1>1. ASSUME UNCHANGED <<pc, job, outcome, judgment>> PROVE JudgedPass'
  BY <1>1 DEF JudgedPass, Admitted
<1>2. ASSUME UNCHANGED <<outcome, judgment>>, pc # "judgment", pc' \notin {"commit", "judgment"}
      PROVE  JudgedPass'
  BY <1>2 DEF JudgedPass, Admitted
<1>3. ASSUME NEW s \in Sequence, NEW v, RecordQualityJudgment(s, v), pc # "judgment",
             UNCHANGED <<pc, job>>
      PROVE  JudgedPass'
  BY <1>0, <1>3 DEF RecordQualityJudgment, JudgedPass, Admitted
<1>4. CASE StartStep
  BY <1>2, <1>4 DEF StartStep, Allocate, Recover, StartDrive, RecordAllocatedSlots,
     RecoverInflightWork, ledgerVars
<1>5. CASE DriveStep
  <2>1. ASSUME NEW s \in Sequence, Collect(s) \/ DispatchItem(s) \/ ConfirmDispatch(s) \/ Submit(s)
        PROVE  /\ UNCHANGED <<outcome, judgment>> /\ pc # "judgment"
               /\ pc' \notin {"commit", "judgment"}
    BY <2>1 DEF Collect, DispatchItem, ConfirmDispatch, Submit, CommitTerminal, StopDispatch, ReturnWorkToReady,
       ClaimWork, ledgerVars
  <2>2. QED
    BY <1>2, <1>5, <2>1 DEF DriveStep, DecideToStop, LeaveLoop, BeginDispatch, DispatchReturns,
       ledgerVars
<1>6. CASE GenerateStep
  <2>1. ASSUME NEW s \in Sequence, RejectItem(s) \/ CompileItem(s)
        PROVE  /\ UNCHANGED <<outcome, judgment>> /\ pc # "judgment"
               /\ pc' \notin {"commit", "judgment"}
    BY <2>1 DEF RejectItem, CompileItem, CommitTerminal, RecordTaskCase, ledgerVars
  <2>2. CASE CallGenerator
    BY <1>1, <2>2, CallStepFrame DEF CallGenerator
  <2>3. QED
    BY <1>2, <1>6, <2>1, <2>2 DEF GenerateStep, BeginBatch, ClaimBatch, ReturnBatch,
       GeneratorReturns, EndBatch, ClaimWork, ReturnWorkToReady, ledgerVars
<1>7. CASE CommitStep
  <2>1. CASE AskJudge \/ CallJudge
    BY <1>1, <2>1, CallStepFrame DEF AskJudge, CallJudge, ledgerVars
  <2>2. CASE JudgeReturns
    <3>1. job \in CommitArguments /\ pc = "judge"
      BY <2>2 DEF JudgeReturns, Held, Control, Committing
    <3>2. job'.decision = "admitted" => job'.verdict = "pass"
      BY <2>2, <3>1 DEF JudgeReturns, Enforce, CommitArguments
    <3>3. QED
      BY <2>2, <3>1, <3>2 DEF JudgeReturns, JudgedPass, Admitted, ledgerVars
  <2>3. CASE Commit
    <3>1. UNCHANGED <<judgment, job>> /\ pc = "commit" /\ pc' = "judgment"
      BY <2>3 DEF Commit, CommitTerminalOutcome
    <3>2. \A s \in Admitted' : s \in Admitted \/ s = job.sequence
      BY <2>3, CommitEffect
    <3>3. QED
      BY <3>1, <3>2 DEF JudgedPass
  <2>4. CASE RecordJudgment
    <3>1. /\ job \in CommitArguments /\ pc = "judgment"
          /\ outcome[job.sequence] = [key |-> job.key, decision |-> job.decision]
      BY <2>4 DEF RecordJudgment, Held, Control, Committing, Caches
    <3>2. /\ judgment' = [judgment EXCEPT ![job.sequence] = job.verdict] /\ UNCHANGED outcome
          /\ pc' \notin {"commit", "judgment"}
      BY <2>4, <3>1 DEF RecordJudgment, RecordQualityJudgment, CommitReturns, CommitArguments
    <3>3. ASSUME NEW s \in Admitted, "kill" \notin Faults PROVE judgment'[s] = "pass"
      <4>1. CASE s = job.sequence
        <5>1. job.decision = "admitted" /\ s \in Sequence
          BY <3>1, <4>1 DEF Admitted
        <5>2. job.verdict = "pass"
          BY <3>1, <5>1 DEF JudgedPass
        <5>3. QED
          BY <1>0, <3>2, <4>1, <5>1, <5>2
      <4>2. CASE s # job.sequence
        BY <1>0, <3>2, <3>3, <4>2 DEF JudgedPass, Admitted
      <4>3. QED
        BY <4>1, <4>2
    <3>4. QED
      BY <3>2, <3>3 DEF JudgedPass, Admitted
  <2>5. QED
    BY <1>7, <2>1, <2>2, <2>3, <2>4 DEF CommitStep
<1>8. CASE FinalizeStep
  <2>1. ASSUME NEW s \in Sequence, JudgeUnavailable(s) PROVE JudgedPass'
    BY <1>3, <2>1 DEF JudgeUnavailable
  <2>2. ASSUME NEW s \in Sequence, JudgeShadow(s) PROVE JudgedPass'
    BY <1>1, <1>3, <2>2, CallStepFrame DEF JudgeShadow, ledgerVars
  <2>3. QED
    BY <1>2, <1>8, <2>1, <2>2 DEF FinalizeStep, Finish, Exit, Unwind, ProcessEnds, ledgerVars
<1>9. ASSUME NEW s \in Sequence, AgentStep(s) \/ AgentRaises(s)
      PROVE  UNCHANGED <<pc, job, outcome, judgment>>
  BY <1>9, CallStepFrame DEF AgentStep, AgentCalls, AgentCannotOpen, AgentContinues,
     AgentRaises, ledgerVars
<1>10. CASE Kill
  BY <1>10 DEF Kill, ProcessEnds, JudgedPass
<1>11. QED
  BY <1>1, <1>2, <1>4, <1>5, <1>6, <1>7, <1>8, <1>9, <1>10 DEF Next, MainStep, Open, Cancel, Halted,
     vars, ledgerVars

--------------------------------------------------------------------------------
(* The layers together. *)

Reported == Stops /\ Reports /\ JudgedPass

LEMMA ReportedInit == Init => Reported
<1> SUFFICES ASSUME Init PROVE Reported
  OBVIOUS
<1>1. /\ \A s \in Sequence : work[s].status = "absent" /\ outcome[s] = None
      /\ pc = "down" /\ stopReason = None /\ runStatus = Report("running", None)
      /\ \A c \in Thread : call[c].at = "idle"
  BY DEF Init, LedgerInit, Item, IdleCall
<1>2. Stops
  BY <1>1 DEF Stops, Signals, Sound, OutOfBudget, NothingReady, Thread
<1>3. Reports
  BY <1>1 DEF Reports, Report, RunStatus, Allocated
<1>4. JudgedPass
  BY <1>1 DEF JudgedPass, Admitted
<1>5. QED
  BY <1>2, <1>3, <1>4 DEF Reported

LEMMA ReportedStutter ==
  ASSUME Held, Held', Reported, UNCHANGED vars
  PROVE  Reported'
<1> USE DEF Reported, vars, ledgerVars, mainVars, processVars, cacheVars
<1>1. Exhausted' = Exhausted /\ TargetReached' = TargetReached
  BY DEF Exhausted, BudgetAvailable, RequestsOf, TargetReached
<1>2. Stops'
  BY <1>1 DEF Stops, TrueReason, Signals, Sound, OutOfBudget, NothingReady, WithStatus
<1>3. Reports'
  BY <1>1, ReportQuiet
<1>4. JudgedPass'
  BY DEF JudgedPass, Admitted
<1>5. QED
  BY <1>2, <1>3, <1>4

LEMMA ReportedAlways == Spec => []Reported
<1>1. Held /\ Held' /\ Ordered /\ Reported /\ [Next]_vars => Reported'
  BY StopsStep, ReportsStep, JudgedPassStep, ReportedStutter DEF Reported, Ordered
<1>2. QED
  BY <1>1, ReportedInit, HeldAlways, OrderedAlways, PTL DEF Spec

--------------------------------------------------------------------------------
(* Cancellation. *)

(* What a cancelled call can still do: charge or send what was let through. *)
LEMMA CancelledCall ==
  ASSUME Calls, NEW c \in Thread, NEW role, NEW about, cancelled,
         CallStep(c, role, about, TRUE)
  PROVE  /\ \A d \in Thread : d # c => call'[d] = call[d]
         /\ call'[c].at \notin {"charging", "sending"}
         /\ call'[c].at \in {"reserved", "sent"} => call[c].at \in {"charging", "sending"}
<1>a. DOMAIN call = Thread /\ \A d \in Thread : DOMAIN call[d] = DOMAIN IdleCall
  BY DEF Calls, Call, IdleCall
<1>b. ASSUME NEW result, Returns(c, result)
      PROVE  call'[c].at = "returned" /\ \A d \in Thread : d # c => call'[d] = call[d]
  BY <1>a, <1>b DEF Returns, IdleCall
<1>1. CASE CallGivesUp(c, role, TRUE) BY <1>1, <1>b DEF CallGivesUp
<1> USE <1>a DEF IdleCall
<1>2. CASE CallReserves(c, role, about) BY <1>2 DEF CallReserves
<1>3. CASE CallDispatches(c) BY <1>3 DEF CallDispatches
<1>4. CASE CallSucceeds(c) BY <1>4 DEF CallSucceeds, Returns
<1>5. CASE CallFails(c) BY <1>5 DEF CallFails, Returns
<1>6. QED BY <1>1, <1>2, <1>3, <1>4, <1>5 DEF CallStep, CallProceeds, Stopped

(* The judge's calls are the main thread's and no other's. *)
LEMMA JudgeCall ==
  ASSUME Calls, NEW role, NEW about, CallStep(Main, role, about, FALSE)
  PROVE  \A d \in Thread : d # Main => call'[d] = call[d]
<1>1. Main \in Thread
  BY DEF Thread
<1>2. QED
  BY <1>1 DEF Calls, CallStep, CallGivesUp, CallProceeds, CallReserves, CallDispatches,
     CallSucceeds, CallFails, Returns

LEMMA CancelledThreads ==
  ASSUME Held, Next, cancelled, NEW c \in Thread, Heeds(c), call'[c] # call[c]
  PROVE  /\ call'[c].at \notin {"charging", "sending"}
         /\ call'[c].at \in {"reserved", "sent"} => call[c].at \in {"charging", "sending"}
<1> DEFINE Goal == /\ call'[c].at \notin {"charging", "sending"}
                   /\ call'[c].at \in {"reserved", "sent"} =>
                          call[c].at \in {"charging", "sending"}
<1> USE DEF Held
<1>0. Main \in Thread /\ Sequence \subseteq Thread
  BY DEF Thread
<1>1. ASSUME NEW d \in Thread, NEW new, call' = [call EXCEPT ![d] = new],
             new.at \in {"idle", "reserve", "done"}
      PROVE  Goal
  BY <1>1 DEF Calls
<1>2. IdleCall.at = "idle" /\ \A n : NewCall(n).at = "reserve"
  BY DEF IdleCall, NewCall
<1>3. CASE ProcessEnds
  BY <1>2, <1>3 DEF ProcessEnds
<1>4. ASSUME NEW d \in Thread, NEW role, NEW about, CallStep(d, role, about, TRUE)
      PROVE  Goal
  BY <1>4, CancelledCall
<1>5. ASSUME NEW role, NEW about, CallStep(Main, role, about, FALSE), pc \in {"judge", "finalize"}
      PROVE  FALSE
  BY <1>5, JudgeCall DEF Heeds
<1>7. CASE StartStep
  BY <1>7 DEF StartStep, Allocate, Recover, StartDrive
<1>8. CASE DriveStep
  BY <1>0, <1>1, <1>2, <1>8 DEF DriveStep, DecideToStop, LeaveLoop, BeginDispatch,
     DispatchReturns, Collect, DispatchItem, ConfirmDispatch, Submit
<1>9. CASE GenerateStep
  BY <1>0, <1>1, <1>2, <1>4, <1>9 DEF GenerateStep, BeginBatch, ClaimBatch, ReturnBatch,
     CallGenerator, GeneratorReturns, EndBatch, RejectItem, CompileItem
<1>10. CASE CommitStep
  BY <1>0, <1>1, <1>2, <1>5, <1>10 DEF CommitStep, AskJudge, CallJudge, JudgeReturns,
     Commit, RecordJudgment
<1>11. CASE FinalizeStep
  BY <1>0, <1>1, <1>2, <1>3, <1>5, <1>11 DEF FinalizeStep, Finish, Exit, Unwind,
     JudgeUnavailable, JudgeShadow
<1>12. ASSUME NEW s \in Sequence, AgentStep(s) \/ AgentRaises(s)
       PROVE  Goal
  <2>1. \A result : [IdleCall EXCEPT !.at = "done", !.result = result].at = "done"
    BY DEF IdleCall
  <2>2. CASE AgentCalls(s)
    BY <1>0, <1>4, <2>2 DEF AgentCalls
  <2>3. ASSUME NEW result, EpisodeEnds(s, result) PROVE Goal
    BY <1>0, <1>1, <2>1, <2>3 DEF EpisodeEnds
  <2>4. ASSUME NEW step, call' = [call EXCEPT ![s] = NewCall(step)] PROVE Goal
    BY <1>0, <1>1, <1>2, <2>4
  <2> HIDE DEF Goal
  <2>5. CASE AgentContinues(s)
    BY <2>3, <2>4, <2>5 DEF AgentContinues
  <2>6. QED
    BY <1>12, <2>2, <2>3, <2>5 DEF AgentStep, AgentCannotOpen, AgentRaises
<1>13. QED
  BY <1>3, <1>7, <1>8, <1>9, <1>10, <1>11, <1>12 DEF Next, MainStep, Open, Kill, Cancel,
     Halted, vars

(* Where the main thread's generation call and a future's submission begin.  *)
LEMMA CancelledMain ==
  ASSUME Held, Next, cancelled
  PROVE  /\ pc' = "call" => pc = "call" \/ call'[Main] = NewCall(1)
         /\ pc' = "submitting" => pc = "submitting"
         /\ \A s \in inFlight' \ inFlight : pc = "submitting" /\ s = Least(probe)
<1> USE DEF futureVars
<1>0. Main \in Thread /\ DOMAIN call = Thread
  BY DEF Thread, Held, Calls
<1>1. CASE StartStep
  BY <1>1 DEF StartStep, Allocate, Recover, StartDrive
<1>2. CASE DriveStep
  <2>1. ASSUME NEW s \in Sequence, Collect(s) \/ DispatchItem(s)
        PROVE  pc' \notin {"call", "submitting"} /\ inFlight' \subseteq inFlight
    BY <2>1 DEF Collect, DispatchItem, CommitTerminal, StopDispatch
  <2>2. ASSUME NEW s \in Sequence, ConfirmDispatch(s) \/ Submit(s)
        PROVE  /\ pc' \notin {"call", "submitting"}
               /\ \A t \in inFlight' \ inFlight : pc = "submitting" /\ t = Least(probe)
    BY <2>2 DEF ConfirmDispatch, Submit, StopDispatch
  <2>3. CASE DecideToStop \/ LeaveLoop \/ BeginDispatch \/ DispatchReturns
    BY <2>3 DEF DecideToStop, LeaveLoop, BeginDispatch, DispatchReturns
  <2>4. QED
    BY <1>2, <2>1, <2>2, <2>3 DEF DriveStep
<1>3. CASE GenerateStep
  <2>1. CASE ClaimBatch
    BY <1>0, <2>1 DEF ClaimBatch
  <2>2. ASSUME NEW s \in Sequence, RejectItem(s) \/ CompileItem(s)
        PROVE  pc' \notin {"call", "submitting"} /\ inFlight' = inFlight
    BY <2>2 DEF RejectItem, CompileItem, CommitTerminal
  <2>3. CASE CallGenerator
    BY <2>3 DEF CallGenerator, mainVars
  <2>4. CASE BeginBatch \/ ReturnBatch \/ GeneratorReturns \/ EndBatch
    BY <2>4 DEF BeginBatch, ReturnBatch, GeneratorReturns, EndBatch
  <2>5. QED
    BY <1>3, <2>1, <2>2, <2>3, <2>4 DEF GenerateStep
<1>4. CASE CommitStep
  <2>1. CASE AskJudge \/ CallJudge \/ JudgeReturns
    BY <2>1 DEF AskJudge, CallJudge, JudgeReturns, mainVars
  <2>2. CASE Commit \/ RecordJudgment
    <3>1. job.back \notin {"call", "submitting"}
      BY <2>2 DEF Commit, RecordJudgment, Held, Control, Committing, CommitArguments
    <3>2. QED
      BY <2>2, <3>1 DEF Commit, RecordJudgment, CommitReturns
  <2>3. QED
    BY <1>4, <2>1, <2>2 DEF CommitStep
<1>5. CASE FinalizeStep
  BY <1>5 DEF FinalizeStep, Finish, Exit, Unwind, ProcessEnds, JudgeUnavailable, JudgeShadow,
     mainVars
<1>6. ASSUME NEW s \in Sequence, AgentStep(s) \/ AgentRaises(s)
      PROVE  UNCHANGED <<pc, inFlight>>
  BY <1>6 DEF AgentStep, AgentCalls, AgentCannotOpen, AgentContinues, AgentRaises, mainVars,
     futureVars
<1>7. QED
  BY <1>1, <1>2, <1>3, <1>4, <1>5, <1>6 DEF Next, MainStep, Open, Kill, ProcessEnds, Cancel,
     Halted, vars, mainVars, futureVars

(* A call belongs to a future, and a future to a worker. *)
LEMMA WorkersStep ==
  ASSUME Held, Ordered, Workers, [Next]_vars
  PROVE  Workers'
<1> USE DEF Held
<1>0. /\ Main \in Thread /\ Sequence \subseteq Thread /\ Main \notin Sequence
      /\ call \in [Thread -> Call]
  BY LimitAssumption DEF Main, Thread, Sequence, Calls
<1>1. IsFiniteSet(inFlight) /\ inFlight \subseteq Sequence /\ Cardinality(inFlight) \in Nat
  BY SequenceSetsFinite, FS_CardinalityType DEF Control
<1>2. ASSUME UNCHANGED inFlight, NEW c \in inFlight \cup {Main},
             \A d \in Thread : d # c => call'[d] = call[d],
             pc' \in Submitting => pc \in Submitting
      PROVE  Workers'
  BY <1>0, <1>2 DEF Workers
<1>3. CASE UNCHANGED <<inFlight, call>> /\ (pc' \in Submitting => pc \in Submitting)
  BY <1>3 DEF Workers
<1>4. CASE ProcessEnds
  BY <1>4, SchedulerAssumption, FS_EmptySet DEF ProcessEnds, Workers, IdleCall, Submitting, Thread
<1>5. ASSUME NEW new, call' = [call EXCEPT ![Main] = new], UNCHANGED inFlight,
             pc' \in Submitting => pc \in Submitting
      PROVE  Workers'
  BY <1>0, <1>2, <1>5
<1>6. CASE StartStep
  BY <1>3, <1>6 DEF StartStep, Allocate, Recover, StartDrive, futureVars, Submitting
<1>7. CASE DriveStep
  <2>1. ASSUME NEW s \in Sequence, Collect(s) PROVE Workers'
    <3>1. /\ inFlight' = inFlight \ {s} /\ call' = [call EXCEPT ![s] = IdleCall]
          /\ pc' \notin Submitting
      BY <2>1 DEF Collect, CommitTerminal, Submitting
    <3>2. Cardinality(inFlight \ {s}) <= Cardinality(inFlight) /\ IsFiniteSet(inFlight \ {s})
      BY <1>1, FS_Subset
    <3>3. Cardinality(inFlight \ {s}) \in Nat
      BY <3>2, FS_CardinalityType
    <3>4. \A t \in Sequence : call'[t].at # "idle" => t \in inFlight'
      BY <1>0, <3>1 DEF Workers, IdleCall
    <3>5. QED
      BY <1>1, <3>1, <3>2, <3>3, <3>4, SchedulerAssumption DEF Workers
  <2>2. ASSUME NEW s \in Sequence, DispatchItem(s) PROVE Workers'
    <3>1. UNCHANGED <<inFlight, call>>
      BY <2>2 DEF DispatchItem, futureVars
    <3>2. CASE pc' = "submit"
      <4>1. Available > 0
        BY <2>2, <3>2 DEF DispatchItem, StopDispatch, CommitTerminal
      <4>0. accepted = Cardinality(Settled) /\ Settled \in SUBSET Sequence
        BY <2>2 DEF DispatchItem, Ordered, Caches, Starting, Settled, Admitted
      <4>2. MaxConcurrency - Cardinality(inFlight) > 0
        BY <1>1, <4>0, <4>1, SequenceSetsFinite, SchedulerAssumption, LimitAssumption DEF Available
      <4>3. QED
        BY <1>1, <3>1, <4>2, SchedulerAssumption DEF Workers
    <3>3. CASE pc' # "submit"
      BY <2>2, <3>1, <3>3, <1>3 DEF DispatchItem, StopDispatch, CommitTerminal, Submitting
    <3>4. QED
      BY <3>2, <3>3
  <2>3. ASSUME NEW s \in Sequence, ConfirmDispatch(s) PROVE Workers'
    BY <1>3, <2>3 DEF ConfirmDispatch, StopDispatch, futureVars, Submitting
  <2>4. ASSUME NEW s \in Sequence, Submit(s) PROVE Workers'
    <3>0. /\ inFlight' = inFlight \cup {s} /\ call' = [call EXCEPT ![s] = NewCall(1)]
          /\ pc' = "dispatch" /\ pc = "submitting"
      BY <2>4 DEF Submit
    <3>1. /\ inFlight' = inFlight \cup {s} /\ call' = [call EXCEPT ![s] = NewCall(1)]
          /\ pc' = "dispatch" /\ Cardinality(inFlight) < MaxConcurrency
      BY <3>0 DEF Workers
    <3>2. Cardinality(inFlight \cup {s}) <= Cardinality(inFlight) + 1
      <4>1. Cardinality(inFlight \cup {s}) =
              IF s \in inFlight THEN Cardinality(inFlight) ELSE Cardinality(inFlight) + 1
        BY <1>1, FS_AddElement, Zenon
      <4>2. \A n \in Nat : n <= n + 1
        OBVIOUS
      <4>3. QED
        BY <1>1, <4>1, <4>2
    <3>3. IsFiniteSet(inFlight \cup {s}) /\ Cardinality(inFlight \cup {s}) \in Nat
      BY <1>1, FS_AddElement, FS_CardinalityType
    <3>4. \A t \in Sequence : call'[t].at # "idle" => t \in inFlight'
      BY <1>0, <3>1 DEF Workers
    <3>5. QED
      BY <1>1, <3>1, <3>2, <3>3, <3>4, SchedulerAssumption DEF Workers, Submitting
  <2>5. CASE DecideToStop \/ LeaveLoop \/ BeginDispatch \/ DispatchReturns
    BY <1>3, <2>5 DEF DecideToStop, LeaveLoop, BeginDispatch, DispatchReturns, futureVars,
       Submitting
  <2>6. QED
    BY <1>7, <2>1, <2>2, <2>3, <2>4, <2>5 DEF DriveStep
<1>8. ASSUME NEW c \in Thread, NEW role, NEW about, NEW heeds,
             CallStep(c, role, about, heeds)
      PROVE  \A d \in Thread : d # c => call'[d] = call[d]
  BY <1>0, <1>8 DEF CallStep, CallGivesUp, CallProceeds, CallReserves, CallDispatches,
     CallSucceeds, CallFails, Returns
<1>9. CASE GenerateStep
  <2>1. CASE CallGenerator
    BY <1>0, <1>2, <1>8, <2>1 DEF CallGenerator, mainVars, futureVars
  <2>2. CASE ClaimBatch
    BY <1>3, <1>5, <2>2 DEF ClaimBatch, futureVars, Submitting
  <2>3. CASE GeneratorReturns
    BY <1>5, <2>3 DEF GeneratorReturns, futureVars, Submitting
  <2>4. ASSUME NEW s \in Sequence, RejectItem(s) \/ CompileItem(s) PROVE Workers'
    BY <1>3, <2>4 DEF RejectItem, CompileItem, CommitTerminal, futureVars, Submitting
  <2>5. CASE BeginBatch \/ ReturnBatch \/ EndBatch
    BY <1>3, <2>5 DEF BeginBatch, ReturnBatch, EndBatch, futureVars, Submitting
  <2>6. QED
    BY <1>9, <2>1, <2>2, <2>3, <2>4, <2>5 DEF GenerateStep
<1>10. CASE CommitStep
  <2>1. CASE AskJudge \/ JudgeReturns
    BY <1>5, <2>1 DEF AskJudge, JudgeReturns, futureVars, Submitting
  <2>2. CASE CallJudge
    BY <1>0, <1>2, <1>8, <2>2 DEF CallJudge, mainVars, futureVars
  <2>3. CASE Commit \/ RecordJudgment
    <3>1. job.back \notin Submitting
      BY <2>3 DEF Commit, RecordJudgment, Control, Committing, CommitArguments, Submitting
    <3>2. QED
      BY <1>3, <2>3, <3>1 DEF Commit, RecordJudgment, CommitReturns, futureVars, Submitting
  <2>4. QED
    BY <1>10, <2>1, <2>2, <2>3 DEF CommitStep
<1>11. CASE FinalizeStep
  <2>1. ASSUME NEW s \in Sequence, JudgeShadow(s) PROVE Workers'
    BY <1>0, <1>2, <1>5, <1>8, <2>1 DEF JudgeShadow, mainVars, futureVars
  <2>2. ASSUME NEW s \in Sequence, JudgeUnavailable(s) PROVE Workers'
    BY <1>3, <2>2 DEF JudgeUnavailable, mainVars, futureVars
  <2>3. CASE Finish
    BY <1>3, <2>3 DEF Finish, futureVars, Submitting
  <2>4. QED
    BY <1>4, <1>11, <2>1, <2>2, <2>3 DEF FinalizeStep, Exit, Unwind
<1>12. ASSUME NEW s \in Sequence, AgentStep(s) \/ AgentRaises(s) PROVE Workers'
  <2>1. s \in inFlight /\ UNCHANGED <<inFlight, pc>>
    BY <1>12 DEF AgentStep, AgentCalls, AgentCannotOpen, AgentContinues, AgentRaises, mainVars,
       futureVars
  <2>2. \A d \in Thread : d # s => call'[d] = call[d]
    BY <1>0, <1>8, <1>12 DEF AgentStep, AgentCalls, AgentCannotOpen, AgentContinues, AgentRaises,
       EpisodeEnds
  <2>3. QED
    BY <1>2, <2>1, <2>2
<1>13. CASE Open \/ Cancel \/ Halted \/ UNCHANGED vars
  BY <1>3, <1>13 DEF Open, Cancel, Halted, vars, mainVars, futureVars, Submitting
<1>14. QED
  BY <1>4, <1>6, <1>7, <1>9, <1>10, <1>11, <1>12, <1>13 DEF Next, MainStep, Kill

LEMMA WorkersAlways == Spec => []Workers
<1>1. Init => Workers
  BY SchedulerAssumption, FS_EmptySet DEF Init, Workers, IdleCall, Submitting, Thread
<1>2. Held /\ Ordered /\ Workers /\ [Next]_vars => Workers'
  BY WorkersStep
<1>3. QED
  BY <1>1, <1>2, HeldAlways, OrderedAlways, PTL DEF Spec

(* The threads past a check are futures, or the generator alone. *)
LEMMA FewAreUndeterred ==
  ASSUME Held, Workers
  PROVE  Cardinality(Undeterred) <= MaxConcurrency
<1>1. IsFiniteSet(inFlight) /\ inFlight \subseteq Sequence
  BY SequenceSetsFinite DEF Held, Control
<1>2. CASE Main \in Undeterred
  <2>1. inFlight = {}
    BY <1>2 DEF Undeterred, Heeds, Held, Control, Place, Committing, Dispatching, Submitting
  <2>2. Undeterred \subseteq {Main}
    BY <2>1 DEF Undeterred, Thread, Workers
  <2>3. Cardinality(Undeterred) <= Cardinality({Main}) /\ Cardinality({Main}) = 1
    BY <2>2, FS_Singleton, FS_Subset
  <2>4. IsFiniteSet(Undeterred)
    BY <2>2, FS_Singleton, FS_Subset
  <2>5. QED
    BY <2>3, <2>4, FS_CardinalityType, SchedulerAssumption
<1>3. CASE Main \notin Undeterred
  <2>1. Undeterred \subseteq inFlight
    BY <1>3 DEF Undeterred, Thread, Workers
  <2>2. Cardinality(Undeterred) <= Cardinality(inFlight) /\ IsFiniteSet(Undeterred)
    BY <1>1, <2>1, FS_Subset
  <2>3. QED
    BY <1>1, <2>2, FS_CardinalityType, SchedulerAssumption DEF Workers
<1>4. QED
  BY <1>2, <1>3

LEMMA CancelledDispatch ==
  ASSUME Held, Next, cancelled
  PROVE  /\ Undeterred' \subseteq Undeterred
         /\ \A c \in Thread :
               /\ Heeds(c)
               /\ call'[c].at \in {"reserved", "sent"} /\ call'[c].at # call[c].at
               => c \in Undeterred \ Undeterred'
         /\ pc' = "submitting" => pc = "submitting"
         /\ \A s \in inFlight' \ inFlight : pc = "submitting" /\ s = Least(probe)
<1>1. ASSUME NEW c \in Undeterred' PROVE c \in Undeterred
  <2>1. c \in Thread /\ Heeds(c)' /\ call'[c].at \in {"charging", "sending"}
    BY <1>1 DEF Undeterred
  <2>2. Heeds(c)
    BY <2>1, CancelledMain DEF Heeds, NewCall, IdleCall
  <2>3. call'[c] = call[c]
    BY <2>1, <2>2, CancelledThreads
  <2>4. QED
    BY <2>1, <2>2, <2>3 DEF Undeterred
<1>2. ASSUME NEW c \in Thread, Heeds(c), call'[c].at \in {"reserved", "sent"},
             call'[c].at # call[c].at
      PROVE  c \in Undeterred \ Undeterred'
  BY <1>2, CancelledThreads DEF Undeterred
<1>3. QED
  BY <1>1, <1>2, CancelledMain

(* Once the operator has cancelled, at most one request per thread is still  *)
(* charged or sent, by a thread that had read the signal before, and at most *)
(* one future is submitted (the reads of _call_model before the reservation  *)
(* and before model.complete, the checks of dispatch_ready_work).            *)
THEOREM CancelBoundsTheDispatch == Spec => CancelBoundsDispatch
<1>1. Held /\ Workers => Cardinality(Undeterred) <= MaxConcurrency
  BY FewAreUndeterred
<1>2. Held /\ [Next]_vars =>
        [cancelled =>
          /\ Undeterred' \subseteq Undeterred
          /\ \A c \in Thread :
                /\ Heeds(c)
                /\ call'[c].at \in {"reserved", "sent"} /\ call'[c].at # call[c].at
                => c \in Undeterred \ Undeterred'
          /\ pc' = "submitting" => pc = "submitting"
          /\ \A s \in inFlight' \ inFlight : pc = "submitting" /\ s = Least(probe)]_vars
  BY CancelledDispatch
<1>3. QED
  BY <1>1, <1>2, HeldAlways, WorkersAlways, PTL DEF Spec, CancelBoundsDispatch

--------------------------------------------------------------------------------
(* The whole invariant, and with it every layer. *)
THEOREM SchedulerKeepsInvariant == Spec => []SchedulerInvariant
<1>1. Held /\ Ordered /\ Reported /\ Workers => SchedulerInvariant
  BY DEF Held, Ordered, Reported, SchedulerInvariant
<1>2. QED
  BY <1>1, HeldAlways, OrderedAlways, ReportedAlways, WorkersAlways, PTL

--------------------------------------------------------------------------------
(* What the layers give. *)

(* A status that says the run is over is true of the ledger, in this process *)
(* and after it: a completed run met its target exactly or decided every     *)
(* slot, a run out of slots decided them all, a run out of requests really   *)
(* is, and nothing is left claimed (the end of _drive_run, resume).          *)
THEOREM ReportsAreEarned == Spec => []ReportIsEarned
<1>1. Reported => ReportIsEarned
  BY DEF Reported, Reports, ReportIsEarned, AllDecided, Exhausted
<1>2. QED
  BY <1>1, ReportedAlways, PTL

(* Admissions plus Episodes in flight never exceed the target, whatever the  *)
(* concurrency; and what a completed run left undecided before its last      *)
(* admitted task could only have been a duplicate (Available, dispatch in    *)
(* sequence order).                                                          *)
THEOREM TargetIsMetInOrder == Spec => []TargetTakesTheEarliest
<1>1. Held /\ Ordered /\ Reported => TargetTakesTheEarliest
  <2> SUFFICES ASSUME Held, Ordered, Reported, AcceptedTarget # None
               PROVE  TargetTakesTheEarliest
    BY DEF TargetTakesTheEarliest
  <2> DEFINE F == inFlight \ Admitted
             K == {taskCase[s] : s \in F}
  <2>0. \A s \in Sequence : s \in Nat
    BY LimitAssumption DEF Sequence
  <2>1. AcceptedTarget \in Nat /\ Cardinality(Admitted) + Cardinality(RivalKeys) <= AcceptedTarget
    BY SchedulerAssumption, LimitAssumption DEF Ordered, WithinTarget
  <2>2. F \in SUBSET Sequence
    BY DEF Held, Control
  <2>3. \A s, t \in F : taskCase[s] = taskCase[t] => s = t
    BY RunningKeysDiffer DEF Ordered
  <2>4. Cardinality(K) = Cardinality(F) /\ Cardinality(F) \in Nat
    BY <2>2, <2>3, KeysOfTasks, SequenceSetsFinite
  <2>5. K \subseteq RivalKeys
    <3> SUFFICES ASSUME NEW s \in F PROVE taskCase[s] \in RivalKeys
      OBVIOUS
    <3>1. work[s].status = "running" /\ outcome[s] = None /\ s <= s /\ s \in Sequence
      BY <2>0, <2>2, RunningItem DEF RunningHeld
    <3>2. ASSUME NEW t \in Admitted, outcome[t].key = taskCase[s] PROVE FALSE
      <4>1. t \in Sequence /\ outcome[t] # None /\ taskCase[t] = taskCase[s] /\ Contender(t) /\ Contender(s)
        BY <3>1, <3>2 DEF Admitted, Ordered, Caches, Contender
      <4>2. t # s /\ ~(s < t) /\ ~(t < s)
        BY <3>1, <3>2, <4>1 DEF Ordered, Winners
      <4>3. QED
        BY <2>0, <3>1, <4>1, <4>2
    <3>3. taskCase[s] \notin AdmittedKeys
      BY <3>2 DEF AdmittedKeys
    <3>4. QED
      BY <3>1, <3>3, RivalKey DEF Awaits, Contender
  <2>6. Cardinality(F) <= Cardinality(RivalKeys)
    BY <2>4, <2>5, RivalsFinite
  <2>7. Cardinality(Admitted) + Cardinality(F) <= AcceptedTarget
    BY <2>1, <2>4, <2>6, RivalsFinite, AdmittedFinite
  <2>8. ASSUME runStatus.status = "completed", NEW s \in Admitted, NEW t \in Sequence,
               t < s, outcome[t] = None
        PROVE  taskCase[t] \in AdmittedKeys
    <3>1. RivalKeys = {}
      <4>1. Cardinality(Admitted) = AcceptedTarget
        BY <2>8 DEF Reported, Reports
      <4>2. Cardinality(RivalKeys) = 0
        BY <2>1, <4>1, RivalsFinite
      <4>3. QED
        BY <4>2, RivalsFinite, FS_EmptySet
    <3>2. s \in Sequence /\ Contender(s) /\ t <= s
      BY <2>0, <2>8 DEF Admitted, Contender
    <3>3. work[s].status \notin Ungenerated
      BY <3>2, ContenderHasCase DEF Ordered
    <3>4. work[t].status \notin Ungenerated
      BY <2>8, <3>2, <3>3 DEF Ordered, WorkOrder
    <3>5. Awaits(t)
      BY <2>8, <3>4 DEF Awaits, Ungenerated, Held, LedgerTypeOK, WorkItem, WorkStatus, Ready, InFlight,
         LedgerConsistent, TerminalIffOutcome
    <3>6. QED
      BY <3>1, <3>2, <3>5, RivalKey
  <2>9. QED
    BY <2>7, <2>8 DEF TargetTakesTheEarliest
<1>2. QED
  BY <1>1, HeldAlways, OrderedAlways, ReportedAlways, PTL

(* Unless a process is killed between commit_terminal and its judgment (the  *)
(* finding of run enforced_judgment_after_kill), every demonstration of an   *)
(* enforced run has a pass on record or its commit is still in progress      *)
(* (_apply_semantic_enforcement, commit_terminal, _finalize_run).            *)
THEOREM OnlyJudgedPassesAreAdmitted ==
  "kill" \notin Faults => (Spec => []AdmittedPassTheJudge)
<1> SUFFICES ASSUME "kill" \notin Faults PROVE Spec => []AdmittedPassTheJudge
  OBVIOUS
<1>1. Held /\ Caches /\ Reported => AdmittedPassTheJudge
  <2> SUFFICES ASSUME Held, Caches, Reported, JudgeMode = "enforced", NEW s \in Admitted
               PROVE  judgment[s] \in {None, "pass"}
    BY DEF AdmittedPassTheJudge
  <2>1. judgment[s] = "pass" \/ (pc = "judgment" /\ s = job.sequence)
    BY DEF Reported, JudgedPass
  <2>2. pc = "judgment" => judgment[job.sequence] = None
    BY DEF Held, Claims
  <2>3. QED
    BY <2>1, <2>2
<1>2. QED
  BY <1>1, HeldAlways, OrderedAlways, ReportedAlways, PTL DEF Ordered

(* Every table, the status, and every local variable of the process keep     *)
(* their types; accepted_count never exceeds the number of slots.            *)
THEOREM SchedulerTypeCorrect == Spec => []TypeOK
<1>1. Held /\ Ordered /\ Reported => TypeOK
  <2> SUFFICES ASSUME Held, Ordered, Reported PROVE TypeOK
    OBVIOUS
  <2> USE DEF Held, Ordered, Reported
  <2>1. accepted \in 0 .. SlotLimit /\ admittedKeys \subseteq Key
    <3>1. CASE pc \in Starting
      BY <3>1, LimitAssumption DEF Control
    <3>2. CASE pc \notin Starting
      <4>1. Settled \subseteq Admitted /\ Admitted \subseteq Sequence
        BY DEF Settled, Admitted
      <4>2. Cardinality(Sequence) = SlotLimit /\ IsFiniteSet(Sequence)
        BY FS_Interval, LimitAssumption DEF Sequence
      <4>3. Cardinality(Settled) <= SlotLimit /\ Cardinality(Settled) \in Nat
        BY <4>1, <4>2, FS_Subset, FS_CardinalityType
      <4>4. \A s \in Settled : outcome[s].key \in Key
        BY <4>1, NoneAssumption DEF Caches, LedgerTypeOK
      <4>5. QED
        BY <3>2, <4>3, <4>4, LimitAssumption DEF Caches
    <3>3. QED
      BY <3>1, <3>2
  <2>2. activeKeys \subseteq Key
    <3>1. \A s \in inFlight : s \in Sequence /\ taskCase[s] \in Key
      BY RunningItem DEF RunningHeld, Control, LedgerTypeOK
    <3>2. QED
      BY <3>1 DEF Caches
  <2>3. job \in Job \cup {None}
    BY DEF Control, CommitArguments, Job, ProgramCounter
  <2>4. invocation \in 0 .. MaxInvocations
    BY DEF ArgumentsTyped
  <2>5. stopReason \in StopReason \cup {None} /\ runStatus \in RunStatus
    BY DEF Stops, TrueReason, Reports
  <2>6. QED
    BY <2>1, <2>2, <2>3, <2>4, <2>5 DEF TypeOK, Control, Calls
<1>2. QED
  BY <1>1, HeldAlways, OrderedAlways, ReportedAlways, PTL

--------------------------------------------------------------------------------
(* RunScheduler implements RunContract. *)

(* An instance has its own name for the library's Cardinality.               *)
LEMMA ContractCardinality == \A S : Contract!Cardinality(S) = Cardinality(S)
  BY DEF Contract!Cardinality, Cardinality

(* The winners of the contract are the admitted slots of the ledger.         *)
LEMMA ContractNames ==
  /\ Contract!Winners = Admitted
  /\ Contract!WinningKeys = {outcome[s].key : s \in Admitted}
  BY DEF Contract!Winners, Contract!WinningKeys, Admitted

(* A commit decides one open slot, as the contract allows.                   *)
LEMMA CommitIsDecision ==
  ASSUME Held, Ordered, Commit
  PROVE  Contract!ContractNext
<1> DEFINE s == job.sequence
           k == job.key
<1>1. /\ s \in Sequence /\ outcome[s] = None /\ pc = "commit"
      /\ outcome' = [outcome EXCEPT ![s] = [key |-> k, decision |-> job.decision]]
      /\ work[s].status \notin {"absent", "terminal"}
      /\ job \in CommitArguments
  BY CommitEffect DEF Held, Control, Committing
<1>2. s \in 1 .. SlotCount
  BY <1>1, SchedulerAssumption, LimitAssumption DEF Ordered, WorkOrder, Sequence
<1>3. UNCHANGED <<Len(requests), runStatus.status>>
  BY DEF Commit, CommitTerminalOutcome, processVars
<1>4. job.decision \in Decision /\ k \in Key \cup {None}
  BY <1>1 DEF CommitArguments
<1>5. CASE job.decision = "admitted"
  <2>1. /\ job.back = "loop" /\ k = taskCase[s] /\ k # None /\ k \notin admittedKeys
        /\ admittedKeys = {outcome[t].key : t \in Admitted}
    BY <1>1, <1>5 DEF Ordered, Caches, Committing, Settled, Starting
  <2>2. work[s].status = "running" /\ s \in Nat
    BY <1>1, <2>1, RunningItem DEF RunningHeld, Deciding
  <2>3. k \in RivalKeys
    <3>1. k \notin AdmittedKeys
      BY <2>1 DEF AdmittedKeys
    <3>2. Awaits(s) /\ Contender(s) /\ s <= s
      BY <2>2 DEF Awaits, Contender
    <3>3. QED
      BY <1>1, <2>1, <3>1, <3>2, RivalKey
  <2>4. AcceptedTarget # None => Cardinality(Admitted) < AcceptedTarget
    <3>1. Cardinality(RivalKeys) # 0 /\ Cardinality(RivalKeys) \in Nat
      BY <2>3, RivalsFinite, FS_EmptySet
    <3>2. QED
      BY <3>1, AdmittedFinite, SchedulerAssumption, LimitAssumption DEF Ordered, WithinTarget
  <2>5. Contract!Admit(s, k)
    <3>1. outcome' = [outcome EXCEPT ![s] = [key |-> k, decision |-> "admitted"]]
      BY <1>1, <1>5
    <3>2. k \notin Contract!WinningKeys
      BY <2>1, ContractNames
    <3>3. AcceptedTarget # None => Cardinality(Contract!Winners) < AcceptedTarget
      BY <2>4, ContractNames
    <3>4. QED
      BY <1>1, <1>3, <3>1, <3>2, <3>3, ContractCardinality DEF Contract!Admit
  <2>6. QED
    BY <1>2, <1>4, <2>1, <2>5 DEF Contract!ContractNext
<1>6. CASE job.decision # "admitted"
  <2>1. job.decision = "duplicate" => k \in {outcome[t].key : t \in Admitted}
    BY <1>1 DEF Ordered, Winners, Deciding
  <2>2. Contract!TurnDown(s, k, job.decision)
    BY <1>1, <1>3, <2>1, ContractNames DEF Contract!TurnDown
  <2>3. QED
    BY <1>2, <1>4, <1>6, <2>2 DEF Contract!ContractNext, Decision
<1>7. QED
  BY <1>5, <1>6

(* A ledger method charges at most one request, within the ceiling.          *)
LEMMA ChargesOneByOne ==
  ASSUME Held, [Next]_vars
  PROVE  \/ Len(requests') = Len(requests)
         \/ Len(requests) < TotalLimit /\ Len(requests') = Len(requests) + 1
<1>1. [LedgerNext]_ledgerVars /\ requests \in Seq(Request)
  BY EveryStepUsesLedger DEF Held, LedgerTypeOK
<1>2. ASSUME NEW r \in Role, NEW about \in SUBSET Sequence, ReserveProviderRequest(r, about)
      PROVE  Len(requests) < TotalLimit /\ Len(requests') = Len(requests) + 1
  BY <1>1, <1>2 DEF ReserveProviderRequest, BudgetAvailable
<1>3. ASSUME NEW j \in DOMAIN requests, NEW status \in {"completed", "failed"},
             FinishProviderRequest(j, status)
      PROVE  Len(requests') = Len(requests)
  BY <1>1, <1>3 DEF FinishProviderRequest
<1>4. QED
  BY <1>1, <1>2, <1>3 DEF LedgerNext, RecordAllocatedSlots, ClaimWork, ReturnWorkToReady,
     RecoverInflightWork, RecordTaskCase, CommitTerminalOutcome, RecordQualityJudgment, ledgerVars

(* A status is announced on its own, and a completion only when it is one.   *)
LEMMA StatusIsAnnounced ==
  ASSUME Held, Ordered, Stops, Reports, Next, runStatus' # runStatus
  PROVE  Contract!ContractNext
<1> USE DEF mainVars, processVars
<1>1. CASE StartDrive
  <2>1. Contract!Announce("running")
    BY <1>1 DEF StartDrive, Contract!Announce, Report, ledgerVars
  <2>2. QED
    BY <2>1 DEF Contract!ContractNext
<1>2. CASE Finish
  <2>1. runStatus' = FinalReport /\ UNCHANGED <<outcome, requests>> /\ pc = "finish"
    BY <1>2 DEF Finish, ledgerVars
  <2>2. FinalReport.status \in {"running", "completed", "partial", "cancelled"}
    BY <2>1, FinalReportEarned DEF RunStatus
  <2>3. FinalReport.status = "completed" => Contract!Fulfilled
    <3>1. 1 .. SlotCount \subseteq Allocated
      BY <2>1 DEF Reports
    <3>2. FinalReport.status = "completed" =>
            IF AcceptedTarget = None THEN AllDecided
            ELSE Cardinality(Admitted) = AcceptedTarget
      BY <2>1, FinalReportEarned
    <3>3. AllDecided => \A s \in 1 .. SlotCount : outcome[s] # None
      BY <3>1 DEF AllDecided
    <3>4. QED
      BY <3>2, <3>3, ContractNames, ContractCardinality DEF Contract!Fulfilled
  <2>4. Contract!Announce(FinalReport.status)
    BY <2>1, <2>3 DEF Contract!Announce
  <2>5. QED
    BY <2>2, <2>4 DEF Contract!ContractNext
<1>3. StartDrive \/ Finish
  <2>1. ASSUME NEW s \in Sequence, AgentStep(s) \/ AgentRaises(s) PROVE UNCHANGED runStatus
    BY <2>1 DEF AgentStep, AgentCalls, AgentCannotOpen, AgentContinues, AgentRaises
  <2>2. DriveStep => UNCHANGED runStatus
    BY DEF DriveStep, DecideToStop, LeaveLoop, BeginDispatch, DispatchReturns, Collect,
       DispatchItem, ConfirmDispatch, Submit
  <2>3. GenerateStep => UNCHANGED runStatus
    BY DEF GenerateStep, BeginBatch, ClaimBatch, ReturnBatch, CallGenerator, GeneratorReturns,
       EndBatch, RejectItem, CompileItem
  <2>4. CommitStep => UNCHANGED runStatus
    BY DEF CommitStep, AskJudge, CallJudge, JudgeReturns, Commit, RecordJudgment
  <2>5. FinalizeStep => Finish \/ UNCHANGED runStatus
    BY DEF FinalizeStep, Exit, Unwind, ProcessEnds, JudgeUnavailable, JudgeShadow
  <2>6. StartStep => StartDrive \/ UNCHANGED runStatus
    BY DEF StartStep, Allocate, Recover
  <2>7. QED
    BY <2>1, <2>2, <2>3, <2>4, <2>5, <2>6 DEF Next, MainStep, Open, Kill, ProcessEnds, Cancel,
       Halted, vars
<1>4. QED
  BY <1>1, <1>2, <1>3

LEMMA StepKeepsContract ==
  ASSUME Held, Ordered, Stops, Reports, [Next]_vars
  PROVE  [Contract!ContractNext]_<<outcome, Len(requests), runStatus.status>>
<1>1. CASE UNCHANGED vars
  BY <1>1 DEF vars, ledgerVars, mainVars, processVars
<1>2. CASE Commit
  BY <1>2, CommitIsDecision
<1>3. CASE Next /\ runStatus' # runStatus
  BY <1>3, StatusIsAnnounced
<1>4. CASE Next /\ UNCHANGED <<outcome, runStatus>>
  <2>1. CASE Len(requests') = Len(requests)
    BY <1>4, <2>1
  <2>2. CASE Len(requests) < TotalLimit /\ Len(requests') = Len(requests) + 1
    <3>1. Contract!Charge
      BY <1>4, <2>2 DEF Contract!Charge
    <3>2. QED
      BY <3>1 DEF Contract!ContractNext
  <2>3. QED
    BY <2>1, <2>2, ChargesOneByOne
<1>5. ASSUME Next PROVE UNCHANGED outcome \/ Commit
  BY <1>5, StepEffects DEF Allocate, RecordAllocatedSlots, Recover, RecoverInflightWork,
     ClaimsEpisode, ClaimsSlot, ClaimWork, Returned, Compiled, RecordTaskCase
<1>6. QED
  BY <1>1, <1>2, <1>3, <1>4, <1>5

(* Threads, kills, resumes, caches and the ledger together implement the     *)
(* contract: each step of the engine decides one open slot, charges one      *)
(* request, announces a true status, or is invisible to a reader of the run. *)
THEOREM SchedulerKeepsContract == Spec => KeepsContract
<1>1. Init => Contract!ContractInit
  BY DEF Init, LedgerInit, Report, Contract!ContractInit
<1>2. Held /\ Ordered /\ Reported /\ [Next]_vars =>
        [Contract!ContractNext]_<<outcome, Len(requests), runStatus.status>>
  BY StepKeepsContract DEF Reported
<1>3. QED
  BY <1>1, <1>2, HeldAlways, OrderedAlways, ReportedAlways, PTL
     DEF Spec, KeepsContract, Contract!ContractSpec, Contract!contractVars
================================================================================
