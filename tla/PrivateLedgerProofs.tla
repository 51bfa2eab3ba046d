-------------------------- MODULE PrivateLedgerProofs --------------------------
(***************************************************************************)
(* The promises of PrivateLedger, proved for every slot limit, key set,    *)
(* owner set and request ceiling, and for any client: the theorems are     *)
(* about LedgerSpec, whose next-state relation calls the methods in any    *)
(* order.  LedgerTypeOK /\ LedgerConsistent is inductive as it stands;     *)
(* CeilingsHold is inductive given the types.                              *)
(***************************************************************************)
EXTENDS PrivateLedger, FiniteSetTheorems, TLAPS

USE DEF Sequence

(* Every table keeps the row types of its record class, for every client.  *)
LEMMA LedgerTypeInit == LedgerInit => LedgerTypeOK
  BY DEF LedgerInit, LedgerTypeOK, WorkItem, WorkStatus, Item, Request

LEMMA ReadyItemType ==
  ASSUME LedgerTypeOK, NEW s \in Sequence
  PROVE  ReadyItem(s) \in WorkItem
  BY DEF ReadyItem, Item, WorkItem, WorkStatus, Ready, InFlight

LEMMA LedgerTypeStep ==
  ASSUME LedgerTypeOK, [LedgerNext]_ledgerVars
  PROVE  LedgerTypeOK'
<1> USE DEF LedgerTypeOK
<1>1. ASSUME NEW slots \in SUBSET Sequence, RecordAllocatedSlots(slots)
      PROVE  LedgerTypeOK'
  BY <1>1 DEF RecordAllocatedSlots, WorkItem, WorkStatus, Item, Ready
<1>2. ASSUME NEW s \in Sequence, NEW o \in Owner, NEW status \in InFlight,
             ClaimWork(s, o, status)
      PROVE  LedgerTypeOK'
  BY <1>2 DEF ClaimWork, WorkItem, WorkStatus, Item
<1>3. ASSUME NEW s \in Sequence, NEW o \in Owner, ReturnWorkToReady(s, o)
      PROVE  LedgerTypeOK'
  BY <1>3, ReadyItemType DEF ReturnWorkToReady
<1>4. ASSUME RecoverInflightWork PROVE LedgerTypeOK'
  BY <1>4, ReadyItemType DEF RecoverInflightWork
<1>5. ASSUME NEW s \in Sequence, NEW k \in Key, RecordTaskCase(s, k)
      PROVE  LedgerTypeOK'
  BY <1>5 DEF RecordTaskCase, WorkItem, WorkStatus, Item, Ready
<1>6. ASSUME NEW s \in Sequence, NEW k \in Key \cup {None}, NEW d \in Decision,
             CommitTerminalOutcome(s, k, d)
      PROVE  LedgerTypeOK'
  BY <1>6 DEF CommitTerminalOutcome, WorkItem, WorkStatus, Item, Outcome
<1>7. ASSUME NEW s \in Sequence, NEW v \in Verdict, RecordQualityJudgment(s, v)
      PROVE  LedgerTypeOK'
  BY <1>7 DEF RecordQualityJudgment
<1>8. ASSUME NEW role \in Role, NEW about \in SUBSET Sequence,
             ReserveProviderRequest(role, about)
      PROVE  LedgerTypeOK'
  BY <1>8 DEF ReserveProviderRequest, Request
<1>9. ASSUME NEW i \in DOMAIN requests, NEW status \in {"completed", "failed"},
             FinishProviderRequest(i, status)
      PROVE  LedgerTypeOK'
  <2>1. requests[i] \in Request
    OBVIOUS
  <2>2. [requests[i] EXCEPT !.status = status] \in Request
    BY <2>1 DEF Request
  <2>3. requests' \in Seq(Request)
    BY <1>9, <2>2 DEF FinishProviderRequest
  <2>4. QED
    BY <1>9, <2>3 DEF FinishProviderRequest
<1>10. CASE UNCHANGED ledgerVars
  BY <1>10 DEF ledgerVars
<1>11. QED
  BY <1>1, <1>2, <1>3, <1>4, <1>5, <1>6, <1>7, <1>8, <1>9, <1>10 DEF LedgerNext

(* Type correctness of the five tables: every row written by any method has *)
(* the shape its record class declares.                                     *)
THEOREM LedgerTypeCorrect == LedgerSpec => []LedgerTypeOK
<1>1. LedgerInit => LedgerTypeOK
  BY LedgerTypeInit
<1>2. LedgerTypeOK /\ [LedgerNext]_ledgerVars => LedgerTypeOK'
  BY LedgerTypeStep
<1>3. QED
  BY <1>1, <1>2, PTL DEF LedgerSpec

--------------------------------------------------------------------------------
(* Consistency of the tables. *)

LEMMA LedgerConsistentStep ==
  ASSUME LedgerTypeOK, LedgerConsistent, [LedgerNext]_ledgerVars
  PROVE  LedgerConsistent'
<1> USE NoneAssumption DEF LedgerTypeOK, LedgerConsistent, OwnerIffInFlight,
        CaseMatchesStage, TerminalIffOutcome, JudgedIsTerminal,
        WorkItem, WorkStatus, Item, Ready, InFlight
<1>1. ASSUME NEW slots \in SUBSET Sequence, RecordAllocatedSlots(slots)
      PROVE  LedgerConsistent'
  BY <1>1 DEF RecordAllocatedSlots, Allocated
<1>2. ASSUME NEW s \in Sequence, NEW o \in Owner, NEW status \in InFlight,
             ClaimWork(s, o, status)
      PROVE  LedgerConsistent'
  BY <1>2 DEF ClaimWork
<1>3. ASSUME NEW s \in Sequence, NEW o \in Owner, ReturnWorkToReady(s, o)
      PROVE  LedgerConsistent'
  BY <1>3 DEF ReturnWorkToReady, ReadyItem
<1>4. ASSUME RecoverInflightWork PROVE LedgerConsistent'
  BY <1>4 DEF RecoverInflightWork, ReadyItem
<1>5. ASSUME NEW s \in Sequence, NEW k \in Key, RecordTaskCase(s, k)
      PROVE  LedgerConsistent'
  BY <1>5 DEF RecordTaskCase
<1>6. ASSUME NEW s \in Sequence, NEW k \in Key \cup {None}, NEW d \in Decision,
             CommitTerminalOutcome(s, k, d)
      PROVE  LedgerConsistent'
  <2>1. [key |-> k, decision |-> d] # None
    BY DEF Outcome
  <2>2. QED
    BY <1>6, <2>1 DEF CommitTerminalOutcome
<1>7. ASSUME NEW s \in Sequence, NEW v \in Verdict, RecordQualityJudgment(s, v)
      PROVE  LedgerConsistent'
  BY <1>7 DEF RecordQualityJudgment
<1>8. ASSUME NEW role \in Role, NEW about \in SUBSET Sequence,
             ReserveProviderRequest(role, about)
      PROVE  LedgerConsistent'
  BY <1>8 DEF ReserveProviderRequest
<1>9. ASSUME NEW i \in DOMAIN requests, NEW status \in {"completed", "failed"},
             FinishProviderRequest(i, status)
      PROVE  LedgerConsistent'
  BY <1>9 DEF FinishProviderRequest
<1>10. CASE UNCHANGED ledgerVars
  BY <1>10 DEF ledgerVars
<1>11. QED
  BY <1>1, <1>2, <1>3, <1>4, <1>5, <1>6, <1>7, <1>8, <1>9, <1>10 DEF LedgerNext

(* Owners, private cases, outcomes and judgments agree on the stage of every *)
(* work item, for any client of the ledger: return_work_to_ready refuses     *)
(* what is not claimed, record_task_case what is not generating,             *)
(* commit_terminal_outcome what is already decided.                          *)
THEOREM LedgerStaysConsistent == LedgerSpec => []LedgerConsistent
<1>1. LedgerInit => LedgerConsistent
  BY NoneAssumption DEF LedgerInit, LedgerConsistent, OwnerIffInFlight,
     CaseMatchesStage, TerminalIffOutcome, JudgedIsTerminal, Item, InFlight
<1>2. LedgerTypeOK /\ LedgerConsistent /\ [LedgerNext]_ledgerVars => LedgerConsistent'
  BY LedgerConsistentStep
<1>3. QED
  BY <1>1, <1>2, LedgerTypeCorrect, PTL DEF LedgerSpec

--------------------------------------------------------------------------------
(* Request ceilings. *)

(* The rows of a role are finitely many: COUNT( * ) is defined. *)
LEMMA RequestsOfFinite ==
  ASSUME LedgerTypeOK, NEW role \in Role
  PROVE  /\ IsFiniteSet(RequestsOf(role))
         /\ Cardinality(RequestsOf(role)) \in Nat
<1>1. RequestsOf(role) \subseteq 1 .. Len(requests)
  BY DEF RequestsOf, LedgerTypeOK
<1>2. IsFiniteSet(1 .. Len(requests))
  BY FS_Interval DEF LedgerTypeOK
<1>3. QED
  BY <1>1, <1>2, FS_Subset, FS_CardinalityType

(* A step that keeps the roles of the rows keeps every count. *)
LEMMA SameRolesSameCount ==
  ASSUME LedgerTypeOK, NEW role \in Role,
         DOMAIN requests' = DOMAIN requests,
         \A i \in DOMAIN requests : requests'[i].role = requests[i].role
  PROVE  RequestsOf(role)' = RequestsOf(role)
  BY DEF RequestsOf

LEMMA ReserveKeepsCeilings ==
  ASSUME LedgerTypeOK, CeilingsHold,
         NEW r \in Role, NEW about \in SUBSET Sequence,
         ReserveProviderRequest(r, about)
  PROVE  CeilingsHold'
<1> DEFINE row == [role |-> r, about |-> about, status |-> "reserved"]
           n == Len(requests) + 1
<1>1. /\ requests' = Append(requests, row)
      /\ Len(requests) < TotalLimit
      /\ Cardinality(RequestsOf(r)) < RoleLimit[r]
  BY DEF ReserveProviderRequest, BudgetAvailable
<1>2. /\ Len(requests') = n
      /\ DOMAIN requests' = DOMAIN requests \cup {n}
      /\ n \notin DOMAIN requests
      /\ requests'[n] = row
      /\ \A i \in DOMAIN requests : requests'[i] = requests[i]
  BY <1>1 DEF LedgerTypeOK
<1>3. Len(requests') <= TotalLimit
  BY <1>1, <1>2, LimitAssumption DEF LedgerTypeOK
<1>4. ASSUME NEW role \in Role
      PROVE  Cardinality(RequestsOf(role)') <= RoleLimit[role]
  <2>1. CASE role = r
    <3>1. RequestsOf(role)' = RequestsOf(role) \cup {n}
      BY <1>2, <2>1 DEF RequestsOf
    <3>2. n \notin RequestsOf(role)
      BY <1>2 DEF RequestsOf
    <3>3. Cardinality(RequestsOf(role)') = Cardinality(RequestsOf(role)) + 1
      BY <3>1, <3>2, RequestsOfFinite, FS_AddElement
    <3>4. QED
      BY <1>1, <2>1, <3>3, RequestsOfFinite, LimitAssumption
  <2>2. CASE role # r
    <3>1. RequestsOf(role)' = RequestsOf(role)
      BY <1>2, <2>2 DEF RequestsOf
    <3>2. QED
      BY <3>1 DEF CeilingsHold
  <2>3. QED
    BY <2>1, <2>2
<1>5. QED
  BY <1>3, <1>4 DEF CeilingsHold

LEMMA CeilingsStep ==
  ASSUME LedgerTypeOK, CeilingsHold, [LedgerNext]_ledgerVars
  PROVE  CeilingsHold'
<1>1. CASE UNCHANGED requests
  BY <1>1 DEF CeilingsHold, RequestsOf
<1>2. ASSUME NEW r \in Role, NEW about \in SUBSET Sequence,
             ReserveProviderRequest(r, about)
      PROVE  CeilingsHold'
  BY <1>2, ReserveKeepsCeilings
<1>3. ASSUME NEW i \in DOMAIN requests, NEW status \in {"completed", "failed"},
             FinishProviderRequest(i, status)
      PROVE  CeilingsHold'
  <2>1. /\ DOMAIN requests' = DOMAIN requests
        /\ Len(requests') = Len(requests)
        /\ \A j \in DOMAIN requests : requests'[j].role = requests[j].role
    BY <1>3 DEF FinishProviderRequest, LedgerTypeOK, Request
  <2>2. QED
    BY <2>1, SameRolesSameCount DEF CeilingsHold
<1>4. QED
  BY <1>1, <1>2, <1>3 DEF LedgerNext, ledgerVars, RecordAllocatedSlots, ClaimWork,
     ReturnWorkToReady, RecoverInflightWork, RecordTaskCase,
     CommitTerminalOutcome, RecordQualityJudgment

(* No client can charge more physical requests than the run's total ceiling *)
(* or a role's ceiling: reserve_provider_request counts and inserts in one  *)
(* transaction.                                                             *)
THEOREM CeilingsAlwaysHold == LedgerSpec => []CeilingsHold
<1>1. LedgerInit => CeilingsHold
  <2> SUFFICES ASSUME LedgerInit PROVE CeilingsHold
    OBVIOUS
  <2>1. requests = <<>> /\ Len(requests) = 0
    BY DEF LedgerInit
  <2>2. \A role \in Role : RequestsOf(role) = {}
    BY <2>1 DEF RequestsOf
  <2>3. Cardinality({}) = 0
    BY FS_EmptySet
  <2>4. \A role \in Role : RoleLimit[role] \in Nat
    BY LimitAssumption
  <2>5. TotalLimit \in Nat
    BY LimitAssumption
  <2>6. QED
    BY <2>1, <2>2, <2>3, <2>4, <2>5 DEF CeilingsHold
<1>2. LedgerTypeOK /\ CeilingsHold /\ [LedgerNext]_ledgerVars => CeilingsHold'
  BY CeilingsStep
<1>3. QED
  BY <1>1, <1>2, LedgerTypeCorrect, PTL DEF LedgerSpec

--------------------------------------------------------------------------------
(* Action properties. *)

LEMMA TerminalIsFinalStep ==
  ASSUME LedgerTypeOK, LedgerConsistent, [LedgerNext]_ledgerVars,
         NEW s \in Sequence, outcome[s] # None
  PROVE  /\ outcome'[s] = outcome[s]
         /\ work'[s] = work[s]
         /\ taskCase'[s] = taskCase[s]
         /\ judgment[s] # None => judgment'[s] = judgment[s]
<1> USE DEF LedgerTypeOK
<1>1. work[s].status = "terminal" /\ work[s].owner = None
  BY DEF LedgerConsistent, TerminalIffOutcome, OwnerIffInFlight, InFlight,
     WorkItem
<1>2. ASSUME NEW slots \in SUBSET Sequence, RecordAllocatedSlots(slots)
      PROVE  work'[s] = work[s]
  BY <1>1, <1>2 DEF RecordAllocatedSlots, Allocated
<1>3. ASSUME NEW t \in Sequence, NEW o \in Owner, NEW status \in InFlight,
             ClaimWork(t, o, status)
      PROVE  work'[s] = work[s]
  BY <1>1, <1>3 DEF ClaimWork
<1>4. ASSUME NEW t \in Sequence, NEW o \in Owner, ReturnWorkToReady(t, o)
      PROVE  work'[s] = work[s]
  BY <1>1, <1>4, NoneAssumption DEF ReturnWorkToReady
<1>5. ASSUME RecoverInflightWork PROVE work'[s] = work[s]
  BY <1>1, <1>5 DEF RecoverInflightWork, InFlight
<1>6. ASSUME NEW t \in Sequence, NEW k \in Key, RecordTaskCase(t, k)
      PROVE  work'[s] = work[s] /\ taskCase'[s] = taskCase[s]
  BY <1>1, <1>6 DEF RecordTaskCase
<1>7. ASSUME NEW t \in Sequence, NEW k \in Key \cup {None}, NEW d \in Decision,
             CommitTerminalOutcome(t, k, d)
      PROVE  work'[s] = work[s] /\ outcome'[s] = outcome[s]
  BY <1>1, <1>7 DEF CommitTerminalOutcome
<1>8. ASSUME NEW t \in Sequence, NEW v \in Verdict, RecordQualityJudgment(t, v),
             judgment[s] # None
      PROVE  judgment'[s] = judgment[s]
  BY <1>8 DEF RecordQualityJudgment
<1>9. QED
  BY <1>2, <1>3, <1>4, <1>5, <1>6, <1>7, <1>8 DEF LedgerNext, ledgerVars,
     RecordAllocatedSlots, ClaimWork, ReturnWorkToReady, RecoverInflightWork,
     RecordTaskCase, CommitTerminalOutcome, RecordQualityJudgment,
     ReserveProviderRequest, FinishProviderRequest

(* Nothing committed for a sequence is ever rewritten or reopened, so a      *)
(* resumed run cannot redo terminal work through the ledger.                 *)
THEOREM OutcomesAreFinal == LedgerSpec => TerminalIsFinal
<1>1. LedgerTypeOK /\ LedgerConsistent /\ [LedgerNext]_ledgerVars =>
        [\A s \in Sequence : outcome[s] # None =>
          /\ outcome'[s] = outcome[s]
          /\ work'[s] = work[s]
          /\ taskCase'[s] = taskCase[s]
          /\ judgment[s] # None => judgment'[s] = judgment[s]]_ledgerVars
  BY TerminalIsFinalStep
<1>2. QED
  BY <1>1, LedgerTypeCorrect, LedgerStaysConsistent, PTL DEF LedgerSpec, TerminalIsFinal

(* Charges only grow and finished requests stay as they are: a crash or a    *)
(* resume can neither refund nor replay one.                                 *)
THEOREM ChargesAreNeverRefunded == LedgerSpec => ChargesAreKept
<1>1. LedgerTypeOK /\ [LedgerNext]_ledgerVars =>
        [\A i \in DOMAIN requests :
          /\ i \in DOMAIN requests'
          /\ requests'[i].role = requests[i].role
          /\ requests'[i].about = requests[i].about
          /\ requests[i].status # "reserved" => requests'[i] = requests[i]]_ledgerVars
  <2> SUFFICES ASSUME LedgerTypeOK, LedgerNext, NEW i \in DOMAIN requests
               PROVE  /\ i \in DOMAIN requests'
                      /\ requests'[i].role = requests[i].role
                      /\ requests'[i].about = requests[i].about
                      /\ requests[i].status # "reserved" => requests'[i] = requests[i]
    OBVIOUS
  <2>1. CASE UNCHANGED requests
    BY <2>1
  <2>2. ASSUME NEW r \in Role, NEW about \in SUBSET Sequence,
               ReserveProviderRequest(r, about)
        PROVE  i \in DOMAIN requests' /\ requests'[i] = requests[i]
    BY <2>2 DEF ReserveProviderRequest, LedgerTypeOK
  <2>3. ASSUME NEW j \in DOMAIN requests, NEW status \in {"completed", "failed"},
               FinishProviderRequest(j, status)
        PROVE  /\ i \in DOMAIN requests'
               /\ requests'[i].role = requests[i].role
               /\ requests'[i].about = requests[i].about
               /\ requests[i].status # "reserved" => requests'[i] = requests[i]
    BY <2>3 DEF FinishProviderRequest, LedgerTypeOK, Request
  <2>4. QED
    BY <2>1, <2>2, <2>3 DEF LedgerNext, RecordAllocatedSlots, ClaimWork,
       ReturnWorkToReady, RecoverInflightWork, RecordTaskCase,
       CommitTerminalOutcome, RecordQualityJudgment
<1>2. QED
  BY <1>1, LedgerTypeCorrect, PTL DEF LedgerSpec, ChargesAreKept

LEMMA StageStep ==
  ASSUME LedgerTypeOK, LedgerConsistent, LedgerNext, NEW s \in Sequence
  PROVE  Stage(s) <= Stage(s)'
<1> USE DEF LedgerTypeOK, WorkItem, WorkStatus, Item, Ready, InFlight, Stage
<1>1. CASE UNCHANGED work
  BY <1>1
<1>2. ASSUME NEW slots \in SUBSET Sequence, RecordAllocatedSlots(slots)
      PROVE  Stage(s) <= Stage(s)'
  BY <1>2 DEF RecordAllocatedSlots, Allocated
<1>3. ASSUME NEW t \in Sequence, NEW o \in Owner, NEW status \in InFlight,
             ClaimWork(t, o, status)
      PROVE  Stage(s) <= Stage(s)'
  BY <1>3 DEF ClaimWork
<1>4. ASSUME NEW t \in Sequence, work[t].status \in InFlight
      PROVE  ReadyItem(t).status = IF work[t].status = "generating"
                                   THEN "pending" ELSE "compiled"
  BY <1>4 DEF LedgerConsistent, CaseMatchesStage, ReadyItem
<1>5. ASSUME NEW t \in Sequence, NEW o \in Owner, ReturnWorkToReady(t, o)
      PROVE  Stage(s) <= Stage(s)'
  <2>1. work[t].status \in InFlight
    BY <1>5, NoneAssumption DEF ReturnWorkToReady, LedgerConsistent, OwnerIffInFlight
  <2>2. QED
    BY <1>4, <1>5, <2>1 DEF ReturnWorkToReady
<1>6. ASSUME RecoverInflightWork PROVE Stage(s) <= Stage(s)'
  BY <1>4, <1>6 DEF RecoverInflightWork
<1>7. ASSUME NEW t \in Sequence, NEW k \in Key, RecordTaskCase(t, k)
      PROVE  Stage(s) <= Stage(s)'
  BY <1>7 DEF RecordTaskCase
<1>8. ASSUME NEW t \in Sequence, NEW k \in Key \cup {None}, NEW d \in Decision,
             CommitTerminalOutcome(t, k, d)
      PROVE  Stage(s) <= Stage(s)'
  BY <1>8 DEF CommitTerminalOutcome
<1>9. QED
  BY <1>1, <1>2, <1>3, <1>5, <1>6, <1>7, <1>8 DEF LedgerNext,
     RecordQualityJudgment, ReserveProviderRequest, FinishProviderRequest

(* No ledger call moves an item back to an earlier stage: recovery and a     *)
(* return find the private case of compiled work and keep it compiled, so    *)
(* its generation is never paid for twice.                                   *)
THEOREM StagesNeverGoBack == LedgerSpec => StagesOnlyAdvance
<1>1. LedgerTypeOK /\ LedgerConsistent /\ [LedgerNext]_ledgerVars =>
        [\A s \in Sequence : Stage(s) <= Stage(s)']_ledgerVars
  BY StageStep
<1>2. QED
  BY <1>1, LedgerTypeCorrect, LedgerStaysConsistent, PTL DEF LedgerSpec, StagesOnlyAdvance
================================================================================
