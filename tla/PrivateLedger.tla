----------------------------- MODULE PrivateLedger -----------------------------
(***************************************************************************)
(* The durable ledger of one run: src/agent_synthesis/ledger.py, class     *)
(* PrivateLedger.  Every method of the class runs inside                   *)
(* `with self._lock, self._connection`, so one method is one atomic SQLite *)
(* transaction and one action here.  A method that raises (ValueError,     *)
(* LookupError, a primary-key violation) rolls its transaction back: the   *)
(* action is not enabled and the tables stay as they are.                  *)
(*                                                                         *)
(* The tables modelled are work_items, task_cases, terminal_outcomes,      *)
(* quality_judgments and provider_requests, each as a function from its    *)
(* primary key.  Slot ids, public tasks, Episodes and private case bytes   *)
(* are data no decision of the ledger depends on: a task case is its       *)
(* semantic key, an outcome is its key and the way it was decided.         *)
(***************************************************************************)
EXTENDS Integers, Sequences, FiniteSets

CONSTANTS
    SlotLimit,      \* configuration.slot_limit: the largest sequence number
    Key,            \* semantic keys of task cases
    Owner,          \* owner ids a caller can claim work with
    Verdict,        \* verdicts of a quality judgment
    RoleLimit,      \* request ceiling of each model role
    TotalLimit,     \* configuration.total_request_limit
    None            \* SQL NULL, or no row

Sequence == 1 .. SlotLimit
Role == {"task_generation", "agent", "quality_judge"}
Decision == {"admitted", "rejected", "duplicate"}
Outcome == [key : Key \cup {None}, decision : Decision]

ASSUME LimitAssumption ==
    /\ SlotLimit \in Nat
    /\ TotalLimit \in Nat
    /\ RoleLimit \in [Role -> Nat]

ASSUME NoneAssumption ==
    /\ None \notin Key
    /\ None \notin Owner
    /\ None \notin Outcome
    /\ None \notin Verdict

VARIABLES
    work,       \* work_items: status and owner of each allocated sequence
    taskCase,   \* task_cases: the semantic key of the compiled case
    outcome,    \* terminal_outcomes
    judgment,   \* quality_judgments
    requests    \* provider_requests, indexed by request_id

ledgerVars == <<work, taskCase, outcome, judgment, requests>>

--------------------------------------------------------------------------------
(* Rows *)

InFlight == {"generating", "running"}
Ready == {"pending", "compiled"}
WorkStatus == {"absent", "terminal"} \cup Ready \cup InFlight

WorkItem == [status : WorkStatus, owner : Owner \cup {None}]

Request == [role : Role, about : SUBSET Sequence,
            status : {"reserved", "completed", "failed"}]

Item(status, owner) == [status |-> status, owner |-> owner]

(* work_items_with_status: the rows with one status. *)
WithStatus(status) == {s \in Sequence : work[s].status = status}

Allocated == {s \in Sequence : work[s].status # "absent"}

(* Operators named Faulty... are seeded faults: they are used by nothing and  *)
(* show that the properties notice a plausible mistake in the definition     *)
(* after them.                                                               *)
FaultyReadyItemOwner(s) ==
    Item(IF taskCase[s] # None THEN "compiled" ELSE "pending", work[s].owner)

(* _ready_work_item_in_transaction: ready means compiled once a case exists. *)
ReadyItem(s) == Item(IF taskCase[s] # None THEN "compiled" ELSE "pending", None)

(* terminal_outcome_summary and admitted_semantic_keys read the same rows. *)
Admitted == {s \in Sequence : outcome[s] # None /\ outcome[s].decision = "admitted"}
AdmittedKeys == {outcome[s].key : s \in Admitted} \ {None}

RequestsOf(role) == {i \in DOMAIN requests : requests[i].role = role}

(* counts with <= where the code has < *)
FaultyBudgetAvailable(role) ==
    /\ Len(requests) <= TotalLimit
    /\ Cardinality(RequestsOf(role)) <= RoleLimit[role]

(* _request_budget_available_in_transaction *)
BudgetAvailable(role) ==
    /\ Len(requests) < TotalLimit
    /\ Cardinality(RequestsOf(role)) < RoleLimit[role]

--------------------------------------------------------------------------------
LedgerInit ==
    /\ work = [s \in Sequence |-> Item("absent", None)]
    /\ taskCase = [s \in Sequence |-> None]
    /\ outcome = [s \in Sequence |-> None]
    /\ judgment = [s \in Sequence |-> None]
    /\ requests = <<>>

(* One row per slot; an existing sequence is a primary-key violation. *)
RecordAllocatedSlots(slots) ==
    /\ slots \cap Allocated = {}
    /\ work' = [s \in Sequence |->
                  IF s \in slots THEN Item("pending", None) ELSE work[s]]
    /\ UNCHANGED <<taskCase, outcome, judgment, requests>>

ClaimWork(s, owner, status) ==
    /\ work[s].status = IF status = "generating" THEN "pending" ELSE "compiled"
    /\ work' = [work EXCEPT ![s] = Item(status, owner)]
    /\ UNCHANGED <<taskCase, outcome, judgment, requests>>

ReturnWorkToReady(s, owner) ==
    /\ work[s].owner = owner
    /\ work' = [work EXCEPT ![s] = ReadyItem(s)]
    /\ UNCHANGED <<taskCase, outcome, judgment, requests>>

(* reopens terminal work as well *)
FaultyRecoverTerminal ==
    /\ work' = [s \in Sequence |->
                  IF work[s].status \in InFlight \cup {"terminal"} THEN ReadyItem(s) ELSE work[s]]
    /\ UNCHANGED <<taskCase, outcome, judgment, requests>>

(* recovers interrupted generation only *)
FaultyRecoverGenerating ==
    /\ work' = [s \in Sequence |->
                  IF work[s].status = "generating" THEN ReadyItem(s) ELSE work[s]]
    /\ UNCHANGED <<taskCase, outcome, judgment, requests>>

RecoverInflightWork ==
    /\ work' = [s \in Sequence |->
                  IF work[s].status \in InFlight THEN ReadyItem(s) ELSE work[s]]
    /\ UNCHANGED <<taskCase, outcome, judgment, requests>>

RecordTaskCase(s, key) ==
    /\ work[s].status = "generating"
    /\ taskCase[s] = None
    /\ taskCase' = [taskCase EXCEPT ![s] = key]
    /\ work' = [work EXCEPT ![s] = Item("compiled", None)]
    /\ UNCHANGED <<outcome, judgment, requests>>

(* does not look for an earlier outcome *)
FaultyCommitTerminalOutcome(s, key, decision) ==
    /\ work[s].status # "absent"
    /\ outcome' = [outcome EXCEPT ![s] = [key |-> key, decision |-> decision]]
    /\ work' = [work EXCEPT ![s] = Item("terminal", None)]
    /\ UNCHANGED <<taskCase, judgment, requests>>

(* Any allocated item that is not terminal may be decided: the method asks  *)
(* neither for a particular earlier status nor for the owner.               *)
CommitTerminalOutcome(s, key, decision) ==
    /\ work[s].status \notin {"absent", "terminal"}
    /\ outcome[s] = None
    /\ outcome' = [outcome EXCEPT ![s] = [key |-> key, decision |-> decision]]
    /\ work' = [work EXCEPT ![s] = Item("terminal", None)]
    /\ UNCHANGED <<taskCase, judgment, requests>>

RecordQualityJudgment(s, verdict) ==
    /\ outcome[s] # None
    /\ judgment[s] = None
    /\ judgment' = [judgment EXCEPT ![s] = verdict]
    /\ UNCHANGED <<work, taskCase, outcome, requests>>

(* The row is charged when it is inserted, before the provider is called. *)
ReserveProviderRequest(role, about) ==
    /\ BudgetAvailable(role)
    /\ requests' = Append(requests,
                     [role |-> role, about |-> about, status |-> "reserved"])
    /\ UNCHANGED <<work, taskCase, outcome, judgment>>

(* finishes a request twice *)
FaultyFinishProviderRequest(i, status) ==
    /\ i \in DOMAIN requests
    /\ requests' = [requests EXCEPT ![i].status = status]
    /\ UNCHANGED <<work, taskCase, outcome, judgment>>

FinishProviderRequest(i, status) ==
    /\ i \in DOMAIN requests
    /\ requests[i].status = "reserved"
    /\ requests' = [requests EXCEPT ![i].status = status]
    /\ UNCHANGED <<work, taskCase, outcome, judgment>>

(* Any client, calling the methods in any order. *)
LedgerNext ==
    \/ \E slots \in SUBSET Sequence : RecordAllocatedSlots(slots)
    \/ \E s \in Sequence, o \in Owner, status \in InFlight : ClaimWork(s, o, status)
    \/ \E s \in Sequence, o \in Owner : ReturnWorkToReady(s, o)
    \/ RecoverInflightWork
    \/ \E s \in Sequence, k \in Key : RecordTaskCase(s, k)
    \/ \E s \in Sequence, k \in Key \cup {None}, d \in Decision :
          CommitTerminalOutcome(s, k, d)
    \/ \E s \in Sequence, v \in Verdict : RecordQualityJudgment(s, v)
    \/ \E role \in Role, about \in SUBSET Sequence : ReserveProviderRequest(role, about)
    \/ \E i \in DOMAIN requests, status \in {"completed", "failed"} :
          FinishProviderRequest(i, status)

LedgerSpec == LedgerInit /\ [][LedgerNext]_ledgerVars

--------------------------------------------------------------------------------
(* What the ledger promises to any client. *)

(* Every row has the shape its pydantic record class declares. *)
LedgerTypeOK ==
    /\ work \in [Sequence -> WorkItem]
    /\ taskCase \in [Sequence -> Key \cup {None}]
    /\ outcome \in [Sequence -> Outcome \cup {None}]
    /\ judgment \in [Sequence -> Verdict \cup {None}]
    /\ requests \in Seq(Request)

(* WorkItemRecord._match_ownership_to_state: model_copy never re-validates,  *)
(* so the methods themselves must keep owners and in-flight states together. *)
OwnerIffInFlight ==
    \A s \in Sequence : (work[s].owner # None) <=> (work[s].status \in InFlight)

(* Work that reached compilation has its private case, and work that did not *)
(* has none, so a recovered item always returns to the stage it came from.   *)
CaseMatchesStage ==
    \A s \in Sequence :
        /\ work[s].status \in {"compiled", "running"} => taskCase[s] # None
        /\ work[s].status \in {"absent", "pending", "generating"} => taskCase[s] = None

(* The work state and the outcome table agree on what is finished. *)
TerminalIffOutcome ==
    \A s \in Sequence : (work[s].status = "terminal") <=> (outcome[s] # None)

(* Only finished Episodes are judged. *)
JudgedIsTerminal ==
    \A s \in Sequence : judgment[s] # None => outcome[s] # None

(* The five tables never contradict one another, whatever the client calls:  *)
(* owners, private cases, outcomes and judgments agree on each item's stage. *)
LedgerConsistent ==
    /\ OwnerIffInFlight
    /\ CaseMatchesStage
    /\ TerminalIffOutcome
    /\ JudgedIsTerminal

(* The charged physical requests stay within the total ceiling and within    *)
(* each role's ceiling, although callers check and reserve in separate       *)
(* transactions (has_remaining_request_budget, reserve_provider_request).    *)
CeilingsHold ==
    /\ Len(requests) <= TotalLimit
    /\ \A role \in Role : Cardinality(RequestsOf(role)) <= RoleLimit[role]

(* A committed outcome, its work item, its case and its judgment are never   *)
(* rewritten: no later claim, return, recovery or commit reopens the item.   *)
TerminalIsFinal ==
    [][\A s \in Sequence : outcome[s] # None =>
          /\ outcome'[s] = outcome[s]
          /\ work'[s] = work[s]
          /\ taskCase'[s] = taskCase[s]
          /\ judgment[s] # None => judgment'[s] = judgment[s]]_ledgerVars

(* A charge is never refunded and a finished request is never finished again *)
(* or changed; an unfinished one keeps its role and sequences.               *)
ChargesAreKept ==
    [][\A i \in DOMAIN requests :
          /\ i \in DOMAIN requests'
          /\ requests'[i].role = requests[i].role
          /\ requests'[i].about = requests[i].about
          /\ requests[i].status # "reserved" => requests'[i] = requests[i]]_ledgerVars

(* How far an item has come; ready and claimed work of a stage count alike.  *)
Stage(s) ==
    CASE work[s].status = "absent" -> 0
      [] work[s].status \in {"pending", "generating"} -> 1
      [] work[s].status \in {"compiled", "running"} -> 2
      [] work[s].status = "terminal" -> 3

(* No call ever takes an item back to an earlier stage: an allocated slot    *)
(* stays allocated, a compiled case is never generated again and paid for    *)
(* twice, a terminal item never runs.                                        *)
StagesOnlyAdvance ==
    [][\A s \in Sequence : Stage(s) <= Stage(s)']_ledgerVars
================================================================================
