------------------------------ MODULE RunContract ------------------------------
(***************************************************************************)
(* What a run promises its consumer, without threads, processes or a       *)
(* ledger: slots are decided one at a time and for good, at most one task  *)
(* of each semantic key is admitted and never more than the target,        *)
(* physical requests are charged within the ceiling and never refunded,    *)
(* and a run is only reported complete when it is.                         *)
(*                                                                         *)
(* It is the abstract specification that RunScheduler implements           *)
(* (docs/product-specs/agent-first-core-rebuild.md, "Persistence,          *)
(* Recovery, and Capacity", is its informal counterpart; the definitions   *)
(* follow commit_terminal, reserve_provider_request and the end of         *)
(* _drive_run).                                                            *)
(***************************************************************************)
EXTENDS Integers, FiniteSets

CONSTANTS Slot, Offered, Key, Target, Ceiling, None

VARIABLES
    decided,    \* the decision and key of each slot, or None
    charged,    \* physical requests paid for
    report      \* the run status a reader of the directory sees

contractVars == <<decided, charged, report>>

Winners == {s \in Slot : decided[s] # None /\ decided[s].decision = "admitted"}
WinningKeys == {decided[s].key : s \in Winners}

(* The run did what it was asked for. *)
Fulfilled ==
    IF Target = None THEN \A s \in Offered : decided[s] # None
    ELSE Cardinality(Winners) = Target

ContractInit ==
    /\ decided = [s \in Slot |-> None]
    /\ charged = 0
    /\ report = "running"

Admit(s, k) ==
    /\ decided[s] = None
    /\ k \notin WinningKeys
    /\ Target # None => Cardinality(Winners) < Target
    /\ decided' = [decided EXCEPT ![s] = [key |-> k, decision |-> "admitted"]]
    /\ UNCHANGED <<charged, report>>

(* A task is only turned down as a duplicate of a task that was admitted. *)
TurnDown(s, k, reason) ==
    /\ decided[s] = None
    /\ reason = "duplicate" => k \in WinningKeys
    /\ decided' = [decided EXCEPT ![s] = [key |-> k, decision |-> reason]]
    /\ UNCHANGED <<charged, report>>

Charge ==
    /\ charged < Ceiling
    /\ charged' = charged + 1
    /\ UNCHANGED <<decided, report>>

Announce(status) ==
    /\ status = "completed" => Fulfilled
    /\ report' = status
    /\ UNCHANGED <<decided, charged>>

ContractNext ==
    \/ \E s \in Offered, k \in Key : Admit(s, k)
    \/ \E s \in Offered, k \in Key \cup {None}, reason \in {"rejected", "duplicate"} :
          TurnDown(s, k, reason)
    \/ Charge
    \/ \E status \in {"running", "completed", "partial", "cancelled"} : Announce(status)

ContractSpec == ContractInit /\ [][ContractNext]_contractVars
================================================================================
