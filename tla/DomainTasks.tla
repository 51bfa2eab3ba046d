------------------------------- MODULE DomainTasks -------------------------------
(* What engine.start, resume and _drive_run ask of a Domain before any Episode  *)
(* is opened (the protocol DomainRun of domain.py): read the source once,       *)
(* freeze it, issue slots, compile what the generator proposes for one of them, *)
(* save the private case and restore it, across crashes of the process. The     *)
(* Domain is a parameter; nothing of a run survives but what the ledger holds.  *)
EXTENDS Integers, Sequences, FiniteSets

CONSTANTS
    Domains,               \* the registered Domains
    DomainSources(_),      \* the sources an adapter may be given
    DomainParse(_, _),     \* domain, source -> the normalized state, None if it refuses
    DomainFreeze(_, _),    \* domain, state -> the private snapshot
    DomainReopen(_, _),    \* domain, snapshot -> the state it is opened as, None if refused
    DomainSlots(_, _),     \* domain, state -> its slots, each a record with its id
    DomainCapacity(_, _),  \* known_task_capacity
    DomainSlot(_, _, _),   \* domain, state, id -> the slot with this id, None if there is none
    DomainPrompt(_, _, _), \* domain, state, slot -> the proposal its prompt asks for
    Proposals(_, _, _),    \* domain, state, slot -> what the generator may answer
    FreeFields(_),         \* the fields whose text a prompt leaves to the generator
    DomainCompile(_, _, _, _),  \* domain, state, slot id, proposal -> [reason, task]
    DomainKey(_, _),       \* domain, task -> its semantic key
    DomainRestore(_, _, _),\* domain, private case, semantic key -> task, None if it raises
    TamperedCases(_, _),   \* domain, task -> other private cases of the same shape
    LosesQuery(_, _),      \* domain, state -> whether nothing but a verb names one of its items
    None

VARIABLES
    domain,          \* the Domain of the run, part of its identity
    source, frozen,  \* the adapter's bytes and the ledger's snapshot of them
    run,             \* the DomainRun of this process, None when there is none
    slots,           \* allocated slots: [id, prompt]
    answer,          \* what was compiled last: [slot, proposal, result]
    stored,          \* the task case record: [case, key]
    restored         \* the task an Episode would be opened for

vars == <<domain, source, frozen, run, slots, answer, stored, restored>>

Issued(state) ==
    LET issued == DomainSlots(domain, state)
    IN  [i \in DOMAIN issued |->
            [id |-> issued[i].id, prompt |-> DomainPrompt(domain, state, issued[i])]]

(* A source that is refused leaves nothing to resume. *)
StartRun ==
    /\ frozen = None /\ DomainParse(domain, source) # None
    /\ run' = DomainParse(domain, source) /\ frozen' = DomainFreeze(domain, run')
    /\ UNCHANGED <<domain, source, slots, answer, stored, restored>>

AllocateSlots ==
    /\ run # None /\ slots = <<>>
    /\ slots' = Issued(run)
    /\ UNCHANGED <<domain, source, frozen, run, answer, stored, restored>>

CompileProposal ==
    /\ run # None /\ answer = None
    /\ \E i \in DOMAIN slots : \E proposal \in Proposals(domain, run, slots[i]) :
           \E result \in {DomainCompile(domain, run, slots[i].id, proposal)} :
               /\ answer' = [slot |-> slots[i], proposal |-> proposal, result |-> result]
               /\ stored' = IF result.reason # None THEN None
                            ELSE [case |-> result.task, key |-> DomainKey(domain, result.task)]
    /\ UNCHANGED <<domain, source, frozen, run, slots, restored>>

RestoreTask ==
    /\ run # None /\ stored # None /\ restored = None
    /\ restored' = DomainRestore(domain, stored.case, stored.key)
    /\ UNCHANGED <<domain, source, frozen, run, slots, answer, stored>>

(* The process is gone, whatever it was doing; a resume never reads the source  *)
(* again.                                                                       *)
Crash ==
    /\ run # None
    /\ run' = None /\ restored' = None
    /\ UNCHANGED <<domain, source, frozen, slots, answer, stored>>
Resume ==
    /\ run = None /\ frozen # None
    /\ run' = DomainReopen(domain, frozen)
    /\ UNCHANGED <<domain, source, frozen, slots, answer, stored, restored>>

Init ==
    /\ domain \in Domains /\ source \in DomainSources(domain)
    /\ frozen = None /\ run = None /\ slots = <<>>
    /\ answer = None /\ stored = None /\ restored = None
Next == StartRun \/ AllocateSlots \/ CompileProposal \/ RestoreTask \/ Crash \/ Resume
Spec == Init /\ [][Next]_vars

--------------------------------------------------------------------------------
(* Properties. *)

(* A run opened again from its snapshot is the run it was: the same state, the  *)
(* same slots in the same order under the same ids. Slots allocated before a    *)
(* crash still mean what they meant, a saved case is restored as it was         *)
(* compiled, and no other passes under its semantic key (contacts.py:483, 1109; *)
(* mobile_messages.py:473, 1260; workspace_tasks.py:486, 1599, 1673). It is     *)
(* never another run. It is none at all exactly when a task is titled by a verb *)
(* and blanks: the parser takes it, its empty query refuses the snapshot        *)
(* (workspace_tasks.py:1559, 1803), and a case that aims at it is lost as well. *)
ResumeKeepsTheRun ==
    LET read == DomainParse(domain, source)
    IN  /\ run # None => DomainFreeze(domain, run) = frozen
        /\ run = None /\ frozen # None =>
               DomainReopen(domain, frozen) = IF LosesQuery(domain, read) THEN None ELSE read
        /\ run # None /\ slots # <<>> => Issued(run) = slots
        /\ stored # None =>
               /\ restored \in {None, stored.case}
               /\ \/ DomainRestore(domain, stored.case, stored.key) = stored.case
                  \/ DomainRestore(domain, stored.case, stored.key) = None /\ LosesQuery(domain, read)
               /\ \A other \in TamperedCases(domain, stored.case) :
                      DomainRestore(domain, other, stored.key) = None

(* The capacity an accepted target is compared with before paid work is real    *)
(* (engine.py:517-541): as many slots, each of which is found under its id and  *)
(* no other's, compiles from what its prompt asks for, and gives a task whose   *)
(* semantic key differs from the others', so that none loses to another.        *)
CapacityIsDistinctTasks ==
    run # None /\ slots # <<>> =>
        LET compiled == [i \in DOMAIN slots |-> DomainCompile(domain, run, slots[i].id, slots[i].prompt)]
        IN  /\ \A i \in DOMAIN slots :
                   /\ DomainSlot(domain, run, slots[i].id) # None
                   /\ DomainPrompt(domain, run, DomainSlot(domain, run, slots[i].id)) = slots[i].prompt
                   /\ compiled[i].reason = None
            /\ Cardinality({DomainKey(domain, compiled[i].task) : i \in DOMAIN slots}) = DomainCapacity(domain, run)
            /\ Cardinality({slots[i].id : i \in DOMAIN slots}) = Len(slots)

(* A proposal that compiles is the one its slot asked for, field by field, but  *)
(* for the text the prompt leaves open: nothing else the generator adds, drops  *)
(* or changes can widen what the Agent is allowed to do (contacts.py:328-481,   *)
(* mobile_messages.py:281-473, workspace_tasks.py:310-486).                     *)
AcceptedMeansRequested ==
    answer # None /\ answer.result.reason = None =>
        /\ answer.proposal.parses = "object"
        /\ DOMAIN answer.proposal.fields = DOMAIN answer.slot.prompt.fields
        /\ \A f \in DOMAIN answer.proposal.fields \ FreeFields(domain) :
               answer.proposal.fields[f] = answer.slot.prompt.fields[f]
=================================================================================
