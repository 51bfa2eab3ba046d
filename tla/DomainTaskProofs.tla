---------------------------- MODULE DomainTaskProofs -----------------------------
(****************************************************************************)
(* Why a run of a built-in Domain keeps its tasks, why what compiles is what*)
(* its slot asked for, and why its capacity is real.                        *)
(*                                                                          *)
(* DomainTasks takes the Domain as a parameter, so its invariant alone      *)
(* (TaskInvariant: everything written down was made of the one state of the *)
(* run) says nothing of what a Domain answers. The rest is about the three  *)
(* of them: a snapshot is opened as the state it was made of, whatever order*)
(* and blanks its source had; an id is of one slot, though it is looked for *)
(* among candidates that may never have been issued; a compiler that made   *)
(* none of its refusals was given what the prompt asked for; and what it    *)
(* compiled is a case that its own checks accept, under a key of its own.   *)
(* A capacity is real because slots are listed once, in as many places as   *)
(* the lengths of the lists they come from add up to, because no refusal is *)
(* about what a prompt asks for, and because a key tells slots apart.       *)
(****************************************************************************)
EXTENDS DomainTasks, SequencesExt, FiniteSetTheorems, FunctionTheorems, SequenceTheorems, TLAPS

--------------------------------------------------------------------------------
(* Sequences. *)

(* A set of numbers that is not empty has a least one.                        *)
LEMMA LeastExists ==
  ASSUME NEW S \in SUBSET Nat, S # {}
  PROVE  \E s \in S : \A t \in S : s <= t
<1>1. \E s \in S : \A t \in S : ~(<<t, s>> \in OpToRel(<, Nat))
  BY NatLessThanWellFounded, WFMin
<1>2. PICK s \in S : \A t \in S : ~(<<t, s>> \in OpToRel(<, Nat))
  BY <1>1
<1>3. \A t \in S : s <= t
  <2> SUFFICES ASSUME NEW t \in S, t < s PROVE FALSE
    OBVIOUS
  <2>1. <<t, s>> \in Nat \X Nat /\ <<t, s>>[1] < <<t, s>>[2]
    OBVIOUS
  <2>2. <<t, s>> \in OpToRel(<, Nat)
    BY <2>1, Zenon DEF OpToRel
  <2>3. QED
    BY <1>2, <2>2
<1>4. QED
  BY <1>3

(* The recursion of FlattenSeq: what f[i] is, f being its function.             *)
Joins(f, seqs, n) ==
    f = [i \in 1 .. n |-> IF i = 1 THEN seqs[i] ELSE f[i - 1] \o seqs[i]]

(* There is such a function for every length.                                 *)
LEMMA JoinsExists ==
  ASSUME NEW seqs, NEW n \in Nat
  PROVE  \E f : Joins(f, seqs, n)
<1> DEFINE bad == {k \in 0 .. n : ~\E f : Joins(f, seqs, k)}
<1> SUFFICES ASSUME bad # {} PROVE FALSE
  OBVIOUS
<1>0. bad \in SUBSET Nat
  OBVIOUS
<1>1. PICK k \in bad : \A l \in bad : k <= l
  <2> HIDE DEF bad
  <2>1. QED
    BY <1>0, LeastExists
<1>2. CASE k = 0
  <2>1. Joins([i \in 1 .. 0 |-> None], seqs, 0)
    BY DEF Joins
  <2>2. QED
    BY <1>1, <1>2, <2>1
<1>3. CASE k # 0
  <2>1. k - 1 \in 0 .. n /\ k - 1 \notin bad /\ k \in 1 .. n
    BY <1>1, <1>3
  <2>2. PICK g : Joins(g, seqs, k - 1)
    BY <2>1
  <2> DEFINE f == [i \in 1 .. k |-> IF i = k THEN IF i = 1 THEN seqs[i] ELSE g[i - 1] \o seqs[i] ELSE g[i]]
  <2>3. \A i \in 1 .. k - 1 : g[i] = IF i = 1 THEN seqs[i] ELSE g[i - 1] \o seqs[i]
    BY <2>2 DEF Joins
  <2>4. \A i \in 1 .. k - 1 : f[i] = g[i]
    BY <2>1
  <2>5. \A i \in 1 .. k : f[i] = IF i = 1 THEN seqs[i] ELSE f[i - 1] \o seqs[i]
    <3> SUFFICES ASSUME NEW i \in 1 .. k PROVE f[i] = IF i = 1 THEN seqs[i] ELSE f[i - 1] \o seqs[i]
      OBVIOUS
    <3>1. CASE i = 1 /\ i = k
      BY <3>1
    <3>2. CASE i = 1 /\ i # k
      <4>1. f[i] = g[i]
        BY <2>1, <2>4, <3>2
      <4>2. g[i] = seqs[i]
        BY <2>1, <2>3, <3>2
      <4>3. QED
        BY <3>2, <4>1, <4>2, Zenon
    <3>3. CASE i # 1
      <4>1. f[i - 1] = g[i - 1] /\ i - 1 \in 1 .. k - 1
        BY <2>1, <2>4, <3>3
      <4>2. f[i] = g[i - 1] \o seqs[i]
        <5>1. CASE i = k
          BY <3>3, <5>1
        <5>2. CASE i # k
          <6>1. i \in 1 .. k - 1
            BY <2>1, <5>2
          <6>2. f[i] = g[i]
            BY <2>4, <6>1
          <6>3. g[i] = g[i - 1] \o seqs[i]
            BY <2>3, <3>3, <6>1
          <6>4. QED
            BY <4>1, <6>2, <6>3, Zenon
        <5>3. QED
          BY <5>1, <5>2
      <4>3. QED
        BY <3>3, <4>1, <4>2, Zenon
    <3>4. QED
      BY <3>1, <3>2, <3>3
  <2>6. f = [i \in 1 .. k |-> f[i]]
    OBVIOUS
  <2> HIDE DEF f
  <2>7. f = [i \in 1 .. k |-> IF i = 1 THEN seqs[i] ELSE f[i - 1] \o seqs[i]]
    BY <2>5, <2>6
  <2>8. QED
    BY <1>1, <2>7 DEF Joins
<1>4. QED
  BY <1>2, <1>3

(* FlattenSeq is the last value of that function.                             *)
LEMMA Flattened ==
  ASSUME NEW seqs, NEW T, seqs \in Seq(T)
  PROVE  /\ seqs = <<>> => FlattenSeq(seqs) = <<>>
         /\ seqs # <<>> => \E f : Joins(f, seqs, Len(seqs)) /\ FlattenSeq(seqs) = f[Len(seqs)]
<1>1. seqs = <<>> => Len(seqs) = 0 /\ FlattenSeq(seqs) = <<>>
  BY DEF FlattenSeq
<1>2. ASSUME seqs # <<>> PROVE \E f : Joins(f, seqs, Len(seqs)) /\ FlattenSeq(seqs) = f[Len(seqs)]
  <2> DEFINE f == CHOOSE f : f = [i \in 1 .. Len(seqs) |-> IF i = 1 THEN seqs[i] ELSE f[i - 1] \o seqs[i]]
  <2>1. Len(seqs) # 0 /\ Len(seqs) \in Nat
    BY <1>2
  <2>2. FlattenSeq(seqs) = f[Len(seqs)]
    BY <2>1, Zenon DEF FlattenSeq
  <2>3. \E g : g = [i \in 1 .. Len(seqs) |-> IF i = 1 THEN seqs[i] ELSE g[i - 1] \o seqs[i]]
    BY <2>1, JoinsExists, Zenon DEF Joins
  <2>4. f = [i \in 1 .. Len(seqs) |-> IF i = 1 THEN seqs[i] ELSE f[i - 1] \o seqs[i]]
    BY <2>3, Zenon
  <2>5. QED
    BY <2>2, <2>4, Zenon DEF Joins
<1>3. QED
  BY <1>1, <1>2

(* Whatever all the parts are made of, the whole is.                            *)
LEMMA FlattenType ==
  ASSUME NEW T, NEW seqs \in Seq(Seq(T))
  PROVE  FlattenSeq(seqs) \in Seq(T)
<1>1. CASE seqs = <<>>
  <2>1. FlattenSeq(seqs) = <<>>
    BY <1>1, Flattened
  <2>2. QED
    BY <2>1
<1>2. CASE seqs # <<>>
  <2>1. PICK f : Joins(f, seqs, Len(seqs)) /\ FlattenSeq(seqs) = f[Len(seqs)]
    BY <1>2, Flattened
  <2> DEFINE n == Len(seqs)
             bad == {i \in 1 .. n : f[i] \notin Seq(T)}
  <2>2. n \in Nat /\ n # 0 /\ \A i \in 1 .. n : seqs[i] \in Seq(T)
    BY <1>2
  <2>3. \A i \in 1 .. n : f[i] = IF i = 1 THEN seqs[i] ELSE f[i - 1] \o seqs[i]
    BY <2>1 DEF Joins
  <2> HIDE DEF n
  <2>4. ASSUME bad # {} PROVE FALSE
    <3>0. bad \in SUBSET Nat
      BY <2>2
    <3>1. PICK k \in bad : \A l \in bad : k <= l
      <4> HIDE DEF bad
      <4>1. QED
        BY <2>4, <3>0, LeastExists
    <3>2. CASE k = 1
      BY <2>2, <2>3, <3>2
    <3>3. CASE k # 1
      <4>1. k - 1 \in 1 .. n /\ k - 1 \notin bad /\ k \in 1 .. n
        BY <2>2, <3>1, <3>3
      <4>2. f[k - 1] \in Seq(T) /\ seqs[k] \in Seq(T)
        BY <2>2, <4>1
      <4>3. f[k] = f[k - 1] \o seqs[k]
        BY <2>3, <3>3, <4>1
      <4>4. QED
        BY <3>1, <4>2, <4>3, ConcatProperties
    <3>4. QED
      BY <3>2, <3>3
  <2>5. QED
    BY <2>1, <2>2, <2>4 DEF n
<1>3. QED
  BY <1>1, <1>2

--------------------------------------------------------------------------------
(* The life of a run. *)

(* What a source says, as the run uses it until it ends.                        *)
State == DomainParse(domain, source)

(* Reading a snapshot gives back the state it was made of, or nothing.          *)
SnapshotsReopen ==
    \A d \in Domains : \A s \in DomainSources(d) :
        DomainParse(d, s) # None =>
            DomainReopen(d, DomainFreeze(d, DomainParse(d, s)))
                = IF LosesQuery(d, DomainParse(d, s)) THEN None ELSE DomainParse(d, s)

(* None is none of the records an answer is kept in.                            *)
NoneIsNoAnswer == \A a, b, c : [slot |-> a, proposal |-> b, result |-> c] # None

(* Whatever was written down was made of the one state of the run.              *)
Given == domain \in Domains /\ source \in DomainSources(domain)
Frozen == frozen # None => State # None /\ frozen = DomainFreeze(domain, State)
Running == run # None => run = State /\ frozen = DomainFreeze(domain, State)
Allocated == slots # <<>> => State # None /\ slots = Issued(State)
Answered ==
    answer # None =>
        \E i \in DOMAIN slots :
            /\ answer.slot = slots[i]
            /\ answer.proposal \in Proposals(domain, State, slots[i])
            /\ answer.result = DomainCompile(domain, State, slots[i].id, answer.proposal)
Stored ==
    stored # None =>
        /\ answer # None /\ answer.result.reason = None
        /\ stored = [case |-> answer.result.task, key |-> DomainKey(domain, answer.result.task)]
Restored == restored # None => stored # None /\ restored = DomainRestore(domain, stored.case, stored.key)
TaskInvariant == Given /\ Frozen /\ Running /\ Allocated /\ Answered /\ Stored /\ Restored

(* It holds when a run starts.                                                *)
LEMMA TaskInvariantStarts == Init => TaskInvariant
<1> SUFFICES ASSUME Init PROVE TaskInvariant
  OBVIOUS
<1>1. QED
  BY DEF Init, TaskInvariant, Given, Frozen, Running, Allocated, Answered, Stored, Restored

(* Every step keeps it.                                                       *)
LEMMA TaskInvariantStays == ASSUME NoneIsNoAnswer, SnapshotsReopen PROVE TaskInvariant /\ [Next]_vars => TaskInvariant'
<1> SUFFICES ASSUME TaskInvariant, [Next]_vars PROVE TaskInvariant'
  OBVIOUS
<1>0. Given /\ Frozen /\ Running /\ Allocated /\ Answered /\ Stored /\ Restored
  BY DEF TaskInvariant
<1>1. CASE StartRun
  <2>1. /\ UNCHANGED <<domain, source, slots, answer, stored, restored>>
        /\ run' = State /\ State # None /\ frozen' = DomainFreeze(domain, State) /\ State' = State
    BY <1>1 DEF StartRun, State
  <2>2. Given' /\ Frozen' /\ Running'
    BY <1>0, <2>1 DEF Given, Frozen, Running
  <2>3. Allocated' /\ Answered' /\ Stored' /\ Restored'
    BY <1>0, <2>1 DEF Allocated, Answered, Stored, Restored, Issued
  <2>4. QED
    BY <2>2, <2>3 DEF TaskInvariant
<1>2. CASE AllocateSlots
  <2>1. /\ UNCHANGED <<domain, source, frozen, run, answer, stored, restored>>
        /\ slots = <<>> /\ slots' = Issued(State) /\ State' = State /\ State # None
    BY <1>0, <1>2 DEF AllocateSlots, State, Running
  <2>2. Given' /\ Frozen' /\ Running' /\ Allocated'
    BY <1>0, <2>1 DEF Given, Frozen, Running, Allocated, Issued
  <2>3. answer = None /\ stored = None /\ restored = None
    <3>1. DOMAIN slots = {}
      BY <2>1
    <3>2. QED
      BY <1>0, <3>1 DEF Answered, Stored, Restored
  <2>4. Answered' /\ Stored' /\ Restored'
    BY <2>1, <2>3 DEF Answered, Stored, Restored
  <2>5. QED
    BY <2>2, <2>4 DEF TaskInvariant
<1>3. CASE CompileProposal
  <2>1. /\ UNCHANGED <<domain, source, frozen, run, slots, restored>>
        /\ answer = None /\ run = State /\ State' = State
    BY <1>0, <1>3 DEF CompileProposal, State, Running
  <2>2. PICK i \in DOMAIN slots : \E proposal \in Proposals(domain, run, slots[i]) :
           \E result \in {DomainCompile(domain, run, slots[i].id, proposal)} :
               /\ answer' = [slot |-> slots[i], proposal |-> proposal, result |-> result]
               /\ stored' = IF result.reason # None THEN None
                            ELSE [case |-> result.task, key |-> DomainKey(domain, result.task)]
    BY <1>3, Zenon DEF CompileProposal
  <2>3. PICK proposal \in Proposals(domain, run, slots[i]) :
           \E result \in {DomainCompile(domain, run, slots[i].id, proposal)} :
               /\ answer' = [slot |-> slots[i], proposal |-> proposal, result |-> result]
               /\ stored' = IF result.reason # None THEN None
                            ELSE [case |-> result.task, key |-> DomainKey(domain, result.task)]
    BY <2>2, Zenon
  <2> DEFINE result == DomainCompile(domain, run, slots[i].id, proposal)
  <2>4. /\ answer' = [slot |-> slots[i], proposal |-> proposal, result |-> result]
        /\ stored' = IF result.reason # None THEN None
                     ELSE [case |-> result.task, key |-> DomainKey(domain, result.task)]
    BY <2>3, Zenon
  <2> HIDE DEF result
  <2>5. answer'.slot = slots[i] /\ answer'.proposal = proposal /\ answer'.result = result
    BY <2>4
  <2>6. Given' /\ Frozen' /\ Running' /\ Allocated'
    BY <1>0, <2>1 DEF Given, Frozen, Running, Allocated, Issued
  <2>7. Answered'
    BY <2>1, <2>3, <2>5 DEF Answered, result
  <2>8. restored = None
    BY <1>0, <2>1 DEF Stored, Restored
  <2>9. Stored' /\ Restored'
    <3>1. stored' # None => result.reason = None /\ stored' = [case |-> result.task, key |-> DomainKey(domain, result.task)]
      BY <2>4
    <3>2. answer' # None
      BY <2>4 DEF NoneIsNoAnswer
    <3>3. QED
      BY <2>1, <2>5, <2>8, <3>1, <3>2 DEF Stored, Restored
  <2>10. QED
    BY <2>6, <2>7, <2>9 DEF TaskInvariant
<1>4. CASE RestoreTask
  <2>1. /\ UNCHANGED <<domain, source, frozen, run, slots, answer, stored>> /\ State' = State
        /\ stored # None /\ restored' = DomainRestore(domain, stored.case, stored.key)
    BY <1>4 DEF RestoreTask, State
  <2>2. Given' /\ Frozen' /\ Running' /\ Allocated' /\ Answered' /\ Stored'
    BY <1>0, <2>1 DEF Given, Frozen, Running, Allocated, Issued, Answered, Stored
  <2>3. Restored'
    BY <2>1 DEF Restored
  <2>4. QED
    BY <2>2, <2>3 DEF TaskInvariant
<1>5. CASE Crash
  <2>1. UNCHANGED <<domain, source, frozen, slots, answer, stored>> /\ run' = None /\ restored' = None /\ State' = State
    BY <1>5 DEF Crash, State
  <2>2. QED
    BY <1>0, <2>1 DEF TaskInvariant, Given, Frozen, Running, Allocated, Issued, Answered, Stored, Restored
<1>6. CASE Resume
  <2>1. /\ UNCHANGED <<domain, source, frozen, slots, answer, stored, restored>> /\ State' = State
        /\ frozen # None /\ run' = DomainReopen(domain, frozen)
    BY <1>6 DEF Resume, State
  <2>2. run' \in {None, State} /\ frozen = DomainFreeze(domain, State)
    BY <1>0, <2>1 DEF Given, Frozen, SnapshotsReopen, State
  <2>3. QED
    BY <1>0, <2>1, <2>2 DEF TaskInvariant, Given, Frozen, Running, Allocated, Issued, Answered, Stored, Restored
<1>7. CASE UNCHANGED vars
  BY <1>0, <1>7 DEF vars, State, TaskInvariant, Given, Frozen, Running, Allocated, Issued, Answered, Stored, Restored
<1>8. QED
  BY <1>1, <1>2, <1>3, <1>4, <1>5, <1>6, <1>7 DEF Next

(* So it always holds.                                                        *)
LEMMA TaskInvariantAlways == ASSUME NoneIsNoAnswer, SnapshotsReopen PROVE Spec => []TaskInvariant
<1>1. Init => TaskInvariant
  BY TaskInvariantStarts
<1>2. TaskInvariant /\ [Next]_vars => TaskInvariant'
  BY TaskInvariantStays
<1>3. QED
  BY <1>1, <1>2, PTL DEF Spec

--------------------------------------------------------------------------------
CONSTANTS
    Strip(_), Slug(_), LongName, AllowedNote, PromptNote,              \* Contacts
    BodyHas(_, _), ReplyAllowed(_), BlankMessage, LongMessage,         \* Mobile Messages
    TargetScope, ItemQuery(_, _), TitleAllowed(_), CommentAllowed(_),
    BlankItem, LongItem,                                               \* Workspace Tasks
    NegatedContact, NegatedMessage, NegatedItem  \* what each of them takes for a denial

OfContacts == INSTANCE Contacts WITH
    LongText <- LongName, NegatedAction <- NegatedContact
OfMobile == INSTANCE MobileMessages WITH
    Blank <- BlankMessage, LongText <- LongMessage, NegatedAction <- NegatedMessage
OfWorkspace == INSTANCE WorkspaceTasks WITH
    Blank <- BlankItem, LongText <- LongItem, NegatedAction <- NegatedItem,
    QueryFor <- ItemQuery

(* The sequence operators of the instances are those of this module.          *)
LEMMA SameCommon ==
  /\ \A s : OfContacts!FlattenSeq(s) = FlattenSeq(s)
  /\ \A s : OfMobile!FlattenSeq(s) = FlattenSeq(s)
  /\ \A s : OfWorkspace!FlattenSeq(s) = FlattenSeq(s)
  /\ \A s : OfContacts!SetToSeq(s) = SetToSeq(s)
  /\ \A s : OfMobile!SetToSeq(s) = SetToSeq(s)
<1>1. \A s : OfContacts!FlattenSeq(s) = FlattenSeq(s)
  BY Zenon DEF OfContacts!FlattenSeq, FlattenSeq
<1>2. \A s : OfMobile!FlattenSeq(s) = FlattenSeq(s)
  BY Zenon DEF OfMobile!FlattenSeq, FlattenSeq
<1>3. \A s : OfWorkspace!FlattenSeq(s) = FlattenSeq(s)
  BY Zenon DEF OfWorkspace!FlattenSeq, FlattenSeq
<1>4. \A s : OfContacts!SetToSeq(s) = SetToSeq(s)
  BY Zenon DEF OfContacts!SetToSeq, SetToSeq, OfContacts!IsInjective, IsInjective,
                OfContacts!Cardinality, Cardinality
<1>5. \A s : OfMobile!SetToSeq(s) = SetToSeq(s)
  BY Zenon DEF OfMobile!SetToSeq, SetToSeq, OfMobile!IsInjective, IsInjective,
                OfMobile!Cardinality, Cardinality
<1>6. QED
  BY <1>1, <1>2, <1>3, <1>4, <1>5

(* SetToSeq lists every element of a finite set once.                         *)
LEMMA Enumerated ==
  ASSUME NEW S, IsFiniteSet(S)
  PROVE  /\ SetToSeq(S) \in [1 .. Cardinality(S) -> S] /\ Cardinality(S) \in Nat
         /\ \A i, j \in 1 .. Cardinality(S) : SetToSeq(S)[i] = SetToSeq(S)[j] => i = j
         /\ \A x \in S : \E i \in 1 .. Cardinality(S) : SetToSeq(S)[i] = x
<1> DEFINE n == Cardinality(S)
           f == SetToSeq(S)
<1>1. n \in Nat /\ ExistsBijection(1 .. n, S)
  BY FS_CardinalityType
<1>2. \E g \in [1 .. n -> S] : IsInjective(g)
  BY <1>1 DEF ExistsBijection, Bijection, Injection
<1>3. f \in [1 .. n -> S] /\ IsInjective(f)
  BY <1>2, Zenon DEF SetToSeq
<1> HIDE DEF f
<1>4. IsFiniteSet(1 .. n) /\ Cardinality(1 .. n) = n
  BY <1>1, FS_Interval
<1>5. f \in Injection(1 .. n, S)
  BY <1>3 DEF Injection
<1>6. f \in Surjection(1 .. n, S)
  BY <1>4, <1>5, FS_Injection
<1>7. \A x \in S : \E i \in 1 .. n : f[i] = x
  BY <1>6 DEF Surjection
<1>8. QED
  BY <1>1, <1>3, <1>7 DEF f, IsInjective

(* A chain of tests, each with the reason it refuses for; and that all of them   *)
(* were passed.                                                                 *)
Tests(checks) ==
    \E n \in Nat : checks = [i \in 1 .. n |-> checks[i]] /\ \A i \in 1 .. n : checks[i][2] # None
Passed(checks) == \A i \in DOMAIN checks : ~checks[i][1]

(* A chain of early returns comes to its end only when every test is passed.  *)
LEMMA PassedTests ==
  ASSUME NEW checks, Tests(checks), NEW otherwise
  PROVE  /\ OfContacts!EarlyReturn(checks, otherwise) = None => otherwise = None /\ Passed(checks)
         /\ Passed(checks) => OfContacts!EarlyReturn(checks, otherwise) = otherwise
<1> DEFINE holds == {i \in DOMAIN checks : checks[i][1]}
<1>0. PICK n \in Nat : checks = [i \in 1 .. n |-> checks[i]] /\ \A i \in 1 .. n : checks[i][2] # None
  BY DEF Tests
<1>1. DOMAIN checks = 1 .. n /\ holds \in SUBSET Nat
  BY <1>0
<1>2. CASE holds # {}
  <2>1. OfContacts!First(holds) \in holds
    <3>1. OfContacts!First(holds) = CHOOSE i \in holds : \A j \in holds : i <= j
      BY Zenon DEF OfContacts!First
    <3> HIDE DEF holds
    <3>2. \E i \in holds : \A j \in holds : i <= j
      BY <1>1, <1>2, LeastExists
    <3>3. QED
      BY <3>1, <3>2
  <2>2. OfContacts!EarlyReturn(checks, otherwise) = checks[OfContacts!First(holds)][2]
    BY <1>2 DEF OfContacts!EarlyReturn
  <2>3. OfContacts!EarlyReturn(checks, otherwise) # None /\ ~Passed(checks)
    BY <1>0, <1>1, <2>1, <2>2 DEF Passed
  <2>4. QED
    BY <2>3
<1>3. CASE holds = {}
  <2>1. OfContacts!EarlyReturn(checks, otherwise) = otherwise
    BY <1>3, Zenon DEF OfContacts!EarlyReturn
  <2>2. Passed(checks)
    BY <1>3 DEF Passed
  <2>3. QED
    BY <2>1, <2>2, Zenon
<1>4. QED
  BY <1>2, <1>3

(* The instances return early in the same way.                                *)
LEMMA SameReturns ==
  \A checks, otherwise :
      /\ OfMobile!EarlyReturn(checks, otherwise) = OfContacts!EarlyReturn(checks, otherwise)
      /\ OfWorkspace!EarlyReturn(checks, otherwise) = OfContacts!EarlyReturn(checks, otherwise)
  BY Zenon DEF OfContacts!EarlyReturn, OfMobile!EarlyReturn, OfWorkspace!EarlyReturn,
               OfContacts!First, OfMobile!First, OfWorkspace!First

(* A chain of two chains is passed when both are.                             *)
LEMMA JoinedTests ==
  ASSUME NEW a, NEW b, Tests(a), Tests(b)
  PROVE  Tests(a \o b) /\ (Passed(a \o b) <=> Passed(a) /\ Passed(b))
<1>1. PICK m \in Nat : a = [i \in 1 .. m |-> a[i]] /\ \A i \in 1 .. m : a[i][2] # None
  BY DEF Tests
<1>2. PICK n \in Nat : b = [i \in 1 .. n |-> b[i]] /\ \A i \in 1 .. n : b[i][2] # None
  BY DEF Tests
<1> DEFINE T == {a[i] : i \in 1 .. m} \cup {b[i] : i \in 1 .. n}
<1>3. a \in Seq(T) /\ b \in Seq(T) /\ Len(a) = m /\ Len(b) = n
  <2>1. a \in [1 .. m -> T] /\ b \in [1 .. n -> T]
    <3>1. \A i \in 1 .. m : a[i] \in T
      OBVIOUS
    <3>2. \A i \in 1 .. n : b[i] \in T
      OBVIOUS
    <3> HIDE DEF T
    <3>3. QED
      BY <1>1, <1>2, <3>1, <3>2, Zenon
  <2> HIDE DEF T
  <2>2. QED
    BY <2>1
<1> DEFINE c == a \o b
<1>4. c \in Seq(T) /\ Len(c) = m + n
  BY <1>3, ConcatProperties
<1>5. DOMAIN c = 1 .. m + n /\ c = [i \in 1 .. m + n |-> c[i]]
  <2> HIDE DEF c, T
  <2>1. QED
    BY <1>4
<1>6. \A i \in 1 .. m + n : c[i] = IF i <= m THEN a[i] ELSE b[i - m]
  BY <1>3, ConcatProperties
<1> HIDE DEF c, T
<1>7. \A i \in 1 .. m : c[i] = a[i] /\ i \in 1 .. m + n
  BY <1>6
<1>8. \A i \in 1 .. n : c[m + i] = b[i] /\ m + i \in 1 .. m + n
  BY <1>6
<1>9. \A i \in 1 .. m + n : (i \in 1 .. m /\ c[i] = a[i]) \/ (i - m \in 1 .. n /\ c[i] = b[i - m])
  <2> SUFFICES ASSUME NEW i \in 1 .. m + n
               PROVE  (i \in 1 .. m /\ c[i] = a[i]) \/ (i - m \in 1 .. n /\ c[i] = b[i - m])
    OBVIOUS
  <2>1. CASE i <= m
    BY <1>6, <2>1
  <2>2. CASE ~(i <= m)
    BY <1>6, <2>2
  <2>3. QED
    BY <2>1, <2>2
<1>10. Tests(c)
  <2>1. \A i \in 1 .. m + n : c[i][2] # None
    BY <1>1, <1>2, <1>9
  <2>2. m + n \in Nat
    OBVIOUS
  <2>3. QED
    BY <1>5, <2>1, <2>2, Zenon DEF Tests
<1>11. DOMAIN a = 1 .. m /\ DOMAIN b = 1 .. n
  BY <1>1, <1>2
<1>12. Passed(c) => Passed(a) /\ Passed(b)
  BY <1>5, <1>7, <1>8, <1>11 DEF Passed
<1>13. Passed(a) /\ Passed(b) => Passed(c)
  BY <1>5, <1>9, <1>11 DEF Passed
<1>14. QED
  BY <1>10, <1>12, <1>13 DEF c

--------------------------------------------------------------------------------
(* Contacts: a snapshot is a source that says what the state is. *)

(* A source is two sequences of records.                                        *)
ContactsSource(s) ==
    \E m, n \in Nat : /\ s.contacts = [i \in 1 .. m |-> s.contacts[i]]
                      /\ s.followups = [i \in 1 .. n |-> s.followups[i]]

(* What is stripped has nothing left to strip, and no slug is a pair.           *)
NamesAreNormal ==
    /\ \A text : Strip(Strip(text)) = Strip(text)
    /\ \A text, slug, name : Slug(text) # <<slug, name>>

ContactNames(s) == {Strip(s.contacts[i].name) : i \in DOMAIN s.contacts}
NotedNames(s) == {Strip(s.followups[i].name) : i \in DOMAIN s.followups}
NthNamed(seq, name) == CHOOSE i \in DOMAIN seq : Strip(seq[i].name) = name
(* The conditions under which a source is not refused.                          *)
ContactsReads(s) ==
    /\ s.contacts # <<>>
    /\ \A i \in DOMAIN s.contacts :
           /\ Strip(s.contacts[i].name) # "" /\ Strip(s.contacts[i].email) # ""
           /\ {Strip(s.contacts[i].name), Strip(s.contacts[i].email)} \cap LongName = {}
    /\ \A i, j \in DOMAIN s.contacts : i # j => Strip(s.contacts[i].name) # Strip(s.contacts[j].name)
    /\ \A i \in DOMAIN s.followups :
           Strip(s.followups[i].name) \in ContactNames(s) /\ s.followups[i].note \in AllowedNote
    /\ \A i, j \in DOMAIN s.followups : i # j => Strip(s.followups[i].name) # Strip(s.followups[j].name)
ContactsRead(s) ==
    [contacts |-> [name \in ContactNames(s) |-> Strip(s.contacts[NthNamed(s.contacts, name)].email)],
     followups |-> [name \in NotedNames(s) |-> s.followups[NthNamed(s.followups, name)].note]]

(* What the parser makes of a source.                                         *)
LEMMA ContactsParse ==
  ASSUME NEW s
  PROVE  OfContacts!Parse(s) = IF ContactsReads(s) THEN ContactsRead(s) ELSE None
<1>1. CASE ContactsReads(s)
  <2>1. OfContacts!Parse(s) = ContactsRead(s)
    BY <1>1, Zenon DEF OfContacts!Parse, OfContacts!NormalName, ContactsReads, ContactsRead, ContactNames, NotedNames, NthNamed
  <2>2. QED
    BY <1>1, <2>1
<1>2. CASE ~ContactsReads(s)
  <2>1. OfContacts!Parse(s) = None
    BY <1>2, Zenon DEF OfContacts!Parse, OfContacts!NormalName, ContactsReads, ContactNames
  <2>2. QED
    BY <1>2, <2>1
<1>3. QED
  BY <1>1, <1>2

(* The names of a table are finitely many.                                    *)
LEMMA FiniteTable ==
  ASSUME NEW seq, NEW n \in Nat, DOMAIN seq = 1 .. n
  PROVE  IsFiniteSet({Strip(seq[i].name) : i \in DOMAIN seq})
<1>1. IsFiniteSet(1 .. n)
  BY FS_Interval
<1> DEFINE T == {Strip(seq[i].name) : i \in DOMAIN seq}
           f == [i \in 1 .. n |-> Strip(seq[i].name)]
<1>2. f \in Surjection(1 .. n, T)
  BY DEF Surjection
<1>3. QED
  BY <1>1, <1>2, FS_Surjection

(* A snapshot is opened as the state it was made of.                          *)
LEMMA ContactsReopen ==
  ASSUME NEW s, ContactsSource(s), NamesAreNormal, OfContacts!Parse(s) # None
  PROVE  OfContacts!Reopen(OfContacts!Freeze(OfContacts!Parse(s))) = OfContacts!Parse(s)
<1> DEFINE state == ContactsRead(s)
           names == ContactNames(s)
           noted == NotedNames(s)
           e == SetToSeq(names)
           d == SetToSeq(noted)
           k == Cardinality(names)
           l == Cardinality(noted)
           back == [contacts |-> [i \in 1 .. k |-> [name |-> e[i], email |-> state.contacts[e[i]]]],
                    followups |-> [i \in 1 .. l |-> [name |-> d[i], note |-> state.followups[d[i]]]]]
<1>1. OfContacts!Parse(s) = state /\ ContactsReads(s)
  BY ContactsParse
<1>0. PICK m \in Nat, n \in Nat : /\ s.contacts = [i \in 1 .. m |-> s.contacts[i]]
                                /\ s.followups = [i \in 1 .. n |-> s.followups[i]]
  BY DEF ContactsSource
<1>2. DOMAIN s.contacts = 1 .. m /\ DOMAIN s.followups = 1 .. n
  BY <1>0
<1>3. IsFiniteSet(names) /\ IsFiniteSet(noted)
  BY <1>2, FiniteTable DEF ContactNames, NotedNames
<1>4. /\ e \in [1 .. k -> names] /\ k \in Nat
      /\ \A i, j \in 1 .. k : e[i] = e[j] => i = j
      /\ \A x \in names : \E i \in 1 .. k : e[i] = x
  BY <1>3, Enumerated
<1>5. /\ d \in [1 .. l -> noted] /\ l \in Nat
      /\ \A i, j \in 1 .. l : d[i] = d[j] => i = j
      /\ \A x \in noted : \E i \in 1 .. l : d[i] = x
  BY <1>3, Enumerated
<1>6. DOMAIN state.contacts = names /\ DOMAIN state.followups = noted
  BY DEF ContactsRead
<1> HIDE DEF names, noted, e, d, k, l
<1>7. OfContacts!Freeze(OfContacts!Parse(s)) = back
  <2>1. OfContacts!Enumerate(names) = e /\ OfContacts!Enumerate(noted) = d
    BY SameCommon DEF OfContacts!Enumerate, e, d
  <2>2. DOMAIN e = 1 .. k /\ DOMAIN d = 1 .. l
    BY <1>4, <1>5
  <2> HIDE DEF state
  <2>3. QED
    BY <1>1, <1>6, <2>1, <2>2, Zenon DEF OfContacts!Freeze
<1>8. /\ DOMAIN back.contacts = 1 .. k /\ DOMAIN back.followups = 1 .. l
      /\ \A i \in 1 .. k : back.contacts[i].name = e[i] /\ back.contacts[i].email = state.contacts[e[i]]
      /\ \A i \in 1 .. l : back.followups[i].name = d[i] /\ back.followups[i].note = state.followups[d[i]]
  OBVIOUS
<1>9. \A x \in names : /\ \E i \in 1 .. m : NthNamed(s.contacts, x) = i /\ Strip(s.contacts[i].name) = x
                       /\ state.contacts[x] = Strip(s.contacts[NthNamed(s.contacts, x)].email)
  BY <1>2 DEF names, ContactNames, NthNamed, ContactsRead
<1>10. \A x \in noted : /\ \E i \in 1 .. n : NthNamed(s.followups, x) = i /\ Strip(s.followups[i].name) = x
                        /\ state.followups[x] = s.followups[NthNamed(s.followups, x)].note
  BY <1>2 DEF noted, NotedNames, NthNamed, ContactsRead
<1>11. \A x \in names : Strip(x) = x /\ x # "" /\ Strip(state.contacts[x]) = state.contacts[x]
                        /\ state.contacts[x] # "" /\ {x, state.contacts[x]} \cap LongName = {}
  <2> SUFFICES ASSUME NEW x \in names
               PROVE  Strip(x) = x /\ x # "" /\ Strip(state.contacts[x]) = state.contacts[x]
                      /\ state.contacts[x] # "" /\ {x, state.contacts[x]} \cap LongName = {}
    OBVIOUS
  <2>1. PICK i \in 1 .. m : NthNamed(s.contacts, x) = i /\ Strip(s.contacts[i].name) = x
    BY <1>9
  <2>2. state.contacts[x] = Strip(s.contacts[i].email)
    BY <1>9, <2>1
  <2> HIDE DEF state
  <2>3. /\ Strip(s.contacts[i].name) # "" /\ Strip(s.contacts[i].email) # ""
        /\ {Strip(s.contacts[i].name), Strip(s.contacts[i].email)} \cap LongName = {}
    BY <1>1, <1>2 DEF ContactsReads
  <2>4. \A text : Strip(Strip(text)) = Strip(text)
    BY DEF NamesAreNormal
  <2>5. QED
    BY <2>1, <2>2, <2>3, <2>4
<1>12. \A x \in noted : Strip(x) = x /\ x \in names /\ state.followups[x] \in AllowedNote
  <2> SUFFICES ASSUME NEW x \in noted PROVE Strip(x) = x /\ x \in names /\ state.followups[x] \in AllowedNote
    OBVIOUS
  <2>1. PICK i \in 1 .. n : NthNamed(s.followups, x) = i /\ Strip(s.followups[i].name) = x
    BY <1>10
  <2>2. state.followups[x] = s.followups[i].note
    BY <1>10, <2>1
  <2> HIDE DEF state
  <2>3. Strip(s.followups[i].name) \in names /\ s.followups[i].note \in AllowedNote
    BY <1>1, <1>2 DEF ContactsReads, names
  <2>4. \A text : Strip(Strip(text)) = Strip(text)
    BY DEF NamesAreNormal
  <2>5. QED
    BY <2>1, <2>2, <2>3, <2>4
<1> HIDE DEF state, back
<1>13. \A i \in 1 .. k : /\ Strip(back.contacts[i].name) = e[i] /\ e[i] \in names
                         /\ Strip(back.contacts[i].email) = state.contacts[e[i]]
  BY <1>4, <1>8, <1>11
<1>14. \A i \in 1 .. l : /\ Strip(back.followups[i].name) = d[i] /\ d[i] \in noted /\ d[i] \in names
                         /\ back.followups[i].note = state.followups[d[i]]
  BY <1>5, <1>8, <1>12
<1>15. ContactNames(back) = names /\ NotedNames(back) = noted
  <2>1. ContactNames(back) = {e[i] : i \in 1 .. k}
    BY <1>8, <1>13 DEF ContactNames
  <2>2. NotedNames(back) = {d[i] : i \in 1 .. l}
    BY <1>8, <1>14 DEF NotedNames
  <2>3. {e[i] : i \in 1 .. k} = names
    BY <1>4
  <2>4. {d[i] : i \in 1 .. l} = noted
    BY <1>5
  <2>5. QED
    BY <2>1, <2>2, <2>3, <2>4
<1>16. ContactsReads(back)
  <2>1. back.contacts # <<>>
    <3>1. 1 \in DOMAIN s.contacts
      <4>1. s.contacts # <<>>
        BY <1>1 DEF ContactsReads
      <4>2. CASE m = 0
        <5>1. s.contacts = [i \in {} |-> s.contacts[i]]
          <6>1. 1 .. m = {}
            BY <4>2
          <6>2. QED
            BY <1>0, <6>1, Zenon
        <5>2. [i \in {} |-> s.contacts[i]] = <<>>
          OBVIOUS
        <5>3. QED
          BY <4>1, <5>1, <5>2, Zenon
      <4>3. QED
        BY <1>2, <4>2
    <3>2. Strip(s.contacts[1].name) \in names
      BY <3>1 DEF names, ContactNames
    <3>3. DOMAIN back.contacts # {}
      BY <1>4, <1>8, <3>2
    <3>4. QED
      BY <3>3
  <2>2. \A i \in 1 .. k :
           /\ Strip(back.contacts[i].name) # "" /\ Strip(back.contacts[i].email) # ""
           /\ {Strip(back.contacts[i].name), Strip(back.contacts[i].email)} \cap LongName = {}
    <3> SUFFICES ASSUME NEW i \in 1 .. k
                 PROVE  /\ Strip(back.contacts[i].name) # "" /\ Strip(back.contacts[i].email) # ""
                        /\ {Strip(back.contacts[i].name), Strip(back.contacts[i].email)} \cap LongName = {}
      OBVIOUS
    <3>1. /\ Strip(back.contacts[i].name) = e[i] /\ e[i] \in names
          /\ Strip(back.contacts[i].email) = state.contacts[e[i]]
      BY <1>13
    <3>2. e[i] # "" /\ state.contacts[e[i]] # "" /\ {e[i], state.contacts[e[i]]} \cap LongName = {}
      BY <1>11, <3>1
    <3>3. QED
      BY <3>1, <3>2, Zenon
  <2>3. \A i, j \in 1 .. k : i # j => Strip(back.contacts[i].name) # Strip(back.contacts[j].name)
    BY <1>4, <1>13
  <2>4. \A i \in 1 .. l : Strip(back.followups[i].name) \in names /\ back.followups[i].note \in AllowedNote
    BY <1>12, <1>14
  <2>5. \A i, j \in 1 .. l : i # j => Strip(back.followups[i].name) # Strip(back.followups[j].name)
    BY <1>5, <1>14
  <2>6. QED
    BY <1>8, <1>15, <2>1, <2>2, <2>3, <2>4, <2>5 DEF ContactsReads
<1>17. ContactsRead(back) = state
  <2>1. \A x \in names : Strip(back.contacts[NthNamed(back.contacts, x)].email) = state.contacts[x]
    <3> SUFFICES ASSUME NEW x \in names
                 PROVE  Strip(back.contacts[NthNamed(back.contacts, x)].email) = state.contacts[x]
      OBVIOUS
    <3>1. \E i \in 1 .. k : Strip(back.contacts[i].name) = x
      BY <1>4, <1>13
    <3>2. NthNamed(back.contacts, x) \in 1 .. k /\ Strip(back.contacts[NthNamed(back.contacts, x)].name) = x
      BY <1>8, <3>1 DEF NthNamed
    <3>3. QED
      BY <1>13, <3>2
  <2>2. \A x \in noted : back.followups[NthNamed(back.followups, x)].note = state.followups[x]
    <3> SUFFICES ASSUME NEW x \in noted
                 PROVE  back.followups[NthNamed(back.followups, x)].note = state.followups[x]
      OBVIOUS
    <3>1. \E i \in 1 .. l : Strip(back.followups[i].name) = x
      BY <1>5, <1>14
    <3>2. NthNamed(back.followups, x) \in 1 .. l /\ Strip(back.followups[NthNamed(back.followups, x)].name) = x
      BY <1>8, <3>1 DEF NthNamed
    <3>3. QED
      BY <1>14, <3>2
  <2>3. ContactsRead(back) = [contacts |-> [x \in names |-> state.contacts[x]],
                              followups |-> [x \in noted |-> state.followups[x]]]
    BY <1>15, <2>1, <2>2 DEF ContactsRead
  <2>4. state = [contacts |-> [x \in names |-> state.contacts[x]],
                 followups |-> [x \in noted |-> state.followups[x]]]
    BY DEF state, ContactsRead, names, noted
  <2>5. QED
    BY <2>3, <2>4
<1>18. OfContacts!Parse(back) = state
  BY <1>16, <1>17, ContactsParse
<1>19. QED
  BY <1>1, <1>7, <1>18 DEF OfContacts!Reopen

--------------------------------------------------------------------------------
(* Contacts: an id stands for one slot. *)

ContactSpecs == {OfContacts!TaskSpecs[i] : i \in 1 .. 8}
ContactSlot(state, spec, name) == [id |-> OfContacts!SlotId(state, spec, name), spec |-> spec, target |-> name]
ContactSlots(state) ==
    {ContactSlot(state, spec, name) : spec \in ContactSpecs, name \in DOMAIN state.contacts}

(* The eight kinds of task.                                                   *)
LEMMA ContactSpecsAre ==
  \A spec \in ContactSpecs :
      /\ spec.action = "lookup_email" => spec.constraint = "none"
      /\ spec.action # "lookup_email" =>
             spec.action = "record_followup" /\ spec.constraint \in {"open", "exact"}
      /\ \A other \in ContactSpecs : other.kind = spec.kind => other = spec
      /\ \E i \in 1 .. 8 : OfContacts!TaskSpecs[i] = spec
  BY DEF ContactSpecs, OfContacts!TaskSpecs, OfContacts!TaskSpec

(* The kinds a contact is given are among them.                               *)
LEMMA ContactSpecsFor ==
  ASSUME NEW state, NEW name
  PROVE  OfContacts!SpecsFor(state, name) \in Seq(ContactSpecs)
<1> DEFINE Passes(spec) == name \notin DOMAIN state.followups \/ spec.action = "lookup_email"
           specs == OfContacts!TaskSpecs
           parts == [i \in DOMAIN specs |-> IF Passes(specs[i]) THEN <<specs[i]>> ELSE <<>>]
<1>1. DOMAIN specs = 1 .. 8
  BY DEF OfContacts!TaskSpecs
<1>2. OfContacts!SpecsFor(state, name) = FlattenSeq(parts)
  BY SameCommon, Zenon DEF OfContacts!SpecsFor, OfContacts!Those
<1> HIDE DEF specs, Passes
<1>3. \A i \in 1 .. 8 : specs[i] \in ContactSpecs
  BY DEF ContactSpecs, specs
<1>4. parts \in Seq(Seq(ContactSpecs))
  BY <1>1, <1>3
<1>5. QED
  BY <1>2, <1>4, FlattenType

(* Every slot is of a kind and a contact.                                     *)
LEMMA ContactSlotsAre ==
  ASSUME NEW state, IsFiniteSet(DOMAIN state.contacts)
  PROVE  OfContacts!Slots(state) \in Seq(ContactSlots(state))
<1> DEFINE names == DOMAIN state.contacts
           e == SetToSeq(names)
           k == Cardinality(names)
           part == [i \in 1 .. k |->
                      [j \in DOMAIN OfContacts!SpecsFor(state, e[i]) |->
                          [id |-> OfContacts!SlotId(state, OfContacts!SpecsFor(state, e[i])[j], e[i]),
                           spec |-> OfContacts!SpecsFor(state, e[i])[j], target |-> e[i]]]]
<1>1. e \in [1 .. k -> names] /\ k \in Nat
  BY Enumerated
<1>2. OfContacts!Slots(state) = FlattenSeq(part)
  <2>1. OfContacts!Enumerate(names) = e
    BY SameCommon DEF OfContacts!Enumerate
  <2>2. OfContacts!Cardinality(names) = k
    BY Zenon DEF OfContacts!Cardinality, Cardinality
  <2>3. QED
    BY <2>1, <2>2, SameCommon, Zenon DEF OfContacts!Slots
<1>3. \A i \in 1 .. k : part[i] \in Seq(ContactSlots(state))
  <2> SUFFICES ASSUME NEW i \in 1 .. k PROVE part[i] \in Seq(ContactSlots(state))
    OBVIOUS
  <2> DEFINE specs == OfContacts!SpecsFor(state, e[i])
  <2>1. specs \in Seq(ContactSpecs) /\ e[i] \in names
    BY <1>1, ContactSpecsFor
  <2>2. part[i] = [j \in DOMAIN specs |-> ContactSlot(state, specs[j], e[i])]
    BY DEF ContactSlot
  <2> HIDE DEF specs, part, e
  <2>3. \A j \in DOMAIN specs : ContactSlot(state, specs[j], e[i]) \in ContactSlots(state)
    BY <2>1 DEF ContactSlots
  <2>4. DOMAIN specs = 1 .. Len(specs) /\ Len(specs) \in Nat
    BY <2>1
  <2>5. QED
    BY <2>2, <2>3, <2>4
<1>4. part \in Seq(Seq(ContactSlots(state)))
  <2>1. DOMAIN part = 1 .. k
    OBVIOUS
  <2>2. part = [i \in 1 .. k |-> part[i]]
    OBVIOUS
  <2> HIDE DEF part
  <2>3. QED
    BY <1>1, <1>3, <2>1, <2>2
<1>5. QED
  BY <1>2, <1>4, FlattenType

(* An id is of one kind and one contact.                                      *)
LEMMA ContactIdsDiffer ==
  ASSUME NamesAreNormal, NEW state, NEW a \in ContactSlots(state), NEW b \in ContactSlots(state), a.id = b.id
  PROVE  a = b
<1>1. PICK p \in ContactSpecs, x \in DOMAIN state.contacts : a = ContactSlot(state, p, x)
  BY DEF ContactSlots
<1>2. PICK q \in ContactSpecs, y \in DOMAIN state.contacts : b = ContactSlot(state, q, y)
  BY DEF ContactSlots
<1> DEFINE Shared(name) == \E other \in DOMAIN state.contacts : other # name /\ Slug(other) = Slug(name)
           Part(name) == IF Shared(name) THEN <<Slug(name), name>> ELSE Slug(name)
<1>3. a.id = <<p.kind, Part(x)>> /\ b.id = <<q.kind, Part(y)>>
  <2>1. a.id = OfContacts!SlotId(state, p, x) /\ b.id = OfContacts!SlotId(state, q, y)
    BY <1>1, <1>2 DEF ContactSlot
  <2>2. \A spec, name : OfContacts!SlotId(state, spec, name) = <<spec.kind, Part(name)>>
    BY Zenon DEF OfContacts!SlotId
  <2>3. QED
    BY <2>1, <2>2, Zenon
<1>4. p.kind = q.kind /\ Part(x) = Part(y)
  <2>1. \A u, v, w, z : <<u, v>> = <<w, z>> => u = w /\ v = z
    OBVIOUS
  <2>2. <<p.kind, Part(x)>> = <<q.kind, Part(y)>>
    BY <1>3, Zenon
  <2>3. QED
    BY <2>1, <2>2, Zenon
<1> HIDE DEF Part
<1>5. p = q
  BY <1>4, ContactSpecsAre
<1>6. x = y
  <2> HIDE DEF Shared
  <2>1. CASE Shared(x) /\ Shared(y)
    <3>1. <<Slug(x), x>> = <<Slug(y), y>>
      BY <1>4, <2>1, Zenon DEF Part
    <3>2. QED
      BY <3>1
  <2>2. CASE ~Shared(x) /\ ~Shared(y)
    <3>1. Slug(x) = Slug(y)
      BY <1>4, <2>2, Zenon DEF Part
    <3>2. QED
      BY <2>2, <3>1 DEF Shared
  <2>3. CASE Shared(x) /\ ~Shared(y)
    <3>1. <<Slug(x), x>> = Slug(y)
      BY <1>4, <2>3, Zenon DEF Part
    <3>2. QED
      BY <3>1, Zenon DEF NamesAreNormal
  <2>4. CASE ~Shared(x) /\ Shared(y)
    <3>1. <<Slug(y), y>> = Slug(x)
      BY <1>4, <2>4, Zenon DEF Part
    <3>2. QED
      BY <3>1, Zenon DEF NamesAreNormal
  <2>5. QED
    BY <2>1, <2>2, <2>3, <2>4
<1>7. QED
  BY <1>1, <1>2, <1>5, <1>6

(* The slot found under the id of a slot is that slot.                        *)
LEMMA ContactSlotFound ==
  ASSUME NamesAreNormal, NEW state, IsFiniteSet(DOMAIN state.contacts), NEW slot \in ContactSlots(state)
  PROVE  /\ OfContacts!SlotWithId(state, slot.id) \in {None, slot}
         /\ (\E i \in DOMAIN OfContacts!Slots(state) : OfContacts!Slots(state)[i] = slot) =>
                OfContacts!SlotWithId(state, slot.id) = slot
<1> DEFINE issued == OfContacts!Slots(state)
           same == {i \in DOMAIN issued : issued[i].id = slot.id}
<1>1. OfContacts!SlotWithId(state, slot.id) = IF same = {} THEN None ELSE issued[OfContacts!First(same)]
  BY Zenon DEF OfContacts!SlotWithId
<1>2. issued \in Seq(ContactSlots(state))
  BY ContactSlotsAre
<1> HIDE DEF issued
<1>3. ASSUME same # {} PROVE issued[OfContacts!First(same)] = slot
  <2>1. same \in SUBSET Nat
    BY <1>2
  <2> HIDE DEF same
  <2>2. \E i \in same : \A j \in same : i <= j
    BY <1>3, <2>1, LeastExists
  <2>3. OfContacts!First(same) \in same
    BY <2>2 DEF OfContacts!First
  <2>4. issued[OfContacts!First(same)].id = slot.id /\ issued[OfContacts!First(same)] \in ContactSlots(state)
    BY <1>2, <2>3 DEF same
  <2>5. QED
    BY <2>4, ContactIdsDiffer
<1>4. (\E i \in DOMAIN issued : issued[i] = slot) => same # {}
  OBVIOUS
<1>5. QED
  BY <1>1, <1>3, <1>4 DEF issued

--------------------------------------------------------------------------------
(* Contacts: what compiles is what was asked for. *)

(* No reason for a refusal is None.                                             *)
RefusalsHaveReasons ==
    None \notin {"unsupported_task_slot", "negated_action", "proposal_not_json", "proposal_not_object",
                 "unsupported_requested_action", "wrong_contact_binding", "uncheckable_condition",
                 "unsupported_note", "unresolved_target_ambiguity", "unsupported_private_exact_target",
                 "wrong_message_binding", "missing_mutation_authority", "missing_mutation_argument",
                 "unauthorized_reminder_argument", "unsupported_reply", "wrong_item_binding",
                 "unauthorized_task_argument", "unsupported_task_title", "unsupported_comment",
                 "unauthorized_comment_argument"}

(* What a followup proposal holds, past every refusal.                          *)
LEMMA FollowupAccepted ==
  ASSUME RefusalsHaveReasons, NEW fields, NEW spec, OfContacts!FollowupRefusal(fields, spec) = None
  PROVE  /\ OfContacts!Get(fields, "condition", None) = "after_lookup_match"
         /\ OfContacts!Get(fields, "note_constraint", None) = spec.constraint
         /\ spec.constraint = "exact" => OfContacts!Get(fields, "note", None) \in AllowedNote
         /\ DOMAIN fields = {"action", "condition", "contact", "note_constraint", "route"}
                                \cup (IF spec.constraint = "exact" THEN {"note"} ELSE {})
<1> DEFINE exact == spec.constraint = "exact"
           domain_ == {"action", "condition", "contact", "note_constraint", "route"}
                                \cup (IF exact THEN {"note"} ELSE {})
           checks == <<
        <<OfContacts!Get(fields, "condition", None) # "after_lookup_match", "uncheckable_condition">>,
        <<OfContacts!Get(fields, "note_constraint", None) # spec.constraint, "unsupported_note">>,
        <<exact /\ OfContacts!Get(fields, "note", None) \notin AllowedNote, "unsupported_note">>,
        <<~exact /\ "note" \in DOMAIN fields, "unsupported_note">>,
        <<DOMAIN fields # domain_, "unsupported_requested_action">>>>
<1>1. OfContacts!EarlyReturn(checks, None) = None
  BY Zenon DEF OfContacts!FollowupRefusal
<1> HIDE DEF domain_, exact
<1>2. Tests(checks)
  <2>1. checks = [i \in 1 .. 5 |-> checks[i]] /\ \A i \in 1 .. 5 : checks[i][2] # None
    BY DEF RefusalsHaveReasons
  <2> HIDE DEF checks
  <2>2. QED
    BY <2>1 DEF Tests
<1>3. /\ checks[1][1] = (OfContacts!Get(fields, "condition", None) # "after_lookup_match")
      /\ checks[2][1] = (OfContacts!Get(fields, "note_constraint", None) # spec.constraint)
      /\ checks[3][1] = (exact /\ OfContacts!Get(fields, "note", None) \notin AllowedNote)
      /\ checks[5][1] = (DOMAIN fields # domain_)
      /\ DOMAIN checks = 1 .. 5
  OBVIOUS
<1> HIDE DEF checks
<1>4. Passed(checks)
  BY <1>1, <1>2, PassedTests
<1>5. ~checks[1][1] /\ ~checks[2][1] /\ ~checks[3][1] /\ ~checks[5][1]
  BY <1>3, <1>4 DEF Passed
<1>6. QED
  BY <1>3, <1>5, Zenon DEF exact, domain_

(* What compiles passed every refusal, in the order the compiler makes them.  *)
LEMMA ContactsAccepted ==
  ASSUME RefusalsHaveReasons, NEW state, NEW id, NEW slot, OfContacts!SlotWithId(state, id) \in {None, slot},
         NEW proposal, OfContacts!Compile(state, id, proposal).reason = None
  PROVE  LET fields == proposal.fields
             action == OfContacts!Get(fields, "action", None)
         IN  /\ slot # None /\ OfContacts!SlotWithId(state, id) = slot
             /\ proposal.parses = "object"
             /\ OfContacts!Get(fields, "contact", None) = slot.target
             /\ action = slot.spec.action
             /\ OfContacts!Get(fields, "route", None) = slot.spec.route
             /\ action = "lookup_email" => DOMAIN fields = {"action", "contact", "route"}
             /\ action # "lookup_email" => OfContacts!FollowupRefusal(fields, slot.spec) = None
             /\ OfContacts!Compile(state, id, proposal).task =
                    [target |-> slot.target, expected |-> state.contacts[slot.target],
                     action |-> action, route |-> slot.spec.route, constraint |-> slot.spec.constraint,
                     exact |-> IF slot.spec.constraint = "exact" THEN fields.note ELSE None]
<1> DEFINE found == OfContacts!SlotWithId(state, id)
           fields == proposal.fields
           action == OfContacts!Get(fields, "action", None)
           otherwise == IF action = "lookup_email" THEN None ELSE OfContacts!FollowupRefusal(fields, found.spec)
           general == OfContacts!NotAnObject(proposal)
           own == <<
            <<action = None, "unsupported_requested_action">>,
            <<OfContacts!Get(fields, "negated", None) = "true" \/ action \in NegatedContact, "negated_action">>,
            <<OfContacts!Get(fields, "contact", None) # found.target, "wrong_contact_binding">>,
            <<action # found.spec.action, "unsupported_requested_action">>,
            <<OfContacts!Get(fields, "route", None) # found.spec.route, "uncheckable_condition">>,
            <<action = "lookup_email" /\ DOMAIN fields # {"action", "contact", "route"},
              "unsupported_requested_action">>>>
           refusal == OfContacts!EarlyReturn(general \o own, otherwise)
           task == [target |-> found.target, expected |-> state.contacts[found.target],
                    action |-> action, route |-> found.spec.route, constraint |-> found.spec.constraint,
                    exact |-> IF found.spec.constraint = "exact" THEN fields.note ELSE None]
           result == OfContacts!Compile(state, id, proposal)
<1>1. result = IF found = None THEN OfContacts!Rejection("unsupported_task_slot")
               ELSE IF refusal # None THEN OfContacts!Rejection(refusal) ELSE OfContacts!Compiled(task)
  BY Zenon DEF OfContacts!Compile
<1> HIDE DEF result, refusal, task
<1>2. result.reason = None
  BY DEF result
<1>3. found # None
  BY <1>1, <1>2 DEF OfContacts!Rejection, RefusalsHaveReasons
<1>4. refusal = None /\ result = OfContacts!Compiled(task)
  BY <1>1, <1>2, <1>3 DEF OfContacts!Rejection
<1>5. found = slot
  BY <1>3
<1> HIDE DEF found, fields, action, otherwise
<1>6. Tests(general)
  <2>1. general = [i \in 1 .. 3 |-> general[i]] /\ \A i \in 1 .. 3 : general[i][2] # None
    BY DEF OfContacts!NotAnObject, RefusalsHaveReasons
  <2> HIDE DEF general
  <2>2. QED
    BY <2>1 DEF Tests
<1>7. Tests(own)
  <2>1. own = [i \in 1 .. 6 |-> own[i]] /\ \A i \in 1 .. 6 : own[i][2] # None
    BY DEF RefusalsHaveReasons
  <2> HIDE DEF own
  <2>2. QED
    BY <2>1 DEF Tests
<1>8. /\ DOMAIN general = 1 .. 3 /\ DOMAIN own = 1 .. 6
      /\ general[3][1] = (proposal.parses # "object")
      /\ own[3][1] = (OfContacts!Get(fields, "contact", None) # found.target)
      /\ own[4][1] = (action # found.spec.action)
      /\ own[5][1] = (OfContacts!Get(fields, "route", None) # found.spec.route)
      /\ own[6][1] = (action = "lookup_email" /\ DOMAIN fields # {"action", "contact", "route"})
  BY DEF OfContacts!NotAnObject
<1> HIDE DEF general, own
<1>9. otherwise = None /\ Passed(general) /\ Passed(own)
  <2>1. Tests(general \o own) /\ (Passed(general \o own) <=> Passed(general) /\ Passed(own))
    BY <1>6, <1>7, JoinedTests, Zenon
  <2>2. OfContacts!EarlyReturn(general \o own, otherwise) = None
    BY <1>4 DEF refusal
  <2>3. QED
    BY <2>1, <2>2, PassedTests, Zenon
<1>10. ~general[3][1] /\ ~own[3][1] /\ ~own[4][1] /\ ~own[5][1] /\ ~own[6][1]
  BY <1>8, <1>9 DEF Passed
<1>11. /\ proposal.parses = "object"
       /\ OfContacts!Get(fields, "contact", None) = slot.target
       /\ action = slot.spec.action
       /\ OfContacts!Get(fields, "route", None) = slot.spec.route
       /\ action = "lookup_email" => DOMAIN fields = {"action", "contact", "route"}
  BY <1>5, <1>8, <1>10, Zenon
<1>12. action # "lookup_email" => OfContacts!FollowupRefusal(fields, slot.spec) = None
  BY <1>5, <1>9, Zenon DEF otherwise
<1>13. result.task = task
  BY <1>4 DEF OfContacts!Compiled
<1>14. task = [target |-> slot.target, expected |-> state.contacts[slot.target],
               action |-> action, route |-> slot.spec.route, constraint |-> slot.spec.constraint,
               exact |-> IF slot.spec.constraint = "exact" THEN fields.note ELSE None]
  BY <1>5, Zenon DEF task
<1>15. found = OfContacts!SlotWithId(state, id) /\ result = OfContacts!Compile(state, id, proposal)
  BY DEF found, result
<1> HIDE DEF found, result, task
<1>16. QED
  <2>1. /\ slot # None /\ OfContacts!SlotWithId(state, id) = slot
        /\ proposal.parses = "object"
        /\ OfContacts!Get(fields, "contact", None) = slot.target
    BY <1>3, <1>5, <1>11, <1>15, Zenon
  <2>2. /\ action = slot.spec.action
        /\ OfContacts!Get(fields, "route", None) = slot.spec.route
        /\ action = "lookup_email" => DOMAIN fields = {"action", "contact", "route"}
        /\ action # "lookup_email" => OfContacts!FollowupRefusal(fields, slot.spec) = None
    BY <1>11, <1>12, Zenon
  <2>3. OfContacts!Compile(state, id, proposal).task =
               [target |-> slot.target, expected |-> state.contacts[slot.target],
               action |-> action, route |-> slot.spec.route, constraint |-> slot.spec.constraint,
               exact |-> IF slot.spec.constraint = "exact" THEN fields.note ELSE None]
    BY <1>13, <1>14, <1>15, Zenon
  <2>4. QED
    BY <2>1, <2>2, <2>3, Zenon DEF fields, action

--------------------------------------------------------------------------------

(* A proposal is what a prompt asks for, but for the fields that are left open. *)
Requested(proposal, prompt, free) ==
    /\ proposal.parses = "object"
    /\ DOMAIN proposal.fields = DOMAIN prompt.fields
    /\ \A f \in DOMAIN proposal.fields \ free : proposal.fields[f] = prompt.fields[f]

(* What compiles is what was asked for, but for a note.                       *)
LEMMA ContactsRequested ==
  ASSUME NamesAreNormal, RefusalsHaveReasons, NEW state, IsFiniteSet(DOMAIN state.contacts),
         NEW slot \in ContactSlots(state), NEW proposal,
         OfContacts!Compile(state, slot.id, proposal).reason = None
  PROVE  Requested(proposal, OfContacts!Prompted(state, slot), {"note"})
<1> DEFINE fields == proposal.fields
           asked == OfContacts!Prompted(state, slot).fields
           spec == slot.spec
<1>0. OfContacts!SlotWithId(state, slot.id) \in {None, slot}
  BY ContactSlotFound
<1>1. /\ proposal.parses = "object"
      /\ OfContacts!Get(fields, "contact", None) = slot.target
      /\ OfContacts!Get(fields, "action", None) = spec.action
      /\ OfContacts!Get(fields, "route", None) = spec.route
      /\ spec.action = "lookup_email" => DOMAIN fields = {"action", "contact", "route"}
      /\ spec.action # "lookup_email" => OfContacts!FollowupRefusal(fields, spec) = None
  <2> DEFINE action == OfContacts!Get(fields, "action", None)
  <2>1. /\ proposal.parses = "object"
        /\ OfContacts!Get(fields, "contact", None) = slot.target
        /\ action = slot.spec.action
        /\ OfContacts!Get(fields, "route", None) = slot.spec.route
        /\ action = "lookup_email" => DOMAIN fields = {"action", "contact", "route"}
        /\ action # "lookup_email" => OfContacts!FollowupRefusal(fields, slot.spec) = None
        /\ OfContacts!Compile(state, slot.id, proposal).task =
               [target |-> slot.target, expected |-> state.contacts[slot.target],
                action |-> action, route |-> slot.spec.route, constraint |-> slot.spec.constraint,
                exact |-> IF slot.spec.constraint = "exact" THEN fields.note ELSE None]
    BY ContactSlotFound, ContactsAccepted
  <2> HIDE DEF action, fields
  <2>2. QED
    BY <2>1 DEF action
<1>2. spec \in ContactSpecs
  BY DEF ContactSlots, ContactSlot
<1>3. CASE spec.action = "lookup_email"
  <2>1. asked = [action |-> spec.action, contact |-> slot.target, route |-> spec.route]
    BY <1>3 DEF OfContacts!Prompted
  <2> HIDE DEF asked, fields
  <2>2. DOMAIN fields = {"action", "contact", "route"}
    BY <1>1, <1>3
  <2>3. fields["contact"] = slot.target /\ fields["action"] = spec.action /\ fields["route"] = spec.route
    BY <1>1, <2>2 DEF OfContacts!Get
  <2>4. DOMAIN asked = {"action", "contact", "route"} /\ asked["contact"] = slot.target
        /\ asked["action"] = spec.action /\ asked["route"] = spec.route
    BY <2>1
  <2>5. DOMAIN fields = DOMAIN asked /\ \A f \in DOMAIN fields : fields[f] = asked[f]
    BY <2>2, <2>3, <2>4
  <2>6. QED
    BY <1>1, <2>5 DEF Requested, asked, fields
<1>4. CASE spec.action # "lookup_email"
  <2>1. /\ OfContacts!Get(fields, "condition", None) = "after_lookup_match"
        /\ OfContacts!Get(fields, "note_constraint", None) = spec.constraint
        /\ DOMAIN fields = {"action", "condition", "contact", "note_constraint", "route"}
                                \cup (IF spec.constraint = "exact" THEN {"note"} ELSE {})
    BY <1>1, <1>4, FollowupAccepted
  <2>2. /\ DOMAIN asked = {"action", "condition", "contact", "note_constraint", "route"}
                              \cup (IF spec.constraint = "exact" THEN {"note"} ELSE {})
        /\ asked["contact"] = slot.target /\ asked["action"] = spec.action /\ asked["route"] = spec.route
        /\ asked["condition"] = "after_lookup_match" /\ asked["note_constraint"] = spec.constraint
    <3>1. CASE spec.constraint = "exact"
      BY <1>4, <3>1 DEF OfContacts!Prompted, OfContacts!Both
    <3>2. CASE spec.constraint # "exact"
      BY <1>4, <3>2 DEF OfContacts!Prompted, OfContacts!Both
    <3>3. QED
      BY <3>1, <3>2
  <2> HIDE DEF asked, fields
  <2>3. /\ fields["contact"] = slot.target /\ fields["action"] = spec.action /\ fields["route"] = spec.route
        /\ fields["condition"] = "after_lookup_match" /\ fields["note_constraint"] = spec.constraint
    BY <1>1, <2>1 DEF OfContacts!Get
  <2>4. DOMAIN fields = DOMAIN asked /\ \A f \in DOMAIN fields \ {"note"} : fields[f] = asked[f]
    BY <2>1, <2>2, <2>3
  <2>5. QED
    BY <1>1, <2>4 DEF Requested, asked, fields
<1>5. QED
  BY <1>3, <1>4

(* What a task of Contacts looks like.                                          *)
ContactTask(task) ==
    task = [target |-> task.target, expected |-> task.expected, action |-> task.action,
            route |-> task.route, constraint |-> task.constraint, exact |-> task.exact]

(* A task that was compiled is restored, and no other under its key.          *)
LEMMA ContactsRestored ==
  ASSUME NamesAreNormal, RefusalsHaveReasons, NEW state, IsFiniteSet(DOMAIN state.contacts),
         NEW slot \in ContactSlots(state), NEW proposal,
         OfContacts!Compile(state, slot.id, proposal).reason = None
  PROVE  LET task == OfContacts!Compile(state, slot.id, proposal).task
         IN  /\ OfContacts!Restore(task, OfContacts!SemanticKey(task)) = task
             /\ \A other : ContactTask(other) /\ other # task =>
                    OfContacts!Restore(other, OfContacts!SemanticKey(task)) = None
             /\ ContactTask(task)
<1> DEFINE spec == slot.spec
           fields == proposal.fields
           exact == IF spec.constraint = "exact" THEN fields.note ELSE None
           action == OfContacts!Get(fields, "action", None)
           task == OfContacts!Compile(state, slot.id, proposal).task
           Refused(t) ==
               \/ t.action = "lookup_email" /\ (t.constraint # "none" \/ t.exact # None)
               \/ t.action = "record_followup" /\ t.constraint = "none"
               \/ t.constraint = "exact" /\ t.exact \notin AllowedNote
               \/ t.constraint # "exact" /\ t.exact # None
               \/ ~\E i \in DOMAIN OfContacts!TaskSpecs :
                     /\ OfContacts!TaskSpecs[i].action = t.action /\ OfContacts!TaskSpecs[i].route = t.route
                     /\ OfContacts!TaskSpecs[i].constraint = t.constraint
<1>1. /\ action = spec.action
      /\ spec.action # "lookup_email" => OfContacts!FollowupRefusal(fields, spec) = None
      /\ task = [target |-> slot.target, expected |-> state.contacts[slot.target], action |-> action,
                 route |-> spec.route, constraint |-> spec.constraint, exact |-> exact]
  BY ContactSlotFound, ContactsAccepted
<1>2. spec \in ContactSpecs
  BY DEF ContactSlots, ContactSlot
<1> HIDE DEF spec, fields, action, task
<1>3. spec.constraint = "exact" => exact \in AllowedNote
  <2> SUFFICES ASSUME spec.constraint = "exact" PROVE fields.note \in AllowedNote
    OBVIOUS
  <2>1. spec.action # "lookup_email"
    BY <1>2, ContactSpecsAre
  <2>2. OfContacts!Get(fields, "note", None) \in AllowedNote /\ "note" \in DOMAIN fields
    BY <1>1, <2>1, FollowupAccepted
  <2>3. QED
    BY <2>2 DEF OfContacts!Get
<1> HIDE DEF exact
<1>4. /\ task.action = spec.action /\ task.route = spec.route /\ task.constraint = spec.constraint
      /\ task.exact = exact /\ ContactTask(task)
  BY <1>1 DEF ContactTask
<1>5. spec.constraint # "exact" => exact = None
  BY DEF exact
<1>6. \E i \in DOMAIN OfContacts!TaskSpecs : OfContacts!TaskSpecs[i] = spec
  <2>1. DOMAIN OfContacts!TaskSpecs = 1 .. 8
    BY DEF OfContacts!TaskSpecs
  <2>2. QED
    BY <1>2, <2>1, ContactSpecsAre
<1>7. ~Refused(task)
  <2> HIDE DEF task
  <2>1. \E i \in DOMAIN OfContacts!TaskSpecs :
                     /\ OfContacts!TaskSpecs[i].action = task.action /\ OfContacts!TaskSpecs[i].route = task.route
                     /\ OfContacts!TaskSpecs[i].constraint = task.constraint
    BY <1>4, <1>6
  <2>2. spec.action = "lookup_email" => spec.constraint = "none"
    BY <1>2, ContactSpecsAre
  <2>3. spec.action = "record_followup" => spec.constraint # "none"
    BY <1>2, ContactSpecsAre
  <2>4. QED
    BY <1>3, <1>4, <1>5, <2>1, <2>2, <2>3
<1>8. \A t, key : OfContacts!Restore(t, key) = IF Refused(t) \/ key # OfContacts!SemanticKey(t) THEN None ELSE t
  BY Zenon DEF OfContacts!Restore
<1>9. OfContacts!Restore(task, OfContacts!SemanticKey(task)) = task
  <2> HIDE DEF Refused
  <2>1. QED
    BY <1>7, <1>8, Zenon
<1>10. ASSUME NEW other, ContactTask(other), other # task
       PROVE  OfContacts!Restore(other, OfContacts!SemanticKey(task)) = None
  <2> SUFFICES ASSUME ~Refused(other), OfContacts!SemanticKey(task) = OfContacts!SemanticKey(other) PROVE FALSE
    <3> HIDE DEF Refused
    <3>1. QED
      BY <1>8, Zenon
  <2> DEFINE mine == IF task.constraint = "exact" THEN task.exact ELSE None
             its == IF other.constraint = "exact" THEN other.exact ELSE None
  <2>1. /\ task.action = other.action /\ mine = its /\ task.expected = other.expected
        /\ task.constraint = other.constraint /\ task.route = other.route /\ task.target = other.target
    <3> HIDE DEF mine, its
    <3>1. <<task.action, mine, task.expected, task.constraint, task.route, task.target>>
            = <<other.action, its, other.expected, other.constraint, other.route, other.target>>
      BY Zenon DEF OfContacts!SemanticKey, mine, its
    <3>2. QED
      BY <3>1
  <2>2. task.exact = mine
    BY <1>4, <1>5
  <2>3. other.exact = its
    OBVIOUS
  <2>4. task.exact = other.exact
    BY <2>1, <2>2, <2>3
  <2>5. task = [target |-> task.target, expected |-> task.expected, action |-> task.action,
            route |-> task.route, constraint |-> task.constraint, exact |-> task.exact]
    BY <1>4 DEF ContactTask
  <2>6. other = [target |-> other.target, expected |-> other.expected, action |-> other.action,
            route |-> other.route, constraint |-> other.constraint, exact |-> other.exact]
    BY <1>10 DEF ContactTask
  <2>7. QED
    BY <1>10, <2>1, <2>4, <2>5, <2>6, Zenon
<1>11. QED
  BY <1>4, <1>9, <1>10, Zenon DEF task

--------------------------------------------------------------------------------
(* Mobile Messages: a snapshot is a source that says what the state is. *)

Listed(records) == \E n \in Nat : records = [i \in 1 .. n |-> records[i]]
MobileSource(s) == Listed(s.messages) /\ Listed(s.reminders) /\ Listed(s.drafts)

Distinct(records) ==
    \A i, j \in DOMAIN records : records[i].message_id = records[j].message_id => i = j
MessageIds(records) == {records[i].message_id : i \in DOMAIN records}

(* A table of records has them under their ids.                               *)
LEMMA TableIs ==
  ASSUME NEW records, Listed(records)
  PROVE  LET table == OfMobile!Table(records)
         IN  /\ table = [id \in DOMAIN table |-> table[id]]
             /\ DOMAIN table = MessageIds(records) /\ IsFiniteSet(DOMAIN table)
             /\ \A id \in DOMAIN table :
                    table[id].message_id = id /\ \E i \in DOMAIN records : table[id] = records[i]
<1> DEFINE ids == MessageIds(records)
           Nth(id) == CHOOSE i \in DOMAIN records : records[i].message_id = id
           table == OfMobile!Table(records)
<1>1. table = [id \in ids |-> records[Nth(id)]]
  BY Zenon DEF OfMobile!Table, MessageIds
<1>2. \A id \in ids : Nth(id) \in DOMAIN records /\ records[Nth(id)].message_id = id
  BY DEF MessageIds
<1> HIDE DEF table, Nth
<1>3. DOMAIN table = ids /\ \A id \in ids : table[id] = records[Nth(id)]
  BY <1>1
<1>4. IsFiniteSet(ids)
  <2>1. PICK n \in Nat : records = [i \in 1 .. n |-> records[i]]
    BY DEF Listed
  <2>2. IsFiniteSet(1 .. n) /\ DOMAIN records = 1 .. n
    BY <2>1, FS_Interval
  <2> DEFINE f == [i \in 1 .. n |-> records[i].message_id]
  <2>3. f \in Surjection(1 .. n, ids)
    BY <2>2 DEF Surjection, MessageIds
  <2>4. QED
    BY <2>2, <2>3, FS_Surjection
<1>5. QED
  BY <1>1, <1>2, <1>3, <1>4, Zenon DEF table

(* The rows of a table, one for each id.                                      *)
LEMMA RowsAre ==
  ASSUME NEW table, IsFiniteSet(DOMAIN table)
  PROVE  LET rows == OfMobile!Rows(table)
             k == Cardinality(DOMAIN table)
         IN  /\ k \in Nat /\ rows = [i \in 1 .. k |-> rows[i]]
             /\ \A i \in 1 .. k : SetToSeq(DOMAIN table)[i] \in DOMAIN table
                                  /\ rows[i] = table[SetToSeq(DOMAIN table)[i]]
<1> DEFINE e == SetToSeq(DOMAIN table)
           k == Cardinality(DOMAIN table)
           rows == OfMobile!Rows(table)
<1>1. e \in [1 .. k -> DOMAIN table] /\ k \in Nat
  BY Enumerated
<1>2. rows = [i \in DOMAIN e |-> table[e[i]]]
  BY SameCommon, Zenon DEF OfMobile!Rows
<1> HIDE DEF e, k, rows
<1>3. rows = [i \in 1 .. k |-> table[e[i]]]
  BY <1>1, <1>2
<1>4. \A i \in 1 .. k : e[i] \in DOMAIN table /\ rows[i] = table[e[i]]
  BY <1>1, <1>3
<1>5. rows = [i \in 1 .. k |-> rows[i]]
  BY <1>3
<1>6. QED
  BY <1>1, <1>4, <1>5 DEF e, k, rows

(* A table written as rows and read again is the same table.                  *)
LEMMA RowsReadBack ==
  ASSUME NEW records, Listed(records), Distinct(records)
  PROVE  LET table == OfMobile!Table(records)
             rows == OfMobile!Rows(table)
         IN  /\ Listed(rows) /\ Distinct(rows) /\ MessageIds(rows) = MessageIds(records)
             /\ OfMobile!Table(rows) = table
             /\ \A i \in DOMAIN rows : \E j \in DOMAIN records : rows[i] = records[j]
<1> DEFINE table == OfMobile!Table(records)
           rows == OfMobile!Rows(table)
           k == Cardinality(DOMAIN table)
           e == SetToSeq(DOMAIN table)
<1>1. /\ table = [id \in DOMAIN table |-> table[id]]
      /\ DOMAIN table = MessageIds(records) /\ IsFiniteSet(DOMAIN table)
      /\ \A id \in DOMAIN table :
             table[id].message_id = id /\ \E i \in DOMAIN records : table[id] = records[i]
  BY TableIs, Zenon
<1> HIDE DEF table
<1>2. /\ k \in Nat /\ rows = [i \in 1 .. k |-> rows[i]]
      /\ \A i \in 1 .. k : e[i] \in DOMAIN table /\ rows[i] = table[e[i]]
  BY <1>1, RowsAre
<1>3. /\ \A i, j \in 1 .. k : e[i] = e[j] => i = j
      /\ \A x \in DOMAIN table : \E i \in 1 .. k : e[i] = x
  BY <1>1, Enumerated
<1> HIDE DEF rows, e, k
<1>4. DOMAIN rows = 1 .. k /\ Listed(rows)
  BY <1>2 DEF Listed
<1>5. \A i \in 1 .. k : rows[i].message_id = e[i]
  BY <1>1, <1>2
<1>6. Distinct(rows)
  BY <1>3, <1>4, <1>5 DEF Distinct
<1>7. MessageIds(rows) = DOMAIN table
  <2>1. \A id \in MessageIds(rows) : id \in DOMAIN table
    BY <1>2, <1>4, <1>5 DEF MessageIds
  <2>2. \A id \in DOMAIN table : id \in MessageIds(rows)
    BY <1>3, <1>4, <1>5 DEF MessageIds
  <2>3. QED
    BY <2>1, <2>2
<1> DEFINE again == OfMobile!Table(rows)
<1>8. /\ again = [id \in DOMAIN again |-> again[id]] /\ DOMAIN again = DOMAIN table
      /\ \A id \in DOMAIN again : again[id].message_id = id /\ \E i \in DOMAIN rows : again[id] = rows[i]
  BY <1>4, <1>7, TableIs, Zenon
<1> HIDE DEF again
<1>9. \A id \in DOMAIN table : again[id] = table[id]
  <2> SUFFICES ASSUME NEW id \in DOMAIN table PROVE again[id] = table[id]
    OBVIOUS
  <2>1. PICK i \in 1 .. k : again[id] = rows[i]
    BY <1>4, <1>8
  <2>2. e[i] = id
    BY <1>5, <1>8, <2>1
  <2>3. QED
    BY <1>2, <2>1, <2>2
<1>10. again = table
  BY <1>1, <1>8, <1>9
<1>11. \A i \in DOMAIN rows : \E j \in DOMAIN records : rows[i] = records[j]
  BY <1>1, <1>2, <1>4
<1>12. QED
  BY <1>1, <1>4, <1>6, <1>7, <1>10, <1>11 DEF table, rows, again

(* What makes a record fit into each table, and a source readable.              *)
MessageFits(m) == {m.message_id, m.sender, m.body} \cap (BlankMessage \cup LongMessage) = {}
ReminderFits(r) == {r.reminder_text, r.remind_at} \cap BlankMessage = {}
MobileReads(s) ==
    LET known == MessageIds(s.messages)
    IN  /\ s.messages # <<>>
        /\ \A i \in DOMAIN s.messages : MessageFits(s.messages[i])
        /\ \A i \in DOMAIN s.reminders : s.reminders[i].message_id \in known /\ ReminderFits(s.reminders[i])
        /\ \A i \in DOMAIN s.drafts : s.drafts[i].message_id \in known /\ ReplyAllowed(s.drafts[i].content)
        /\ Distinct(s.messages) /\ Distinct(s.reminders) /\ Distinct(s.drafts)
MobileRead(s) ==
    [messages |-> OfMobile!Table(s.messages), reminders |-> OfMobile!Table(s.reminders),
     drafts |-> OfMobile!Table(s.drafts)]

(* What the parser makes of a source.                                         *)
LEMMA MobileParse ==
  ASSUME NEW s
  PROVE  OfMobile!Parse(s) = IF MobileReads(s) THEN MobileRead(s) ELSE None
<1>1. CASE MobileReads(s)
  <2>1. OfMobile!Parse(s) = MobileRead(s)
    BY <1>1, Zenon DEF OfMobile!Parse, OfMobile!IsTable, MobileReads, MobileRead, MessageIds, MessageFits,
                       ReminderFits, Distinct
  <2>2. QED
    BY <1>1, <2>1
<1>2. CASE ~MobileReads(s)
  <2>1. OfMobile!Parse(s) = None
    BY <1>2, Zenon DEF OfMobile!Parse, OfMobile!IsTable, MobileReads, MessageIds, MessageFits,
                       ReminderFits, Distinct
  <2>2. QED
    BY <1>2, <2>1
<1>3. QED
  BY <1>1, <1>2

(* A snapshot is opened as the state it was made of.                          *)
LEMMA MobileReopen ==
  ASSUME NEW s, MobileSource(s), OfMobile!Parse(s) # None
  PROVE  OfMobile!Reopen(OfMobile!Freeze(OfMobile!Parse(s))) = OfMobile!Parse(s)
<1> DEFINE state == MobileRead(s)
           M == OfMobile!Rows(OfMobile!Table(s.messages))
           R == OfMobile!Rows(OfMobile!Table(s.reminders))
           D == OfMobile!Rows(OfMobile!Table(s.drafts))
           back == [messages |-> M, reminders |-> R, drafts |-> D]
<1>1. OfMobile!Parse(s) = state /\ MobileReads(s)
  BY MobileParse
<1>2. OfMobile!Freeze(OfMobile!Parse(s)) = back
  BY <1>1 DEF OfMobile!Freeze, MobileRead
<1>3. Listed(s.messages) /\ Distinct(s.messages) /\ Listed(s.reminders) /\ Distinct(s.reminders)
      /\ Listed(s.drafts) /\ Distinct(s.drafts)
  BY <1>1 DEF MobileSource, MobileReads
<1>4. /\ Distinct(M) /\ MessageIds(M) = MessageIds(s.messages) /\ OfMobile!Table(M) = OfMobile!Table(s.messages)
      /\ \A i \in DOMAIN M : \E j \in DOMAIN s.messages : M[i] = s.messages[j]
  BY <1>3, RowsReadBack, Zenon
<1>5. /\ Distinct(R) /\ MessageIds(R) = MessageIds(s.reminders) /\ OfMobile!Table(R) = OfMobile!Table(s.reminders)
      /\ \A i \in DOMAIN R : \E j \in DOMAIN s.reminders : R[i] = s.reminders[j]
  BY <1>3, RowsReadBack, Zenon
<1>6. /\ Distinct(D) /\ MessageIds(D) = MessageIds(s.drafts) /\ OfMobile!Table(D) = OfMobile!Table(s.drafts)
      /\ \A i \in DOMAIN D : \E j \in DOMAIN s.drafts : D[i] = s.drafts[j]
  BY <1>3, RowsReadBack, Zenon
<1>7. M # <<>>
  <2>1. DOMAIN s.messages # {}
    <3>1. PICK n \in Nat : s.messages = [i \in 1 .. n |-> s.messages[i]]
      BY <1>3 DEF Listed
    <3>2. s.messages # <<>>
      BY <1>1 DEF MobileReads
    <3>3. CASE n = 0
      <4>1. s.messages = [i \in {} |-> s.messages[i]]
        <5>1. 1 .. n = {}
          BY <3>3
        <5>2. QED
          BY <3>1, <5>1, Zenon
      <4>2. [i \in {} |-> s.messages[i]] = <<>>
        OBVIOUS
      <4>3. QED
        BY <3>2, <4>1, <4>2, Zenon
    <3>4. QED
      BY <3>1, <3>3
  <2> HIDE DEF M
  <2>2. DOMAIN M # {}
    BY <1>4, <2>1 DEF MessageIds
  <2>3. QED
    BY <2>2
<1> HIDE DEF M, R, D
<1>8. MobileReads(back) /\ MobileRead(back) = state
  <2>1. back.messages = M /\ back.reminders = R /\ back.drafts = D
    OBVIOUS
  <2> HIDE DEF back
  <2>2. MobileRead(back) = state
    BY <1>4, <1>5, <1>6, <2>1 DEF MobileRead
  <2>3. \A i \in DOMAIN M : MessageFits(M[i])
    BY <1>1, <1>4 DEF MobileReads
  <2>4. \A i \in DOMAIN R : R[i].message_id \in MessageIds(M) /\ ReminderFits(R[i])
    BY <1>1, <1>4, <1>5 DEF MobileReads
  <2>5. \A i \in DOMAIN D : D[i].message_id \in MessageIds(M) /\ ReplyAllowed(D[i].content)
    BY <1>1, <1>4, <1>6, Zenon DEF MobileReads
  <2>6. MobileReads(back)
    BY <1>4, <1>5, <1>6, <1>7, <2>1, <2>3, <2>4, <2>5, Zenon DEF MobileReads
  <2>7. QED
    BY <2>2, <2>6
<1>9. QED
  BY <1>1, <1>2, <1>8, MobileParse DEF OfMobile!Reopen

--------------------------------------------------------------------------------
(* Mobile Messages: an id stands for one slot. *)

MobileSpecs == {OfMobile!TaskSpecs[i] : i \in 1 .. 12}
MobileMessagesOf(state) == {state.messages[id] : id \in DOMAIN state.messages}
MobileSlot(spec, message) == [id |-> <<spec.kind, message>>, spec |-> spec, target |-> message]
MobileSlots(state) == {MobileSlot(spec, message) : spec \in MobileSpecs, message \in MobileMessagesOf(state)}
EveryMobileSlot(state) == OfMobile!SlotsFrom(OfMobile!Rows(state.messages), LAMBDA m : OfMobile!TaskSpecs)

(* The twelve kinds of task.                                                  *)
LEMMA MobileSpecsAre ==
  /\ DOMAIN OfMobile!TaskSpecs = 1 .. 12
  /\ \A spec \in MobileSpecs :
      /\ spec.action \in {"search_messages", "create_reminder", "create_draft_reply"}
      /\ spec.action # "create_draft_reply" => spec.constraint = "none"
      /\ spec.action = "create_draft_reply" => spec.constraint \in {"open", "exact"}
      /\ \A other \in MobileSpecs : other.kind = spec.kind => other = spec
      /\ \E i \in 1 .. 12 : OfMobile!TaskSpecs[i] = spec
  BY DEF MobileSpecs, OfMobile!TaskSpecs, OfMobile!TaskSpec

(* The kinds a message is given are among them.                               *)
LEMMA MobileSpecsFor ==
  ASSUME NEW state, NEW message
  PROVE  OfMobile!SpecsFor(state, message) \in Seq(MobileSpecs) /\ OfMobile!TaskSpecs \in Seq(MobileSpecs)
<1> DEFINE Passes(spec) ==
             /\ OfMobile!QueryIsUnique(state, message)
             /\ ~(spec.action = "create_reminder" /\ message.message_id \in DOMAIN state.reminders)
             /\ ~(spec.action = "create_draft_reply" /\ message.message_id \in DOMAIN state.drafts)
             /\ ~(spec.constraint = "exact" /\ ~ReplyAllowed(OfMobile!ExactReply(message)))
           specs == OfMobile!TaskSpecs
           parts == [i \in DOMAIN specs |-> IF Passes(specs[i]) THEN <<specs[i]>> ELSE <<>>]
<1>1. DOMAIN specs = 1 .. 12
  BY DEF OfMobile!TaskSpecs
<1>2. OfMobile!SpecsFor(state, message) = FlattenSeq(parts)
  BY SameCommon, Zenon DEF OfMobile!SpecsFor, OfMobile!Those
<1>3. specs = [i \in 1 .. 12 |-> specs[i]]
  BY DEF OfMobile!TaskSpecs
<1> HIDE DEF specs, Passes
<1>4. \A i \in 1 .. 12 : specs[i] \in MobileSpecs
  BY DEF MobileSpecs, specs
<1>5. parts \in Seq(Seq(MobileSpecs))
  BY <1>1, <1>4
<1>6. specs \in Seq(MobileSpecs)
  BY <1>3, <1>4
<1>7. QED
  BY <1>2, <1>5, <1>6, FlattenType DEF specs

(* A list of slots, one for each kind a message is given.                     *)
LEMMA MobileSlotLists ==
  ASSUME NEW state, NEW k \in Nat, NEW rows, NEW F,
         \A i \in 1 .. k : rows[i] \in MobileMessagesOf(state) /\ F[i] \in Seq(MobileSpecs)
  PROVE  FlattenSeq([i \in 1 .. k |-> [j \in DOMAIN F[i] |-> OfMobile!SlotOf(F[i][j], rows[i])]])
             \in Seq(MobileSlots(state))
<1> DEFINE part == [i \in 1 .. k |-> [j \in DOMAIN F[i] |-> OfMobile!SlotOf(F[i][j], rows[i])]]
<1>1. \A i \in 1 .. k : part[i] \in Seq(MobileSlots(state))
  <2> SUFFICES ASSUME NEW i \in 1 .. k PROVE part[i] \in Seq(MobileSlots(state))
    OBVIOUS
  <2> DEFINE specs == F[i]
             Made(j) == OfMobile!SlotOf(specs[j], rows[i])
  <2>1. specs \in Seq(MobileSpecs) /\ rows[i] \in MobileMessagesOf(state)
    OBVIOUS
  <2>2. part[i] = [j \in DOMAIN specs |-> Made(j)]
    OBVIOUS
  <2>3. \A j : Made(j) = MobileSlot(specs[j], rows[i])
    BY Zenon DEF OfMobile!SlotOf, OfMobile!SlotId, MobileSlot
  <2> HIDE DEF specs, part, Made
  <2>4. \A j \in DOMAIN specs : Made(j) \in MobileSlots(state)
    BY <2>1, <2>3 DEF MobileSlots
  <2>5. DOMAIN specs = 1 .. Len(specs) /\ Len(specs) \in Nat
    BY <2>1
  <2>6. QED
    BY <2>2, <2>4, <2>5
<1>2. part \in Seq(Seq(MobileSlots(state)))
  <2>1. DOMAIN part = 1 .. k
    OBVIOUS
  <2>2. part = [i \in 1 .. k |-> part[i]]
    OBVIOUS
  <2> HIDE DEF part
  <2>3. QED
    BY <1>1, <2>1, <2>2
<1> HIDE DEF part
<1>3. FlattenSeq(part) \in Seq(MobileSlots(state))
  BY <1>2, FlattenType
<1>4. QED
  BY <1>3 DEF part

(* Every slot is of a kind and a message.                                     *)
LEMMA MobileSlotsAre ==
  ASSUME NEW state, IsFiniteSet(DOMAIN state.messages)
  PROVE  OfMobile!Slots(state) \in Seq(MobileSlots(state)) /\ EveryMobileSlot(state) \in Seq(MobileSlots(state))
<1> DEFINE k == Cardinality(DOMAIN state.messages)
           rows == OfMobile!Rows(state.messages)
           F == [i \in 1 .. k |-> OfMobile!SpecsFor(state, rows[i])]
           G == [i \in 1 .. k |-> OfMobile!TaskSpecs]
           e == SetToSeq(DOMAIN state.messages)
<1>1. /\ k \in Nat /\ rows = [i \in 1 .. k |-> rows[i]]
      /\ \A i \in 1 .. k : e[i] \in DOMAIN state.messages /\ rows[i] = state.messages[e[i]]
  BY RowsAre
<1> HIDE DEF rows, k, e
<1>2. DOMAIN rows = 1 .. k
  BY <1>1
<1>3. \A i \in 1 .. k : rows[i] \in MobileMessagesOf(state)
  BY <1>1 DEF MobileMessagesOf
<1>4. \A i \in 1 .. k : F[i] = OfMobile!SpecsFor(state, rows[i]) /\ F[i] \in Seq(MobileSpecs)
  BY MobileSpecsFor
<1>5. \A i \in 1 .. k : G[i] = OfMobile!TaskSpecs /\ G[i] \in Seq(MobileSpecs)
  BY MobileSpecsFor
<1>6. OfMobile!Slots(state)
        = FlattenSeq([i \in 1 .. k |-> [j \in DOMAIN F[i] |-> OfMobile!SlotOf(F[i][j], rows[i])]])
  <2>1. OfMobile!Slots(state)
          = FlattenSeq([i \in DOMAIN rows |-> [j \in DOMAIN OfMobile!SpecsFor(state, rows[i]) |->
                           OfMobile!SlotOf(OfMobile!SpecsFor(state, rows[i])[j], rows[i])]])
    BY SameCommon, Zenon DEF OfMobile!Slots, OfMobile!SlotsFrom, rows
  <2> HIDE DEF F
  <2>2. [i \in DOMAIN rows |-> [j \in DOMAIN OfMobile!SpecsFor(state, rows[i]) |->
                           OfMobile!SlotOf(OfMobile!SpecsFor(state, rows[i])[j], rows[i])]]
        = [i \in 1 .. k |-> [j \in DOMAIN F[i] |-> OfMobile!SlotOf(F[i][j], rows[i])]]
    BY <1>2, <1>4
  <2>3. QED
    BY <2>1, <2>2, Zenon
<1>7. EveryMobileSlot(state)
        = FlattenSeq([i \in 1 .. k |-> [j \in DOMAIN G[i] |-> OfMobile!SlotOf(G[i][j], rows[i])]])
  <2>1. EveryMobileSlot(state)
          = FlattenSeq([i \in DOMAIN rows |-> [j \in DOMAIN OfMobile!TaskSpecs |->
                           OfMobile!SlotOf(OfMobile!TaskSpecs[j], rows[i])]])
    BY SameCommon, Zenon DEF EveryMobileSlot, OfMobile!SlotsFrom, rows
  <2> HIDE DEF G
  <2>2. [i \in DOMAIN rows |-> [j \in DOMAIN OfMobile!TaskSpecs |->
                           OfMobile!SlotOf(OfMobile!TaskSpecs[j], rows[i])]]
        = [i \in 1 .. k |-> [j \in DOMAIN G[i] |-> OfMobile!SlotOf(G[i][j], rows[i])]]
    BY <1>2, <1>5
  <2>3. QED
    BY <2>1, <2>2, Zenon
<1> HIDE DEF F, G
<1>8. FlattenSeq([i \in 1 .. k |-> [j \in DOMAIN F[i] |-> OfMobile!SlotOf(F[i][j], rows[i])]])
        \in Seq(MobileSlots(state))
  <2>1. \A i \in 1 .. k : rows[i] \in MobileMessagesOf(state) /\ F[i] \in Seq(MobileSpecs)
    BY <1>3, <1>4
  <2>2. k \in Nat
    BY <1>1
  <2>3. QED
    BY <2>1, <2>2, MobileSlotLists
<1>9. FlattenSeq([i \in 1 .. k |-> [j \in DOMAIN G[i] |-> OfMobile!SlotOf(G[i][j], rows[i])]])
        \in Seq(MobileSlots(state))
  <2>1. \A i \in 1 .. k : rows[i] \in MobileMessagesOf(state) /\ G[i] \in Seq(MobileSpecs)
    BY <1>3, <1>5
  <2>2. k \in Nat
    BY <1>1
  <2>3. QED
    BY <2>1, <2>2, MobileSlotLists
<1>10. QED
  BY <1>6, <1>7, <1>8, <1>9

(* The slot found under the id of a slot is that slot.                        *)
LEMMA MobileSlotFound ==
  ASSUME NEW state, IsFiniteSet(DOMAIN state.messages), NEW slot \in MobileSlots(state)
  PROVE  OfMobile!SlotWithId(state, slot.id) \in {None, slot}
<1> DEFINE all == EveryMobileSlot(state)
           same == {i \in DOMAIN all : all[i].id = slot.id}
<1>1. OfMobile!SlotWithId(state, slot.id) = IF same = {} THEN None ELSE all[OfMobile!First(same)]
  BY Zenon DEF OfMobile!SlotWithId, EveryMobileSlot
<1>2. all \in Seq(MobileSlots(state))
  BY MobileSlotsAre
<1> HIDE DEF all
<1>3. ASSUME same # {} PROVE all[OfMobile!First(same)] = slot
  <2>1. same \in SUBSET Nat
    BY <1>2
  <2> HIDE DEF same
  <2>2. \E i \in same : \A j \in same : i <= j
    BY <1>3, <2>1, LeastExists
  <2>3. OfMobile!First(same) \in same
    BY <2>2 DEF OfMobile!First
  <2> DEFINE found == all[OfMobile!First(same)]
  <2>4. found.id = slot.id /\ found \in MobileSlots(state)
    BY <1>2, <2>3 DEF same
  <2> HIDE DEF found
  <2>5. PICK p \in MobileSpecs, x \in MobileMessagesOf(state) : found = MobileSlot(p, x)
    BY <2>4 DEF MobileSlots
  <2>6. PICK q \in MobileSpecs, y \in MobileMessagesOf(state) : slot = MobileSlot(q, y)
    BY DEF MobileSlots
  <2>7. p.kind = q.kind /\ x = y
    <3>1. <<p.kind, x>> = <<q.kind, y>>
      BY <2>4, <2>5, <2>6 DEF MobileSlot
    <3>2. \A u, v, w, z : <<u, v>> = <<w, z>> => u = w /\ v = z
      OBVIOUS
    <3>3. QED
      BY <3>1, <3>2, Zenon
  <2>8. p = q
    BY <2>7, MobileSpecsAre
  <2>9. QED
    BY <2>5, <2>6, <2>7, <2>8 DEF found
<1>4. QED
  BY <1>1, <1>3

--------------------------------------------------------------------------------
(* Mobile Messages: what compiles is what was asked for. *)

(* Past the refusals of a mutation without its condition, it has the condition. *)
LEMMA ConditionTests ==
  ASSUME RefusalsHaveReasons, NEW fields
  PROVE  /\ Tests(OfMobile!ConditionRefusals(fields))
         /\ Passed(OfMobile!ConditionRefusals(fields)) =>
                OfMobile!Get(fields, "condition", None) = "after_message_match"
<1> DEFINE checks == OfMobile!ConditionRefusals(fields)
<1>1. checks = [i \in 1 .. 2 |-> checks[i]] /\ \A i \in 1 .. 2 : checks[i][2] # None
  BY DEF RefusalsHaveReasons, OfMobile!ConditionRefusals
<1>2. DOMAIN checks = 1 .. 2 /\ checks[2][1] = (OfMobile!Get(fields, "condition", None) # "after_message_match")
  BY DEF OfMobile!ConditionRefusals
<1> HIDE DEF checks
<1>3. Tests(checks)
  BY <1>1 DEF Tests
<1>4. Passed(checks) => OfMobile!Get(fields, "condition", None) = "after_message_match"
  <2>1. 2 \in 1 .. 2
    OBVIOUS
  <2>2. 2 \in DOMAIN checks
    BY <1>2, <2>1
  <2>3. QED
    BY <1>2, <2>2, Zenon DEF Passed
<1>5. QED
  BY <1>3, <1>4, Zenon DEF checks

(* What a reminder proposal holds, past every refusal.                        *)
LEMMA ReminderAccepted ==
  ASSUME RefusalsHaveReasons, NEW fields, NEW message
  PROVE  /\ Tests(OfMobile!ReminderRefusals(fields, message))
         /\ Passed(OfMobile!ReminderRefusals(fields, message)) =>
                /\ OfMobile!Get(fields, "condition", None) = "after_message_match"
                /\ OfMobile!Get(fields, "reminder_text", None) = OfMobile!ReminderText(message)
                /\ OfMobile!Get(fields, "remind_at", None) = OfMobile!RemindAt(message)
                /\ DOMAIN fields = {"action", "condition", "message_query", "remind_at", "reminder_text", "route"}
<1> DEFINE general == OfMobile!ConditionRefusals(fields)
           own == <<
    <<{"reminder_text", "remind_at"} \ DOMAIN fields # {}, "missing_mutation_argument">>,
    <<\/ OfMobile!Get(fields, "reminder_text", None) # OfMobile!ReminderText(message)
      \/ OfMobile!Get(fields, "remind_at", None) # OfMobile!RemindAt(message), "unauthorized_reminder_argument">>,
    <<DOMAIN fields # {"action", "condition", "message_query", "remind_at", "reminder_text", "route"},
      "unsupported_requested_action">>>>
<1>1. OfMobile!ReminderRefusals(fields, message) = general \o own
  BY Zenon DEF OfMobile!ReminderRefusals
<1>2. own = [i \in 1 .. 3 |-> own[i]] /\ \A i \in 1 .. 3 : own[i][2] # None
  BY DEF RefusalsHaveReasons
<1>3. /\ DOMAIN own = 1 .. 3
      /\ own[2][1] = (\/ OfMobile!Get(fields, "reminder_text", None) # OfMobile!ReminderText(message)
                      \/ OfMobile!Get(fields, "remind_at", None) # OfMobile!RemindAt(message))
      /\ own[3][1] = (DOMAIN fields # {"action", "condition", "message_query", "remind_at", "reminder_text", "route"})
  OBVIOUS
<1> HIDE DEF general, own
<1>4. Tests(own)
  BY <1>2 DEF Tests
<1>5. Tests(general) /\ (Passed(general) => OfMobile!Get(fields, "condition", None) = "after_message_match")
  BY ConditionTests DEF general
<1>6. Tests(general \o own) /\ (Passed(general \o own) <=> Passed(general) /\ Passed(own))
  BY <1>4, <1>5, JoinedTests, Zenon
<1>7. Passed(own) => ~own[2][1] /\ ~own[3][1]
  <2>1. 2 \in DOMAIN own /\ 3 \in DOMAIN own
    BY <1>3
  <2>2. QED
    BY <2>1, Zenon DEF Passed
<1>8. /\ ~own[2][1] => OfMobile!Get(fields, "reminder_text", None) = OfMobile!ReminderText(message)
                      /\ OfMobile!Get(fields, "remind_at", None) = OfMobile!RemindAt(message)
      /\ ~own[3][1] =>
             DOMAIN fields = {"action", "condition", "message_query", "remind_at", "reminder_text", "route"}
  BY <1>3, Zenon
<1>9. QED
  BY <1>1, <1>5, <1>6, <1>7, <1>8, Zenon

(* What a draft proposal holds, past every refusal.                           *)
LEMMA DraftAccepted ==
  ASSUME RefusalsHaveReasons, NEW fields, NEW spec
  PROVE  /\ Tests(OfMobile!DraftRefusals(fields, spec))
         /\ Passed(OfMobile!DraftRefusals(fields, spec)) =>
                /\ OfMobile!Get(fields, "condition", None) = "after_message_match"
                /\ OfMobile!Get(fields, "reply_constraint", None) = spec.constraint
                /\ spec.constraint = "exact" => ReplyAllowed(fields.reply)
                /\ DOMAIN fields = {"action", "condition", "message_query", "reply_constraint", "route"}
                                       \cup (IF spec.constraint = "exact" THEN {"reply"} ELSE {})
<1> DEFINE general == OfMobile!ConditionRefusals(fields)
           exact == spec.constraint = "exact"
           domain_ == {"action", "condition", "message_query", "reply_constraint", "route"}
                                       \cup (IF exact THEN {"reply"} ELSE {})
           own == <<
        <<OfMobile!Get(fields, "reply_constraint", None) # spec.constraint, "unsupported_reply">>,
        <<exact /\ ("reply" \notin DOMAIN fields \/ ~ReplyAllowed(fields.reply)), "unsupported_reply">>,
        <<~exact /\ "reply" \in DOMAIN fields, "unsupported_reply">>,
        <<DOMAIN fields # domain_, "unsupported_requested_action">>>>
<1>1. OfMobile!DraftRefusals(fields, spec) = general \o own
  BY Zenon DEF OfMobile!DraftRefusals
<1> HIDE DEF domain_, exact
<1>2. own = [i \in 1 .. 4 |-> own[i]] /\ \A i \in 1 .. 4 : own[i][2] # None
  BY DEF RefusalsHaveReasons
<1>3. /\ DOMAIN own = 1 .. 4
      /\ own[1][1] = (OfMobile!Get(fields, "reply_constraint", None) # spec.constraint)
      /\ own[2][1] = (exact /\ ("reply" \notin DOMAIN fields \/ ~ReplyAllowed(fields.reply)))
      /\ own[4][1] = (DOMAIN fields # domain_)
  OBVIOUS
<1> HIDE DEF general, own
<1>4. Tests(own)
  BY <1>2 DEF Tests
<1>5. Tests(general) /\ (Passed(general) => OfMobile!Get(fields, "condition", None) = "after_message_match")
  BY ConditionTests DEF general
<1>6. Tests(general \o own) /\ (Passed(general \o own) <=> Passed(general) /\ Passed(own))
  BY <1>4, <1>5, JoinedTests, Zenon
<1>7. Passed(own) => ~own[1][1] /\ ~own[2][1] /\ ~own[4][1]
  BY <1>3 DEF Passed
<1>8. QED
  BY <1>1, <1>3, <1>5, <1>6, <1>7, Zenon DEF domain_, exact

(* What a proposal holds that compiles, and the task it compiles to.            *)
MobileAcceptance(state, slot, fields) ==
    /\ OfMobile!Get(fields, "action", None) = slot.spec.action
    /\ OfMobile!Get(fields, "route", None) = slot.spec.route
    /\ slot.spec.action = "search_messages" => fields = OfMobile!Prompted(state, slot).fields
    /\ slot.spec.action # "search_messages" =>
           OfMobile!Get(fields, "message_query", None) = OfMobile!QueryFor(slot.target)
    /\ slot.spec.action = "create_reminder" => Passed(OfMobile!ReminderRefusals(fields, slot.target))
    /\ slot.spec.action = "create_draft_reply" => Passed(OfMobile!DraftRefusals(fields, slot.spec))
MobileTaskOf(slot, fields) ==
    [target |-> slot.target, action |-> slot.spec.action, route |-> slot.spec.route,
     constraint |-> slot.spec.constraint,
     text |-> OfMobile!Get(fields, "reminder_text", None),
     at |-> OfMobile!Get(fields, "remind_at", None),
     exact |-> OfMobile!Get(fields, "reply", None)]
MobileOutcome(state, id, slot, proposal) ==
    /\ proposal.parses = "object" /\ MobileAcceptance(state, slot, proposal.fields)
    /\ OfMobile!Compile(state, id, proposal).task = MobileTaskOf(slot, proposal.fields)

(* What compiles passed every refusal, in the order the compiler makes them.  *)
LEMMA MobileAccepted ==
  ASSUME RefusalsHaveReasons, NEW state, NEW id, NEW slot,
         OfMobile!SlotWithId(state, id) # None => OfMobile!SlotWithId(state, id) = slot,
         NEW proposal, OfMobile!Compile(state, id, proposal).reason = None
  PROVE  MobileOutcome(state, id, slot, proposal)
<1> DEFINE found == OfMobile!SlotWithId(state, id)
           spec == found.spec
           fields == proposal.fields
           action == OfMobile!Get(fields, "action", None)
           first == <<<<~OfMobile!QueryIsUnique(state, found.target), "unresolved_target_ambiguity">>,
              <<spec \notin OfMobile!ToSet(OfMobile!SpecsFor(state, found.target)), "unsupported_task_slot">>>>
           general == OfMobile!NotAnObject(proposal)
           own == <<
            <<action = None, "unsupported_requested_action">>,
            <<OfMobile!Get(fields, "negated", None) = "true" \/ action \in NegatedMessage, "negated_action">>,
            <<{"message_id", "target_message_id"} \cap DOMAIN fields # {}, "unsupported_private_exact_target">>,
            <<action # spec.action, "unsupported_requested_action">>,
            <<OfMobile!Get(fields, "route", None) # spec.route, "uncheckable_condition">>,
            <<action = "search_messages" /\ fields # OfMobile!Prompted(state, found).fields,
              "unsupported_requested_action">>,
            <<action # "search_messages"
                /\ OfMobile!Get(fields, "message_query", None) # OfMobile!QueryFor(found.target),
              "wrong_message_binding">>>>
           last == CASE action = "create_reminder" -> OfMobile!ReminderRefusals(fields, found.target)
                  [] action = "create_draft_reply" -> OfMobile!DraftRefusals(fields, spec)
                  [] OTHER -> <<>>
           checks == first \o general \o own \o last
           refusal == OfMobile!EarlyReturn(checks, None)
           task == [target |-> found.target, action |-> action, route |-> spec.route,
                       constraint |-> spec.constraint,
                       text |-> OfMobile!Get(fields, "reminder_text", None),
                       at |-> OfMobile!Get(fields, "remind_at", None),
                       exact |-> OfMobile!Get(fields, "reply", None)]
           result == OfMobile!Compile(state, id, proposal)
<1>1. result = IF found = None THEN OfMobile!Rejection("unsupported_task_slot")
               ELSE IF refusal # None THEN OfMobile!Rejection(refusal) ELSE OfMobile!Compiled(task)
  BY Zenon DEF OfMobile!Compile
<1> HIDE DEF result, refusal, task
<1>2. result.reason = None
  BY DEF result
<1>3. found # None
  BY <1>1, <1>2 DEF OfMobile!Rejection, RefusalsHaveReasons
<1>4. refusal = None /\ result = OfMobile!Compiled(task)
  BY <1>1, <1>2, <1>3 DEF OfMobile!Rejection
<1>5. found = slot
  BY <1>3
<1> HIDE DEF found, fields, action, checks
<1>6. Tests(first)
  <2>1. first = [i \in 1 .. 2 |-> first[i]] /\ \A i \in 1 .. 2 : first[i][2] # None
    BY DEF RefusalsHaveReasons
  <2> HIDE DEF first
  <2>2. QED
    BY <2>1 DEF Tests
<1>7. Tests(general) /\ general[3][1] = (proposal.parses # "object") /\ DOMAIN general = 1 .. 3
  <2>1. general = [i \in 1 .. 3 |-> general[i]] /\ \A i \in 1 .. 3 : general[i][2] # None
    BY DEF OfMobile!NotAnObject, RefusalsHaveReasons
  <2>2. general[3][1] = (proposal.parses # "object")
    BY DEF OfMobile!NotAnObject
  <2> HIDE DEF general
  <2>3. QED
    BY <2>1, <2>2 DEF Tests
<1>8. Tests(own)
  <2>1. own = [i \in 1 .. 7 |-> own[i]] /\ \A i \in 1 .. 7 : own[i][2] # None
    BY DEF RefusalsHaveReasons
  <2> HIDE DEF own
  <2>2. QED
    BY <2>1 DEF Tests
<1>9. /\ DOMAIN own = 1 .. 7
      /\ own[4][1] = (action # spec.action)
      /\ own[5][1] = (OfMobile!Get(fields, "route", None) # spec.route)
      /\ own[6][1] = (action = "search_messages" /\ fields # OfMobile!Prompted(state, found).fields)
      /\ own[7][1] = (action # "search_messages"
                        /\ OfMobile!Get(fields, "message_query", None) # OfMobile!QueryFor(found.target))
  OBVIOUS
<1>10. Tests(last)
  <2>1. Tests(<<>>)
    <3>1. <<>> = [i \in 1 .. 0 |-> <<>>[i]] /\ \A i \in 1 .. 0 : <<>>[i][2] # None
      OBVIOUS
    <3>2. QED
      BY <3>1 DEF Tests
  <2>2. Tests(OfMobile!ReminderRefusals(fields, found.target)) /\ Tests(OfMobile!DraftRefusals(fields, spec))
    BY ReminderAccepted, DraftAccepted, Zenon
  <2>3. QED
    BY <2>1, <2>2, Zenon
<1> HIDE DEF first, general, own
<1>11. Passed(general) /\ Passed(own) /\ Passed(last)
  <2> HIDE DEF last
  <2>1. Tests(first \o general) /\ (Passed(first \o general) <=> Passed(first) /\ Passed(general))
    BY <1>6, <1>7, JoinedTests, Zenon
  <2>2. /\ Tests(first \o general \o own)
        /\ Passed(first \o general \o own) <=> Passed(first \o general) /\ Passed(own)
    BY <2>1, <1>8, JoinedTests, Zenon
  <2>3. /\ Tests(checks)
        /\ Passed(checks) <=> Passed(first \o general \o own) /\ Passed(last)
    BY <2>2, <1>10, JoinedTests, Zenon DEF checks
  <2>4. OfContacts!EarlyReturn(checks, None) = None
    BY <1>4, SameReturns, Zenon DEF refusal
  <2>5. Passed(checks)
    BY <2>3, <2>4, PassedTests, Zenon
  <2>6. QED
    BY <2>1, <2>2, <2>3, <2>5, Zenon
<1>12. ~general[3][1] /\ ~own[4][1] /\ ~own[5][1] /\ ~own[6][1] /\ ~own[7][1]
  BY <1>7, <1>9, <1>11 DEF Passed
<1>13. proposal.parses = "object" /\ action = spec.action /\ OfMobile!Get(fields, "route", None) = spec.route
       /\ (action = "search_messages" => fields = OfMobile!Prompted(state, found).fields)
       /\ (action # "search_messages" => OfMobile!Get(fields, "message_query", None) = OfMobile!QueryFor(found.target))
  BY <1>7, <1>9, <1>12, Zenon
<1>14. /\ action = "create_reminder" => Passed(OfMobile!ReminderRefusals(fields, found.target))
       /\ action = "create_draft_reply" => Passed(OfMobile!DraftRefusals(fields, spec))
  <2>1. "create_reminder" # "create_draft_reply"
    OBVIOUS
  <2>2. action = "create_reminder" => last = OfMobile!ReminderRefusals(fields, found.target)
    OBVIOUS
  <2>3. action = "create_draft_reply" => last = OfMobile!DraftRefusals(fields, spec)
    OBVIOUS
  <2> HIDE DEF last
  <2>4. QED
    BY <1>11, <2>2, <2>3, Zenon
<1>15. MobileAcceptance(state, slot, proposal.fields)
  BY <1>5, <1>13, <1>14, Zenon DEF MobileAcceptance, fields, action
<1>16. result.task = MobileTaskOf(slot, proposal.fields)
  <2>1. result.task = task
    BY <1>4 DEF OfMobile!Compiled
  <2>2. task = MobileTaskOf(slot, proposal.fields)
    BY <1>5, <1>13, Zenon DEF task, MobileTaskOf, fields
  <2>3. QED
    BY <2>1, <2>2
<1>17. QED
  BY <1>13, <1>15, <1>16, Zenon DEF result, MobileOutcome

--------------------------------------------------------------------------------
(* What the prompt of a slot asks for, by its action.                         *)
LEMMA MobilePrompt ==
  ASSUME NEW state, NEW slot, slot.spec \in MobileSpecs
  PROVE  LET spec == slot.spec
             asked == OfMobile!Prompted(state, slot).fields
             base == [action |-> spec.action, route |-> spec.route]
             query == OfMobile!QueryFor(slot.target)
             mutation == OfMobile!Both(base, [condition |-> "after_message_match", message_query |-> query])
         IN  /\ spec.action = "search_messages" => asked = OfMobile!Both(base, [query |-> query])
             /\ spec.action = "create_reminder" =>
                    asked = OfMobile!Both(mutation, [reminder_text |-> OfMobile!ReminderText(slot.target),
                                                     remind_at |-> OfMobile!RemindAt(slot.target)])
             /\ spec.action = "create_draft_reply" =>
                    asked = OfMobile!Both(mutation,
                              IF spec.constraint = "exact"
                              THEN [reply_constraint |-> "exact", reply |-> OfMobile!ExactReply(slot.target)]
                              ELSE [reply_constraint |-> spec.constraint])
<1> DEFINE spec == slot.spec
           asked == OfMobile!Prompted(state, slot).fields
           base == [action |-> spec.action, route |-> spec.route]
           query == OfMobile!QueryFor(slot.target)
           mutation == OfMobile!Both(base, [condition |-> "after_message_match", message_query |-> query])
           search == OfMobile!Both(base, [query |-> query])
           reminder == OfMobile!Both(mutation, [reminder_text |-> OfMobile!ReminderText(slot.target),
                                                remind_at |-> OfMobile!RemindAt(slot.target)])
           exact == OfMobile!Both(mutation, [reply_constraint |-> "exact", reply |-> OfMobile!ExactReply(slot.target)])
           open == OfMobile!Both(mutation, [reply_constraint |-> spec.constraint])
           chosen == CASE spec.action = "search_messages" -> search
                       [] spec.action = "create_reminder" -> reminder
                       [] spec.constraint = "exact" -> exact
                       [] OTHER -> open
<1>1. OfMobile!Prompted(state, slot) = [parses |-> "object", negated |-> FALSE, fields |-> chosen]
  BY Zenon DEF OfMobile!Prompted
<1> HIDE DEF chosen
<1>2. asked = chosen
  BY <1>1
<1> HIDE DEF asked, search, reminder, exact, open, mutation
<1>3. spec.action = "search_messages" => chosen = search
  <2>1. spec.action = "search_messages" => spec.action # "create_reminder" /\ spec.constraint # "exact"
    BY MobileSpecsAre
  <2>2. QED
    BY <2>1, Zenon DEF chosen
<1>4. spec.action = "create_reminder" => chosen = reminder
  <2>1. spec.action = "create_reminder" => spec.action # "search_messages" /\ spec.constraint # "exact"
    BY MobileSpecsAre
  <2>2. QED
    BY <2>1, Zenon DEF chosen
<1>5. \A a, c, w, x, y, z : a = "create_draft_reply" =>
          (CASE a = "search_messages" -> w [] a = "create_reminder" -> x [] c = "exact" -> y [] OTHER -> z)
            = IF c = "exact" THEN y ELSE z
  OBVIOUS
<1>6. spec.action = "create_draft_reply" => chosen = IF spec.constraint = "exact" THEN exact ELSE open
  BY <1>5, Zenon DEF chosen
<1>7. /\ spec.action = "search_messages" => asked = search
      /\ spec.action = "create_reminder" => asked = reminder
      /\ spec.action = "create_draft_reply" => asked = IF spec.constraint = "exact" THEN exact ELSE open
  BY <1>2, <1>3, <1>4, <1>5, <1>6, Zenon
<1>8. (IF spec.constraint = "exact" THEN exact ELSE open)
        = OfMobile!Both(mutation, IF spec.constraint = "exact"
                              THEN [reply_constraint |-> "exact", reply |-> OfMobile!ExactReply(slot.target)]
                              ELSE [reply_constraint |-> spec.constraint])
  <2>1. CASE spec.constraint = "exact"
    BY <2>1, Zenon DEF exact
  <2>2. CASE spec.constraint # "exact"
    BY <2>2, Zenon DEF open
  <2>3. QED
    BY <2>1, <2>2
<1>9. QED
  BY <1>7, <1>8, Zenon DEF asked, search, reminder, mutation

(* What compiles is what was asked for, but for a reply.                      *)
LEMMA MobileRequested ==
  ASSUME RefusalsHaveReasons, NEW state, IsFiniteSet(DOMAIN state.messages),
         NEW slot \in MobileSlots(state), NEW proposal,
         OfMobile!Compile(state, slot.id, proposal).reason = None
  PROVE  Requested(proposal, OfMobile!Prompted(state, slot), {"reply"})
<1> DEFINE fields == proposal.fields
           asked == OfMobile!Prompted(state, slot).fields
           spec == slot.spec
           query == OfMobile!QueryFor(slot.target)
<1>1. /\ proposal.parses = "object" /\ MobileAcceptance(state, slot, fields)
      /\ OfMobile!Compile(state, slot.id, proposal).task = MobileTaskOf(slot, fields)
  <2>1. OfMobile!SlotWithId(state, slot.id) # None => OfMobile!SlotWithId(state, slot.id) = slot
    BY MobileSlotFound
  <2>2. MobileOutcome(state, slot.id, slot, proposal)
    BY <2>1, MobileAccepted, Zenon
  <2>3. QED
    BY <2>2, Zenon DEF MobileOutcome
<1>2. spec \in MobileSpecs
  BY DEF MobileSlots, MobileSlot
<1>3. /\ OfMobile!Get(fields, "action", None) = spec.action /\ OfMobile!Get(fields, "route", None) = spec.route
      /\ spec.action = "search_messages" => fields = asked
      /\ spec.action # "search_messages" => OfMobile!Get(fields, "message_query", None) = query
      /\ spec.action = "create_reminder" => Passed(OfMobile!ReminderRefusals(fields, slot.target))
      /\ spec.action = "create_draft_reply" => Passed(OfMobile!DraftRefusals(fields, spec))
  BY <1>1, Zenon DEF MobileAcceptance
<1>4. CASE spec.action = "search_messages"
  <2>1. fields = asked
    BY <1>3, <1>4
  <2>2. QED
    BY <1>1, <2>1, Zenon DEF Requested
<1>5. CASE spec.action = "create_reminder"
  <2> DEFINE domain_ == {"action", "condition", "message_query", "remind_at", "reminder_text", "route"}
             text == OfMobile!ReminderText(slot.target)
             at == OfMobile!RemindAt(slot.target)
  <2>1. asked = OfMobile!Both(
            OfMobile!Both([action |-> spec.action, route |-> spec.route],
                          [condition |-> "after_message_match", message_query |-> query]),
            [reminder_text |-> text, remind_at |-> at])
    BY <1>2, <1>5, MobilePrompt
  <2> HIDE DEF asked, fields, query, text, at
  <2>2. /\ DOMAIN asked = domain_
        /\ asked["action"] = spec.action /\ asked["route"] = spec.route
        /\ asked["condition"] = "after_message_match" /\ asked["message_query"] = query
        /\ asked["reminder_text"] = text /\ asked["remind_at"] = at
    BY <2>1 DEF OfMobile!Both
  <2>3. /\ OfMobile!Get(fields, "condition", None) = "after_message_match"
        /\ OfMobile!Get(fields, "reminder_text", None) = text
        /\ OfMobile!Get(fields, "remind_at", None) = at
        /\ DOMAIN fields = domain_
    BY <1>3, <1>5, ReminderAccepted, Zenon DEF text, at
  <2>4. OfMobile!Get(fields, "message_query", None) = query
    BY <1>3, <1>5
  <2>5. /\ fields["action"] = spec.action /\ fields["route"] = spec.route
        /\ fields["condition"] = "after_message_match" /\ fields["message_query"] = query
        /\ fields["reminder_text"] = text /\ fields["remind_at"] = at
    BY <1>3, <2>3, <2>4 DEF OfMobile!Get
  <2>6. DOMAIN fields = DOMAIN asked /\ \A f \in DOMAIN fields : fields[f] = asked[f]
    BY <2>2, <2>3, <2>5
  <2>7. QED
    BY <1>1, <2>6 DEF Requested, asked, fields
<1>6. CASE spec.action = "create_draft_reply"
  <2> DEFINE domain_ == {"action", "condition", "message_query", "reply_constraint", "route"}
                            \cup (IF spec.constraint = "exact" THEN {"reply"} ELSE {})
  <2>1. asked = OfMobile!Both(
            OfMobile!Both([action |-> spec.action, route |-> spec.route],
                          [condition |-> "after_message_match", message_query |-> query]),
            IF spec.constraint = "exact" THEN [reply_constraint |-> "exact", reply |-> OfMobile!ExactReply(slot.target)]
            ELSE [reply_constraint |-> spec.constraint])
    BY <1>2, <1>6, MobilePrompt
  <2> HIDE DEF asked, fields, query
  <2>2. /\ DOMAIN asked = domain_
        /\ asked["action"] = spec.action /\ asked["route"] = spec.route
        /\ asked["condition"] = "after_message_match" /\ asked["message_query"] = query
        /\ asked["reply_constraint"] = spec.constraint
    <3>1. CASE spec.constraint = "exact"
      BY <2>1, <3>1 DEF OfMobile!Both
    <3>2. CASE spec.constraint # "exact"
      BY <2>1, <3>2 DEF OfMobile!Both
    <3>3. QED
      BY <3>1, <3>2
  <2>3. /\ OfMobile!Get(fields, "condition", None) = "after_message_match"
        /\ OfMobile!Get(fields, "reply_constraint", None) = spec.constraint
        /\ DOMAIN fields = domain_
    BY <1>3, <1>6, DraftAccepted, Zenon
  <2>4. OfMobile!Get(fields, "message_query", None) = query
    BY <1>3, <1>6
  <2>5. /\ fields["action"] = spec.action /\ fields["route"] = spec.route
        /\ fields["condition"] = "after_message_match" /\ fields["message_query"] = query
        /\ fields["reply_constraint"] = spec.constraint
    BY <1>3, <2>3, <2>4 DEF OfMobile!Get
  <2>6. DOMAIN fields = DOMAIN asked /\ \A f \in DOMAIN fields \ {"reply"} : fields[f] = asked[f]
    BY <2>2, <2>3, <2>5
  <2>7. QED
    BY <1>1, <2>6 DEF Requested, asked, fields
<1>7. QED
  BY <1>2, <1>4, <1>5, <1>6, MobileSpecsAre

(* What a task of Mobile Messages looks like.                                   *)
MobileTask(task) ==
    task = [target |-> task.target, action |-> task.action, route |-> task.route,
            constraint |-> task.constraint, text |-> task.text, at |-> task.at, exact |-> task.exact]
(* A reminder has its text and its time, and a reply that may be sent is a text. *)
TextsAreTexts ==
    /\ \A m : OfMobile!ReminderText(m) # None /\ OfMobile!RemindAt(m) # None
    /\ ~ReplyAllowed(None)

(* A task that was compiled is restored, and no other under its key.          *)
LEMMA MobileRestored ==
  ASSUME RefusalsHaveReasons, TextsAreTexts, NEW state, IsFiniteSet(DOMAIN state.messages),
         NEW slot \in MobileSlots(state), NEW proposal,
         OfMobile!Compile(state, slot.id, proposal).reason = None
  PROVE  LET task == OfMobile!Compile(state, slot.id, proposal).task
         IN  /\ OfMobile!Restore(task, OfMobile!SemanticKey(task)) = task
             /\ \A other : MobileTask(other) /\ other # task =>
                    OfMobile!Restore(other, OfMobile!SemanticKey(task)) = None
             /\ MobileTask(task)
<1> DEFINE spec == slot.spec
           fields == proposal.fields
           task == OfMobile!Compile(state, slot.id, proposal).task
           Fit(t) ==
               \E i \in DOMAIN OfMobile!TaskSpecs :
                     /\ OfMobile!TaskSpecs[i].action = t.action /\ OfMobile!TaskSpecs[i].route = t.route
                     /\ OfMobile!TaskSpecs[i].constraint = t.constraint
           Refused(t) ==
               \/ t.action = "search_messages" /\ {t.text, t.at} \cup {t.exact} # {None}
               \/ t.action = "create_reminder" /\ (None \in {t.text, t.at} \/ t.exact # None)
               \/ t.action = "create_draft_reply" /\ {t.text, t.at} # {None}
               \/ t.constraint = "exact" /\ (t.exact = None \/ ~ReplyAllowed(t.exact))
               \/ t.constraint # "exact" /\ t.exact # None
               \/ ~Fit(t)
<1>1. MobileAcceptance(state, slot, fields) /\ task = MobileTaskOf(slot, fields)
  <2>1. OfMobile!SlotWithId(state, slot.id) # None => OfMobile!SlotWithId(state, slot.id) = slot
    BY MobileSlotFound
  <2>2. MobileOutcome(state, slot.id, slot, proposal)
    BY <2>1, MobileAccepted, Zenon
  <2>3. QED
    BY <2>2, Zenon DEF MobileOutcome
<1>2. spec \in MobileSpecs
  BY DEF MobileSlots, MobileSlot
<1> HIDE DEF task
<1>3. /\ task.action = spec.action /\ task.route = spec.route /\ task.constraint = spec.constraint
      /\ task.text = OfMobile!Get(fields, "reminder_text", None)
      /\ task.at = OfMobile!Get(fields, "remind_at", None)
      /\ task.exact = OfMobile!Get(fields, "reply", None) /\ MobileTask(task)
  BY <1>1 DEF MobileTask, MobileTaskOf
<1>4. Fit(task)
  <2>1. \E i \in DOMAIN OfMobile!TaskSpecs : OfMobile!TaskSpecs[i] = spec
    BY <1>2, MobileSpecsAre
  <2>2. QED
    BY <1>3, <2>1
<1> HIDE DEF Fit
<1>5. ~Refused(task) /\ (task.constraint # "exact" => task.exact = None)
  <2>1. CASE spec.action = "search_messages"
    <3>1. fields = OfMobile!Prompted(state, slot).fields
      BY <1>1, <2>1, Zenon DEF MobileAcceptance
    <3>2. fields = OfMobile!Both([action |-> spec.action, route |-> spec.route],
                                 [query |-> OfMobile!QueryFor(slot.target)])
      BY <1>2, <2>1, <3>1, MobilePrompt
    <3>7. DOMAIN fields = {"action", "route", "query"}
      BY <3>2 DEF OfMobile!Both
    <3> HIDE DEF fields
    <3>3. task.text = None /\ task.at = None /\ task.exact = None
      BY <1>3, <3>7 DEF OfMobile!Get
    <3>4. spec.constraint = "none"
      BY <1>2, <2>1, MobileSpecsAre
    <3>5. QED
      BY <1>3, <1>4, <2>1, <3>3, <3>4
  <2>2. CASE spec.action = "create_reminder"
    <3>1. Passed(OfMobile!ReminderRefusals(fields, slot.target))
      BY <1>1, <2>2, Zenon DEF MobileAcceptance
    <3>2. /\ OfMobile!Get(fields, "reminder_text", None) = OfMobile!ReminderText(slot.target)
          /\ OfMobile!Get(fields, "remind_at", None) = OfMobile!RemindAt(slot.target)
          /\ DOMAIN fields = {"action", "condition", "message_query", "remind_at", "reminder_text", "route"}
      BY <3>1, ReminderAccepted, Zenon
    <3> HIDE DEF fields
    <3>3. task.text # None /\ task.at # None
      BY <1>3, <3>2, Zenon DEF TextsAreTexts
    <3>4. task.exact = None
      BY <1>3, <3>2 DEF OfMobile!Get
    <3>5. spec.constraint = "none"
      BY <1>2, <2>2, MobileSpecsAre
    <3>6. QED
      BY <1>3, <1>4, <2>2, <3>3, <3>4, <3>5
  <2>3. CASE spec.action = "create_draft_reply"
    <3>1. Passed(OfMobile!DraftRefusals(fields, spec))
      BY <1>1, <2>3, Zenon DEF MobileAcceptance
    <3>2. /\ spec.constraint = "exact" => ReplyAllowed(fields.reply)
          /\ DOMAIN fields = {"action", "condition", "message_query", "reply_constraint", "route"}
                                 \cup (IF spec.constraint = "exact" THEN {"reply"} ELSE {})
      BY <3>1, DraftAccepted, Zenon
    <3> HIDE DEF fields
    <3>3. task.text = None /\ task.at = None
      BY <1>3, <3>2 DEF OfMobile!Get
    <3>4. spec.constraint # "exact" => task.exact = None
      BY <1>3, <3>2 DEF OfMobile!Get
    <3>5. spec.constraint = "exact" => ReplyAllowed(task.exact) /\ task.exact # None
      <4> SUFFICES ASSUME spec.constraint = "exact" PROVE ReplyAllowed(task.exact) /\ task.exact # None
        OBVIOUS
      <4>1. task.exact = fields.reply
        BY <1>3, <3>2 DEF OfMobile!Get
      <4>2. ReplyAllowed(task.exact)
        BY <3>2, <4>1
      <4>3. QED
        BY <4>2, Zenon DEF TextsAreTexts
    <3>6. QED
      BY <1>3, <1>4, <2>3, <3>3, <3>4, <3>5
  <2>4. QED
    BY <1>2, <2>1, <2>2, <2>3, MobileSpecsAre
<1>8. \A t, key : OfMobile!Restore(t, key) = IF Refused(t) \/ key # OfMobile!SemanticKey(t) THEN None ELSE t
  BY Zenon DEF OfMobile!Restore, Fit
<1>9. OfMobile!Restore(task, OfMobile!SemanticKey(task)) = task
  <2> HIDE DEF Refused
  <2>1. QED
    BY <1>5, <1>8, Zenon
<1>10. ASSUME NEW other, MobileTask(other), other # task
       PROVE  OfMobile!Restore(other, OfMobile!SemanticKey(task)) = None
  <2> SUFFICES ASSUME ~Refused(other), OfMobile!SemanticKey(task) = OfMobile!SemanticKey(other) PROVE FALSE
    <3> HIDE DEF Refused
    <3>1. QED
      BY <1>8, Zenon
  <2> DEFINE mine == IF task.constraint = "exact" THEN task.exact ELSE None
             its == IF other.constraint = "exact" THEN other.exact ELSE None
  <2>1. /\ task.action = other.action /\ task.target = other.target /\ mine = its /\ task.at = other.at
        /\ task.text = other.text /\ task.constraint = other.constraint /\ task.route = other.route
    <3> HIDE DEF mine, its
    <3>1. <<task.action, task.target, mine, task.at, task.text, task.constraint, task.route>>
            = <<other.action, other.target, its, other.at, other.text, other.constraint, other.route>>
      BY Zenon DEF OfMobile!SemanticKey, mine, its
    <3>2. QED
      BY <3>1
  <2>2. task.exact = mine
    BY <1>5
  <2>3. other.exact = its
    OBVIOUS
  <2>4. task.exact = other.exact
    BY <2>1, <2>2, <2>3
  <2>5. task = [target |-> task.target, action |-> task.action, route |-> task.route,
            constraint |-> task.constraint, text |-> task.text, at |-> task.at, exact |-> task.exact]
    BY <1>3, Zenon DEF MobileTask
  <2>6. other = [target |-> other.target, action |-> other.action, route |-> other.route,
            constraint |-> other.constraint, text |-> other.text, at |-> other.at, exact |-> other.exact]
    BY <1>10, Zenon DEF MobileTask
  <2>7. QED
    BY <1>10, <2>1, <2>4, <2>5, <2>6, Zenon
<1>11. QED
  BY <1>3, <1>9, <1>10, Zenon DEF task

--------------------------------------------------------------------------------
(* Workspace Tasks: the order of the items, a recursion over sets of ids. *)

AnyOf(T) == CHOOSE x \in T : TRUE
Appended(g, items, T) == IF T = {} THEN <<>> ELSE Append(g[T \ {AnyOf(T)}], items[AnyOf(T)])
Orders(g, items, sets) == g = [T \in sets |-> Appended(g, items, T)]
Small(S, n) == {T \in SUBSET S : Cardinality(T) <= n}

(* One element less.                                                          *)
LEMMA Smaller ==
  ASSUME NEW S, IsFiniteSet(S), NEW n \in Nat, NEW T \in Small(S, n), T # {}
  PROVE  /\ AnyOf(T) \in T /\ n # 0 /\ T \ {AnyOf(T)} \in Small(S, n - 1)
         /\ Cardinality(T \ {AnyOf(T)}) = Cardinality(T) - 1 /\ Cardinality(T) \in Nat \ {0}
<1>1. AnyOf(T) \in T
  BY DEF AnyOf
<1>2. T \in SUBSET S /\ Cardinality(T) <= n
  BY DEF Small
<1>3. IsFiniteSet(T)
  BY <1>2, FS_Subset
<1>4. Cardinality(T) \in Nat /\ Cardinality(T \ {AnyOf(T)}) = Cardinality(T) - 1
  BY <1>1, <1>3, FS_RemoveElement, FS_CardinalityType
<1>5. Cardinality(T) # 0
  BY <1>3, FS_EmptySet
<1>6. QED
  BY <1>1, <1>2, <1>4, <1>5 DEF Small

(* Every finite set of ids can be read in some order, one id at a time.       *)
LEMMA OrderExists ==
  ASSUME NEW items, NEW S, IsFiniteSet(S), NEW m \in Nat
  PROVE  \E g : Orders(g, items, Small(S, m))
<1> DEFINE bad == {k \in Nat : ~\E g : Orders(g, items, Small(S, k))}
<1> SUFFICES ASSUME bad # {} PROVE FALSE
  OBVIOUS
<1>0. bad \in SUBSET Nat
  OBVIOUS
<1>1. PICK n \in bad : \A l \in bad : n <= l
  <2> HIDE DEF bad
  <2>1. QED
    BY <1>0, LeastExists
<1>2. CASE n = 0
  <2> DEFINE g == [T \in Small(S, n) |-> <<>>]
  <2>1. \A T \in Small(S, n) : T = {}
    BY <1>1, <1>2, Smaller
  <2>2. \A T \in Small(S, n) : Appended(g, items, T) = <<>>
    BY <2>1 DEF Appended
  <2>3. [T \in Small(S, n) |-> Appended(g, items, T)] = [T \in Small(S, n) |-> <<>>]
    BY <2>2
  <2>4. Orders(g, items, Small(S, n))
    BY <2>3, Zenon DEF Orders
  <2>5. QED
    BY <1>1, <2>4
<1>3. CASE n # 0
  <2>1. n - 1 \in Nat /\ n - 1 \notin bad
    BY <1>1, <1>3
  <2>2. PICK g : Orders(g, items, Small(S, n - 1))
    BY <2>1
  <2> DEFINE f == [T \in Small(S, n) |-> Appended(g, items, T)]
  <2>3. \A T \in Small(S, n - 1) : g[T] = Appended(g, items, T) /\ T \in Small(S, n)
    <3>1. \A T \in Small(S, n - 1) : T \in Small(S, n)
      <4> SUFFICES ASSUME NEW T \in Small(S, n - 1) PROVE T \in Small(S, n)
        OBVIOUS
      <4>1. T \in SUBSET S /\ Cardinality(T) <= n - 1
        BY DEF Small
      <4>2. Cardinality(T) \in Nat
        BY <4>1, FS_Subset, FS_CardinalityType
      <4>3. QED
        BY <1>1, <4>1, <4>2 DEF Small
    <3>2. QED
      BY <2>2, <3>1 DEF Orders
  <2>4. \A T \in Small(S, n - 1) : f[T] = g[T]
    BY <2>3
  <2>5. \A T \in Small(S, n) : Appended(f, items, T) = Appended(g, items, T)
    <3> SUFFICES ASSUME NEW T \in Small(S, n) PROVE Appended(f, items, T) = Appended(g, items, T)
      OBVIOUS
    <3>1. CASE T = {}
      BY <3>1, Zenon DEF Appended
    <3>2. CASE T # {}
      <4>1. T \ {AnyOf(T)} \in Small(S, n - 1)
        BY <1>1, <3>2, Smaller
      <4>2. f[T \ {AnyOf(T)}] = g[T \ {AnyOf(T)}]
        BY <2>4, <4>1
      <4> HIDE DEF f
      <4>3. QED
        BY <4>2, Zenon DEF Appended
    <3>3. QED
      BY <3>1, <3>2
  <2>6. f = [T \in Small(S, n) |-> Appended(f, items, T)]
    <3>1. f = [T \in Small(S, n) |-> Appended(g, items, T)]
      OBVIOUS
    <3> HIDE DEF f
    <3>2. QED
      BY <2>5, <3>1
  <2>7. QED
    BY <1>1, <2>6, Zenon DEF Orders
<1>4. QED
  BY <1>2, <1>3

(* The items of a set of ids, in the order of a sequence of them.               *)
Ordered(seq, items, T) ==
    \E n \in Nat : \E ids \in [1 .. n -> T] :
        /\ \A i, j \in 1 .. n : ids[i] = ids[j] => i = j
        /\ \A id \in T : \E i \in 1 .. n : ids[i] = id
        /\ seq = [i \in 1 .. n |-> items[ids[i]]]

(* An id at the end of an order of the others makes an order of them all.     *)
LEMMA OrderedOne ==
  ASSUME NEW items, NEW T, NEW x \in T, NEW seq, Ordered(seq, items, T \ {x})
  PROVE  Ordered(Append(seq, items[x]), items, T)
<1> DEFINE U == T \ {x}
<1>1. PICK n \in Nat : \E ids \in [1 .. n -> U] :
        /\ \A i, j \in 1 .. n : ids[i] = ids[j] => i = j
        /\ \A id \in U : \E i \in 1 .. n : ids[i] = id
        /\ seq = [i \in 1 .. n |-> items[ids[i]]]
  BY DEF Ordered
<1>2. PICK ids \in [1 .. n -> U] :
        /\ \A i, j \in 1 .. n : ids[i] = ids[j] => i = j
        /\ \A id \in U : \E i \in 1 .. n : ids[i] = id
        /\ seq = [i \in 1 .. n |-> items[ids[i]]]
  BY <1>1
<1> DEFINE more == [i \in 1 .. n + 1 |-> IF i = n + 1 THEN x ELSE ids[i]]
<1>3. more \in [1 .. n + 1 -> T]
  BY <1>2
<1>4. more[n + 1] = x /\ \A i \in 1 .. n : more[i] = ids[i] /\ i \in 1 .. n + 1
  OBVIOUS
<1> HIDE DEF more
<1>5. \A i, j \in 1 .. n + 1 : more[i] = more[j] => i = j
  <2> SUFFICES ASSUME NEW i \in 1 .. n + 1, NEW j \in 1 .. n + 1, more[i] = more[j] PROVE i = j
    OBVIOUS
  <2>1. \A l \in 1 .. n : more[l] # x
    BY <1>2, <1>4
  <2>2. CASE i = n + 1
    BY <1>4, <2>1, <2>2
  <2>3. CASE j = n + 1
    BY <1>4, <2>1, <2>3
  <2>4. CASE i # n + 1 /\ j # n + 1
    <3>1. i \in 1 .. n /\ j \in 1 .. n
      BY <2>4
    <3>2. QED
      BY <1>2, <1>4, <3>1
  <2>5. QED
    BY <2>2, <2>3, <2>4
<1>6. \A id \in T : \E i \in 1 .. n + 1 : more[i] = id
  <2> SUFFICES ASSUME NEW id \in T PROVE \E i \in 1 .. n + 1 : more[i] = id
    OBVIOUS
  <2>1. CASE id = x
    BY <1>4, <2>1
  <2>2. CASE id # x
    BY <1>2, <1>4, <2>2
  <2>3. QED
    BY <2>1, <2>2
<1>7. Append(seq, items[x]) = [i \in 1 .. n + 1 |-> items[more[i]]]
  <2> DEFINE R == {items[id] : id \in T}
  <2>1. seq \in Seq(R) /\ Len(seq) = n
    <3>1. \A i \in 1 .. n : items[ids[i]] \in R
      BY <1>2
    <3> HIDE DEF R
    <3>2. seq \in [1 .. n -> R]
      BY <1>2, <3>1
    <3>3. QED
      BY <3>2
  <2>2. items[x] \in R
    OBVIOUS
  <2> HIDE DEF R
  <2> DEFINE longer == Append(seq, items[x])
  <2>3. longer \in Seq(R) /\ Len(longer) = n + 1 /\ longer[n + 1] = items[x]
        /\ \A i \in 1 .. n : longer[i] = seq[i]
    BY <2>1, <2>2, AppendProperties
  <2> HIDE DEF longer
  <2>4. longer = [i \in 1 .. n + 1 |-> longer[i]]
    BY <2>3
  <2>5. \A i \in 1 .. n + 1 : longer[i] = items[more[i]]
    <3> SUFFICES ASSUME NEW i \in 1 .. n + 1 PROVE longer[i] = items[more[i]]
      OBVIOUS
    <3>1. CASE i = n + 1
      BY <1>4, <2>3, <3>1
    <3>2. CASE i # n + 1
      <4>1. i \in 1 .. n
        BY <3>2
      <4>2. longer[i] = seq[i] /\ more[i] = ids[i] /\ seq[i] = items[ids[i]]
        BY <1>2, <1>4, <2>3, <4>1
      <4>3. QED
        BY <4>2, Zenon
    <3>3. QED
      BY <3>1, <3>2
  <2>6. QED
    BY <2>4, <2>5 DEF longer
<1> DEFINE m == n + 1
<1>8. m \in Nat
  OBVIOUS
<1>9. /\ more \in [1 .. m -> T]
      /\ \A i, j \in 1 .. m : more[i] = more[j] => i = j
      /\ \A id \in T : \E i \in 1 .. m : more[i] = id
      /\ Append(seq, items[x]) = [i \in 1 .. m |-> items[more[i]]]
  BY <1>3, <1>5, <1>6, <1>7
<1> DEFINE longer == Append(seq, items[x])
<1> HIDE DEF m, longer
<1>10. Ordered(longer, items, T)
  <2> SUFFICES \E k \in Nat : \E order \in [1 .. k -> T] :
                  /\ \A i, j \in 1 .. k : order[i] = order[j] => i = j
                  /\ \A id \in T : \E i \in 1 .. k : order[i] = id
                  /\ longer = [i \in 1 .. k |-> items[order[i]]]
    BY Zenon DEF Ordered
  <2> m \in Nat /\ more \in [1 .. m -> T]
    BY <1>8, <1>9
  <2> WITNESS m \in Nat
  <2> WITNESS more \in [1 .. m -> T]
  <2> QED
    BY <1>9 DEF longer
<1>11. QED
  BY <1>10 DEF longer

(* Sorted reads every item once.                                              *)
LEMMA SortedIsOrdered ==
  ASSUME NEW items, IsFiniteSet(DOMAIN items)
  PROVE  Ordered(OfWorkspace!Sorted(items), items, DOMAIN items)
<1> DEFINE S == DOMAIN items
           k == Cardinality(S)
           g == CHOOSE g : g = [T \in SUBSET S |-> Appended(g, items, T)]
<1>1. k \in Nat /\ Small(S, k) = SUBSET S
  BY FS_CardinalityType, FS_Subset DEF Small
<1>2. OfWorkspace!Sorted(items) = g[S]
  BY Zenon DEF OfWorkspace!Sorted, OfWorkspace!FoldSet, OfWorkspace!MapThenFoldSet, Appended, AnyOf
<1>3. g = [T \in SUBSET S |-> Appended(g, items, T)]
  <2>1. \E h : h = [T \in SUBSET S |-> Appended(h, items, T)]
    <3>1. \E h : Orders(h, items, Small(S, k))
      BY <1>1, OrderExists
    <3>2. PICK h : Orders(h, items, SUBSET S)
      BY <1>1, <3>1
    <3>3. h = [T \in SUBSET S |-> Appended(h, items, T)]
      BY <3>2, Zenon DEF Orders
    <3>4. QED
      BY <3>3, Zenon
  <2>2. QED
    BY <2>1, Zenon
<1> HIDE DEF g
<1>4. \A T \in SUBSET S : g[T] = Appended(g, items, T)
  BY <1>3
<1> DEFINE bad == {n \in Nat : \E T \in SUBSET S : Cardinality(T) = n /\ ~Ordered(g[T], items, T)}
<1>5. bad = {}
  <2> SUFFICES ASSUME bad # {} PROVE FALSE
    OBVIOUS
  <2>0. bad \in SUBSET Nat
    OBVIOUS
  <2>1. PICK n \in bad : \A l \in bad : n <= l
    <3> HIDE DEF bad
    <3>1. QED
      BY <2>0, LeastExists
  <2>2. PICK T \in SUBSET S : Cardinality(T) = n /\ ~Ordered(g[T], items, T)
    BY <2>1
  <2>3. CASE T = {}
    <3>1. g[T] = <<>>
      BY <1>4, <2>3 DEF Appended
    <3>2. <<>> = [i \in 1 .. 0 |-> items[<<>>[i]]] /\ <<>> \in [1 .. 0 -> T]
      OBVIOUS
    <3>3. \A i, j \in 1 .. 0 : <<>>[i] = <<>>[j] => i = j
      OBVIOUS
    <3>4. Ordered(<<>>, items, T)
      BY <2>3, <3>2, <3>3 DEF Ordered
    <3>5. QED
      BY <2>2, <3>1, <3>4
  <2>4. CASE T # {}
    <3> DEFINE x == AnyOf(T)
               U == T \ {x}
    <3>1. n \in Nat /\ T \in Small(S, n)
      BY <2>0, <2>1, <2>2 DEF Small
    <3>2. x \in T /\ Cardinality(U) = n - 1 /\ n \in Nat \ {0}
      BY <2>2, <2>4, <3>1, Smaller
    <3>3. g[T] = Append(g[U], items[x])
      BY <1>4, <2>4 DEF Appended
    <3> HIDE DEF x
    <3>4. n - 1 \notin bad /\ n - 1 \in Nat /\ U \in SUBSET S
      BY <2>1, <3>2
    <3>5. Ordered(g[U], items, U)
      BY <3>2, <3>4
    <3>6. Ordered(g[T], items, T)
      BY <3>2, <3>3, <3>5, OrderedOne
    <3>7. QED
      BY <2>2, <3>6
  <2>5. QED
    BY <2>3, <2>4
<1>6. Ordered(g[S], items, S)
  BY <1>1, <1>5
<1>7. QED
  BY <1>2, <1>6

--------------------------------------------------------------------------------
(* Workspace Tasks: a snapshot is read as the state it was made of. *)

WorkspaceSource(s) == \A k \in 1 .. 4 : Listed(s[OfWorkspace!SourceKinds[k]])
ItemsOfKind(s, k) ==
    [i \in DOMAIN s[OfWorkspace!SourceKinds[k]] |->
        OfWorkspace!Item(OfWorkspace!SourceKinds[k], s[OfWorkspace!SourceKinds[k]][i])]
ItemsIn(s) == FlattenSeq([k \in 1 .. 4 |-> ItemsOfKind(s, k)])

(* An empty text is blank, and no item is None.                                 *)
ItemsAreItems == "" \in BlankItem /\ \A kind, row : OfWorkspace!Item(kind, row) # None

ItemsFrom(s) == UNION {{ItemsOfKind(s, k)[i] : i \in DOMAIN ItemsOfKind(s, k)} : k \in 1 .. 4}

(* The items of a source are those of its rows.                               *)
LEMMA ItemsAre ==
  ASSUME NEW s, WorkspaceSource(s)
  PROVE  ItemsIn(s) \in Seq(ItemsFrom(s))
<1> DEFINE parts == [k \in 1 .. 4 |-> ItemsOfKind(s, k)]
<1>1. \A k \in 1 .. 4 : ItemsOfKind(s, k) \in Seq(ItemsFrom(s))
  <2> SUFFICES ASSUME NEW k \in 1 .. 4 PROVE ItemsOfKind(s, k) \in Seq(ItemsFrom(s))
    OBVIOUS
  <2> DEFINE rows == s[OfWorkspace!SourceKinds[k]]
             own == ItemsOfKind(s, k)
  <2>1. PICK n \in Nat : rows = [i \in 1 .. n |-> rows[i]]
    BY DEF WorkspaceSource, Listed
  <2>2. DOMAIN rows = 1 .. n
    BY <2>1
  <2>3. own = [i \in 1 .. n |-> OfWorkspace!Item(OfWorkspace!SourceKinds[k], rows[i])]
    BY <2>2, Zenon DEF ItemsOfKind
  <2> HIDE DEF own
  <2>4. DOMAIN own = 1 .. n /\ own = [i \in 1 .. n |-> own[i]]
    BY <2>3
  <2>5. \A i \in 1 .. n : own[i] \in ItemsFrom(s)
    BY <2>4 DEF ItemsFrom, own
  <2>6. own \in [1 .. n -> ItemsFrom(s)]
    BY <2>4, <2>5
  <2>7. own \in Seq(ItemsFrom(s))
    BY <2>6
  <2>8. QED
    BY <2>7 DEF own
<1>2. parts \in Seq(Seq(ItemsFrom(s)))
  <2>1. \A k \in 1 .. 4 : parts[k] \in Seq(ItemsFrom(s))
    BY <1>1
  <2>3. DOMAIN parts = 1 .. 4 /\ parts = [k \in 1 .. 4 |-> parts[k]]
    OBVIOUS
  <2> HIDE DEF parts
  <2>2. QED
    BY <2>1, <2>3
<1>3. QED
  BY <1>2, FlattenType DEF ItemsIn

(* What the parser makes of a source it does not refuse.                      *)
LEMMA WorkspaceParse ==
  ASSUME NEW s, OfWorkspace!Parse(s) # None
  PROVE  /\ OfWorkspace!Parse(s) = OfWorkspace!ById(ItemsIn(s))
         /\ ItemsIn(s) # <<>> /\ OfWorkspace!DistinctIds(ItemsIn(s))
         /\ \A i \in DOMAIN ItemsIn(s) :
                {ItemsIn(s)[i].item_id, ItemsIn(s)[i].summary} \cap (BlankItem \cup LongItem) = {}
<1>1. OfWorkspace!Parse(s) # None => ItemsIn(s) # <<>> /\ OfWorkspace!DistinctIds(ItemsIn(s))
  BY SameCommon, Zenon DEF OfWorkspace!Parse, ItemsIn, ItemsOfKind
<1>2. OfWorkspace!Parse(s) # None => OfWorkspace!Parse(s) = OfWorkspace!ById(ItemsIn(s))
  BY SameCommon, Zenon DEF OfWorkspace!Parse, ItemsIn, ItemsOfKind
<1>3. OfWorkspace!Parse(s) # None =>
        \A i \in DOMAIN ItemsIn(s) :
            {ItemsIn(s)[i].item_id, ItemsIn(s)[i].summary} \cap (BlankItem \cup LongItem) = {}
  BY SameCommon, Zenon DEF OfWorkspace!Parse, ItemsIn, ItemsOfKind
<1>4. QED
  BY <1>1, <1>2, <1>3

(* A table of items has them under their ids.                                 *)
LEMMA ByIdIs ==
  ASSUME NEW records, Listed(records)
  PROVE  LET table == OfWorkspace!ById(records)
         IN  /\ table = [id \in DOMAIN table |-> table[id]]
             /\ DOMAIN table = {records[i].item_id : i \in DOMAIN records} /\ IsFiniteSet(DOMAIN table)
             /\ \A id \in DOMAIN table :
                    table[id].item_id = id /\ \E i \in DOMAIN records : table[id] = records[i]
<1> DEFINE ids == {records[i].item_id : i \in DOMAIN records}
           Nth(id) == CHOOSE i \in DOMAIN records : records[i].item_id = id
           table == OfWorkspace!ById(records)
<1>1. table = [id \in ids |-> records[Nth(id)]]
  BY Zenon DEF OfWorkspace!ById
<1>2. \A id \in ids : Nth(id) \in DOMAIN records /\ records[Nth(id)].item_id = id
  OBVIOUS
<1> HIDE DEF table, Nth
<1>3. DOMAIN table = ids /\ \A id \in ids : table[id] = records[Nth(id)]
  BY <1>1
<1>4. IsFiniteSet(ids)
  <2>1. PICK n \in Nat : records = [i \in 1 .. n |-> records[i]]
    BY DEF Listed
  <2>2. IsFiniteSet(1 .. n) /\ DOMAIN records = 1 .. n
    BY <2>1, FS_Interval
  <2> DEFINE f == [i \in 1 .. n |-> records[i].item_id]
  <2>3. f \in Surjection(1 .. n, ids)
    BY <2>2 DEF Surjection
  <2>4. QED
    BY <2>2, <2>3, FS_Surjection
<1>5. QED
  BY <1>1, <1>2, <1>3, <1>4, Zenon DEF table

(* What a run of Workspace Tasks works on.                                      *)
WorkspaceState(items) ==
    /\ IsFiniteSet(DOMAIN items) /\ items = [id \in DOMAIN items |-> items[id]]
    /\ \A id \in DOMAIN items : items[id].item_id = id /\ items[id] # None

(* A state that is sorted and read again is the same state.                   *)
LEMMA SortedReadsBack ==
  ASSUME NEW items, WorkspaceState(items)
  PROVE  LET rows == OfWorkspace!Sorted(items)
         IN  /\ Listed(rows) /\ OfWorkspace!DistinctIds(rows) /\ OfWorkspace!ById(rows) = items
             /\ \A i \in DOMAIN rows : \E id \in DOMAIN items : rows[i] = items[id]
             /\ \A id \in DOMAIN items : \E i \in DOMAIN rows : rows[i] = items[id]
             /\ DOMAIN items # {} => rows # <<>>
<1> DEFINE rows == OfWorkspace!Sorted(items)
<1>1. /\ IsFiniteSet(DOMAIN items) /\ items = [id \in DOMAIN items |-> items[id]]
      /\ \A id \in DOMAIN items : items[id].item_id = id
  BY DEF WorkspaceState
<1>2. Ordered(rows, items, DOMAIN items)
  BY <1>1, SortedIsOrdered
<1> HIDE DEF rows
<1>3. PICK n \in Nat : \E e \in [1 .. n -> DOMAIN items] :
        /\ \A i, j \in 1 .. n : e[i] = e[j] => i = j
        /\ \A id \in DOMAIN items : \E i \in 1 .. n : e[i] = id
        /\ rows = [i \in 1 .. n |-> items[e[i]]]
  BY <1>2 DEF Ordered
<1>4. PICK e \in [1 .. n -> DOMAIN items] :
        /\ \A i, j \in 1 .. n : e[i] = e[j] => i = j
        /\ \A id \in DOMAIN items : \E i \in 1 .. n : e[i] = id
        /\ rows = [i \in 1 .. n |-> items[e[i]]]
  BY <1>3
<1>5. /\ DOMAIN rows = 1 .. n /\ rows = [i \in 1 .. n |-> rows[i]]
      /\ \A i \in 1 .. n : rows[i] = items[e[i]] /\ e[i] \in DOMAIN items /\ rows[i].item_id = e[i]
  BY <1>1, <1>4
<1>6. Listed(rows)
  BY <1>5 DEF Listed
<1>7. OfWorkspace!DistinctIds(rows)
  BY <1>4, <1>5 DEF OfWorkspace!DistinctIds
<1>8. {rows[i].item_id : i \in DOMAIN rows} = DOMAIN items
  <2>1. \A i \in 1 .. n : rows[i].item_id \in DOMAIN items
    BY <1>5
  <2>2. \A id \in DOMAIN items : \E i \in 1 .. n : rows[i].item_id = id
    BY <1>4, <1>5
  <2> DEFINE named == {rows[i].item_id : i \in DOMAIN rows}
  <2>3. \A id \in named : id \in DOMAIN items
    BY <1>5, <2>1
  <2>4. \A id \in DOMAIN items : id \in named
    BY <1>5, <2>2
  <2> HIDE DEF named
  <2>5. named = DOMAIN items
    BY <2>3, <2>4
  <2>6. QED
    BY <2>5 DEF named
<1> DEFINE again == OfWorkspace!ById(rows)
<1>9. /\ again = [id \in DOMAIN again |-> again[id]] /\ DOMAIN again = DOMAIN items
      /\ \A id \in DOMAIN again : again[id].item_id = id /\ \E i \in DOMAIN rows : again[id] = rows[i]
  BY <1>6, <1>8, ByIdIs, Zenon
<1> HIDE DEF again
<1>10. \A id \in DOMAIN items : again[id] = items[id]
  <2> SUFFICES ASSUME NEW id \in DOMAIN items PROVE again[id] = items[id]
    OBVIOUS
  <2>1. PICK i \in 1 .. n : again[id] = rows[i]
    BY <1>5, <1>9
  <2>2. e[i] = id
    BY <1>5, <1>9, <2>1
  <2>3. QED
    BY <1>5, <2>1, <2>2
<1>11. again = items
  BY <1>1, <1>9, <1>10
<1>12. \A i \in DOMAIN rows : \E id \in DOMAIN items : rows[i] = items[id]
  BY <1>5
<1>13. DOMAIN items # {} => rows # <<>>
  <2>1. DOMAIN items # {} => DOMAIN rows # {}
    <3> SUFFICES ASSUME NEW id \in DOMAIN items PROVE DOMAIN rows # {}
      OBVIOUS
    <3>1. PICK i \in 1 .. n : e[i] = id
      BY <1>4
    <3>2. QED
      BY <1>5, <3>1
  <2>2. DOMAIN <<>> = {}
    OBVIOUS
  <2>3. QED
    BY <2>1, <2>2, Zenon
<1>14. \A id \in DOMAIN items : \E i \in DOMAIN rows : rows[i] = items[id]
  BY <1>4, <1>5
<1>15. QED
  BY <1>6, <1>7, <1>11, <1>12, <1>13, <1>14 DEF rows, again

(* A kind is a text, and an item is of the kind of its row.                   *)
LEMMA KindsAreTexts ==
  /\ \A k \in 1 .. 4 : OfWorkspace!SourceKinds[k] # ""
  /\ \A kind, row : OfWorkspace!Item(kind, row).kind = kind
<1>1. \A k \in 1 .. 4 : OfWorkspace!SourceKinds[k] # ""
  <2> SUFFICES ASSUME NEW k \in 1 .. 4 PROVE OfWorkspace!SourceKinds[k] # ""
    OBVIOUS
  <2>1. OfWorkspace!SourceKinds[k] \in {"project", "task", "document", "comment"}
    BY DEF OfWorkspace!SourceKinds
  <2>2. "" \notin {"project", "task", "document", "comment"}
    BY Zenon
  <2>3. QED
    BY <2>1, <2>2, Zenon
<1>2. \A kind, row : OfWorkspace!Item(kind, row).kind = kind
  BY DEF OfWorkspace!Item
<1>3. QED
  BY <1>1, <1>2

(* What the parser makes is such a state; only its queries may be empty.      *)
LEMMA WorkspaceStates ==
  ASSUME ItemsAreItems, NEW s, WorkspaceSource(s), OfWorkspace!Parse(s) # None
  PROVE  LET items == OfWorkspace!Parse(s)
         IN  /\ WorkspaceState(items) /\ DOMAIN items # {}
             /\ \A id \in DOMAIN items : OfWorkspace!IsItem(items[id]) <=> items[id].query # ""
<1> DEFINE items == ItemsIn(s)
           table == OfWorkspace!ById(items)
<1>1. /\ OfWorkspace!Parse(s) = table /\ items # <<>>
      /\ \A i \in DOMAIN items : items[i].item_id # "" /\ items[i].summary # ""
  <2>1. /\ OfWorkspace!Parse(s) = table /\ items # <<>>
        /\ \A i \in DOMAIN items : {items[i].item_id, items[i].summary} \cap (BlankItem \cup LongItem) = {}
    BY WorkspaceParse, Zenon
  <2> HIDE DEF items, table
  <2>2. QED
    BY <2>1 DEF ItemsAreItems
<1>2. items \in Seq(ItemsFrom(s))
  BY ItemsAre
<1>3. \A item \in ItemsFrom(s) : item # None /\ item.kind # ""
  <2> SUFFICES ASSUME NEW k \in 1 .. 4, NEW i \in DOMAIN ItemsOfKind(s, k)
               PROVE  ItemsOfKind(s, k)[i] # None /\ ItemsOfKind(s, k)[i].kind # ""
    BY Zenon DEF ItemsFrom
  <2> DEFINE kind == OfWorkspace!SourceKinds[k]
  <2>1. ItemsOfKind(s, k)[i] = OfWorkspace!Item(kind, s[kind][i])
    BY Zenon DEF ItemsOfKind
  <2>2. OfWorkspace!Item(kind, s[kind][i]) # None
    BY Zenon DEF ItemsAreItems
  <2>3. OfWorkspace!Item(kind, s[kind][i]).kind # ""
    BY KindsAreTexts, Zenon
  <2>4. QED
    BY <2>1, <2>2, <2>3, Zenon
<1> HIDE DEF items
<1>4. items = [i \in 1 .. Len(items) |-> items[i]] /\ Len(items) \in Nat
  BY <1>2
<1>5. Listed(items)
  BY <1>4 DEF Listed
<1>6. /\ table = [id \in DOMAIN table |-> table[id]]
      /\ DOMAIN table = {items[i].item_id : i \in DOMAIN items} /\ IsFiniteSet(DOMAIN table)
      /\ \A id \in DOMAIN table :
             table[id].item_id = id /\ \E i \in DOMAIN items : table[id] = items[i]
  BY <1>5, ByIdIs, Zenon
<1> HIDE DEF table
<1>7. \A id \in DOMAIN table :
        /\ table[id] \in ItemsFrom(s)
        /\ table[id].item_id # "" /\ table[id].kind # "" /\ table[id].summary # ""
  <2> SUFFICES ASSUME NEW id \in DOMAIN table
               PROVE  /\ table[id] \in ItemsFrom(s)
                      /\ table[id].item_id # "" /\ table[id].kind # "" /\ table[id].summary # ""
    OBVIOUS
  <2>1. PICK i \in DOMAIN items : table[id] = items[i]
    BY <1>6
  <2>2. items[i] \in ItemsFrom(s)
    BY <1>2
  <2>3. QED
    BY <1>1, <1>3, <2>1, <2>2
<1>8. WorkspaceState(table)
  BY <1>3, <1>6, <1>7 DEF WorkspaceState
<1>9. DOMAIN table # {}
  <2>0. items # <<>>
    BY <1>1, Zenon
  <2>1. 1 \in DOMAIN items
    BY <1>2, <2>0
  <2>2. items[1].item_id \in DOMAIN table
    BY <1>6, <2>1
  <2>3. QED
    BY <2>2
<1>10. \A id \in DOMAIN table : OfWorkspace!IsItem(table[id]) <=> table[id].query # ""
  BY <1>7, Zenon DEF OfWorkspace!IsItem
<1>11. QED
  BY <1>1, <1>8, <1>9, <1>10

(* A snapshot is opened as the state it was made of, or refused for a query.  *)
LEMMA WorkspaceReopen ==
  ASSUME ItemsAreItems, NEW s, WorkspaceSource(s), OfWorkspace!Parse(s) # None
  PROVE  LET items == OfWorkspace!Parse(s)
             lost == \E id \in DOMAIN items : items[id].query = ""
         IN  OfWorkspace!Reopen(OfWorkspace!Freeze(items)) = IF lost THEN None ELSE items
<1> DEFINE items == OfWorkspace!Parse(s)
           rows == OfWorkspace!Sorted(items)
<1>1. /\ WorkspaceState(items) /\ DOMAIN items # {}
      /\ \A id \in DOMAIN items : OfWorkspace!IsItem(items[id]) <=> items[id].query # ""
  BY WorkspaceStates, Zenon
<1>2. OfWorkspace!Freeze(items) = rows
  BY Zenon DEF OfWorkspace!Freeze
<1> HIDE DEF items
<1>3. /\ OfWorkspace!DistinctIds(rows) /\ OfWorkspace!ById(rows) = items /\ rows # <<>>
      /\ \A i \in DOMAIN rows : \E id \in DOMAIN items : rows[i] = items[id]
      /\ \A id \in DOMAIN items : \E i \in DOMAIN rows : rows[i] = items[id]
  BY <1>1, SortedReadsBack, Zenon
<1> HIDE DEF rows
<1>4. (\A i \in DOMAIN rows : OfWorkspace!IsItem(rows[i])) <=> ~\E id \in DOMAIN items : items[id].query = ""
  BY <1>1, <1>3, Zenon
<1>5. OfWorkspace!Reopen(rows) = IF \E id \in DOMAIN items : items[id].query = "" THEN None ELSE items
  BY <1>3, <1>4, Zenon DEF OfWorkspace!Reopen
<1>6. QED
  BY <1>2, <1>5, Zenon DEF items

--------------------------------------------------------------------------------
(* Workspace Tasks: what the slots are for. *)

WorkspaceSpecs == {OfWorkspace!TaskSpecs[i] : i \in 1 .. 9}
ItemsOf(items) == {items[id] : id \in DOMAIN items}
(* The items a spec may aim at, None for the one that searches for nothing.     *)
TargetsOf(items, spec) ==
    IF spec.route = "missing" THEN {None}
    ELSE {item \in ItemsOf(items) : item.kind = spec.target \/ spec.fallback}
WorkspacePairs(items) ==
    UNION {{<<spec, target>> : target \in TargetsOf(items, spec)} : spec \in WorkspaceSpecs}
WorkspaceSlots(items) == {OfWorkspace!SlotOf(items, pair) : pair \in WorkspacePairs(items)}

(* The nine kinds of task.                                                    *)
LEMMA WorkspaceSpecsAre ==
  /\ DOMAIN OfWorkspace!TaskSpecs = 1 .. 9
  /\ \A i \in 1 .. 9 : OfWorkspace!TaskSpecs[i].index \in Nat
  /\ \A spec \in WorkspaceSpecs :
      /\ spec.action \in {"search_workspace_items", "create_workspace_task", "add_workspace_comment"}
      /\ spec.route = "missing" => spec.action = "search_workspace_items"
      /\ spec.action = "search_workspace_items" => spec.constraint = "none"
      /\ spec.action # "search_workspace_items" => spec.constraint \in {"open", "exact"}
      /\ \A other \in WorkspaceSpecs : other.kind = spec.kind => other = spec
      /\ \E i \in 1 .. 9 : OfWorkspace!TaskSpecs[i] = spec
<1>1. DOMAIN OfWorkspace!TaskSpecs = 1 .. 9 /\ \A i \in 1 .. 9 : OfWorkspace!TaskSpecs[i].index \in Nat
  BY DEF OfWorkspace!TaskSpecs, OfWorkspace!ItemTask
<1>2. \A spec \in WorkspaceSpecs :
      /\ spec.action \in {"search_workspace_items", "create_workspace_task", "add_workspace_comment"}
      /\ spec.route = "missing" => spec.action = "search_workspace_items"
      /\ spec.action = "search_workspace_items" => spec.constraint = "none"
      /\ spec.action # "search_workspace_items" => spec.constraint \in {"open", "exact"}
  BY DEF WorkspaceSpecs, OfWorkspace!TaskSpecs, OfWorkspace!ItemTask
<1>3. \A i, j \in 1 .. 9 : OfWorkspace!TaskSpecs[i].kind = OfWorkspace!TaskSpecs[j].kind => i = j
  BY DEF OfWorkspace!TaskSpecs, OfWorkspace!ItemTask
<1>4. \A spec, other \in WorkspaceSpecs : other.kind = spec.kind => other = spec
  BY <1>3 DEF WorkspaceSpecs
<1>5. QED
  BY <1>1, <1>2, <1>4 DEF WorkspaceSpecs

(* What is left of a sequence has its elements in the set that the test says. *)
LEMMA Kept ==
  ASSUME NEW seq, NEW T, seq \in Seq(T), NEW passes, NEW U,
         \A i \in DOMAIN seq : passes[i] => seq[i] \in U
  PROVE  FlattenSeq([i \in DOMAIN seq |-> IF passes[i] THEN <<seq[i]>> ELSE <<>>]) \in Seq(U)
<1> DEFINE parts == [i \in DOMAIN seq |-> IF passes[i] THEN <<seq[i]>> ELSE <<>>]
<1>1. DOMAIN seq = 1 .. Len(seq) /\ Len(seq) \in Nat
  OBVIOUS
<1>2. \A i \in DOMAIN seq : parts[i] \in Seq(U)
  <2> SUFFICES ASSUME NEW i \in DOMAIN seq PROVE parts[i] \in Seq(U)
    OBVIOUS
  <2>1. CASE passes[i]
    <3>1. seq[i] \in U /\ parts[i] = <<seq[i]>>
      BY <2>1
    <3> HIDE DEF parts
    <3>2. QED
      BY <3>1
  <2>2. CASE ~passes[i]
    <3>1. parts[i] = <<>>
      BY <2>2
    <3> HIDE DEF parts
    <3>2. QED
      BY <3>1
  <2>3. QED
    BY <2>1, <2>2
<1>3. parts = [i \in 1 .. Len(seq) |-> parts[i]]
  BY <1>1
<1> HIDE DEF parts
<1>4. parts \in Seq(Seq(U))
  BY <1>1, <1>2, <1>3
<1>5. FlattenSeq(parts) \in Seq(U)
  BY <1>4, FlattenType
<1>6. QED
  BY <1>5 DEF parts

(* The items of a kind.                                                       *)
LEMMA OfKindAre ==
  ASSUME NEW items, WorkspaceState(items), NEW kind
  PROVE  OfWorkspace!OfKind(items, kind) \in Seq({item \in ItemsOf(items) : item.kind = kind})
<1> DEFINE rows == OfWorkspace!Sorted(items)
           passes == [i \in DOMAIN rows |-> rows[i].kind = kind]
           U == {item \in ItemsOf(items) : item.kind = kind}
<1>1. OfWorkspace!OfKind(items, kind)
        = FlattenSeq([i \in DOMAIN rows |-> IF rows[i].kind = kind THEN <<rows[i]>> ELSE <<>>])
  BY SameCommon, Zenon DEF OfWorkspace!OfKind, OfWorkspace!Those
<1>2. Listed(rows) /\ \A i \in DOMAIN rows : rows[i] \in ItemsOf(items)
  BY SortedReadsBack DEF ItemsOf
<1> HIDE DEF rows
<1>3. rows \in Seq(ItemsOf(items))
  <2>1. PICK n \in Nat : rows = [i \in 1 .. n |-> rows[i]]
    BY <1>2 DEF Listed
  <2>2. QED
    BY <1>2, <2>1
<1>4. \A i \in DOMAIN rows : passes[i] = (rows[i].kind = kind)
  OBVIOUS
<1>5. [i \in DOMAIN rows |-> IF rows[i].kind = kind THEN <<rows[i]>> ELSE <<>>]
        = [i \in DOMAIN rows |-> IF passes[i] THEN <<rows[i]>> ELSE <<>>]
  BY <1>4
<1>6. \A i \in DOMAIN rows : passes[i] => rows[i] \in U
  BY <1>2
<1> HIDE DEF passes, U
<1>7. FlattenSeq([i \in DOMAIN rows |-> IF passes[i] THEN <<rows[i]>> ELSE <<>>]) \in Seq(U)
  BY <1>3, <1>6, Kept
<1>8. QED
  BY <1>1, <1>5, <1>7 DEF U

(* The candidates of a spec are items it may aim at.                          *)
LEMMA CandidatesAre ==
  ASSUME NEW items, WorkspaceState(items), NEW spec
  PROVE  OfWorkspace!AnyTargets(items, spec) \in Seq(TargetsOf(items, spec))
<1> DEFINE Own(kind) == OfWorkspace!OfKind(items, kind)
           S == ItemsOf(items)
<1>1. CASE spec.route = "missing"
  <2>1. OfWorkspace!AnyTargets(items, spec) = <<None>>
    BY <1>1, Zenon DEF OfWorkspace!AnyTargets
  <2>2. TargetsOf(items, spec) = {None}
    BY <1>1, Zenon DEF TargetsOf
  <2>3. QED
    BY <2>1, <2>2
<1>2. CASE spec.route # "missing"
  <2>1. OfWorkspace!AnyTargets(items, spec) =
          IF Own(spec.target) # <<>> \/ ~spec.fallback THEN Own(spec.target)
          ELSE Own("document") \o Own("project") \o Own("task") \o Own("comment")
    BY <1>2, Zenon DEF OfWorkspace!AnyTargets, OfWorkspace!Candidates
  <2>2. TargetsOf(items, spec) = {item \in S : item.kind = spec.target \/ spec.fallback}
    BY <1>2, Zenon DEF TargetsOf
  <2>3. \A kind : Own(kind) \in Seq({item \in S : item.kind = kind})
    BY OfKindAre
  <2> HIDE DEF Own, S
  <2>4. CASE Own(spec.target) # <<>> \/ ~spec.fallback
    <3>1. Own(spec.target) \in Seq({item \in S : item.kind = spec.target})
      BY <2>3
    <3>2. {item \in S : item.kind = spec.target} \subseteq TargetsOf(items, spec)
      BY <2>2
    <3> DEFINE narrow == {item \in S : item.kind = spec.target}
               wide == TargetsOf(items, spec)
               own == Own(spec.target)
    <3> HIDE DEF narrow, wide, own
    <3>3. own \in Seq(wide)
      <4>1. own \in Seq(narrow) /\ narrow \subseteq wide
        BY <3>1, <3>2 DEF own, narrow, wide
      <4>2. QED
        BY <4>1
    <3>4. QED
      BY <2>1, <2>4, <3>3 DEF own, wide
  <2>5. CASE ~(Own(spec.target) # <<>> \/ ~spec.fallback)
    <3>1. TargetsOf(items, spec) = S
      BY <2>2, <2>5
    <3>2. \A kind : Own(kind) \in Seq(S)
      <4> SUFFICES ASSUME NEW kind PROVE Own(kind) \in Seq(S)
        OBVIOUS
      <4> DEFINE narrow == {item \in S : item.kind = kind}
                 own == Own(kind)
      <4>1. own \in Seq(narrow) /\ narrow \subseteq S
        BY <2>3
      <4> HIDE DEF narrow, own
      <4>2. own \in Seq(S)
        BY <4>1
      <4>3. QED
        BY <4>2 DEF own
    <3> DEFINE a == Own("document")
               b == Own("project")
               c == Own("task")
               d == Own("comment")
    <3>3. a \in Seq(S) /\ b \in Seq(S) /\ c \in Seq(S) /\ d \in Seq(S)
      BY <3>2
    <3>4. OfWorkspace!AnyTargets(items, spec) = a \o b \o c \o d
      BY <2>1, <2>5, Zenon
    <3> HIDE DEF a, b, c, d
    <3>5. a \o b \in Seq(S)
      BY <3>3, ConcatProperties
    <3>6. a \o b \o c \in Seq(S)
      BY <3>3, <3>5, ConcatProperties
    <3>7. a \o b \o c \o d \in Seq(S)
      BY <3>3, <3>6, ConcatProperties
    <3>8. QED
      BY <3>1, <3>4, <3>7
  <2>6. QED
    BY <2>4, <2>5
<1>3. QED
  BY <1>1, <1>2

(* So are its targets.                                                        *)
LEMMA TargetsAre ==
  ASSUME NEW items, WorkspaceState(items), NEW spec
  PROVE  OfWorkspace!Targets(items, spec) \in Seq(TargetsOf(items, spec))
<1>1. CASE spec.route = "missing"
  <2>1. OfWorkspace!Targets(items, spec) = <<None>>
    BY <1>1, Zenon DEF OfWorkspace!Targets
  <2>2. TargetsOf(items, spec) = {None}
    BY <1>1, Zenon DEF TargetsOf
  <2>3. QED
    BY <2>1, <2>2
<1>2. CASE spec.route # "missing"
  <2> DEFINE rows == OfWorkspace!Candidates(items, spec)
             passes == [i \in DOMAIN rows |-> OfWorkspace!QueryIsUnique(rows[i], items)]
             U == TargetsOf(items, spec)
  <2>1. OfWorkspace!Targets(items, spec)
          = FlattenSeq([i \in DOMAIN rows |-> IF OfWorkspace!QueryIsUnique(rows[i], items) THEN <<rows[i]>> ELSE <<>>])
    BY <1>2, SameCommon, Zenon DEF OfWorkspace!Targets, OfWorkspace!Those
  <2>2. OfWorkspace!AnyTargets(items, spec) = rows
    BY <1>2, Zenon DEF OfWorkspace!AnyTargets
  <2>3. rows \in Seq(U)
    BY <2>2, CandidatesAre
  <2> HIDE DEF rows, U
  <2>4. \A i \in DOMAIN rows : passes[i] = OfWorkspace!QueryIsUnique(rows[i], items)
    OBVIOUS
  <2>5. [i \in DOMAIN rows |-> IF OfWorkspace!QueryIsUnique(rows[i], items) THEN <<rows[i]>> ELSE <<>>]
          = [i \in DOMAIN rows |-> IF passes[i] THEN <<rows[i]>> ELSE <<>>]
    BY <2>4
  <2>6. \A i \in DOMAIN rows : passes[i] => rows[i] \in U
    BY <2>3
  <2> HIDE DEF passes
  <2>7. FlattenSeq([i \in DOMAIN rows |-> IF passes[i] THEN <<rows[i]>> ELSE <<>>]) \in Seq(U)
    BY <2>3, <2>6, Kept
  <2>8. QED
    BY <2>1, <2>5, <2>7 DEF U
<1>3. QED
  BY <1>1, <1>2

--------------------------------------------------------------------------------
(* Workspace Tasks: an id stands for one slot. *)

PairAt(targets, s, n) ==
    IF n \in DOMAIN targets[s] THEN <<<<OfWorkspace!TaskSpecs[s], targets[s][n]>>>> ELSE <<>>
AimedTargets(items, targets) ==
    /\ targets = [s \in 1 .. 9 |-> targets[s]]
    /\ \A s \in 1 .. 9 : targets[s] \in Seq(TargetsOf(items, OfWorkspace!TaskSpecs[s]))

(* The n-th target of a spec, if there is one, makes a pair.                  *)
LEMMA PairAtIs ==
  ASSUME NEW items, NEW targets, AimedTargets(items, targets), NEW s \in 1 .. 9, NEW n
  PROVE  PairAt(targets, s, n) \in Seq(WorkspacePairs(items))
<1> DEFINE spec == OfWorkspace!TaskSpecs[s]
<1>1. spec \in WorkspaceSpecs
  BY DEF WorkspaceSpecs
<1>2. targets[s] \in Seq(TargetsOf(items, spec))
  BY DEF AimedTargets
<1>3. CASE n \in DOMAIN targets[s]
  <2> DEFINE target == targets[s][n]
             pair == <<spec, target>>
  <2>1. target \in TargetsOf(items, spec)
    BY <1>2, <1>3
  <2>2. PairAt(targets, s, n) = <<pair>>
    BY <1>3, Zenon DEF PairAt
  <2> HIDE DEF target, spec
  <2>3. pair \in WorkspacePairs(items)
    BY <1>1, <2>1 DEF WorkspacePairs
  <2> HIDE DEF pair
  <2>4. QED
    BY <2>2, <2>3
<1>4. CASE n \notin DOMAIN targets[s]
  <2>1. PairAt(targets, s, n) = <<>>
    BY <1>4, Zenon DEF PairAt
  <2>2. QED
    BY <2>1
<1>5. QED
  BY <1>3, <1>4

(* Nine sequences of pairs make one.                                          *)
LEMMA NineParts ==
  ASSUME NEW T, NEW parts, DOMAIN parts = 1 .. 9, parts = [s \in 1 .. 9 |-> parts[s]],
         \A s \in 1 .. 9 : parts[s] \in Seq(T)
  PROVE  FlattenSeq(parts) \in Seq(T)
<1>1. parts \in Seq(Seq(T))
  OBVIOUS
<1>2. QED
  BY <1>1, FlattenType

(* The greatest of nine numbers is a number.                                  *)
LEMMA MaxOfNine ==
  ASSUME NEW f \in [1 .. 9 -> Nat]
  PROVE  OfWorkspace!Max({f[s] : s \in 1 .. 9}) \in Nat
<1> DEFINE S == {f[s] : s \in 1 .. 9}
           above == {b \in Nat : \A s \in 1 .. 9 : f[s] <= b}
<1>1. f[1] + f[2] + f[3] + f[4] + f[5] + f[6] + f[7] + f[8] + f[9] \in above
  OBVIOUS
<1>2. PICK b \in above : \A c \in above : b <= c
  <2>1. above \in SUBSET Nat /\ above # {}
    BY <1>1
  <2> HIDE DEF above
  <2>2. QED
    BY <2>1, LeastExists
<1>3. b \in Nat /\ \A s \in 1 .. 9 : f[s] <= b
  BY <1>2
<1>4. b \in S
  <2> SUFFICES ASSUME b \notin S PROVE FALSE
    OBVIOUS
  <2>1. \A s \in 1 .. 9 : f[s] \in Nat /\ f[s] # b
    OBVIOUS
  <2>2. f[1] \in Nat /\ f[1] <= b /\ f[1] # b
    BY <1>3, <2>1
  <2>3. b - 1 \in Nat /\ \A s \in 1 .. 9 : f[s] <= b - 1
    BY <1>3, <2>1, <2>2
  <2>4. b - 1 \in above
    BY <2>3
  <2> HIDE DEF above
  <2>5. b <= b - 1
    BY <1>2, <2>4
  <2>6. QED
    BY <1>3, <2>5
<1>5. S \in SUBSET Nat /\ \A c \in S : b >= c
  BY <1>3
<1> HIDE DEF S
<1>6. \E x \in S : \A y \in S : x >= y
  BY <1>4, <1>5
<1>7. OfWorkspace!Max(S) \in S
  BY <1>6 DEF OfWorkspace!Max
<1>8. QED
  BY <1>5, <1>7 DEF S

(* In both scopes what is listed are pairs of a spec and a target of it.      *)
LEMMA SpecsOverAre ==
  ASSUME NEW items, NEW targets, AimedTargets(items, targets)
  PROVE  OfWorkspace!SpecsOver(targets) \in Seq(WorkspacePairs(items))
<1> DEFINE specs == OfWorkspace!TaskSpecs
           lengths == [s \in 1 .. 9 |-> Len(targets[s])]
           most == OfWorkspace!Max({lengths[s] : s \in 1 .. 9})
           Round(n) == FlattenSeq([s \in 1 .. 9 |-> PairAt(targets, s, n)])
           Own(s) == OfWorkspace!Lesser(specs[s].index + 1, Len(targets[s]))
<1>1. DOMAIN specs = 1 .. 9
  BY WorkspaceSpecsAre
<1>2. OfWorkspace!SpecsOver(targets) =
        IF TargetScope = "all_unique"
        THEN FlattenSeq([n \in 1 .. OfWorkspace!Max({Len(targets[s]) : s \in 1 .. 9}) |-> Round(n)])
        ELSE FlattenSeq([s \in 1 .. 9 |-> PairAt(targets, s, Own(s))])
  BY <1>1, SameCommon, Zenon DEF OfWorkspace!SpecsOver, PairAt
<1>3. most \in Nat
  <2>1. lengths \in [1 .. 9 -> Nat]
    <3>1. \A s \in 1 .. 9 : Len(targets[s]) \in Nat
      BY DEF AimedTargets
    <3>2. QED
      BY <3>1
  <2> HIDE DEF lengths
  <2>2. QED
    BY <2>1, MaxOfNine
<1>4. {lengths[s] : s \in 1 .. 9} = {Len(targets[s]) : s \in 1 .. 9}
  OBVIOUS
<1>5. \A s \in 1 .. 9 : \A n : PairAt(targets, s, n) \in Seq(WorkspacePairs(items))
  BY PairAtIs
<1> HIDE DEF lengths, Own
<1>6. \A n : Round(n) \in Seq(WorkspacePairs(items))
  <2> SUFFICES ASSUME NEW n PROVE Round(n) \in Seq(WorkspacePairs(items))
    OBVIOUS
  <2> DEFINE parts == [s \in 1 .. 9 |-> PairAt(targets, s, n)]
  <2>1. DOMAIN parts = 1 .. 9 /\ parts = [s \in 1 .. 9 |-> parts[s]] /\ \A s \in 1 .. 9 : parts[s] \in Seq(WorkspacePairs(items))
    BY <1>5
  <2> HIDE DEF parts
  <2>2. FlattenSeq(parts) \in Seq(WorkspacePairs(items))
    BY <2>1, NineParts
  <2>3. QED
    BY <2>2 DEF parts
<1>7. FlattenSeq([s \in 1 .. 9 |-> PairAt(targets, s, Own(s))]) \in Seq(WorkspacePairs(items))
  <2> DEFINE parts == [s \in 1 .. 9 |-> PairAt(targets, s, Own(s))]
  <2>1. DOMAIN parts = 1 .. 9 /\ parts = [s \in 1 .. 9 |-> parts[s]] /\ \A s \in 1 .. 9 : parts[s] \in Seq(WorkspacePairs(items))
    BY <1>5
  <2> HIDE DEF parts
  <2>2. FlattenSeq(parts) \in Seq(WorkspacePairs(items))
    BY <2>1, NineParts
  <2>3. QED
    BY <2>2 DEF parts
<1> HIDE DEF Round, most
<1>8. FlattenSeq([n \in 1 .. most |-> Round(n)]) \in Seq(WorkspacePairs(items))
  <2>1. [n \in 1 .. most |-> Round(n)] \in Seq(Seq(WorkspacePairs(items)))
    BY <1>3, <1>6
  <2>2. QED
    BY <2>1, FlattenType
<1>9. QED
  <2>1. most = OfWorkspace!Max({Len(targets[s]) : s \in 1 .. 9})
    BY <1>4, Zenon DEF most
  <2>2. CASE TargetScope = "all_unique"
    BY <1>2, <1>8, <2>1, <2>2, Zenon
  <2>3. CASE TargetScope # "all_unique"
    BY <1>2, <1>7, <2>3, Zenon
  <2>4. QED
    BY <2>2, <2>3

(* What the slots are made of.                                                *)
LEMMA AvailableSpecsAre ==
  ASSUME NEW items, WorkspaceState(items)
  PROVE  OfWorkspace!AvailableSpecs(items) \in Seq(WorkspacePairs(items))
<1> DEFINE targets == OfWorkspace!AllTargets(items)
<1>1. OfWorkspace!AvailableSpecs(items) = CHOOSE result \in {OfWorkspace!SpecsOver(v) : v \in {targets}} : TRUE
  BY Zenon DEF OfWorkspace!AvailableSpecs, OfWorkspace!With
<1>2. targets = [s \in 1 .. 9 |-> OfWorkspace!Targets(items, OfWorkspace!TaskSpecs[s])]
  BY WorkspaceSpecsAre, Zenon DEF OfWorkspace!AllTargets
<1> HIDE DEF targets
<1>3. AimedTargets(items, targets)
  <2>1. \A s \in 1 .. 9 : targets[s] \in Seq(TargetsOf(items, OfWorkspace!TaskSpecs[s]))
    BY <1>2, TargetsAre
  <2>2. targets = [s \in 1 .. 9 |-> targets[s]]
    BY <1>2
  <2>3. QED
    BY <2>1, <2>2, Zenon DEF AimedTargets
<1>4. OfWorkspace!AvailableSpecs(items) = OfWorkspace!SpecsOver(targets)
  <2>1. \A x : (CHOOSE result \in {x} : TRUE) = x
    OBVIOUS
  <2>2. {OfWorkspace!SpecsOver(v) : v \in {targets}} = {OfWorkspace!SpecsOver(targets)}
    OBVIOUS
  <2>3. QED
    BY <1>1, <2>1, <2>2, Zenon
<1>5. QED
  BY <1>3, <1>4, SpecsOverAre

(* What an id is looked for among.                                            *)
LEMMA AnySpecsAre ==
  ASSUME NEW items, WorkspaceState(items)
  PROVE  OfWorkspace!AnySpecs(items) \in Seq(WorkspacePairs(items))
<1> DEFINE specs == OfWorkspace!TaskSpecs
           Aimed(s) == OfWorkspace!AnyTargets(items, specs[s])
           Made(s, targets) == [i \in DOMAIN targets |-> <<specs[s], targets[i]>>]
           parts == [s \in 1 .. 9 |-> CHOOSE result \in {Made(s, v) : v \in {Aimed(s)}} : TRUE]
<1>1. OfWorkspace!AnySpecs(items) = FlattenSeq(parts)
  BY WorkspaceSpecsAre, SameCommon, Zenon DEF OfWorkspace!AnySpecs, OfWorkspace!With
<1>2. \A s \in 1 .. 9 : parts[s] = Made(s, Aimed(s))
  <2> HIDE DEF Made, Aimed
  <2>1. \A x : (CHOOSE result \in {x} : TRUE) = x
    OBVIOUS
  <2>2. \A s : {Made(s, v) : v \in {Aimed(s)}} = {Made(s, Aimed(s))}
    OBVIOUS
  <2>3. \A s \in 1 .. 9 : parts[s] = CHOOSE result \in {Made(s, v) : v \in {Aimed(s)}} : TRUE
    OBVIOUS
  <2> HIDE DEF parts
  <2>4. QED
    BY <2>1, <2>2, <2>3, Zenon
<1>3. DOMAIN parts = 1 .. 9 /\ parts = [s \in 1 .. 9 |-> parts[s]]
  OBVIOUS
<1> HIDE DEF parts
<1>4. \A s \in 1 .. 9 : parts[s] \in Seq(WorkspacePairs(items))
  <2> SUFFICES ASSUME NEW s \in 1 .. 9 PROVE parts[s] \in Seq(WorkspacePairs(items))
    OBVIOUS
  <2> DEFINE spec == specs[s]
             targets == Aimed(s)
  <2>1. targets \in Seq(TargetsOf(items, spec)) /\ spec \in WorkspaceSpecs
    BY CandidatesAre DEF WorkspaceSpecs
  <2>2. parts[s] = [i \in DOMAIN targets |-> <<spec, targets[i]>>]
    BY <1>2
  <2> HIDE DEF spec, targets
  <2>3. DOMAIN targets = 1 .. Len(targets) /\ Len(targets) \in Nat
    BY <2>1
  <2>4. \A i \in DOMAIN targets : <<spec, targets[i]>> \in WorkspacePairs(items)
    BY <2>1 DEF WorkspacePairs
  <2>5. [i \in DOMAIN targets |-> <<spec, targets[i]>>] \in Seq(WorkspacePairs(items))
    <3> DEFINE Pair(i) == <<spec, targets[i]>>
    <3> HIDE DEF Pair
    <3>1. \A i \in DOMAIN targets : Pair(i) \in WorkspacePairs(items)
      BY <2>4 DEF Pair
    <3>2. [i \in DOMAIN targets |-> Pair(i)] \in Seq(WorkspacePairs(items))
      BY <2>3, <3>1
    <3>3. QED
      BY <3>2 DEF Pair
  <2>6. QED
    BY <2>2, <2>5
<1>5. QED
  BY <1>1, <1>3, <1>4, NineParts

--------------------------------------------------------------------------------
(* Every slot is of a spec and a target of it.                                *)
LEMMA WorkspaceSlotsAre ==
  ASSUME NEW items, WorkspaceState(items)
  PROVE  OfWorkspace!Slots(items) \in Seq(WorkspaceSlots(items))
<1> DEFINE pairs == OfWorkspace!AvailableSpecs(items)
           Slot(pair) == OfWorkspace!SlotOf(items, pair)
<1>1. pairs \in Seq(WorkspacePairs(items))
  BY AvailableSpecsAre
<1>2. OfWorkspace!Slots(items) = [i \in DOMAIN pairs |-> Slot(pairs[i])]
  BY Zenon DEF OfWorkspace!Slots
<1>3. \A pair \in WorkspacePairs(items) : Slot(pair) \in WorkspaceSlots(items)
  BY DEF WorkspaceSlots
<1> HIDE DEF pairs, Slot
<1>4. DOMAIN pairs = 1 .. Len(pairs) /\ Len(pairs) \in Nat /\ \A i \in DOMAIN pairs : pairs[i] \in WorkspacePairs(items)
  BY <1>1
<1>5. [i \in DOMAIN pairs |-> Slot(pairs[i])] \in Seq(WorkspaceSlots(items))
  BY <1>3, <1>4
<1>6. QED
  BY <1>2, <1>5

(* An id is of one spec and one target.                                         *)
LEMMA WorkspaceIdsDiffer ==
  ASSUME NEW items, WorkspaceState(items), NEW slot \in WorkspaceSlots(items),
         NEW other \in WorkspaceSlots(items), other.id = slot.id
  PROVE  other = slot
<1> DEFINE missing == OfWorkspace!MissingQuery(items)
           Second(target) == IF target = None THEN missing ELSE target
<1>1. \A s \in WorkspaceSlots(items) :
        \E spec \in WorkspaceSpecs : \E target \in TargetsOf(items, spec) :
            s = [id |-> <<spec.kind, Second(target)>>, spec |-> spec, target |-> target]
  <2>1. \A spec, target :
          OfWorkspace!SlotOf(items, <<spec, target>>)
            = [id |-> <<spec.kind, Second(target)>>, spec |-> spec, target |-> target]
    BY DEF OfWorkspace!SlotOf, OfWorkspace!SlotId
  <2> HIDE DEF Second
  <2>2. SUFFICES ASSUME NEW s \in WorkspaceSlots(items)
                 PROVE  \E spec \in WorkspaceSpecs : \E target \in TargetsOf(items, spec) :
                            s = [id |-> <<spec.kind, Second(target)>>, spec |-> spec, target |-> target]
    OBVIOUS
  <2>3. PICK pair \in WorkspacePairs(items) : s = OfWorkspace!SlotOf(items, pair)
    BY DEF WorkspaceSlots
  <2>4. PICK spec \in WorkspaceSpecs : pair \in {<<spec, target>> : target \in TargetsOf(items, spec)}
    BY DEF WorkspacePairs
  <2>5. PICK target \in TargetsOf(items, spec) : pair = <<spec, target>>
    BY <2>4
  <2>6. s = [id |-> <<spec.kind, Second(target)>>, spec |-> spec, target |-> target]
    BY <2>1, <2>3, <2>5, Zenon
  <2>7. QED
    BY <2>6, Zenon
<1>2. PICK a \in WorkspaceSpecs : \E target \in TargetsOf(items, a) :
            slot = [id |-> <<a.kind, Second(target)>>, spec |-> a, target |-> target]
  BY <1>1, Zenon
<1>3. PICK x \in TargetsOf(items, a) : slot = [id |-> <<a.kind, Second(x)>>, spec |-> a, target |-> x]
  BY <1>2, Zenon
<1>4. PICK b \in WorkspaceSpecs : \E target \in TargetsOf(items, b) :
            other = [id |-> <<b.kind, Second(target)>>, spec |-> b, target |-> target]
  BY <1>1, Zenon
<1>5. PICK y \in TargetsOf(items, b) : other = [id |-> <<b.kind, Second(y)>>, spec |-> b, target |-> y]
  BY <1>4, Zenon
<1>6. <<b.kind, Second(y)>> = <<a.kind, Second(x)>>
  <2>1. slot.id = <<a.kind, Second(x)>>
    BY <1>3
  <2>2. other.id = <<b.kind, Second(y)>>
    BY <1>5
  <2>3. QED
    BY <2>1, <2>2, Zenon
<1>7. b.kind = a.kind /\ Second(y) = Second(x)
  <2>1. \A u, v, w, z : <<u, v>> = <<w, z>> => u = w /\ v = z
    OBVIOUS
  <2>2. QED
    BY <1>6, <2>1, Zenon
<1>8. b = a
  BY <1>7, WorkspaceSpecsAre
<1>9. y = x
  <2>1. CASE a.route = "missing"
    BY <1>8, <2>1 DEF TargetsOf
  <2>2. CASE a.route # "missing"
    <3>1. x \in ItemsOf(items) /\ y \in ItemsOf(items)
      BY <1>8, <2>2 DEF TargetsOf
    <3>2. x # None /\ y # None
      BY <3>1 DEF ItemsOf, WorkspaceState
    <3>3. QED
      BY <1>7, <3>2
  <2>3. QED
    BY <2>1, <2>2
<1>10. QED
  BY <1>3, <1>5, <1>8, <1>9, Zenon

(* The slot found under the id of a slot is that slot.                        *)
LEMMA WorkspaceSlotFound ==
  ASSUME NEW items, WorkspaceState(items), NEW slot \in WorkspaceSlots(items)
  PROVE  OfWorkspace!SlotWithId(items, slot.id) # None => OfWorkspace!SlotWithId(items, slot.id) = slot
<1> DEFINE pairs == IF TargetScope = "all_unique" THEN OfWorkspace!AvailableSpecs(items)
                    ELSE OfWorkspace!AnySpecs(items)
           Slot(pair) == OfWorkspace!SlotOf(items, pair)
           Same(p) == {i \in DOMAIN p : Slot(p[i]).id = slot.id}
           Found(p, same) == IF same = {} THEN None ELSE Slot(p[OfWorkspace!First(same)])
           Sought(p) == CHOOSE result \in {Found(p, v) : v \in {Same(p)}} : TRUE
           found == OfWorkspace!SlotWithId(items, slot.id)
<1>1. found = CHOOSE result \in {Sought(v) : v \in {pairs}} : TRUE
  BY Zenon DEF OfWorkspace!SlotWithId, OfWorkspace!With
<1>2. pairs \in Seq(WorkspacePairs(items))
  BY AvailableSpecsAre, AnySpecsAre
<1>3. \A x : (CHOOSE result \in {x} : TRUE) = x
  OBVIOUS
<1>4. \A pair \in WorkspacePairs(items) : Slot(pair) \in WorkspaceSlots(items)
  BY DEF WorkspaceSlots
<1> HIDE DEF pairs, Slot
<1>5. found = Found(pairs, Same(pairs))
  <2> HIDE DEF Found, Same
  <2>1. Sought(pairs) = Found(pairs, Same(pairs))
    <3>1. {Found(pairs, v) : v \in {Same(pairs)}} = {Found(pairs, Same(pairs))}
      OBVIOUS
    <3>2. QED
      BY <1>3, <3>1, Zenon
  <2> HIDE DEF Sought
  <2>2. {Sought(v) : v \in {pairs}} = {Sought(pairs)}
    OBVIOUS
  <2>3. QED
    BY <1>1, <1>3, <2>1, <2>2, Zenon
<1> DEFINE same == Same(pairs)
<1>6. CASE same = {}
  BY <1>5, <1>6
<1>7. CASE same # {}
  <2>1. same \in SUBSET Nat
    BY <1>2
  <2>2. OfWorkspace!First(same) \in same
    <3>1. OfWorkspace!First(same) = CHOOSE i \in same : \A j \in same : i <= j
      BY Zenon DEF OfWorkspace!First
    <3> HIDE DEF same
    <3>2. \E i \in same : \A j \in same : i <= j
      BY <1>7, <2>1, LeastExists
    <3>3. QED
      BY <3>1, <3>2
  <2> DEFINE n == OfWorkspace!First(same)
  <2>3. n \in DOMAIN pairs /\ Slot(pairs[n]).id = slot.id
    BY <2>2
  <2>4. found = Slot(pairs[n])
    BY <1>5, <1>7, Zenon
  <2> HIDE DEF n, found
  <2>5. pairs[n] \in WorkspacePairs(items)
    BY <1>2, <2>3
  <2>6. found \in WorkspaceSlots(items) /\ found.id = slot.id
    BY <1>4, <2>3, <2>4, <2>5
  <2>7. found = slot
    BY <2>6, WorkspaceIdsDiffer
  <2>8. QED
    BY <2>7 DEF found
<1>8. QED
  BY <1>6, <1>7

--------------------------------------------------------------------------------
(* Workspace Tasks: what compiles is what was asked for. *)

(* Past the refusals both mutations share, the proposal binds the item of its slot. *)
LEMMA MutationTests ==
  ASSUME RefusalsHaveReasons, NEW fields, NEW expected, NEW query, NEW kind
  PROVE  /\ Tests(OfWorkspace!MutationRefusals(fields, expected, query, kind))
         /\ Passed(OfWorkspace!MutationRefusals(fields, expected, query, kind)) =>
                /\ OfWorkspace!Get(fields, "condition", None) = "after_item_match"
                /\ OfWorkspace!Get(fields, query, None) = expected[query]
                /\ OfWorkspace!Get(fields, kind, None) = expected[kind]
<1> DEFINE wrong ==
               OfWorkspace!Get(fields, query, None) # expected[query] \/ OfWorkspace!Get(fields, kind, None) # expected[kind]
           checks == <<
    <<"condition" \notin DOMAIN fields, "missing_mutation_authority">>,
    <<OfWorkspace!Get(fields, "condition", None) # "after_item_match", "uncheckable_condition">>,
    <<wrong, "wrong_item_binding">>>>
<1>0. OfWorkspace!MutationRefusals(fields, expected, query, kind) = checks
  BY Zenon DEF OfWorkspace!MutationRefusals
<1> HIDE DEF wrong
<1>1. checks = [i \in 1 .. 3 |-> checks[i]] /\ \A i \in 1 .. 3 : checks[i][2] # None
  BY DEF RefusalsHaveReasons
<1>2. /\ DOMAIN checks = 1 .. 3
      /\ checks[2][1] = (OfWorkspace!Get(fields, "condition", None) # "after_item_match")
      /\ checks[3][1] = wrong
  OBVIOUS
<1> HIDE DEF checks
<1>3. Tests(checks)
  BY <1>1 DEF Tests
<1>4. Passed(checks) => ~checks[2][1] /\ ~checks[3][1]
  <2>1. 2 \in DOMAIN checks /\ 3 \in DOMAIN checks
    BY <1>2
  <2>2. QED
    BY <2>1, Zenon DEF Passed
<1>5. QED
  BY <1>0, <1>2, <1>3, <1>4, Zenon DEF wrong

(* What a task proposal holds, past every refusal.                            *)
LEMMA TaskAccepted ==
  ASSUME RefusalsHaveReasons, NEW fields, NEW task, NEW expected
  PROVE  /\ Tests(OfWorkspace!TaskRefusals(fields, task, expected))
         /\ Passed(OfWorkspace!TaskRefusals(fields, task, expected)) =>
                /\ OfWorkspace!Get(fields, "condition", None) = "after_item_match"
                /\ OfWorkspace!Get(fields, "project_query", None) = expected["project_query"]
                /\ OfWorkspace!Get(fields, "project_kind", None) = expected["project_kind"]
                /\ OfWorkspace!Get(fields, "priority", None) = task.priority
                /\ OfWorkspace!Get(fields, "due_label", None) = task.due_label
                /\ task.constraint = "exact" => OfWorkspace!Get(fields, "title", None) = task.title
                /\ task.constraint # "exact" => OfWorkspace!Get(fields, "task_constraint", None) = "open"
                /\ DOMAIN fields = DOMAIN expected
<1> DEFINE general == OfWorkspace!MutationRefusals(fields, expected, "project_query", "project_kind")
           exact == task.constraint = "exact"
           own == <<
        <<{"priority", "due_label"} \ DOMAIN fields # {}, "missing_mutation_argument">>,
        <<\/ OfWorkspace!Get(fields, "priority", None) # task.priority
          \/ OfWorkspace!Get(fields, "due_label", None) # task.due_label, "unauthorized_task_argument">>,
        <<exact /\ "title" \notin DOMAIN fields, "missing_mutation_argument">>,
        <<exact /\ OfWorkspace!Get(fields, "title", None) # task.title, "unauthorized_task_argument">>,
        <<~exact /\ (OfWorkspace!Get(fields, "task_constraint", None) # "open" \/ "title" \in DOMAIN fields),
          "unsupported_task_title">>,
        <<DOMAIN fields # DOMAIN expected, "unsupported_requested_action">>>>
<1>1. OfWorkspace!TaskRefusals(fields, task, expected) = general \o own
  BY Zenon DEF OfWorkspace!TaskRefusals
<1> HIDE DEF exact
<1>2. own = [i \in 1 .. 6 |-> own[i]] /\ \A i \in 1 .. 6 : own[i][2] # None
  BY DEF RefusalsHaveReasons
<1>3. /\ DOMAIN own = 1 .. 6
      /\ own[2][1] = (\/ OfWorkspace!Get(fields, "priority", None) # task.priority
                      \/ OfWorkspace!Get(fields, "due_label", None) # task.due_label)
      /\ own[4][1] = (exact /\ OfWorkspace!Get(fields, "title", None) # task.title)
      /\ own[5][1] = (~exact /\ (\/ OfWorkspace!Get(fields, "task_constraint", None) # "open"
                                 \/ "title" \in DOMAIN fields))
      /\ own[6][1] = (DOMAIN fields # DOMAIN expected)
  OBVIOUS
<1> HIDE DEF general, own
<1>4. Tests(own)
  BY <1>2 DEF Tests
<1>5. /\ Tests(general)
      /\ Passed(general) => /\ OfWorkspace!Get(fields, "condition", None) = "after_item_match"
                            /\ OfWorkspace!Get(fields, "project_query", None) = expected["project_query"]
                            /\ OfWorkspace!Get(fields, "project_kind", None) = expected["project_kind"]
  BY MutationTests DEF general
<1>6. Tests(general \o own) /\ (Passed(general \o own) <=> Passed(general) /\ Passed(own))
  BY <1>4, <1>5, JoinedTests, Zenon
<1>7. Passed(own) => ~own[2][1] /\ ~own[4][1] /\ ~own[5][1] /\ ~own[6][1]
  <2>1. 2 \in DOMAIN own /\ 4 \in DOMAIN own /\ 5 \in DOMAIN own /\ 6 \in DOMAIN own
    BY <1>3
  <2>2. QED
    BY <2>1, Zenon DEF Passed
<1>8. QED
  BY <1>1, <1>3, <1>5, <1>6, <1>7, Zenon DEF exact

(* What a comment proposal holds, past every refusal.                         *)
LEMMA CommentAccepted ==
  ASSUME RefusalsHaveReasons, NEW fields, NEW task, NEW expected
  PROVE  /\ Tests(OfWorkspace!CommentRefusals(fields, task, expected))
         /\ Passed(OfWorkspace!CommentRefusals(fields, task, expected)) =>
                /\ OfWorkspace!Get(fields, "condition", None) = "after_item_match"
                /\ OfWorkspace!Get(fields, "task_query", None) = expected["task_query"]
                /\ OfWorkspace!Get(fields, "task_kind", None) = expected["task_kind"]
                /\ OfWorkspace!Get(fields, "comment_constraint", None) = task.constraint
                /\ task.constraint = "exact" => OfWorkspace!Get(fields, "comment", None) = task.comment
                /\ DOMAIN fields = DOMAIN expected
<1> DEFINE general == OfWorkspace!MutationRefusals(fields, expected, "task_query", "task_kind")
           exact == task.constraint = "exact"
           own == <<
        <<OfWorkspace!Get(fields, "comment_constraint", None) # task.constraint, "unsupported_comment">>,
        <<exact /\ OfWorkspace!Get(fields, "comment", None) # task.comment, "unauthorized_comment_argument">>,
        <<~exact /\ "comment" \in DOMAIN fields, "unsupported_comment">>,
        <<DOMAIN fields # DOMAIN expected, "unsupported_requested_action">>>>
<1>1. OfWorkspace!CommentRefusals(fields, task, expected) = general \o own
  BY Zenon DEF OfWorkspace!CommentRefusals
<1> HIDE DEF exact
<1>2. own = [i \in 1 .. 4 |-> own[i]] /\ \A i \in 1 .. 4 : own[i][2] # None
  BY DEF RefusalsHaveReasons
<1>3. /\ DOMAIN own = 1 .. 4
      /\ own[1][1] = (OfWorkspace!Get(fields, "comment_constraint", None) # task.constraint)
      /\ own[2][1] = (exact /\ OfWorkspace!Get(fields, "comment", None) # task.comment)
      /\ own[4][1] = (DOMAIN fields # DOMAIN expected)
  OBVIOUS
<1> HIDE DEF general, own
<1>4. Tests(own)
  BY <1>2 DEF Tests
<1>5. /\ Tests(general)
      /\ Passed(general) => /\ OfWorkspace!Get(fields, "condition", None) = "after_item_match"
                            /\ OfWorkspace!Get(fields, "task_query", None) = expected["task_query"]
                            /\ OfWorkspace!Get(fields, "task_kind", None) = expected["task_kind"]
  BY MutationTests DEF general
<1>6. Tests(general \o own) /\ (Passed(general \o own) <=> Passed(general) /\ Passed(own))
  BY <1>4, <1>5, JoinedTests, Zenon
<1>7. Passed(own) => ~own[1][1] /\ ~own[2][1] /\ ~own[4][1]
  <2>1. 1 \in DOMAIN own /\ 2 \in DOMAIN own /\ 4 \in DOMAIN own
    BY <1>3
  <2>2. QED
    BY <2>1, Zenon DEF Passed
<1>8. QED
  BY <1>1, <1>3, <1>5, <1>6, <1>7, Zenon DEF exact

--------------------------------------------------------------------------------
(* What a proposal holds that compiles, and the task it compiles to.            *)
WorkspaceCase(items, slot) == OfWorkspace!CaseFor(slot.spec, slot.target, OfWorkspace!MissingQuery(items))
WorkspaceAcceptance(task, fields) ==
    /\ OfWorkspace!Get(fields, "action", None) = task.action
    /\ OfWorkspace!Get(fields, "route", None) = task.route
    /\ task.action = "search_workspace_items" => fields = OfWorkspace!Payload(task)
    /\ task.action = "create_workspace_task" =>
           Passed(OfWorkspace!TaskRefusals(fields, task, OfWorkspace!Payload(task)))
    /\ task.action = "add_workspace_comment" =>
           Passed(OfWorkspace!CommentRefusals(fields, task, OfWorkspace!Payload(task)))
WorkspaceOutcome(items, id, slot, proposal) ==
    /\ proposal.parses = "object" /\ WorkspaceAcceptance(WorkspaceCase(items, slot), proposal.fields)
    /\ OfWorkspace!Compile(items, id, proposal).task = WorkspaceCase(items, slot)

(* What compiles passed every refusal, in the order the compiler makes them.  *)
LEMMA WorkspaceRefusals ==
  ASSUME RefusalsHaveReasons, NEW items, NEW task, NEW proposal,
         OfWorkspace!CompileRefusal(items, task, proposal) = None
  PROVE  proposal.parses = "object" /\ WorkspaceAcceptance(task, proposal.fields)
<1> DEFINE fields == proposal.fields
           action == OfWorkspace!Get(fields, "action", None)
           expected == OfWorkspace!Payload(task)
           ambiguous == task.target # None /\ ~OfWorkspace!QueryIsUnique(task.target, items)
           first == <<<<ambiguous, "unresolved_target_ambiguity">>>>
           general == OfWorkspace!NotAnObject(proposal)
           own == <<
            <<OfWorkspace!Get(fields, "negated", None) = "true" \/ action \in NegatedItem, "negated_action">>,
            <<OfWorkspace!PrivateFields \cap DOMAIN fields # {}, "unsupported_private_exact_target">>,
            <<action # task.action, "unsupported_requested_action">>,
            <<OfWorkspace!Get(fields, "route", None) # task.route, "uncheckable_condition">>>>
           Act(e) == CASE task.action = "search_workspace_items" ->
                            <<<<fields # e, "unsupported_requested_action">>>>
                       [] task.action = "create_workspace_task" -> OfWorkspace!TaskRefusals(fields, task, e)
                       [] OTHER -> OfWorkspace!CommentRefusals(fields, task, e)
           last == CHOOSE result \in {Act(v) : v \in {expected}} : TRUE
           checks == first \o general \o own \o last
<1>1. OfWorkspace!EarlyReturn(checks, None) = None
  <2>1. OfWorkspace!CompileRefusal(items, task, proposal) = OfWorkspace!EarlyReturn(checks, None)
    BY Zenon DEF OfWorkspace!CompileRefusal, OfWorkspace!With
  <2>2. QED
    BY <2>1, Zenon
<1>2. last = Act(expected)
  <2> HIDE DEF Act, expected
  <2>1. \A x : (CHOOSE result \in {x} : TRUE) = x
    OBVIOUS
  <2>2. {Act(v) : v \in {expected}} = {Act(expected)}
    OBVIOUS
  <2>3. QED
    BY <2>1, <2>2, Zenon
<1> HIDE DEF last, checks, fields, action, expected, ambiguous
<1>3. Tests(first)
  <2>1. first = [i \in 1 .. 1 |-> first[i]] /\ \A i \in 1 .. 1 : first[i][2] # None
    BY DEF RefusalsHaveReasons
  <2> HIDE DEF first
  <2>2. QED
    BY <2>1 DEF Tests
<1>4. Tests(general) /\ general[3][1] = (proposal.parses # "object") /\ DOMAIN general = 1 .. 3
  <2>1. general = [i \in 1 .. 3 |-> general[i]] /\ \A i \in 1 .. 3 : general[i][2] # None
    BY DEF OfWorkspace!NotAnObject, RefusalsHaveReasons
  <2>2. general[3][1] = (proposal.parses # "object")
    BY DEF OfWorkspace!NotAnObject
  <2> HIDE DEF general
  <2>3. QED
    BY <2>1, <2>2 DEF Tests
<1>5. Tests(own)
  <2>1. own = [i \in 1 .. 4 |-> own[i]] /\ \A i \in 1 .. 4 : own[i][2] # None
    BY DEF RefusalsHaveReasons
  <2> HIDE DEF own
  <2>2. QED
    BY <2>1 DEF Tests
<1>6. /\ DOMAIN own = 1 .. 4
      /\ own[3][1] = (action # task.action)
      /\ own[4][1] = (OfWorkspace!Get(fields, "route", None) # task.route)
  OBVIOUS
<1> DEFINE search == <<<<fields # expected, "unsupported_requested_action">>>>
           create == OfWorkspace!TaskRefusals(fields, task, expected)
           comment == OfWorkspace!CommentRefusals(fields, task, expected)
<1>7. /\ task.action = "search_workspace_items" => last = search
      /\ task.action = "create_workspace_task" => last = create
      /\ task.action = "add_workspace_comment" => last = comment
      /\ last \in {search, create, comment}
  <2>1. last = CASE task.action = "search_workspace_items" -> search
                 [] task.action = "create_workspace_task" -> create
                 [] OTHER -> comment
    BY <1>2, Zenon
  <2> HIDE DEF search, create, comment
  <2>2. "create_workspace_task" # "search_workspace_items" /\ "add_workspace_comment" # "search_workspace_items"
        /\ "add_workspace_comment" # "create_workspace_task"
    OBVIOUS
  <2>3. /\ task.action = "search_workspace_items" => last = search
        /\ task.action = "create_workspace_task" => last = create
        /\ task.action # "search_workspace_items" /\ task.action # "create_workspace_task" => last = comment
    BY <2>1, <2>2, Zenon
  <2>4. QED
    BY <2>2, <2>3, Zenon
<1>8. Tests(search) /\ Tests(create) /\ Tests(comment)
  <2>1. Tests(search)
    <3>1. search = [i \in 1 .. 1 |-> search[i]] /\ \A i \in 1 .. 1 : search[i][2] # None
      BY DEF RefusalsHaveReasons
    <3> HIDE DEF search
    <3>2. QED
      BY <3>1 DEF Tests
  <2>2. QED
    BY <2>1, TaskAccepted, CommentAccepted, Zenon
<1>9. Passed(search) => fields = expected
  <2>1. 1 \in DOMAIN search /\ search[1][1] = (fields # expected)
    OBVIOUS
  <2> HIDE DEF search
  <2>2. QED
    BY <2>1, Zenon DEF Passed
<1> HIDE DEF first, general, own, search, create, comment
<1>10. Tests(last)
  BY <1>7, <1>8
<1>11. Passed(general) /\ Passed(own) /\ Passed(last)
  <2>1. Tests(first \o general) /\ (Passed(first \o general) <=> Passed(first) /\ Passed(general))
    BY <1>3, <1>4, JoinedTests, Zenon
  <2>2. /\ Tests(first \o general \o own)
        /\ Passed(first \o general \o own) <=> Passed(first \o general) /\ Passed(own)
    BY <2>1, <1>5, JoinedTests, Zenon
  <2>3. /\ Tests(checks)
        /\ Passed(checks) <=> Passed(first \o general \o own) /\ Passed(last)
    BY <2>2, <1>10, JoinedTests, Zenon DEF checks
  <2>4. OfContacts!EarlyReturn(checks, None) = None
    BY <1>1, SameReturns, Zenon
  <2>5. Passed(checks)
    BY <2>3, <2>4, PassedTests, Zenon
  <2>6. QED
    BY <2>1, <2>2, <2>3, <2>5, Zenon
<1>12. ~general[3][1] /\ ~own[3][1] /\ ~own[4][1]
  BY <1>4, <1>6, <1>11 DEF Passed
<1>13. proposal.parses = "object" /\ action = task.action /\ OfWorkspace!Get(fields, "route", None) = task.route
  BY <1>4, <1>6, <1>12, Zenon
<1>14. /\ task.action = "search_workspace_items" => fields = expected
       /\ task.action = "create_workspace_task" => Passed(create)
       /\ task.action = "add_workspace_comment" => Passed(comment)
  BY <1>7, <1>9, <1>11, Zenon
<1>15. QED
  BY <1>13, <1>14, Zenon DEF WorkspaceAcceptance, fields, action, expected, create, comment

(* And it compiles to the case of its slot.                                   *)
LEMMA WorkspaceAccepted ==
  ASSUME RefusalsHaveReasons, NEW items, NEW id, NEW slot,
         OfWorkspace!SlotWithId(items, id) # None => OfWorkspace!SlotWithId(items, id) = slot,
         NEW proposal, OfWorkspace!Compile(items, id, proposal).reason = None
  PROVE  WorkspaceOutcome(items, id, slot, proposal)
<1> DEFINE found == OfWorkspace!SlotWithId(items, id)
           Case(s) == OfWorkspace!CaseFor(s.spec, s.target, OfWorkspace!MissingQuery(items))
           Settled(task, refusal) ==
               IF refusal # None THEN OfWorkspace!Rejection(refusal) ELSE OfWorkspace!Compiled(task)
           Judged(task) == CHOOSE result \in {Settled(task, v) :
                                              v \in {OfWorkspace!CompileRefusal(items, task, proposal)}} : TRUE
           Tried(s) == IF s = None THEN OfWorkspace!Rejection("unsupported_task_slot")
                       ELSE CHOOSE result \in {Judged(v) : v \in {Case(s)}} : TRUE
           result == OfWorkspace!Compile(items, id, proposal)
           refusal == OfWorkspace!CompileRefusal(items, Case(found), proposal)
<1>1. result = CHOOSE r \in {Tried(v) : v \in {found}} : TRUE
  BY Zenon DEF OfWorkspace!Compile, OfWorkspace!With
<1>2. \A x : (CHOOSE r \in {x} : TRUE) = x
  OBVIOUS
<1>3. result = Tried(found)
  <2> HIDE DEF Tried, found, result
  <2>1. {Tried(v) : v \in {found}} = {Tried(found)}
    OBVIOUS
  <2>2. QED
    BY <1>1, <1>2, <2>1, Zenon
<1>4. Tried(found) = IF found = None THEN OfWorkspace!Rejection("unsupported_task_slot") ELSE Judged(Case(found))
  <2> HIDE DEF found, Judged, Case
  <2>1. {Judged(v) : v \in {Case(found)}} = {Judged(Case(found))}
    OBVIOUS
  <2>2. QED
    BY <1>2, <2>1, Zenon
<1>5. Judged(Case(found)) = Settled(Case(found), refusal)
  <2> HIDE DEF found, Case, Settled, refusal
  <2>1. {Settled(Case(found), v) : v \in {refusal}} = {Settled(Case(found), refusal)}
    OBVIOUS
  <2>2. Judged(Case(found)) = CHOOSE r \in {Settled(Case(found), v) : v \in {refusal}} : TRUE
    BY Zenon DEF refusal
  <2> HIDE DEF Judged
  <2>3. QED
    BY <1>2, <2>1, <2>2, Zenon
<1> HIDE DEF Tried, Judged
<1>6. result = IF found = None THEN OfWorkspace!Rejection("unsupported_task_slot")
               ELSE IF refusal # None THEN OfWorkspace!Rejection(refusal) ELSE OfWorkspace!Compiled(Case(found))
  BY <1>3, <1>4, <1>5, Zenon DEF Settled
<1> HIDE DEF result, refusal, Case, Settled
<1>7. result.reason = None
  BY DEF result
<1>8. found # None
  BY <1>6, <1>7 DEF OfWorkspace!Rejection, RefusalsHaveReasons
<1>9. refusal = None /\ result = OfWorkspace!Compiled(Case(found))
  BY <1>6, <1>7, <1>8 DEF OfWorkspace!Rejection
<1>10. found = slot
  BY <1>8
<1>11. Case(found) = WorkspaceCase(items, slot)
  BY <1>10, Zenon DEF Case, WorkspaceCase
<1>12. proposal.parses = "object" /\ WorkspaceAcceptance(Case(found), proposal.fields)
  BY <1>9, WorkspaceRefusals, Zenon DEF refusal
<1>13. result.task = Case(found)
  BY <1>9 DEF OfWorkspace!Compiled
<1>14. QED
  BY <1>11, <1>12, <1>13, Zenon DEF WorkspaceOutcome, result

--------------------------------------------------------------------------------
(* A name that is searched for in vain is a text.                               *)
MissingNamesAreTexts == \A n : OfWorkspace!MissingName(n) # None

(* The case of a slot has its spec and its target.                            *)
LEMMA WorkspaceCaseIs ==
  ASSUME NEW items, WorkspaceState(items), NEW slot \in WorkspaceSlots(items)
  PROVE  LET task == WorkspaceCase(items, slot)
         IN  /\ slot.spec \in WorkspaceSpecs /\ slot.target \in TargetsOf(items, slot.spec)
             /\ task.target = slot.target /\ task.action = slot.spec.action /\ task.route = slot.spec.route
             /\ task.constraint = slot.spec.constraint
             /\ task.missing = IF slot.spec.route = "missing" THEN OfWorkspace!MissingQuery(items) ELSE None
<1>1. PICK pair \in WorkspacePairs(items) : slot = OfWorkspace!SlotOf(items, pair)
  BY DEF WorkspaceSlots
<1>2. PICK spec \in WorkspaceSpecs : pair \in {<<spec, target>> : target \in TargetsOf(items, spec)}
  BY <1>1 DEF WorkspacePairs
<1>3. PICK target \in TargetsOf(items, spec) : pair = <<spec, target>>
  BY <1>2
<1>4. slot.spec = spec /\ slot.target = target
  BY <1>1, <1>3 DEF OfWorkspace!SlotOf
<1> DEFINE task == WorkspaceCase(items, slot)
           missing == OfWorkspace!MissingQuery(items)
<1> HIDE DEF missing
<1>5. /\ task.target = slot.target /\ task.action = slot.spec.action /\ task.route = slot.spec.route
      /\ task.constraint = slot.spec.constraint
      /\ task.missing = IF slot.spec.route = "missing" THEN missing ELSE None
  BY DEF WorkspaceCase, OfWorkspace!CaseFor, missing
<1>6. QED
  BY <1>2, <1>3, <1>4, <1>5 DEF missing

(* What the prompt of a mutation asks for.                                    *)
LEMMA PayloadIs ==
  ASSUME NEW task, task.route = "missing" => task.action = "search_workspace_items"
  PROVE  LET base == [action |-> task.action, route |-> task.route]
             mutation == OfWorkspace!Both(base, [condition |-> "after_item_match"])
         IN  /\ task.action = "create_workspace_task" =>
                  OfWorkspace!Payload(task) = OfWorkspace!Both(
                      OfWorkspace!Both(mutation, [due_label |-> task.due_label, priority |-> task.priority,
                                       project_kind |-> task.target.kind, project_query |-> task.target.query]),
                      IF task.constraint = "exact" THEN [title |-> task.title]
                      ELSE [task_constraint |-> task.constraint])
             /\ task.action = "add_workspace_comment" =>
                  OfWorkspace!Payload(task) = OfWorkspace!Both(
                      OfWorkspace!Both(mutation, [comment_constraint |-> task.constraint,
                                       task_kind |-> task.target.kind, task_query |-> task.target.query]),
                      IF task.constraint = "exact" THEN [comment |-> task.comment] ELSE <<>>)
<1> DEFINE base == [action |-> task.action, route |-> task.route]
           mutation == OfWorkspace!Both(base, [condition |-> "after_item_match"])
           absent == OfWorkspace!Both(base, [kind |-> "document", query |-> task.missing])
           search == OfWorkspace!Both(base, [kind |-> task.target.kind, query |-> task.target.query])
           create == OfWorkspace!Both(
                      OfWorkspace!Both(mutation, [due_label |-> task.due_label, priority |-> task.priority,
                                       project_kind |-> task.target.kind, project_query |-> task.target.query]),
                      IF task.constraint = "exact" THEN [title |-> task.title]
                      ELSE [task_constraint |-> task.constraint])
           comment == OfWorkspace!Both(
                      OfWorkspace!Both(mutation, [comment_constraint |-> task.constraint,
                                       task_kind |-> task.target.kind, task_query |-> task.target.query]),
                      IF task.constraint = "exact" THEN [comment |-> task.comment] ELSE <<>>)
<1>1. OfWorkspace!Payload(task) =
        CASE task.route = "missing" -> absent
          [] task.action = "search_workspace_items" -> search
          [] task.action = "create_workspace_task" -> create
          [] OTHER -> comment
  BY Zenon DEF OfWorkspace!Payload
<1> HIDE DEF absent, search, create, comment
<1>2. /\ task.action = "create_workspace_task" => task.action # "search_workspace_items" /\ task.route # "missing"
      /\ task.action = "add_workspace_comment" =>
             /\ task.action # "search_workspace_items" /\ task.route # "missing"
             /\ task.action # "create_workspace_task"
  OBVIOUS
<1>3. task.action = "create_workspace_task" => OfWorkspace!Payload(task) = create
  BY <1>1, <1>2, Zenon
<1>4. task.action = "add_workspace_comment" => OfWorkspace!Payload(task) = comment
  BY <1>1, <1>2, Zenon
<1>5. QED
  BY <1>3, <1>4, Zenon DEF create, comment

(* What compiles is what was asked for, in every field.                       *)
LEMMA WorkspaceRequested ==
  ASSUME RefusalsHaveReasons, NEW items, WorkspaceState(items), NEW slot \in WorkspaceSlots(items), NEW proposal,
         OfWorkspace!Compile(items, slot.id, proposal).reason = None
  PROVE  Requested(proposal, OfWorkspace!Prompted(items, slot), {})
<1> DEFINE fields == proposal.fields
           task == WorkspaceCase(items, slot)
           asked == OfWorkspace!Payload(task)
<1>1. proposal.parses = "object" /\ WorkspaceAcceptance(task, fields)
  <2>1. OfWorkspace!SlotWithId(items, slot.id) # None => OfWorkspace!SlotWithId(items, slot.id) = slot
    BY WorkspaceSlotFound
  <2>2. WorkspaceOutcome(items, slot.id, slot, proposal)
    BY <2>1, WorkspaceAccepted, Zenon
  <2>3. QED
    BY <2>2, Zenon DEF WorkspaceOutcome
<1>2. OfWorkspace!Prompted(items, slot).fields = asked
  BY DEF OfWorkspace!Prompted, WorkspaceCase
<1>3. /\ slot.spec \in WorkspaceSpecs /\ task.action = slot.spec.action /\ task.route = slot.spec.route
      /\ task.constraint = slot.spec.constraint
  BY WorkspaceCaseIs, Zenon
<1> HIDE DEF task
<1>4. /\ task.action \in {"search_workspace_items", "create_workspace_task", "add_workspace_comment"}
      /\ task.route = "missing" => task.action = "search_workspace_items"
      /\ task.action # "search_workspace_items" => task.constraint \in {"open", "exact"}
  BY <1>3, WorkspaceSpecsAre
<1>5. /\ OfWorkspace!Get(fields, "action", None) = task.action /\ OfWorkspace!Get(fields, "route", None) = task.route
      /\ task.action = "search_workspace_items" => fields = asked
      /\ task.action = "create_workspace_task" => Passed(OfWorkspace!TaskRefusals(fields, task, asked))
      /\ task.action = "add_workspace_comment" => Passed(OfWorkspace!CommentRefusals(fields, task, asked))
  BY <1>1, Zenon DEF WorkspaceAcceptance
<1> DEFINE base == [action |-> task.action, route |-> task.route]
           mutation == OfWorkspace!Both(base, [condition |-> "after_item_match"])
           exact == task.constraint = "exact"
           query == task.target.query
           kind == task.target.kind
<1> HIDE DEF fields, asked, query, kind
<1>6. DOMAIN fields = DOMAIN asked /\ \A f \in DOMAIN fields : fields[f] = asked[f]
  <2>1. CASE task.action = "search_workspace_items"
    BY <1>5, <2>1
  <2>2. CASE task.action = "create_workspace_task"
    <3> DEFINE last == IF exact THEN [title |-> task.title] ELSE [task_constraint |-> task.constraint]
    <3>1. asked = OfWorkspace!Both(
            OfWorkspace!Both(mutation, [due_label |-> task.due_label, priority |-> task.priority,
                                        project_kind |-> kind, project_query |-> query]), last)
      BY <1>4, <2>2, PayloadIs, Zenon DEF asked, query, kind
    <3>2. /\ asked["action"] = task.action /\ asked["route"] = task.route
          /\ asked["condition"] = "after_item_match"
          /\ asked["due_label"] = task.due_label /\ asked["priority"] = task.priority
          /\ asked["project_kind"] = kind /\ asked["project_query"] = query
          /\ exact => asked["title"] = task.title
          /\ ~exact => asked["task_constraint"] = task.constraint
          /\ DOMAIN asked = {"action", "route", "condition", "due_label", "priority", "project_kind", "project_query"}
                                \cup (IF exact THEN {"title"} ELSE {"task_constraint"})
      <4>1. CASE exact
        <5>1. last = [title |-> task.title]
          BY <4>1
        <5> HIDE DEF last
        <5>2. QED
          BY <3>1, <4>1, <5>1 DEF OfWorkspace!Both
      <4>2. CASE ~exact
        <5>1. last = [task_constraint |-> task.constraint]
          BY <4>2
        <5> HIDE DEF last
        <5>2. QED
          BY <3>1, <4>2, <5>1 DEF OfWorkspace!Both
      <4>3. QED
        BY <4>1, <4>2
    <3>3. Passed(OfWorkspace!TaskRefusals(fields, task, asked))
      BY <1>5, <2>2
    <3>4. /\ OfWorkspace!Get(fields, "condition", None) = "after_item_match"
          /\ OfWorkspace!Get(fields, "project_query", None) = asked["project_query"]
          /\ OfWorkspace!Get(fields, "project_kind", None) = asked["project_kind"]
          /\ OfWorkspace!Get(fields, "priority", None) = task.priority
          /\ OfWorkspace!Get(fields, "due_label", None) = task.due_label
          /\ exact => OfWorkspace!Get(fields, "title", None) = task.title
          /\ ~exact => OfWorkspace!Get(fields, "task_constraint", None) = "open"
          /\ DOMAIN fields = DOMAIN asked
      BY <3>3, TaskAccepted, Zenon
    <3>5. ~exact => task.constraint = "open"
      BY <1>4, <2>2
    <3> HIDE DEF exact
    <3>6. \A f \in DOMAIN fields : fields[f] = asked[f]
      BY <1>5, <3>2, <3>4, <3>5 DEF OfWorkspace!Get
    <3>7. QED
      BY <3>4, <3>6
  <2>3. CASE task.action = "add_workspace_comment"
    <3> DEFINE last == IF exact THEN [comment |-> task.comment] ELSE <<>>
    <3>1. asked = OfWorkspace!Both(
            OfWorkspace!Both(mutation, [comment_constraint |-> task.constraint,
                                        task_kind |-> kind, task_query |-> query]), last)
      BY <1>4, <2>3, PayloadIs, Zenon DEF asked, query, kind
    <3>2. /\ asked["action"] = task.action /\ asked["route"] = task.route
          /\ asked["condition"] = "after_item_match"
          /\ asked["comment_constraint"] = task.constraint
          /\ asked["task_kind"] = kind /\ asked["task_query"] = query
          /\ exact => asked["comment"] = task.comment
          /\ DOMAIN asked = {"action", "route", "condition", "comment_constraint", "task_kind", "task_query"}
                                \cup (IF exact THEN {"comment"} ELSE {})
      <4>1. CASE exact
        <5>1. last = [comment |-> task.comment]
          BY <4>1
        <5> HIDE DEF last
        <5>2. QED
          BY <3>1, <4>1, <5>1 DEF OfWorkspace!Both
      <4>2. CASE ~exact
        <5>1. last = <<>> /\ DOMAIN <<>> = {}
          BY <4>2
        <5> HIDE DEF last
        <5>2. QED
          BY <3>1, <4>2, <5>1 DEF OfWorkspace!Both
      <4>3. QED
        BY <4>1, <4>2
    <3>3. Passed(OfWorkspace!CommentRefusals(fields, task, asked))
      BY <1>5, <2>3
    <3>4. /\ OfWorkspace!Get(fields, "condition", None) = "after_item_match"
          /\ OfWorkspace!Get(fields, "task_query", None) = asked["task_query"]
          /\ OfWorkspace!Get(fields, "task_kind", None) = asked["task_kind"]
          /\ OfWorkspace!Get(fields, "comment_constraint", None) = task.constraint
          /\ exact => OfWorkspace!Get(fields, "comment", None) = task.comment
          /\ DOMAIN fields = DOMAIN asked
      BY <3>3, CommentAccepted, Zenon
    <3> HIDE DEF exact
    <3>6. \A f \in DOMAIN fields : fields[f] = asked[f]
      BY <1>5, <3>2, <3>4 DEF OfWorkspace!Get
    <3>7. QED
      BY <3>4, <3>6
  <2>4. QED
    BY <1>4, <2>1, <2>2, <2>3
<1>7. QED
  BY <1>1, <1>2, <1>6 DEF Requested, fields

(* A case that was compiled is restored but for a query that is lost, and no   *)
(* other under its key.                                                       *)
LEMMA WorkspaceRestored ==
  ASSUME RefusalsHaveReasons, MissingNamesAreTexts, NEW items, WorkspaceState(items),
         \A id \in DOMAIN items : OfWorkspace!IsItem(items[id]) <=> items[id].query # "",
         NEW slot \in WorkspaceSlots(items), NEW proposal,
         OfWorkspace!Compile(items, slot.id, proposal).reason = None
  PROVE  LET task == OfWorkspace!Compile(items, slot.id, proposal).task
         IN  /\ \/ OfWorkspace!Restore(task, OfWorkspace!SemanticKey(task)) = task
                \/ /\ OfWorkspace!Restore(task, OfWorkspace!SemanticKey(task)) = None
                   /\ \E id \in DOMAIN items : items[id].query = ""
             /\ \A other : other # task => OfWorkspace!Restore(other, OfWorkspace!SemanticKey(task)) = None
<1> DEFINE task == OfWorkspace!Compile(items, slot.id, proposal).task
           lost == \E id \in DOMAIN items : items[id].query = ""
           spec == slot.spec
           missing == OfWorkspace!MissingQuery(items)
<1>1. task = WorkspaceCase(items, slot)
  <2>1. OfWorkspace!SlotWithId(items, slot.id) # None => OfWorkspace!SlotWithId(items, slot.id) = slot
    BY WorkspaceSlotFound
  <2>2. WorkspaceOutcome(items, slot.id, slot, proposal)
    BY <2>1, WorkspaceAccepted, Zenon
  <2>3. QED
    BY <2>2, Zenon DEF WorkspaceOutcome
<1> HIDE DEF task
<1>2. /\ spec \in WorkspaceSpecs /\ slot.target \in TargetsOf(items, spec)
      /\ task.target = slot.target /\ task.action = spec.action /\ task.route = spec.route
      /\ task.constraint = spec.constraint
      /\ task.missing = IF spec.route = "missing" THEN missing ELSE None
  BY <1>1, WorkspaceCaseIs, Zenon
<1>3. missing # None
  BY Zenon DEF MissingNamesAreTexts, OfWorkspace!MissingQuery
<1>4. PICK s \in 1 .. 9 : OfWorkspace!TaskSpecs[s] = spec
  BY <1>2, WorkspaceSpecsAre
<1>5. ~lost =>
      IF spec.route = "missing" THEN task.target = None /\ task.missing # None
      ELSE /\ task.target # None /\ OfWorkspace!IsItem(task.target)
           /\ task.target.kind = spec.target \/ spec.fallback
  <2> SUFFICES ASSUME ~lost
               PROVE  IF spec.route = "missing" THEN task.target = None /\ task.missing # None
                      ELSE /\ task.target # None /\ OfWorkspace!IsItem(task.target)
                           /\ task.target.kind = spec.target \/ spec.fallback
    OBVIOUS
  <2>1. CASE spec.route = "missing"
    BY <1>2, <1>3, <2>1 DEF TargetsOf
  <2>2. CASE spec.route # "missing"
    <3>1. task.target \in ItemsOf(items) /\ (task.target.kind = spec.target \/ spec.fallback)
      BY <1>2, <2>2 DEF TargetsOf
    <3>2. PICK id \in DOMAIN items : task.target = items[id]
      BY <3>1 DEF ItemsOf
    <3>3. task.target # None /\ OfWorkspace!IsItem(task.target)
      BY <3>2, Zenon DEF WorkspaceState
    <3>4. QED
      BY <2>2, <3>1, <3>3
  <2>3. QED
    BY <2>1, <2>2
<1>6. task = OfWorkspace!CaseFor(spec, task.target, task.missing)
  <2>1. task = OfWorkspace!CaseFor(spec, task.target, missing)
    BY <1>1, <1>2, Zenon DEF WorkspaceCase
  <2>2. CASE spec.route = "missing"
    BY <1>2, <2>1, <2>2
  <2>3. CASE spec.route # "missing"
    <3>1. \A m : OfWorkspace!CaseFor(spec, task.target, m) = OfWorkspace!CaseFor(spec, task.target, None)
      BY <2>3, Zenon DEF OfWorkspace!CaseFor
    <3>2. QED
      BY <1>2, <2>1, <2>3, <3>1
  <2>4. QED
    BY <2>2, <2>3
<1>7. ~lost => OfWorkspace!SupportedShape(task)
  <2>1. DOMAIN OfWorkspace!TaskSpecs = 1 .. 9
    BY WorkspaceSpecsAre
  <2>2. QED
    BY <1>2, <1>4, <1>5, <1>6, <2>1, Zenon DEF OfWorkspace!SupportedShape
<1>8. OfWorkspace!SemanticKey(task) = task
  BY Zenon DEF OfWorkspace!SemanticKey
<1>9. \/ OfWorkspace!Restore(task, OfWorkspace!SemanticKey(task)) = task
      \/ OfWorkspace!Restore(task, OfWorkspace!SemanticKey(task)) = None /\ lost
  BY <1>7, Zenon DEF OfWorkspace!Restore
<1>10. \A other : other # task => OfWorkspace!Restore(other, OfWorkspace!SemanticKey(task)) = None
  BY <1>8, Zenon DEF OfWorkspace!Restore, OfWorkspace!SemanticKey
<1>11. QED
  BY <1>9, <1>10, Zenon DEF task

--------------------------------------------------------------------------------
(* The run of a built-in Domain. *)

(* The engine asks the adapter of each Domain for everything; a tampered case   *)
(* is another one of the same shape.                                            *)
ContactsRuns(d) ==
    /\ FreeFields(d) = {"note"} /\ \A state : ~LosesQuery(d, state)
    /\ \A s \in DomainSources(d) : ContactsSource(s)
    /\ \A s : DomainParse(d, s) = OfContacts!Parse(s)
    /\ \A state : DomainFreeze(d, state) = OfContacts!Freeze(state)
    /\ \A snapshot : DomainReopen(d, snapshot) = OfContacts!Reopen(snapshot)
    /\ \A state : DomainSlots(d, state) = OfContacts!Slots(state)
    /\ \A state : DomainCapacity(d, state) = OfContacts!Capacity(state)
    /\ \A state, id : DomainSlot(d, state, id) = OfContacts!SlotWithId(state, id)
    /\ \A state, slot : DomainPrompt(d, state, slot) = OfContacts!Prompted(state, slot)
    /\ \A state, id, proposal :
           DomainCompile(d, state, id, proposal) = OfContacts!Compile(state, id, proposal)
    /\ \A task : DomainKey(d, task) = OfContacts!SemanticKey(task)
    /\ \A task, key : DomainRestore(d, task, key) = OfContacts!Restore(task, key)
    /\ \A task : \A other \in TamperedCases(d, task) :
           other # task /\ (ContactTask(task) => ContactTask(other))
MobileRuns(d) ==
    /\ FreeFields(d) = {"reply"} /\ \A state : ~LosesQuery(d, state)
    /\ \A s \in DomainSources(d) : MobileSource(s)
    /\ \A s : DomainParse(d, s) = OfMobile!Parse(s)
    /\ \A state : DomainFreeze(d, state) = OfMobile!Freeze(state)
    /\ \A snapshot : DomainReopen(d, snapshot) = OfMobile!Reopen(snapshot)
    /\ \A state : DomainSlots(d, state) = OfMobile!Slots(state)
    /\ \A state : DomainCapacity(d, state) = OfMobile!Capacity(state)
    /\ \A state, id : DomainSlot(d, state, id) = OfMobile!SlotWithId(state, id)
    /\ \A state, slot : DomainPrompt(d, state, slot) = OfMobile!Prompted(state, slot)
    /\ \A state, id, proposal :
           DomainCompile(d, state, id, proposal) = OfMobile!Compile(state, id, proposal)
    /\ \A task : DomainKey(d, task) = OfMobile!SemanticKey(task)
    /\ \A task, key : DomainRestore(d, task, key) = OfMobile!Restore(task, key)
    /\ \A task : \A other \in TamperedCases(d, task) :
           other # task /\ (MobileTask(task) => MobileTask(other))
WorkspaceRuns(d) ==
    /\ FreeFields(d) = {}
    /\ \A items : LosesQuery(d, items) <=> \E id \in DOMAIN items : items[id].query = ""
    /\ \A s \in DomainSources(d) : WorkspaceSource(s)
    /\ \A s : DomainParse(d, s) = OfWorkspace!Parse(s)
    /\ \A items : DomainFreeze(d, items) = OfWorkspace!Freeze(items)
    /\ \A snapshot : DomainReopen(d, snapshot) = OfWorkspace!Reopen(snapshot)
    /\ \A items : DomainSlots(d, items) = OfWorkspace!Slots(items)
    /\ \A items : DomainCapacity(d, items) = OfWorkspace!Capacity(items)
    /\ \A items, id : DomainSlot(d, items, id) = OfWorkspace!SlotWithId(items, id)
    /\ \A items, slot : DomainPrompt(d, items, slot) = OfWorkspace!Prompted(items, slot)
    /\ \A items, id, proposal :
           DomainCompile(d, items, id, proposal) = OfWorkspace!Compile(items, id, proposal)
    /\ \A task : DomainKey(d, task) = OfWorkspace!SemanticKey(task)
    /\ \A task, key : DomainRestore(d, task, key) = OfWorkspace!Restore(task, key)
    /\ \A task : \A other \in TamperedCases(d, task) : other # task
BuiltinTasksRun == \A d \in Domains : ContactsRuns(d) \/ MobileRuns(d) \/ WorkspaceRuns(d)

(* What the texts of a run have to be: names are stripped and slugged for good, *)
(* and no text, reason or record is the None that stands for there being none.  *)
TextsAreSound ==
    /\ NamesAreNormal /\ TextsAreTexts /\ MissingNamesAreTexts /\ ItemsAreItems
    /\ RefusalsHaveReasons /\ NoneIsNoAnswer

(* What a Domain keeps of a run: its snapshots, and the meaning of its slots    *)
(* and of its cases.                                                            *)
CaseKept(d, state, task) ==
    /\ \/ DomainRestore(d, task, DomainKey(d, task)) = task
       \/ DomainRestore(d, task, DomainKey(d, task)) = None /\ LosesQuery(d, state)
    /\ \A other \in TamperedCases(d, task) : DomainRestore(d, other, DomainKey(d, task)) = None
SlotKept(d, state, slot) ==
    \A proposal : DomainCompile(d, state, slot.id, proposal).reason = None =>
        /\ Requested(proposal, DomainPrompt(d, state, slot), FreeFields(d))
        /\ CaseKept(d, state, DomainCompile(d, state, slot.id, proposal).task)
RunKept(d, state) ==
    /\ DomainReopen(d, DomainFreeze(d, state)) = IF LosesQuery(d, state) THEN None ELSE state
    /\ \A i \in DOMAIN DomainSlots(d, state) : SlotKept(d, state, DomainSlots(d, state)[i])

(* Contacts keeps its runs.                                                   *)
LEMMA ContactsKept ==
  ASSUME TextsAreSound, NEW d, ContactsRuns(d), NEW s \in DomainSources(d), DomainParse(d, s) # None
  PROVE  RunKept(d, DomainParse(d, s))
<1> DEFINE state == DomainParse(d, s)
<1>1. ContactsSource(s) /\ OfContacts!Parse(s) # None /\ state = OfContacts!Parse(s)
  BY Zenon DEF ContactsRuns
<1>2. NamesAreNormal /\ RefusalsHaveReasons
  BY DEF TextsAreSound
<1>3. OfContacts!Reopen(OfContacts!Freeze(state)) = state
  BY <1>1, <1>2, ContactsReopen
<1>4. IsFiniteSet(DOMAIN state.contacts)
  <2>1. state = ContactsRead(s)
    BY <1>1, ContactsParse
  <2>2. DOMAIN state.contacts = ContactNames(s)
    BY <2>1 DEF ContactsRead
  <2>3. PICK n \in Nat : s.contacts = [i \in 1 .. n |-> s.contacts[i]]
    BY <1>1 DEF ContactsSource
  <2>4. IsFiniteSet({Strip(s.contacts[i].name) : i \in DOMAIN s.contacts})
    BY <2>3, FiniteTable
  <2>5. QED
    BY <2>2, <2>4 DEF ContactNames
<1>5. OfContacts!Slots(state) \in Seq(ContactSlots(state))
  BY <1>4, ContactSlotsAre
<1> HIDE DEF state
<1>6. ASSUME NEW slot \in ContactSlots(state) PROVE SlotKept(d, state, slot)
  <2> SUFFICES ASSUME NEW proposal, DomainCompile(d, state, slot.id, proposal).reason = None
               PROVE  /\ Requested(proposal, DomainPrompt(d, state, slot), FreeFields(d))
                      /\ CaseKept(d, state, DomainCompile(d, state, slot.id, proposal).task)
    BY DEF SlotKept
  <2>1. OfContacts!Compile(state, slot.id, proposal) = DomainCompile(d, state, slot.id, proposal)
    BY Zenon DEF ContactsRuns
  <2>2. OfContacts!Compile(state, slot.id, proposal).reason = None
    BY <2>1
  <2>3. Requested(proposal, OfContacts!Prompted(state, slot), {"note"})
    BY <1>2, <1>4, <2>2, ContactsRequested
  <2> DEFINE task == OfContacts!Compile(state, slot.id, proposal).task
  <2>4. /\ OfContacts!Restore(task, OfContacts!SemanticKey(task)) = task
        /\ \A other : ContactTask(other) /\ other # task =>
               OfContacts!Restore(other, OfContacts!SemanticKey(task)) = None
        /\ ContactTask(task)
    BY <1>2, <1>4, <2>2, ContactsRestored
  <2> HIDE DEF task
  <2>5. \A other \in TamperedCases(d, task) : other # task /\ ContactTask(other)
    BY <2>4, Zenon DEF ContactsRuns
  <2>6. CaseKept(d, state, task)
    BY <2>4, <2>5, Zenon DEF ContactsRuns, CaseKept
  <2>7. Requested(proposal, DomainPrompt(d, state, slot), FreeFields(d))
    BY <2>3, Zenon DEF ContactsRuns
  <2>8. DomainCompile(d, state, slot.id, proposal).task = task
    BY <2>1 DEF task
  <2>9. QED
    BY <2>6, <2>7, <2>8
<1>7. DomainSlots(d, state) \in Seq(ContactSlots(state))
  BY <1>5, Zenon DEF ContactsRuns
<1>8. \A i \in DOMAIN DomainSlots(d, state) : SlotKept(d, state, DomainSlots(d, state)[i])
  BY <1>6, <1>7
<1>9. DomainReopen(d, DomainFreeze(d, state)) = IF LosesQuery(d, state) THEN None ELSE state
  BY <1>3, Zenon DEF ContactsRuns
<1>10. QED
  BY <1>8, <1>9 DEF RunKept, state

(* Mobile Messages keeps its runs.                                            *)
LEMMA MobileKept ==
  ASSUME TextsAreSound, NEW d, MobileRuns(d), NEW s \in DomainSources(d), DomainParse(d, s) # None
  PROVE  RunKept(d, DomainParse(d, s))
<1> DEFINE state == DomainParse(d, s)
<1>1. MobileSource(s) /\ OfMobile!Parse(s) # None /\ state = OfMobile!Parse(s)
  BY Zenon DEF MobileRuns
<1>2. TextsAreTexts /\ RefusalsHaveReasons
  BY DEF TextsAreSound
<1>3. OfMobile!Reopen(OfMobile!Freeze(state)) = state
  BY <1>1, MobileReopen
<1>4. IsFiniteSet(DOMAIN state.messages)
  <2>1. state = MobileRead(s)
    BY <1>1, MobileParse
  <2>2. state.messages = OfMobile!Table(s.messages)
    BY <2>1 DEF MobileRead
  <2>3. Listed(s.messages)
    BY <1>1 DEF MobileSource
  <2>4. QED
    BY <2>2, <2>3, TableIs
<1>5. OfMobile!Slots(state) \in Seq(MobileSlots(state))
  BY <1>4, MobileSlotsAre
<1> HIDE DEF state
<1>6. ASSUME NEW slot \in MobileSlots(state) PROVE SlotKept(d, state, slot)
  <2> SUFFICES ASSUME NEW proposal, DomainCompile(d, state, slot.id, proposal).reason = None
               PROVE  /\ Requested(proposal, DomainPrompt(d, state, slot), FreeFields(d))
                      /\ CaseKept(d, state, DomainCompile(d, state, slot.id, proposal).task)
    BY DEF SlotKept
  <2>1. OfMobile!Compile(state, slot.id, proposal) = DomainCompile(d, state, slot.id, proposal)
    BY Zenon DEF MobileRuns
  <2>2. OfMobile!Compile(state, slot.id, proposal).reason = None
    BY <2>1
  <2>3. Requested(proposal, OfMobile!Prompted(state, slot), {"reply"})
    BY <1>2, <1>4, <2>2, MobileRequested
  <2> DEFINE task == OfMobile!Compile(state, slot.id, proposal).task
  <2>4. /\ OfMobile!Restore(task, OfMobile!SemanticKey(task)) = task
        /\ \A other : MobileTask(other) /\ other # task =>
               OfMobile!Restore(other, OfMobile!SemanticKey(task)) = None
        /\ MobileTask(task)
    BY <1>2, <1>4, <2>2, MobileRestored
  <2> HIDE DEF task
  <2>5. \A other \in TamperedCases(d, task) : other # task /\ MobileTask(other)
    BY <2>4, Zenon DEF MobileRuns
  <2>6. CaseKept(d, state, task)
    BY <2>4, <2>5, Zenon DEF MobileRuns, CaseKept
  <2>7. Requested(proposal, DomainPrompt(d, state, slot), FreeFields(d))
    BY <2>3, Zenon DEF MobileRuns
  <2>8. DomainCompile(d, state, slot.id, proposal).task = task
    BY <2>1 DEF task
  <2>9. QED
    BY <2>6, <2>7, <2>8
<1>7. DomainSlots(d, state) \in Seq(MobileSlots(state))
  BY <1>5, Zenon DEF MobileRuns
<1>8. \A i \in DOMAIN DomainSlots(d, state) : SlotKept(d, state, DomainSlots(d, state)[i])
  BY <1>6, <1>7
<1>9. DomainReopen(d, DomainFreeze(d, state)) = IF LosesQuery(d, state) THEN None ELSE state
  BY <1>3, Zenon DEF MobileRuns
<1>10. QED
  BY <1>8, <1>9 DEF RunKept, state

(* Workspace Tasks keeps its runs, in either scope.                           *)
LEMMA WorkspaceKept ==
  ASSUME TextsAreSound, NEW d, WorkspaceRuns(d), NEW s \in DomainSources(d), DomainParse(d, s) # None
  PROVE  RunKept(d, DomainParse(d, s))
<1> DEFINE items == DomainParse(d, s)
           lost == \E id \in DOMAIN items : items[id].query = ""
<1>1. WorkspaceSource(s) /\ OfWorkspace!Parse(s) # None /\ items = OfWorkspace!Parse(s)
  BY Zenon DEF WorkspaceRuns
<1>2. MissingNamesAreTexts /\ RefusalsHaveReasons /\ ItemsAreItems
  BY DEF TextsAreSound
<1>3. OfWorkspace!Reopen(OfWorkspace!Freeze(items)) = IF lost THEN None ELSE items
  BY <1>1, <1>2, WorkspaceReopen, Zenon
<1>4. /\ WorkspaceState(items)
      /\ \A id \in DOMAIN items : OfWorkspace!IsItem(items[id]) <=> items[id].query # ""
  BY <1>1, <1>2, WorkspaceStates, Zenon
<1>5. OfWorkspace!Slots(items) \in Seq(WorkspaceSlots(items))
  BY <1>4, WorkspaceSlotsAre
<1> HIDE DEF items
<1>6. ASSUME NEW slot \in WorkspaceSlots(items) PROVE SlotKept(d, items, slot)
  <2> SUFFICES ASSUME NEW proposal, DomainCompile(d, items, slot.id, proposal).reason = None
               PROVE  /\ Requested(proposal, DomainPrompt(d, items, slot), FreeFields(d))
                      /\ CaseKept(d, items, DomainCompile(d, items, slot.id, proposal).task)
    BY DEF SlotKept
  <2>1. OfWorkspace!Compile(items, slot.id, proposal) = DomainCompile(d, items, slot.id, proposal)
    BY Zenon DEF WorkspaceRuns
  <2>2. OfWorkspace!Compile(items, slot.id, proposal).reason = None
    BY <2>1
  <2>3. Requested(proposal, OfWorkspace!Prompted(items, slot), {})
    BY <1>2, <1>4, <2>2, WorkspaceRequested
  <2> DEFINE task == OfWorkspace!Compile(items, slot.id, proposal).task
  <2>4. /\ \/ OfWorkspace!Restore(task, OfWorkspace!SemanticKey(task)) = task
           \/ OfWorkspace!Restore(task, OfWorkspace!SemanticKey(task)) = None /\ lost
        /\ \A other : other # task => OfWorkspace!Restore(other, OfWorkspace!SemanticKey(task)) = None
    BY <1>2, <1>4, <2>2, WorkspaceRestored
  <2> HIDE DEF task
  <2>5. \A other \in TamperedCases(d, task) : other # task
    BY Zenon DEF WorkspaceRuns
  <2>6. CaseKept(d, items, task)
    BY <2>4, <2>5, Zenon DEF WorkspaceRuns, CaseKept
  <2>7. Requested(proposal, DomainPrompt(d, items, slot), FreeFields(d))
    BY <2>3, Zenon DEF WorkspaceRuns
  <2>8. DomainCompile(d, items, slot.id, proposal).task = task
    BY <2>1 DEF task
  <2>9. QED
    BY <2>6, <2>7, <2>8
<1>7. DomainSlots(d, items) \in Seq(WorkspaceSlots(items))
  BY <1>5, Zenon DEF WorkspaceRuns
<1>8. \A i \in DOMAIN DomainSlots(d, items) : SlotKept(d, items, DomainSlots(d, items)[i])
  BY <1>6, <1>7
<1>9. DomainReopen(d, DomainFreeze(d, items)) = IF LosesQuery(d, items) THEN None ELSE items
  BY <1>3, Zenon DEF WorkspaceRuns
<1>10. QED
  BY <1>8, <1>9 DEF RunKept, items

(* Every built-in Domain keeps its runs.                                      *)
LEMMA RunsAreKept ==
  ASSUME BuiltinTasksRun, TextsAreSound, NEW d \in Domains, NEW s \in DomainSources(d), DomainParse(d, s) # None
  PROVE  RunKept(d, DomainParse(d, s))
<1>1. ContactsRuns(d) \/ MobileRuns(d) \/ WorkspaceRuns(d)
  BY DEF BuiltinTasksRun
<1>2. QED
  BY <1>1, ContactsKept, MobileKept, WorkspaceKept, Zenon

(* Their snapshots are opened as what they were made of.                      *)
LEMMA SnapshotsAreKept == ASSUME BuiltinTasksRun, TextsAreSound PROVE SnapshotsReopen
  BY RunsAreKept DEF SnapshotsReopen, RunKept

(* The answer of a run was compiled for a slot whose meaning is kept.           *)
LEMMA AnswersAreKept ==
  ASSUME BuiltinTasksRun, TextsAreSound, TaskInvariant, answer # None, answer.result.reason = None
  PROVE  /\ Requested(answer.proposal, answer.slot.prompt, FreeFields(domain))
         /\ CaseKept(domain, State, answer.result.task)
<1>1. PICK i \in DOMAIN slots :
        /\ answer.slot = slots[i]
        /\ answer.result = DomainCompile(domain, State, slots[i].id, answer.proposal)
  BY DEF TaskInvariant, Answered
<1>2. slots # <<>>
  <2>1. DOMAIN <<>> = {}
    OBVIOUS
  <2>2. QED
    BY <1>1, <2>1
<1>3. State # None /\ slots = Issued(State) /\ domain \in Domains /\ source \in DomainSources(domain)
  BY <1>2 DEF TaskInvariant, Allocated, Given
<1> DEFINE issued == DomainSlots(domain, State)
<1>4. slots = [j \in DOMAIN issued |->
                 [id |-> issued[j].id, prompt |-> DomainPrompt(domain, State, issued[j])]]
  BY <1>3, Zenon DEF Issued
<1>5. RunKept(domain, State)
  BY <1>3, RunsAreKept DEF State
<1>6. \A j \in DOMAIN issued : SlotKept(domain, State, issued[j])
  BY <1>5, Zenon DEF RunKept
<1> HIDE DEF issued
<1>7. i \in DOMAIN issued /\ slots[i] = [id |-> issued[i].id, prompt |-> DomainPrompt(domain, State, issued[i])]
  BY <1>1, <1>4
<1>8. slots[i].id = issued[i].id /\ answer.slot.prompt = DomainPrompt(domain, State, issued[i])
  BY <1>1, <1>7
<1>9. answer.result = DomainCompile(domain, State, issued[i].id, answer.proposal)
  BY <1>1, <1>8
<1>10. SlotKept(domain, State, issued[i])
  BY <1>6, <1>7
<1>11. DomainCompile(domain, State, issued[i].id, answer.proposal).reason = None
  BY <1>9
<1>12. /\ Requested(answer.proposal, DomainPrompt(domain, State, issued[i]), FreeFields(domain))
       /\ CaseKept(domain, State, DomainCompile(domain, State, issued[i].id, answer.proposal).task)
  BY <1>10, <1>11, Zenon DEF SlotKept
<1>13. QED
  BY <1>8, <1>9, <1>12

(* A proposal that compiles is the one its slot asked for, but for the text the *)
(* prompt leaves open, whatever the generator of a built-in Domain answers      *)
(* (contacts.py:328-481, mobile_messages.py:281-473, workspace_tasks.py:310-486). *)
THEOREM WhatCompilesWasRequested ==
  BuiltinTasksRun /\ TextsAreSound => (Spec => []AcceptedMeansRequested)
<1> SUFFICES ASSUME BuiltinTasksRun, TextsAreSound PROVE Spec => []AcceptedMeansRequested
  OBVIOUS
<1>1. NoneIsNoAnswer /\ SnapshotsReopen
  BY SnapshotsAreKept DEF TextsAreSound
<1>2. Spec => []TaskInvariant
  BY <1>1, TaskInvariantAlways
<1>3. TaskInvariant => AcceptedMeansRequested
  <2> SUFFICES ASSUME TaskInvariant, answer # None, answer.result.reason = None
               PROVE  /\ answer.proposal.parses = "object"
                      /\ DOMAIN answer.proposal.fields = DOMAIN answer.slot.prompt.fields
                      /\ \A f \in DOMAIN answer.proposal.fields \ FreeFields(domain) :
                             answer.proposal.fields[f] = answer.slot.prompt.fields[f]
    BY DEF AcceptedMeansRequested
  <2>1. Requested(answer.proposal, answer.slot.prompt, FreeFields(domain))
    BY AnswersAreKept
  <2>2. QED
    BY <2>1, Zenon DEF Requested
<1>4. QED
  BY <1>2, <1>3, PTL

(* A run of a built-in Domain opened again from its snapshot is the run it was, *)
(* its slots mean what they meant, and a saved case is restored as it was       *)
(* compiled, no other under its key; it is refused exactly when a Workspace     *)
(* task was titled by a verb and blanks (contacts.py:483, 1109;                 *)
(* mobile_messages.py:473, 1260; workspace_tasks.py:486, 1559, 1599, 1673, 1803). *)
THEOREM ResumesKeepTheRun ==
  BuiltinTasksRun /\ TextsAreSound => (Spec => []ResumeKeepsTheRun)
<1> SUFFICES ASSUME BuiltinTasksRun, TextsAreSound PROVE Spec => []ResumeKeepsTheRun
  OBVIOUS
<1>1. NoneIsNoAnswer /\ SnapshotsReopen
  BY SnapshotsAreKept DEF TextsAreSound
<1>2. Spec => []TaskInvariant
  BY <1>1, TaskInvariantAlways
<1>3. TaskInvariant => ResumeKeepsTheRun
  <2> SUFFICES ASSUME TaskInvariant PROVE ResumeKeepsTheRun
    OBVIOUS
  <2>1. Given /\ Frozen /\ Running /\ Allocated /\ Stored /\ Restored
    BY DEF TaskInvariant
  <2>2. run # None => DomainFreeze(domain, run) = frozen
    BY <2>1 DEF Running
  <2>3. run = None /\ frozen # None =>
          DomainReopen(domain, frozen) = IF LosesQuery(domain, State) THEN None ELSE State
    BY <1>1, <2>1 DEF Given, Frozen, SnapshotsReopen, State
  <2>4. run # None /\ slots # <<>> => Issued(run) = slots
    BY <2>1 DEF Running, Allocated
  <2>5. stored # None =>
           /\ restored \in {None, stored.case}
           /\ \/ DomainRestore(domain, stored.case, stored.key) = stored.case
              \/ DomainRestore(domain, stored.case, stored.key) = None /\ LosesQuery(domain, State)
           /\ \A other \in TamperedCases(domain, stored.case) :
                  DomainRestore(domain, other, stored.key) = None
    <3> SUFFICES ASSUME stored # None
                 PROVE  /\ restored \in {None, stored.case}
                        /\ \/ DomainRestore(domain, stored.case, stored.key) = stored.case
                           \/ DomainRestore(domain, stored.case, stored.key) = None /\ LosesQuery(domain, State)
                        /\ \A other \in TamperedCases(domain, stored.case) :
                               DomainRestore(domain, other, stored.key) = None
      OBVIOUS
    <3>1. /\ answer # None /\ answer.result.reason = None
          /\ stored = [case |-> answer.result.task, key |-> DomainKey(domain, answer.result.task)]
      BY <2>1 DEF Stored
    <3>2. stored.case = answer.result.task /\ stored.key = DomainKey(domain, stored.case)
      BY <3>1
    <3>3. CaseKept(domain, State, stored.case)
      BY <3>1, <3>2, AnswersAreKept
    <3>4. \/ DomainRestore(domain, stored.case, stored.key) = stored.case
          \/ DomainRestore(domain, stored.case, stored.key) = None /\ LosesQuery(domain, State)
      BY <3>2, <3>3, Zenon DEF CaseKept
    <3>5. \A other \in TamperedCases(domain, stored.case) : DomainRestore(domain, other, stored.key) = None
      BY <3>2, <3>3, Zenon DEF CaseKept
    <3>6. restored \in {None, stored.case}
      BY <2>1, <3>4 DEF Restored
    <3>7. QED
      BY <3>4, <3>5, <3>6
  <2>6. QED
    BY <2>2, <2>3, <2>4, <2>5, Zenon DEF ResumeKeepsTheRun, State
<1>4. QED
  BY <1>2, <1>3, PTL

--------------------------------------------------------------------------------
(* What a capacity counts. The places in a list of lists: their number is the    *)
(* sum of the lengths, and no two of them hold the same.                        *)

(* The places of a table of lengths: the first so many numbers of each entry.   *)
Places(w, S) == {p \in S \X Nat : p[2] \in 1 .. w[p[1]]}
Lengths(seqs) == [i \in DOMAIN seqs |-> Len(seqs[i])]

(* Where every element of every part stands in the whole.                       *)
Placed(at, whole, seqs, n) ==
    /\ at \in [Places(Lengths(seqs), 1 .. n) -> 1 .. Len(whole)]
    /\ \A p, q \in Places(Lengths(seqs), 1 .. n) : at[p] = at[q] => p = q
    /\ \A k \in 1 .. Len(whole) : \E p \in Places(Lengths(seqs), 1 .. n) : at[p] = k
    /\ \A p \in Places(Lengths(seqs), 1 .. n) : whole[at[p]] = seqs[p[1]][p[2]]

(* One more part behind the others.                                             *)
LEMMA PlacedNext ==
  ASSUME NEW T, NEW seqs \in Seq(Seq(T)), NEW n \in 1 .. Len(seqs), NEW whole \in Seq(T), NEW at,
         Placed(at, whole, seqs, n - 1)
  PROVE  \E more : Placed(more, whole \o seqs[n], seqs, n)
<1> DEFINE w == Lengths(seqs)
           old == Places(w, 1 .. n - 1)
           new == Places(w, 1 .. n)
           part == seqs[n]
           longer == whole \o part
           l == Len(whole)
           more == [p \in new |-> IF p[1] = n THEN l + p[2] ELSE at[p]]
<1>1. part \in Seq(T) /\ Len(part) \in Nat /\ l \in Nat /\ n \in Nat /\ w[n] = Len(part)
  BY DEF Lengths
<1>2. /\ longer \in Seq(T) /\ Len(longer) = l + Len(part)
      /\ \A k \in 1 .. l : longer[k] = whole[k]
      /\ \A k \in 1 .. Len(part) : longer[l + k] = part[k]
  <2> DEFINE m == Len(part)
  <2>1. longer \in Seq(T) /\ Len(longer) = l + m
    BY <1>1, ConcatProperties
  <2>2. \A k \in 1 .. l + m : longer[k] = IF k <= l THEN whole[k] ELSE part[k - l]
    BY <1>1, ConcatProperties
  <2>0. l \in Nat /\ m \in Nat
    BY <1>1
  <2> HIDE DEF longer, m, part, w, l
  <2>3. \A k \in 1 .. l : longer[k] = whole[k]
    BY <2>0, <2>2
  <2>4. \A k \in 1 .. m : longer[l + k] = part[k]
    BY <2>0, <2>2
  <2>5. QED
    BY <2>1, <2>3, <2>4 DEF l, m
<1>3. /\ at \in [old -> 1 .. l]
      /\ \A p, q \in old : at[p] = at[q] => p = q
      /\ \A k \in 1 .. l : \E p \in old : at[p] = k
      /\ \A p \in old : whole[at[p]] = seqs[p[1]][p[2]]
  BY DEF Placed
<1>4. \A p \in new : p[1] # n => p \in old
  BY <1>1 DEF Places
<1>5. \A p \in old : p \in new /\ p[1] # n
  BY <1>1 DEF Places
<1>6. \A p \in new : p = <<p[1], p[2]>> /\ p[2] \in Nat /\ (p[1] = n => p[2] \in 1 .. Len(part))
  BY <1>1 DEF Places
<1>7. \A k \in 1 .. Len(part) : <<n, k>> \in new
  BY <1>1 DEF Places
<1> HIDE DEF old, new, w, part, longer, l
<1>8. \A p \in new : /\ p[1] = n => more[p] = l + p[2]
                     /\ p[1] # n => more[p] = at[p]
  OBVIOUS
<1>9. more = [p \in new |-> more[p]]
  OBVIOUS
<1> HIDE DEF more
<1>10. \A p \in new : more[p] \in 1 .. Len(longer) /\ longer[more[p]] = seqs[p[1]][p[2]]
  <2> SUFFICES ASSUME NEW p \in new
               PROVE  more[p] \in 1 .. Len(longer) /\ longer[more[p]] = seqs[p[1]][p[2]]
    OBVIOUS
  <2>1. CASE p[1] = n
    <3>1. more[p] = l + p[2] /\ p[2] \in 1 .. Len(part)
      BY <1>6, <1>8, <2>1
    <3>2. longer[more[p]] = part[p[2]]
      BY <1>2, <3>1
    <3>3. QED
      BY <1>1, <1>2, <2>1, <3>1, <3>2 DEF part
  <2>2. CASE p[1] # n
    <3>1. more[p] = at[p] /\ p \in old
      BY <1>4, <1>8, <2>2
    <3>2. at[p] \in 1 .. l /\ whole[at[p]] = seqs[p[1]][p[2]]
      BY <1>3, <3>1
    <3>3. QED
      BY <1>1, <1>2, <3>1, <3>2
  <2>3. QED
    BY <2>1, <2>2
<1>11. ASSUME NEW p \in new, NEW q \in new, more[p] = more[q] PROVE p = q
  <2>1. CASE p[1] = n /\ q[1] = n
    <3>1. more[p] = l + p[2] /\ more[q] = l + q[2] /\ p[2] \in Nat /\ q[2] \in Nat
      BY <1>6, <1>8, <2>1
    <3>2. l + p[2] = l + q[2]
      BY <1>11, <3>1, Zenon
    <3>3. p[2] = q[2]
      BY <1>1, <3>1, <3>2
    <3>4. QED
      BY <1>6, <2>1, <3>3
  <2>2. CASE p[1] # n /\ q[1] # n
    <3>1. more[p] = at[p] /\ more[q] = at[q] /\ p \in old /\ q \in old
      BY <1>4, <1>8, <2>2
    <3>2. QED
      BY <1>3, <1>11, <3>1
  <2>3. CASE p[1] = n /\ q[1] # n
    <3>1. more[p] = l + p[2] /\ p[2] \in 1 .. Len(part) /\ more[q] = at[q] /\ q \in old
      BY <1>4, <1>6, <1>8, <2>3
    <3>2. at[q] \in 1 .. l /\ l + p[2] = at[q]
      BY <1>3, <1>11, <3>1
    <3>3. QED
      BY <1>1, <3>1, <3>2
  <2>4. CASE p[1] # n /\ q[1] = n
    <3>1. more[q] = l + q[2] /\ q[2] \in 1 .. Len(part) /\ more[p] = at[p] /\ p \in old
      BY <1>4, <1>6, <1>8, <2>4
    <3>2. at[p] \in 1 .. l
      BY <1>3, <3>1
    <3>3. QED
      BY <1>1, <1>11, <3>1, <3>2
  <2>5. QED
    BY <2>1, <2>2, <2>3, <2>4
<1>12. ASSUME NEW k \in 1 .. Len(longer) PROVE \E p \in new : more[p] = k
  <2>1. CASE k <= l
    <3>1. PICK p \in old : at[p] = k
      BY <1>1, <1>2, <1>3, <2>1
    <3>2. QED
      BY <1>5, <1>8, <3>1
  <2>2. CASE k > l
    <3>1. k - l \in 1 .. Len(part)
      BY <1>1, <1>2, <2>2
    <3>2. <<n, k - l>> \in new
      BY <1>7, <3>1
    <3>3. more[<<n, k - l>>] = l + (k - l)
      BY <1>8, <3>2
    <3>4. QED
      BY <1>1, <3>1, <3>2, <3>3
  <2>3. QED
    BY <1>1, <1>2, <2>1, <2>2
<1>13. more \in [new -> 1 .. Len(longer)]
  BY <1>9, <1>10
<1>14. Placed(more, longer, seqs, n)
  BY <1>10, <1>11, <1>12, <1>13, Zenon DEF Placed, new, w
<1>15. QED
  BY <1>14 DEF longer, part

(* Every element of the parts has its place in the whole, and the whole has no  *)
(* others.                                                                      *)
LEMMA FlattenPlaces ==
  ASSUME NEW T, NEW seqs \in Seq(Seq(T))
  PROVE  \E at : Placed(at, FlattenSeq(seqs), seqs, Len(seqs))
<1> DEFINE n == Len(seqs)
<1>0. n \in Nat /\ \A i \in 1 .. n : seqs[i] \in Seq(T)
  OBVIOUS
<1>1. Placed(<<>>, <<>>, seqs, 0)
  <2>1. Places(Lengths(seqs), 1 .. 0) = {}
    BY DEF Places
  <2>2. QED
    BY <2>1 DEF Placed
<1>2. CASE seqs = <<>>
  <2>1. FlattenSeq(seqs) = <<>> /\ Len(seqs) = 0
    BY <1>2, Flattened
  <2>2. QED
    BY <1>1, <2>1
<1>3. CASE seqs # <<>>
  <2>1. PICK f : Joins(f, seqs, n) /\ FlattenSeq(seqs) = f[n]
    BY <1>3, Flattened
  <2>2. \A i \in 1 .. n : f[i] = IF i = 1 THEN seqs[i] ELSE f[i - 1] \o seqs[i]
    BY <2>1 DEF Joins
  <2> DEFINE bad == {i \in 1 .. n : ~(f[i] \in Seq(T) /\ \E at : Placed(at, f[i], seqs, i))}
  <2>3. n # 0
    BY <1>3
  <2> HIDE DEF n
  <2>4. ASSUME bad # {} PROVE FALSE
    <3>0. bad \in SUBSET Nat
      BY <1>0
    <3>1. PICK k \in bad : \A l \in bad : k <= l
      <4> HIDE DEF bad
      <4>1. QED
        BY <2>4, <3>0, LeastExists
    <3>2. k \in 1 .. n /\ k \in Nat /\ seqs[k] \in Seq(T)
      BY <1>0
    <3>3. CASE k = 1
      <4>1. f[k] = <<>> \o seqs[k]
        BY <2>2, <3>2, <3>3
      <4>2. Placed(<<>>, <<>>, seqs, k - 1) /\ k \in 1 .. Len(seqs) /\ <<>> \in Seq(T)
        BY <1>1, <3>2, <3>3 DEF n
      <4>3. \E more : Placed(more, <<>> \o seqs[k], seqs, k)
        BY <4>2, PlacedNext
      <4>4. f[k] \in Seq(T)
        BY <2>2, <3>2, <3>3
      <4>5. QED
        BY <3>1, <4>1, <4>3, <4>4
    <3>4. CASE k # 1
      <4>0. k - 1 \in 1 .. n /\ ~(k <= k - 1)
        BY <1>0, <3>2, <3>4
      <4>1. k - 1 \in 1 .. n /\ k - 1 \notin bad
        BY <3>1, <4>0, Zenon
      <4>2. PICK at : Placed(at, f[k - 1], seqs, k - 1)
        BY <4>1
      <4>3. f[k - 1] \in Seq(T) /\ k \in 1 .. Len(seqs)
        BY <3>2, <4>1 DEF n
      <4>4. \E more : Placed(more, f[k - 1] \o seqs[k], seqs, k)
        BY <4>2, <4>3, PlacedNext
      <4>5. f[k] = f[k - 1] \o seqs[k]
        BY <2>2, <3>2, <3>4
      <4>6. f[k] \in Seq(T)
        BY <3>2, <4>3, <4>5, ConcatProperties
      <4>7. QED
        BY <3>1, <4>4, <4>5, <4>6
    <3>5. QED
      BY <3>3, <3>4
  <2>5. n \in 1 .. n
    BY <1>0, <2>3
  <2>6. \E at : Placed(at, f[n], seqs, n)
    BY <2>4, <2>5
  <2>7. QED
    BY <2>1, <2>6 DEF n
<1>4. QED
  BY <1>2, <1>3

(* No element stands twice in a sequence, or in two of the parts.               *)
Once(seq) == \A i, j \in DOMAIN seq : seq[i] = seq[j] => i = j
Apart(seqs) ==
    \A i, k \in DOMAIN seqs : \A j \in DOMAIN seqs[i], l \in DOMAIN seqs[k] :
        seqs[i][j] = seqs[k][l] => i = k /\ j = l

(* The whole has every element of the parts, no other, and each as often.       *)
LEMMA FlattenElements ==
  ASSUME NEW T, NEW seqs \in Seq(Seq(T))
  PROVE  LET whole == FlattenSeq(seqs)
         IN  /\ whole \in Seq(T)
             /\ \A k \in DOMAIN whole : \E i \in DOMAIN seqs : \E j \in DOMAIN seqs[i] : whole[k] = seqs[i][j]
             /\ \A i \in DOMAIN seqs : \A j \in DOMAIN seqs[i] : \E k \in DOMAIN whole : whole[k] = seqs[i][j]
             /\ Apart(seqs) => Once(whole)
             /\ Len(whole) = Cardinality(Places(Lengths(seqs), DOMAIN seqs))
<1> DEFINE whole == FlattenSeq(seqs)
           n == Len(seqs)
           places == Places(Lengths(seqs), DOMAIN seqs)
<1>1. whole \in Seq(T)
  BY FlattenType
<1>2. n \in Nat /\ DOMAIN seqs = 1 .. n /\ \A i \in 1 .. n : seqs[i] \in Seq(T)
  OBVIOUS
<1>3. \A p : p \in places <=>
        /\ p = <<p[1], p[2]>> /\ p[1] \in DOMAIN seqs /\ p[2] \in DOMAIN seqs[p[1]]
  BY <1>2 DEF Places, Lengths
<1>4. \E at : Placed(at, whole, seqs, n)
  BY FlattenPlaces
<1>5. PICK at : Placed(at, whole, seqs, n)
  BY <1>4
<1>6. places = Places(Lengths(seqs), 1 .. n)
  BY <1>2
<1> HIDE DEF whole, places, n
<1>7. /\ at \in [places -> 1 .. Len(whole)]
      /\ \A p, q \in places : at[p] = at[q] => p = q
      /\ \A k \in 1 .. Len(whole) : \E p \in places : at[p] = k
      /\ \A p \in places : whole[at[p]] = seqs[p[1]][p[2]]
  BY <1>5, <1>6 DEF Placed
<1>8. DOMAIN whole = 1 .. Len(whole) /\ Len(whole) \in Nat
  BY <1>1
<1>9. \A k \in DOMAIN whole : \E i \in DOMAIN seqs : \E j \in DOMAIN seqs[i] : whole[k] = seqs[i][j]
  <2> SUFFICES ASSUME NEW k \in DOMAIN whole
               PROVE  \E i \in DOMAIN seqs : \E j \in DOMAIN seqs[i] : whole[k] = seqs[i][j]
    OBVIOUS
  <2>1. PICK p \in places : at[p] = k
    BY <1>7, <1>8
  <2>2. whole[k] = seqs[p[1]][p[2]] /\ p[1] \in DOMAIN seqs /\ p[2] \in DOMAIN seqs[p[1]]
    BY <1>3, <1>7, <2>1
  <2>3. QED
    BY <2>2
<1>10. \A i \in DOMAIN seqs : \A j \in DOMAIN seqs[i] : \E k \in DOMAIN whole : whole[k] = seqs[i][j]
  <2> SUFFICES ASSUME NEW i \in DOMAIN seqs, NEW j \in DOMAIN seqs[i]
               PROVE  \E k \in DOMAIN whole : whole[k] = seqs[i][j]
    OBVIOUS
  <2>1. <<i, j>> \in places
    BY <1>3
  <2>2. at[<<i, j>>] \in DOMAIN whole /\ whole[at[<<i, j>>]] = seqs[i][j]
    BY <1>7, <1>8, <2>1
  <2>3. QED
    BY <2>2
<1>11. ASSUME Apart(seqs), NEW k \in DOMAIN whole, NEW m \in DOMAIN whole, whole[k] = whole[m] PROVE k = m
  <2>1. PICK p \in places : at[p] = k
    BY <1>7, <1>8
  <2>2. PICK q \in places : at[q] = m
    BY <1>7, <1>8
  <2>3. seqs[p[1]][p[2]] = seqs[q[1]][q[2]]
    BY <1>7, <1>11, <2>1, <2>2
  <2>4. p[1] = q[1] /\ p[2] = q[2]
    BY <1>3, <1>11, <2>3 DEF Apart
  <2>5. p = q
    <3>1. p = <<p[1], p[2]>>
      BY <1>3, Zenon
    <3>2. q = <<q[1], q[2]>>
      BY <1>3, Zenon
    <3>3. QED
      BY <2>4, <3>1, <3>2, Zenon
  <2>6. QED
    BY <2>1, <2>2, <2>5
<1>12. Len(whole) = Cardinality(places)
  <2>1. at \in Bijection(places, 1 .. Len(whole))
    BY <1>7 DEF Bijection, Injection, Surjection, IsInjective
  <2>2. ExistsBijection(1 .. Len(whole), places)
    BY <2>1, Fun_ExistsBijSymmetric DEF ExistsBijection
  <2>3. IsFiniteSet(1 .. Len(whole)) /\ Cardinality(1 .. Len(whole)) = Len(whole)
    <3>1. \A m \in Nat : IsFiniteSet(1 .. m) /\ Cardinality(1 .. m) = m
      BY FS_Interval
    <3>2. QED
      BY <1>8, <3>1, Zenon
  <2>4. Cardinality(places) = Cardinality(1 .. Len(whole))
    BY <2>2, <2>3, FS_Bijection
  <2>5. QED
    BY <2>3, <2>4, Zenon
<1>13. Apart(seqs) => Once(whole)
  BY <1>11 DEF Once
<1>14. QED
  BY <1>1, <1>9, <1>10, <1>12, <1>13 DEF whole, places

(* One entry's places.                                                          *)
LEMMA PlacesOfOne ==
  ASSUME NEW w, NEW S, IsFiniteSet(S), NEW x \in S, w[x] \in Nat, IsFiniteSet(Places(w, S \ {x}))
  PROVE  IsFiniteSet(Places(w, S)) /\ Cardinality(Places(w, S)) = Cardinality(Places(w, S \ {x})) + w[x]
<1> DEFINE own == {<<x, k>> : k \in 1 .. w[x]}
           rest == Places(w, S \ {x})
<1>1. Places(w, S) = rest \cup own
  BY DEF Places
<1>2. rest \cap own = {}
  BY DEF Places
<1>3. IsFiniteSet(own) /\ Cardinality(own) = w[x]
  <2> DEFINE f == [k \in 1 .. w[x] |-> <<x, k>>]
  <2>1. f \in Bijection(1 .. w[x], own)
    BY DEF Bijection, Injection, Surjection, IsInjective
  <2>2. IsFiniteSet(1 .. w[x]) /\ Cardinality(1 .. w[x]) = w[x]
    BY FS_Interval
  <2> HIDE DEF own, f
  <2>3. ExistsBijection(1 .. w[x], own)
    BY <2>1 DEF ExistsBijection
  <2>4. QED
    BY <2>2, <2>3, FS_Bijection
<1> HIDE DEF own, rest
<1>4. IsFiniteSet(rest)
  BY DEF rest
<1>5. IsFiniteSet(rest \cup own)
  BY <1>3, <1>4, FS_Union
<1>6. Cardinality(rest \cup own) = Cardinality(rest) + Cardinality(own) - Cardinality(rest \cap own)
  BY <1>3, <1>4, FS_Union
<1>7. Cardinality(rest \cap own) = 0
  BY <1>2, FS_EmptySet
<1>8. Cardinality(rest) \in Nat
  BY <1>4, FS_CardinalityType
<1>9. Cardinality(rest \cup own) = Cardinality(rest) + w[x]
  BY <1>3, <1>6, <1>7, <1>8
<1>10. QED
  BY <1>1, <1>5, <1>9 DEF rest

(* A sum over the elements of a set, one at a time, counts their places.        *)
LEMMA SumCounts ==
  ASSUME NEW S, IsFiniteSet(S), NEW w, \A x \in S : w[x] \in Nat, NEW sum, sum[{}] = 0,
         \A T \in SUBSET S : T # {} /\ sum[T \ {AnyOf(T)}] \in Nat =>
             sum[T] = sum[T \ {AnyOf(T)}] + w[AnyOf(T)]
  PROVE  sum[S] = Cardinality(Places(w, S)) /\ sum[S] \in Nat
<1> DEFINE Counts(T) == IsFiniteSet(Places(w, T)) /\ sum[T] = Cardinality(Places(w, T))
           bad == {n \in Nat : \E T \in SUBSET S : Cardinality(T) = n /\ ~Counts(T)}
<1>1. bad = {}
  <2> SUFFICES ASSUME bad # {} PROVE FALSE
    OBVIOUS
  <2>0. bad \in SUBSET Nat
    OBVIOUS
  <2>1. PICK n \in bad : \A l \in bad : n <= l
    <3> HIDE DEF bad
    <3>1. QED
      BY <2>0, LeastExists
  <2>2. PICK T \in SUBSET S : Cardinality(T) = n /\ ~Counts(T)
    BY <2>1
  <2>3. CASE T = {}
    <3>1. Places(w, T) = {}
      BY <2>3 DEF Places
    <3>2. IsFiniteSet(Places(w, T)) /\ Cardinality(Places(w, T)) = 0
      BY <3>1, FS_EmptySet
    <3>3. QED
      BY <2>2, <2>3, <3>2
  <2>4. CASE T # {}
    <3> DEFINE x == AnyOf(T)
               U == T \ {x}
    <3>1. n \in Nat /\ T \in Small(S, n)
      BY <2>0, <2>1, <2>2 DEF Small
    <3>2. x \in T /\ Cardinality(U) = n - 1 /\ n \in Nat \ {0}
      BY <2>2, <2>4, <3>1, Smaller
    <3>3. sum[U] \in Nat => sum[T] = sum[U] + w[x]
      BY <2>4
    <3> HIDE DEF x, Counts
    <3>4. n - 1 \in Nat /\ U \in SUBSET S /\ ~(n <= n - 1)
      BY <3>2
    <3>5. n - 1 \notin bad
      BY <2>1, <3>4, Zenon
    <3>6. Counts(U)
      BY <3>2, <3>4, <3>5
    <3>7. IsFiniteSet(Places(w, U)) /\ sum[U] = Cardinality(Places(w, U))
      BY <3>6 DEF Counts
    <3>8. IsFiniteSet(T) /\ w[x] \in Nat
      BY <2>2, <3>2, FS_Subset
    <3>9. IsFiniteSet(Places(w, T)) /\ Cardinality(Places(w, T)) = Cardinality(Places(w, U)) + w[x]
      BY <3>2, <3>7, <3>8, PlacesOfOne
    <3>10. sum[U] \in Nat
      BY <3>7, FS_CardinalityType
    <3>11. Counts(T)
      BY <3>3, <3>7, <3>9, <3>10 DEF Counts
    <3>12. QED
      BY <2>2, <3>11
  <2>5. QED
    BY <2>3, <2>4
<1>2. Cardinality(S) \in Nat /\ S \in SUBSET S
  BY FS_CardinalityType
<1> HIDE DEF Counts
<1>3. Counts(S)
  BY <1>1, <1>2
<1>4. QED
  BY <1>3, FS_CardinalityType DEF Counts

(* There are as many as the entries say.                                        *)
LEMMA PlacesFinite ==
  ASSUME NEW w, NEW S, IsFiniteSet(S), \A x \in S : w[x] \in Nat
  PROVE  IsFiniteSet(Places(w, S)) /\ Cardinality(Places(w, S)) \in Nat
<1> DEFINE Of(x) == {x} \X (1 .. w[x])
           parts == {Of(x) : x \in S}
<1>1. IsFiniteSet(parts)
  <2> DEFINE f == [x \in S |-> Of(x)]
  <2>1. f \in Surjection(S, parts)
    BY DEF Surjection
  <2> HIDE DEF f, parts
  <2>2. QED
    BY <2>1, FS_Surjection
<1>2. \A x \in S : IsFiniteSet(Of(x))
  <2> SUFFICES ASSUME NEW x \in S PROVE IsFiniteSet(Of(x))
    OBVIOUS
  <2> DEFINE own == 1 .. w[x]
  <2>1. IsFiniteSet({x}) /\ IsFiniteSet(own)
    <3>1. IsFiniteSet({x})
      BY FS_Singleton
    <3>2. w[x] \in Int /\ 1 \in Int
      OBVIOUS
    <3>3. IsFiniteSet(own)
      BY <3>2, FS_Interval
    <3>4. QED
      BY <3>1, <3>3
  <2> HIDE DEF own
  <2>2. IsFiniteSet({x} \X own)
    BY <2>1, FS_Product
  <2>3. QED
    BY <2>2 DEF own
<1>3. Places(w, S) = UNION parts
  BY DEF Places
<1>4. \A part \in parts : IsFiniteSet(part)
  BY <1>2
<1> HIDE DEF parts
<1>5. QED
  BY <1>1, <1>3, <1>4, FS_UNION, FS_CardinalityType

(* The sum over the elements of a set, one at a time, is a function of the set. *)
Sums(w, S) == [T \in SUBSET S |-> Cardinality(Places(w, T))]
LEMMA SumsAre ==
  ASSUME NEW w, NEW S, IsFiniteSet(S), \A x \in S : w[x] \in Nat
  PROVE  \A T \in SUBSET S : /\ Sums(w, S)[T] \in Nat
                             /\ T = {} => Sums(w, S)[T] = 0
                             /\ T # {} => /\ AnyOf(T) \in T /\ T \ {AnyOf(T)} \in SUBSET S
                                          /\ w[AnyOf(T)] \in Nat
                                          /\ Sums(w, S)[T] = Sums(w, S)[T \ {AnyOf(T)}] + w[AnyOf(T)]
<1> DEFINE sum == Sums(w, S)
<1>0. sum = [T \in SUBSET S |-> sum[T]] /\ \A U \in SUBSET S : sum[U] = Cardinality(Places(w, U))
  BY DEF Sums
<1> SUFFICES ASSUME NEW T \in SUBSET S
             PROVE  /\ sum[T] \in Nat
                    /\ T = {} => sum[T] = 0
                    /\ T # {} => /\ AnyOf(T) \in T /\ T \ {AnyOf(T)} \in SUBSET S /\ w[AnyOf(T)] \in Nat
                                 /\ sum[T] = sum[T \ {AnyOf(T)}] + w[AnyOf(T)]
  OBVIOUS
<1>1. \A U \in SUBSET S : sum[U] = Cardinality(Places(w, U)) /\ IsFiniteSet(Places(w, U)) /\ sum[U] \in Nat
  <2> SUFFICES ASSUME NEW U \in SUBSET S
               PROVE sum[U] = Cardinality(Places(w, U)) /\ IsFiniteSet(Places(w, U)) /\ sum[U] \in Nat
    OBVIOUS
  <2>1. IsFiniteSet(U) /\ \A x \in U : w[x] \in Nat
    BY FS_Subset
  <2>2. QED
    BY <1>0, <2>1, PlacesFinite
<1> HIDE DEF sum
<1>2. CASE T = {}
  <2>1. Places(w, T) = {}
    BY <1>2 DEF Places
  <2>2. sum[T] = 0
    BY <1>1, <2>1, FS_EmptySet
  <2>3. QED
    BY <1>2, <2>2
<1>3. CASE T # {}
  <2> DEFINE x == AnyOf(T)
             U == T \ {x}
  <2>1. x \in T /\ U \in SUBSET S /\ w[x] \in Nat
    BY <1>3 DEF AnyOf
  <2>2. IsFiniteSet(T)
    BY FS_Subset
  <2> HIDE DEF x
  <2>3. Cardinality(Places(w, T)) = Cardinality(Places(w, U)) + w[x]
    BY <1>1, <2>1, <2>2, PlacesOfOne
  <2>4. sum[T] = sum[U] + w[x]
    BY <1>1, <2>1, <2>3
  <2>5. QED
    BY <1>1, <1>3, <2>1, <2>4 DEF x
<1>4. QED
  BY <1>2, <1>3

(* Entries under other names have as many places.                               *)
LEMMA PlacesRenamed ==
  ASSUME NEW S, NEW R, NEW e \in Bijection(R, S), IsFiniteSet(R), NEW v, NEW w,
         \A i \in R : v[i] = w[e[i]] /\ v[i] \in Nat
  PROVE  Cardinality(Places(w, S)) = Cardinality(Places(v, R))
<1> DEFINE old == Places(v, R)
           new == Places(w, S)
           f == [p \in old |-> <<e[p[1]], p[2]>>]
<1>1. /\ e \in [R -> S] /\ \A i, j \in R : e[i] = e[j] => i = j
      /\ \A x \in S : \E i \in R : e[i] = x
  BY DEF Bijection, Injection, Surjection, IsInjective
<1>2. \A p : p \in old <=> p = <<p[1], p[2]>> /\ p[1] \in R /\ p[2] \in 1 .. v[p[1]]
  BY DEF Places
<1>3. \A p : p \in new <=> p = <<p[1], p[2]>> /\ p[1] \in S /\ p[2] \in 1 .. w[p[1]]
  <2>1. \A x \in S : w[x] \in Nat
    BY <1>1
  <2>2. QED
    BY <2>1 DEF Places
<1>4. IsFiniteSet(old)
  BY PlacesFinite
<1>5. \A p \in old : f[p] = <<e[p[1]], p[2]>>
  OBVIOUS
<1>6. f = [p \in old |-> f[p]]
  OBVIOUS
<1> HIDE DEF old, new, f
<1>7. \A p \in old : f[p] \in new
  <2> SUFFICES ASSUME NEW p \in old PROVE f[p] \in new
    OBVIOUS
  <2>1. p[1] \in R /\ p[2] \in 1 .. v[p[1]]
    BY <1>2
  <2>2. e[p[1]] \in S /\ p[2] \in 1 .. w[e[p[1]]]
    BY <1>1, <2>1
  <2>3. <<e[p[1]], p[2]>> \in new
    BY <1>3, <2>2
  <2>4. QED
    BY <1>5, <2>3
<1>8. \A p, q \in old : f[p] = f[q] => p = q
  <2> SUFFICES ASSUME NEW p \in old, NEW q \in old, f[p] = f[q] PROVE p = q
    OBVIOUS
  <2>1. e[p[1]] = e[q[1]] /\ p[2] = q[2]
    BY <1>5
  <2>2. p[1] = q[1]
    BY <1>1, <1>2, <2>1
  <2>3. QED
    BY <1>2, <2>1, <2>2
<1>9. \A q \in new : \E p \in old : f[p] = q
  <2> SUFFICES ASSUME NEW q \in new PROVE \E p \in old : f[p] = q
    OBVIOUS
  <2>1. q = <<q[1], q[2]>> /\ q[1] \in S /\ q[2] \in 1 .. w[q[1]]
    BY <1>3
  <2>2. PICK i \in R : e[i] = q[1]
    BY <1>1, <2>1
  <2>3. <<i, q[2]>> \in old
    BY <1>2, <2>1, <2>2
  <2>4. f[<<i, q[2]>>] = q
    BY <1>5, <2>1, <2>2, <2>3
  <2>5. QED
    BY <2>3, <2>4
<1>10. f \in Bijection(old, new)
  <2>1. f \in [old -> new]
    BY <1>6, <1>7
  <2>2. QED
    BY <1>8, <1>9, <2>1 DEF Bijection, Injection, Surjection, IsInjective
<1>11. ExistsBijection(old, new)
  BY <1>10 DEF ExistsBijection
<1>12. Cardinality(new) = Cardinality(old)
  BY <1>4, <1>11, FS_Bijection
<1>13. QED
  BY <1>12 DEF old, new

(* What passes a test of a sequence passes it once if it was there once.        *)
KeptOf(seq, passes) == FlattenSeq([i \in DOMAIN seq |-> IF passes[i] THEN <<seq[i]>> ELSE <<>>])
LEMMA KeptOnce ==
  ASSUME NEW T, NEW seq \in Seq(T), Once(seq), NEW passes
  PROVE  /\ KeptOf(seq, passes) \in Seq(T) /\ Once(KeptOf(seq, passes))
         /\ \A k \in DOMAIN KeptOf(seq, passes) :
                \E i \in DOMAIN seq : passes[i] /\ KeptOf(seq, passes)[k] = seq[i]
<1> DEFINE parts == [i \in DOMAIN seq |-> IF passes[i] THEN <<seq[i]>> ELSE <<>>]
<1>1. DOMAIN seq = 1 .. Len(seq) /\ Len(seq) \in Nat
  OBVIOUS
<1>2. DOMAIN parts = DOMAIN seq /\ parts = [i \in 1 .. Len(seq) |-> parts[i]]
  BY <1>1
<1>3. \A i \in DOMAIN seq : /\ parts[i] \in Seq(T)
                            /\ \A j \in DOMAIN parts[i] : passes[i] /\ j = 1 /\ parts[i][j] = seq[i]
  <2> SUFFICES ASSUME NEW i \in DOMAIN seq
               PROVE  /\ parts[i] \in Seq(T)
                      /\ \A j \in DOMAIN parts[i] : passes[i] /\ j = 1 /\ parts[i][j] = seq[i]
    OBVIOUS
  <2>1. CASE passes[i]
    <3>1. parts[i] = <<seq[i]>> /\ seq[i] \in T
      BY <2>1
    <3> HIDE DEF parts
    <3>2. QED
      BY <2>1, <3>1
  <2>2. CASE ~passes[i]
    <3>1. parts[i] = <<>>
      BY <2>2
    <3> HIDE DEF parts
    <3>2. QED
      BY <3>1
  <2>3. QED
    BY <2>1, <2>2
<1> HIDE DEF parts
<1>4. parts \in Seq(Seq(T))
  BY <1>1, <1>2, <1>3
<1>5. Apart(parts)
  <2> SUFFICES ASSUME NEW i \in DOMAIN parts, NEW k \in DOMAIN parts, NEW j \in DOMAIN parts[i],
                      NEW l \in DOMAIN parts[k], parts[i][j] = parts[k][l]
               PROVE  i = k /\ j = l
    BY DEF Apart
  <2>1. i \in DOMAIN seq /\ k \in DOMAIN seq
    BY <1>2
  <2>2. j = 1 /\ l = 1 /\ parts[i][j] = seq[i] /\ parts[k][l] = seq[k]
    BY <1>3, <2>1, Zenon
  <2>3. QED
    BY <2>1, <2>2, Zenon DEF Once
<1> DEFINE kept == FlattenSeq(parts)
<1>6. kept \in Seq(T) /\ Once(kept)
      /\ \A k \in DOMAIN kept : \E i \in DOMAIN parts : \E j \in DOMAIN parts[i] : kept[k] = parts[i][j]
  BY <1>4, <1>5, FlattenElements
<1> HIDE DEF kept
<1>7. \A k \in DOMAIN kept : \E i \in DOMAIN seq : passes[i] /\ kept[k] = seq[i]
  <2> SUFFICES ASSUME NEW k \in DOMAIN kept PROVE \E i \in DOMAIN seq : passes[i] /\ kept[k] = seq[i]
    OBVIOUS
  <2>1. PICK i \in DOMAIN parts : \E j \in DOMAIN parts[i] : kept[k] = parts[i][j]
    BY <1>6
  <2>2. PICK j \in DOMAIN parts[i] : kept[k] = parts[i][j]
    BY <2>1
  <2>3. i \in DOMAIN seq
    BY <1>2
  <2>4. passes[i] /\ parts[i][j] = seq[i]
    BY <1>3, <2>3, Zenon
  <2>5. QED
    BY <2>2, <2>3, <2>4, Zenon
<1>8. QED
  BY <1>6, <1>7 DEF kept, parts, KeptOf

--------------------------------------------------------------------------------
(* The slots of Contacts. *)

(* The kinds of a contact differ.                                             *)
LEMMA ContactSpecsOnce ==
  ASSUME NEW state, NEW name
  PROVE  OfContacts!SpecsFor(state, name) \in Seq(ContactSpecs) /\ Once(OfContacts!SpecsFor(state, name))
<1> DEFINE specs == OfContacts!TaskSpecs
           Passes(spec) == name \notin DOMAIN state.followups \/ spec.action = "lookup_email"
           passes == [i \in DOMAIN specs |-> Passes(specs[i])]
<1>1. OfContacts!SpecsFor(state, name)
        = FlattenSeq([i \in DOMAIN specs |-> IF Passes(specs[i]) THEN <<specs[i]>> ELSE <<>>])
  BY SameCommon, Zenon DEF OfContacts!SpecsFor, OfContacts!Those
<1>2. specs \in Seq(ContactSpecs) /\ Once(specs)
  <2>1. specs = [i \in 1 .. 8 |-> specs[i]] /\ \A i, j \in 1 .. 8 : specs[i].kind = specs[j].kind => i = j
    BY DEF OfContacts!TaskSpecs, OfContacts!TaskSpec
  <2>2. \A i \in 1 .. 8 : specs[i] \in ContactSpecs
    BY DEF ContactSpecs
  <2> HIDE DEF specs
  <2>3. specs \in Seq(ContactSpecs)
    BY <2>1, <2>2
  <2>4. Once(specs)
    BY <2>1 DEF Once
  <2>5. QED
    BY <2>3, <2>4
<1> HIDE DEF specs
<1>3. [i \in DOMAIN specs |-> IF Passes(specs[i]) THEN <<specs[i]>> ELSE <<>>]
        = [i \in DOMAIN specs |-> IF passes[i] THEN <<specs[i]>> ELSE <<>>]
  OBVIOUS
<1> HIDE DEF passes
<1> DEFINE kept == FlattenSeq([i \in DOMAIN specs |-> IF passes[i] THEN <<specs[i]>> ELSE <<>>])
<1>4. kept \in Seq(ContactSpecs) /\ Once(kept)
  BY <1>2, KeptOnce DEF KeptOf
<1>5. QED
  BY <1>1, <1>3, <1>4

(* The sum over a set is how many places its elements have.                     *)
Adds(f, w, S) ==
    \A T \in SUBSET S : f[T] = IF T = {} THEN 0 ELSE w[AnyOf(T)] + f[T \ {AnyOf(T)}]
LEMMA SumExists ==
  ASSUME NEW S, IsFiniteSet(S), NEW w, \A x \in S : w[x] \in Nat
  PROVE  Sums(w, S) = [T \in SUBSET S |-> Sums(w, S)[T]] /\ Adds(Sums(w, S), w, S)
<1>0. \A U \in SUBSET S : Sums(w, S)[U] \in Nat
  BY SumsAre
<1>4. \A U \in SUBSET S : U # {} => Sums(w, S)[U] = Sums(w, S)[U \ {AnyOf(U)}] + w[AnyOf(U)]
  BY SumsAre
<1>5. \A U \in SUBSET S : U # {} => w[AnyOf(U)] \in Nat
  <2>1. \A U \in SUBSET S : U # {} => AnyOf(U) \in U
    BY SumsAre
  <2>2. QED
    BY <2>1
<1>6. \A U \in SUBSET S : U \ {AnyOf(U)} \in SUBSET S
  OBVIOUS
<1>1. Sums(w, S) = [T \in SUBSET S |-> Sums(w, S)[T]]
  BY DEF Sums
<1> SUFFICES ASSUME NEW T \in SUBSET S
             PROVE  Sums(w, S)[T] = IF T = {} THEN 0 ELSE w[AnyOf(T)] + Sums(w, S)[T \ {AnyOf(T)}]
  BY <1>1 DEF Adds
<1>2. CASE T = {}
  BY <1>2, SumsAre
<1>3. CASE T # {}
  <2> DEFINE a == Sums(w, S)[T]
             b == Sums(w, S)[T \ {AnyOf(T)}]
             c == w[AnyOf(T)]
  <2>1. c \in Nat /\ a = b + c
    BY <1>3, <1>4, <1>5, Zenon
  <2>2. b \in Nat
    BY <1>0, <1>6, Zenon
  <2> HIDE DEF a, b, c
  <2>3. a = c + b
    BY <2>1, <2>2
  <2>4. QED
    BY <1>3, <2>3 DEF a, b, c
<1>7. QED
  BY <1>2, <1>3

LEMMA SumOver ==
  ASSUME NEW S, IsFiniteSet(S), NEW w, \A x \in S : w[x] \in Nat, NEW sum, Adds(sum, w, S)
  PROVE  sum[S] = Cardinality(Places(w, S))
<1>1. sum[{}] = 0
  BY DEF Adds
<1>2. \A T \in SUBSET S : T # {} /\ sum[T \ {AnyOf(T)}] \in Nat =>
             sum[T] = sum[T \ {AnyOf(T)}] + w[AnyOf(T)]
  <2> SUFFICES ASSUME NEW T \in SUBSET S, T # {}, sum[T \ {AnyOf(T)}] \in Nat
               PROVE  sum[T] = sum[T \ {AnyOf(T)}] + w[AnyOf(T)]
    OBVIOUS
  <2> DEFINE a == sum[T]
             b == sum[T \ {AnyOf(T)}]
             c == w[AnyOf(T)]
  <2>1. AnyOf(T) \in S
    BY DEF AnyOf
  <2>2. c \in Nat /\ b \in Nat /\ a = c + b
    BY <2>1 DEF Adds
  <2> HIDE DEF a, b, c
  <2>3. a = b + c
    BY <2>2
  <2>4. QED
    BY <2>3 DEF a, b, c
<1>3. QED
  BY <1>1, <1>2, SumCounts

(* As many slots as the capacity says, no two of them the same.               *)
LEMMA ContactSlotsCount ==
  ASSUME NEW state, IsFiniteSet(DOMAIN state.contacts)
  PROVE  /\ Once(OfContacts!Slots(state))
         /\ Len(OfContacts!Slots(state)) = OfContacts!Capacity(state)
<1> DEFINE names == DOMAIN state.contacts
           e == SetToSeq(names)
           k == Cardinality(names)
           Specs(name) == OfContacts!SpecsFor(state, name)
           Slot(spec, name) == [id |-> OfContacts!SlotId(state, spec, name), spec |-> spec, target |-> name]
           part == [i \in 1 .. k |-> [j \in DOMAIN Specs(e[i]) |-> Slot(Specs(e[i])[j], e[i])]]
           w == [name \in names |-> Len(Specs(name))]
           sums == CHOOSE g : g = [T \in SUBSET names |-> IF T = {} THEN 0
                                                        ELSE Len(Specs(AnyOf(T))) + g[T \ {AnyOf(T)}]]
<1>1. /\ e \in [1 .. k -> names] /\ k \in Nat
      /\ \A i, j \in 1 .. k : e[i] = e[j] => i = j
      /\ \A x \in names : \E i \in 1 .. k : e[i] = x
  BY Enumerated
<1>2. OfContacts!Slots(state) = FlattenSeq(part)
  <2>1. OfContacts!Enumerate(names) = e
    BY SameCommon DEF OfContacts!Enumerate
  <2>2. OfContacts!Cardinality(names) = k
    BY Zenon DEF OfContacts!Cardinality, Cardinality
  <2>3. QED
    BY <2>1, <2>2, SameCommon, Zenon DEF OfContacts!Slots
<1>3. OfContacts!Capacity(state) = sums[names]
  BY Zenon DEF OfContacts!Capacity, OfContacts!MapThenSumSet, OfContacts!MapThenFoldSet, AnyOf
<1>4. \A name : Specs(name) \in Seq(ContactSpecs) /\ Once(Specs(name))
  BY ContactSpecsOnce
<1> HIDE DEF e, k, Specs, sums
<1>5. /\ DOMAIN part = 1 .. k /\ part = [i \in 1 .. k |-> part[i]]
      /\ \A i \in 1 .. k : part[i] = [j \in DOMAIN Specs(e[i]) |-> Slot(Specs(e[i])[j], e[i])]
  OBVIOUS
<1>6. \A spec, name : Slot(spec, name).spec = spec /\ Slot(spec, name).target = name
  OBVIOUS
<1> DEFINE ours == {Slot(spec, name) : spec \in ContactSpecs, name \in names}
<1> HIDE DEF Slot, part
<1>7. \A spec \in ContactSpecs, name \in names : Slot(spec, name) \in ours
  OBVIOUS
<1> HIDE DEF ours
<1>8. \A i \in 1 .. k : e[i] \in names /\ part[i] \in Seq(ours) /\ Len(part[i]) = w[e[i]] /\ w[e[i]] \in Nat
  <2> SUFFICES ASSUME NEW i \in 1 .. k
               PROVE  e[i] \in names /\ part[i] \in Seq(ours) /\ Len(part[i]) = w[e[i]] /\ w[e[i]] \in Nat
    OBVIOUS
  <2> DEFINE specs == Specs(e[i])
  <2>1. specs \in Seq(ContactSpecs) /\ e[i] \in names
    BY <1>1, <1>4
  <2>2. part[i] = [j \in DOMAIN specs |-> Slot(specs[j], e[i])] /\ w[e[i]] = Len(specs)
    BY <1>5, <2>1
  <2> HIDE DEF specs, w, names
  <2>3. DOMAIN specs = 1 .. Len(specs) /\ Len(specs) \in Nat
    BY <2>1
  <2>4. \A j \in DOMAIN specs : Slot(specs[j], e[i]) \in ours
    BY <1>7, <2>1
  <2>5. part[i] \in Seq(ours) /\ Len(part[i]) = Len(specs)
    BY <2>2, <2>3, <2>4
  <2>6. QED
    BY <2>1, <2>2, <2>3, <2>5
<1>9. part \in Seq(Seq(ours))
  <2>1. part = [i \in 1 .. k |-> part[i]] /\ \A i \in 1 .. k : part[i] \in Seq(ours)
    BY <1>5, <1>8, Zenon
  <2>2. QED
    BY <1>1, <2>1
<1>10. Apart(part)
  <2> SUFFICES ASSUME NEW i \in 1 .. k, NEW h \in 1 .. k, NEW j \in DOMAIN part[i],
                      NEW l \in DOMAIN part[h], part[i][j] = part[h][l]
               PROVE  i = h /\ j = l
    BY <1>5, Zenon DEF Apart
  <2>1. j \in DOMAIN Specs(e[i]) /\ part[i][j] = Slot(Specs(e[i])[j], e[i])
    BY <1>5
  <2>2. l \in DOMAIN Specs(e[h]) /\ part[h][l] = Slot(Specs(e[h])[l], e[h])
    BY <1>5
  <2>3. e[i] = e[h] /\ Specs(e[i])[j] = Specs(e[h])[l]
    <3>1. Slot(Specs(e[i])[j], e[i]) = Slot(Specs(e[h])[l], e[h])
      BY <2>1, <2>2
    <3>2. QED
      BY <1>6, <3>1
  <2>4. i = h
    BY <1>1, <2>3, Zenon
  <2>5. j = l
    BY <1>4, <2>1, <2>2, <2>3, <2>4, Zenon DEF Once
  <2>6. QED
    BY <2>4, <2>5
<1>11. /\ Once(FlattenSeq(part))
       /\ Len(FlattenSeq(part)) = Cardinality(Places(Lengths(part), DOMAIN part))
  BY <1>9, <1>10, FlattenElements
<1>12. sums[names] = Cardinality(Places(w, names))
  <2>1. \A name \in names : w[name] \in Nat /\ w[name] = Len(Specs(name))
    BY <1>4
  <2>2. IsFiniteSet(names)
    OBVIOUS
  <2> DEFINE By(g) == [T \in SUBSET names |-> IF T = {} THEN 0
                                                ELSE Len(Specs(AnyOf(T))) + g[T \ {AnyOf(T)}]]
  <2> HIDE DEF w, names, Specs
  <2>3. \A T \in SUBSET names : T # {} => w[AnyOf(T)] = Len(Specs(AnyOf(T)))
    <3> SUFFICES ASSUME NEW T \in SUBSET names, T # {}
                 PROVE  w[AnyOf(T)] = Len(Specs(AnyOf(T)))
      OBVIOUS
    <3>1. AnyOf(T) \in names
      BY DEF AnyOf
    <3>2. QED
      BY <2>1, <3>1, Zenon
  <2>4. \A g : Adds(g, w, names) /\ g = [T \in SUBSET names |-> g[T]] => g = By(g)
    <3> SUFFICES ASSUME NEW g, Adds(g, w, names), g = [T \in SUBSET names |-> g[T]] PROVE g = By(g)
      OBVIOUS
    <3>1. \A T \in SUBSET names : g[T] = By(g)[T]
      BY <2>3, Zenon DEF Adds
    <3>2. By(g) = [T \in SUBSET names |-> By(g)[T]]
      BY Zenon
    <3> HIDE DEF By
    <3>3. QED
      BY <3>1, <3>2
  <2>5. \A g : g = By(g) => Adds(g, w, names)
    <3> SUFFICES ASSUME NEW g, g = By(g) PROVE Adds(g, w, names)
      OBVIOUS
    <3> SUFFICES ASSUME NEW T \in SUBSET names
                 PROVE  g[T] = IF T = {} THEN 0 ELSE w[AnyOf(T)] + g[T \ {AnyOf(T)}]
      BY DEF Adds
    <3>1. By(g)[T] = IF T = {} THEN 0 ELSE Len(Specs(AnyOf(T))) + g[T \ {AnyOf(T)}]
      BY Zenon
    <3> HIDE DEF By
    <3>2. g[T] = By(g)[T]
      OBVIOUS
    <3>3. QED
      BY <2>3, <3>1, <3>2, Zenon
  <2>6. sums = CHOOSE g : g = By(g)
    BY Zenon DEF sums
  <2> HIDE DEF By
  <2>7. \E g : g = By(g)
    BY <2>1, <2>2, <2>4, SumExists, Zenon
  <2>8. Adds(sums, w, names)
    BY <2>5, <2>6, <2>7, Zenon
  <2>9. QED
    BY <2>1, <2>2, <2>8, SumOver, Zenon
<1>13. Cardinality(Places(w, names)) = Cardinality(Places(Lengths(part), DOMAIN part))
  <2>1. e \in Bijection(1 .. k, names)
    BY <1>1 DEF Bijection, Injection, Surjection, IsInjective
  <2>2. \A i \in 1 .. k : Lengths(part)[i] = w[e[i]] /\ Lengths(part)[i] \in Nat
    BY <1>5, <1>8 DEF Lengths
  <2>3. IsFiniteSet(1 .. k)
    BY <1>1, FS_Interval
  <2> DEFINE v == Lengths(part)
             R == 1 .. k
  <2> HIDE DEF w, names, v, R
  <2>4. Cardinality(Places(w, names)) = Cardinality(Places(v, R))
    <3>1. e \in Bijection(R, names) /\ IsFiniteSet(R) /\ \A i \in R : v[i] = w[e[i]] /\ v[i] \in Nat
      BY <2>1, <2>2, <2>3, Zenon DEF v, R
    <3>2. QED
      BY <3>1, PlacesRenamed
  <2>5. QED
    BY <1>5, <2>4 DEF v, R
<1>14. QED
  BY <1>2, <1>3, <1>11, <1>12, <1>13

--------------------------------------------------------------------------------
(* The prompts of Contacts. *)

(* What the prompts ask for, none of the refusals is about: the note is one the  *)
(* Domain allows, no name of an action denies it, and None is neither a text of *)
(* a proposal nor a slot.                                                       *)
PromptsAreAllowed ==
    /\ PromptNote \in AllowedNote
    /\ {"lookup_email", "record_followup"} \cap NegatedContact = {}
    /\ {"search_messages", "create_reminder", "create_draft_reply"} \cap NegatedMessage = {}
    /\ {"search_workspace_items", "create_workspace_task", "add_workspace_comment"} \cap NegatedItem = {}
    /\ None \notin {"true", "lookup_email", "record_followup", "search_messages", "create_reminder",
                    "create_draft_reply", "search_workspace_items", "create_workspace_task",
                    "add_workspace_comment"}
    /\ \A id, spec, target : [id |-> id, spec |-> spec, target |-> target] # None

(* A followup that is asked for is refused by none of its tests.              *)
LEMMA FollowupPasses ==
  ASSUME RefusalsHaveReasons, NEW fields, NEW spec,
         OfContacts!Get(fields, "condition", None) = "after_lookup_match",
         OfContacts!Get(fields, "note_constraint", None) = spec.constraint,
         spec.constraint = "exact" => OfContacts!Get(fields, "note", None) \in AllowedNote,
         DOMAIN fields = {"action", "condition", "contact", "note_constraint", "route"}
                             \cup (IF spec.constraint = "exact" THEN {"note"} ELSE {})
  PROVE  OfContacts!FollowupRefusal(fields, spec) = None
<1> DEFINE exact == spec.constraint = "exact"
           domain_ == {"action", "condition", "contact", "note_constraint", "route"}
                                \cup (IF exact THEN {"note"} ELSE {})
           checks == <<
        <<OfContacts!Get(fields, "condition", None) # "after_lookup_match", "uncheckable_condition">>,
        <<OfContacts!Get(fields, "note_constraint", None) # spec.constraint, "unsupported_note">>,
        <<exact /\ OfContacts!Get(fields, "note", None) \notin AllowedNote, "unsupported_note">>,
        <<~exact /\ "note" \in DOMAIN fields, "unsupported_note">>,
        <<DOMAIN fields # domain_, "unsupported_requested_action">>>>
<1>1. OfContacts!FollowupRefusal(fields, spec) = OfContacts!EarlyReturn(checks, None)
  BY Zenon DEF OfContacts!FollowupRefusal
<1>2. ~exact => "note" \notin DOMAIN fields
  OBVIOUS
<1>3. /\ OfContacts!Get(fields, "condition", None) = "after_lookup_match"
      /\ OfContacts!Get(fields, "note_constraint", None) = spec.constraint
      /\ exact => OfContacts!Get(fields, "note", None) \in AllowedNote
      /\ DOMAIN fields = domain_
  OBVIOUS
<1> HIDE DEF domain_, exact
<1>4. Tests(checks)
  <2>1. checks = [i \in 1 .. 5 |-> checks[i]] /\ \A i \in 1 .. 5 : checks[i][2] # None
    BY DEF RefusalsHaveReasons
  <2> HIDE DEF checks
  <2>2. QED
    BY <2>1 DEF Tests
<1>5. /\ checks[1][1] = (OfContacts!Get(fields, "condition", None) # "after_lookup_match")
      /\ checks[2][1] = (OfContacts!Get(fields, "note_constraint", None) # spec.constraint)
      /\ checks[3][1] = (exact /\ OfContacts!Get(fields, "note", None) \notin AllowedNote)
      /\ checks[4][1] = (~exact /\ "note" \in DOMAIN fields)
      /\ checks[5][1] = (DOMAIN fields # domain_)
      /\ DOMAIN checks = 1 .. 5
  OBVIOUS
<1> HIDE DEF checks
<1>6. ~checks[1][1] /\ ~checks[2][1] /\ ~checks[3][1] /\ ~checks[4][1] /\ ~checks[5][1]
  BY <1>2, <1>3, <1>5, Zenon
<1>7. Passed(checks)
  BY <1>5, <1>6 DEF Passed
<1>8. QED
  BY <1>1, <1>4, <1>7, PassedTests, Zenon

(* What a prompt of Contacts asks for.                                        *)
LEMMA ContactPrompt ==
  ASSUME NEW state, NEW slot \in ContactSlots(state)
  PROVE  LET fields == OfContacts!Prompted(state, slot).fields
             spec == slot.spec
         IN  /\ OfContacts!Prompted(state, slot).parses = "object"
             /\ OfContacts!Get(fields, "action", None) = spec.action
             /\ OfContacts!Get(fields, "contact", None) = slot.target
             /\ OfContacts!Get(fields, "route", None) = spec.route
             /\ OfContacts!Get(fields, "negated", None) = None
             /\ spec.action = "lookup_email" => DOMAIN fields = {"action", "contact", "route"}
             /\ spec.action # "lookup_email" =>
                    /\ OfContacts!Get(fields, "condition", None) = "after_lookup_match"
                    /\ OfContacts!Get(fields, "note_constraint", None) = spec.constraint
                    /\ DOMAIN fields = {"action", "condition", "contact", "note_constraint", "route"}
                                           \cup (IF spec.constraint = "exact" THEN {"note"} ELSE {})
             /\ spec.constraint = "exact" =>
                    fields.note = PromptNote /\ OfContacts!Get(fields, "note", None) = PromptNote
<1> DEFINE asked == OfContacts!Prompted(state, slot).fields
           spec == slot.spec
<1>1. spec \in ContactSpecs
  BY DEF ContactSlots, ContactSlot
<1>2. OfContacts!Prompted(state, slot).parses = "object"
  BY DEF OfContacts!Prompted
<1>3. CASE spec.action = "lookup_email"
  <2>1. asked = [action |-> spec.action, contact |-> slot.target, route |-> spec.route]
    BY <1>3 DEF OfContacts!Prompted
  <2>2. spec.constraint # "exact"
    BY <1>1, <1>3, ContactSpecsAre
  <2> HIDE DEF asked, spec
  <2>3. DOMAIN asked = {"action", "contact", "route"} /\ asked["contact"] = slot.target
        /\ asked["action"] = spec.action /\ asked["route"] = spec.route
    BY <2>1
  <2>4. QED
    BY <1>2, <1>3, <2>2, <2>3 DEF OfContacts!Get, asked, spec
<1>4. CASE spec.action # "lookup_email"
  <2>1. /\ DOMAIN asked = {"action", "condition", "contact", "note_constraint", "route"}
                              \cup (IF spec.constraint = "exact" THEN {"note"} ELSE {})
        /\ asked["contact"] = slot.target /\ asked["action"] = spec.action /\ asked["route"] = spec.route
        /\ asked["condition"] = "after_lookup_match" /\ asked["note_constraint"] = spec.constraint
        /\ spec.constraint = "exact" => asked["note"] = PromptNote
    <3>1. CASE spec.constraint = "exact"
      BY <1>4, <3>1 DEF OfContacts!Prompted, OfContacts!Both
    <3>2. CASE spec.constraint # "exact"
      BY <1>4, <3>2 DEF OfContacts!Prompted, OfContacts!Both
    <3>3. QED
      BY <3>1, <3>2
  <2> HIDE DEF asked, spec
  <2>2. "negated" \notin DOMAIN asked
    BY <2>1
  <2>3. {"action", "condition", "contact", "note_constraint", "route"} \subseteq DOMAIN asked
        /\ (spec.constraint = "exact" => "note" \in DOMAIN asked)
    BY <2>1
  <2>4. QED
    BY <1>2, <1>4, <2>1, <2>2, <2>3 DEF OfContacts!Get, asked, spec
<1>5. QED
  BY <1>3, <1>4

(* The task a slot of Contacts stands for.                                      *)
ContactTaskOf(state, slot) ==
    [target |-> slot.target, expected |-> state.contacts[slot.target], action |-> slot.spec.action,
     route |-> slot.spec.route, constraint |-> slot.spec.constraint,
     exact |-> IF slot.spec.constraint = "exact" THEN PromptNote ELSE None]

(* A prompt of Contacts compiles, to the task of its slot.                    *)
LEMMA ContactCompiles ==
  ASSUME RefusalsHaveReasons, PromptsAreAllowed, NEW state, NEW slot \in ContactSlots(state),
         slot # None, OfContacts!SlotWithId(state, slot.id) = slot
  PROVE  LET result == OfContacts!Compile(state, slot.id, OfContacts!Prompted(state, slot))
         IN  result.reason = None /\ result.task = ContactTaskOf(state, slot)
<1> DEFINE id == slot.id
           proposal == OfContacts!Prompted(state, slot)
           found == OfContacts!SlotWithId(state, id)
           fields == proposal.fields
           action == OfContacts!Get(fields, "action", None)
           otherwise == IF action = "lookup_email" THEN None ELSE OfContacts!FollowupRefusal(fields, found.spec)
           general == OfContacts!NotAnObject(proposal)
           own == <<
            <<action = None, "unsupported_requested_action">>,
            <<OfContacts!Get(fields, "negated", None) = "true" \/ action \in NegatedContact, "negated_action">>,
            <<OfContacts!Get(fields, "contact", None) # found.target, "wrong_contact_binding">>,
            <<action # found.spec.action, "unsupported_requested_action">>,
            <<OfContacts!Get(fields, "route", None) # found.spec.route, "uncheckable_condition">>,
            <<action = "lookup_email" /\ DOMAIN fields # {"action", "contact", "route"},
              "unsupported_requested_action">>>>
           refusal == OfContacts!EarlyReturn(general \o own, otherwise)
           task == [target |-> found.target, expected |-> state.contacts[found.target],
                    action |-> action, route |-> found.spec.route, constraint |-> found.spec.constraint,
                    exact |-> IF found.spec.constraint = "exact" THEN fields.note ELSE None]
           result == OfContacts!Compile(state, id, proposal)
<1>1. result = IF found = None THEN OfContacts!Rejection("unsupported_task_slot")
               ELSE IF refusal # None THEN OfContacts!Rejection(refusal) ELSE OfContacts!Compiled(task)
  BY Zenon DEF OfContacts!Compile
<1>2. found = slot
  OBVIOUS
<1>3. /\ proposal.parses = "object"
      /\ action = slot.spec.action
      /\ OfContacts!Get(fields, "contact", None) = slot.target
      /\ OfContacts!Get(fields, "route", None) = slot.spec.route
      /\ OfContacts!Get(fields, "negated", None) = None
      /\ slot.spec.action = "lookup_email" => DOMAIN fields = {"action", "contact", "route"}
      /\ slot.spec.action # "lookup_email" =>
             /\ OfContacts!Get(fields, "condition", None) = "after_lookup_match"
             /\ OfContacts!Get(fields, "note_constraint", None) = slot.spec.constraint
             /\ DOMAIN fields = {"action", "condition", "contact", "note_constraint", "route"}
                                    \cup (IF slot.spec.constraint = "exact" THEN {"note"} ELSE {})
      /\ slot.spec.constraint = "exact" =>
             fields.note = PromptNote /\ OfContacts!Get(fields, "note", None) = PromptNote
  BY ContactPrompt
<1>4. slot.spec.action \in {"lookup_email", "record_followup"}
  <2>1. slot.spec \in ContactSpecs
    BY DEF ContactSlots, ContactSlot
  <2>2. QED
    BY <2>1, ContactSpecsAre
<1>5. general = <<<<proposal.parses = "text" /\ proposal.negated, "negated_action">>,
                  <<proposal.parses = "text", "proposal_not_json">>,
                  <<proposal.parses # "object", "proposal_not_object">>>>
  BY Zenon DEF OfContacts!NotAnObject
<1> HIDE DEF refusal, task, result, id, proposal, fields, action, found, otherwise, general
<1>6. Tests(general) /\ Passed(general)
  <2>1. general = [i \in 1 .. 3 |-> general[i]] /\ \A i \in 1 .. 3 : general[i][2] # None
    BY <1>5 DEF RefusalsHaveReasons
  <2>4. /\ general[1][1] = (proposal.parses = "text" /\ proposal.negated)
        /\ general[2][1] = (proposal.parses = "text") /\ general[3][1] = (proposal.parses # "object")
    BY <1>5
  <2>5. proposal.parses # "text"
    BY <1>3
  <2>6. ~general[1][1] /\ ~general[2][1] /\ ~general[3][1]
    BY <1>3, <2>4, <2>5, Zenon
  <2>2. \A i \in 1 .. 3 : ~general[i][1]
    BY <2>6
  <2>3. DOMAIN general = 1 .. 3
    BY <2>1
  <2>7. QED
    BY <2>1, <2>2, <2>3, Zenon DEF Tests, Passed
<1>7. Tests(own)
  <2>1. own = [i \in 1 .. 6 |-> own[i]] /\ \A i \in 1 .. 6 : own[i][2] # None
    BY DEF RefusalsHaveReasons
  <2> HIDE DEF own
  <2>2. QED
    BY <2>1 DEF Tests
<1>8. /\ DOMAIN own = 1 .. 6
      /\ own[1][1] = (action = None)
      /\ own[2][1] = (OfContacts!Get(fields, "negated", None) = "true" \/ action \in NegatedContact)
      /\ own[3][1] = (OfContacts!Get(fields, "contact", None) # found.target)
      /\ own[4][1] = (action # found.spec.action)
      /\ own[5][1] = (OfContacts!Get(fields, "route", None) # found.spec.route)
      /\ own[6][1] = (action = "lookup_email" /\ DOMAIN fields # {"action", "contact", "route"})
  OBVIOUS
<1> HIDE DEF own
<1>9. Passed(own)
  <2>1. action # None /\ action \notin NegatedContact /\ None # "true"
    BY <1>3, <1>4 DEF PromptsAreAllowed
  <2>2. ~own[1][1] /\ ~own[2][1] /\ ~own[3][1] /\ ~own[4][1] /\ ~own[5][1] /\ ~own[6][1]
    BY <1>2, <1>3, <1>8, <2>1, Zenon
  <2>3. QED
    BY <1>8, <2>2 DEF Passed
<1>10. otherwise = None
  <2>1. CASE action = "lookup_email"
    BY <2>1 DEF otherwise
  <2>2. CASE action # "lookup_email"
    <3>1. slot.spec.constraint = "exact" => OfContacts!Get(fields, "note", None) \in AllowedNote
      BY <1>3 DEF PromptsAreAllowed
    <3>2. OfContacts!FollowupRefusal(fields, slot.spec) = None
      BY <1>3, <2>2, <3>1, FollowupPasses, Zenon
    <3>3. QED
      BY <1>2, <2>2, <3>2, Zenon DEF otherwise
  <2>3. QED
    BY <2>1, <2>2
<1>11. refusal = None
  <2>1. Tests(general \o own) /\ Passed(general \o own)
    BY <1>6, <1>7, <1>9, JoinedTests, Zenon
  <2>2. QED
    BY <1>10, <2>1, PassedTests, Zenon DEF refusal
<1>12. result = OfContacts!Compiled(task)
  BY <1>1, <1>2, <1>11
<1>13. result.reason = None /\ result.task = task
  BY <1>12 DEF OfContacts!Compiled
<1>14. task = ContactTaskOf(state, slot)
  <2>1. CASE slot.spec.constraint = "exact"
    BY <1>2, <1>3, <2>1, Zenon DEF task, ContactTaskOf
  <2>2. CASE slot.spec.constraint # "exact"
    BY <1>2, <1>3, <2>2, Zenon DEF task, ContactTaskOf
  <2>3. QED
    BY <2>1, <2>2
<1>15. QED
  BY <1>13, <1>14 DEF result, id, proposal

(* Slots of Contacts with one key are one.                                    *)
LEMMA ContactKeysDiffer ==
  ASSUME NEW state, NEW a \in ContactSlots(state), NEW b \in ContactSlots(state),
         OfContacts!SemanticKey(ContactTaskOf(state, a)) = OfContacts!SemanticKey(ContactTaskOf(state, b))
  PROVE  a = b
<1>1. PICK p \in ContactSpecs, x \in DOMAIN state.contacts : a = ContactSlot(state, p, x)
  BY DEF ContactSlots
<1>2. PICK q \in ContactSpecs, y \in DOMAIN state.contacts : b = ContactSlot(state, q, y)
  BY DEF ContactSlots
<1>3. a.spec = p /\ b.spec = q /\ a.target = x /\ b.target = y
  BY <1>1, <1>2 DEF ContactSlot
<1>4. p.action = q.action /\ p.route = q.route /\ p.constraint = q.constraint /\ x = y
  <2> DEFINE u == ContactTaskOf(state, a)
             v == ContactTaskOf(state, b)
  <2>1. u.action = p.action /\ u.route = p.route /\ u.constraint = p.constraint /\ u.target = x
    BY <1>3 DEF ContactTaskOf
  <2>2. v.action = q.action /\ v.route = q.route /\ v.constraint = q.constraint /\ v.target = y
    BY <1>3 DEF ContactTaskOf
  <2> HIDE DEF u, v
  <2>3. u.action = v.action /\ u.route = v.route /\ u.constraint = v.constraint /\ u.target = v.target
    <3>1. \A a1, a2, a3, a4, a5, a6, b1, b2, b3, b4, b5, b6 :
             <<a1, a2, a3, a4, a5, a6>> = <<b1, b2, b3, b4, b5, b6>> => a1 = b1 /\ a4 = b4 /\ a5 = b5 /\ a6 = b6
      OBVIOUS
    <3>2. OfContacts!SemanticKey(u) = OfContacts!SemanticKey(v)
      BY DEF u, v
    <3>3. QED
      BY <3>1, <3>2, Zenon DEF OfContacts!SemanticKey
  <2>4. QED
    BY <2>1, <2>2, <2>3
<1>5. p = q
  BY <1>4 DEF ContactSpecs, OfContacts!TaskSpecs, OfContacts!TaskSpec
<1>6. QED
  BY <1>1, <1>2, <1>4, <1>5

--------------------------------------------------------------------------------
(* The slots and the prompts of Mobile Messages. *)

(* The kinds of a message differ, and each of them has passed its tests.      *)
LEMMA MobileSpecsOnce ==
  ASSUME NEW state, NEW message
  PROVE  LET specs == OfMobile!SpecsFor(state, message)
         IN  /\ specs \in Seq(MobileSpecs) /\ Once(specs)
             /\ \A j \in DOMAIN specs :
                    /\ OfMobile!QueryIsUnique(state, message)
                    /\ specs[j].constraint = "exact" => ReplyAllowed(OfMobile!ExactReply(message))
             /\ OfMobile!TaskSpecs \in Seq(MobileSpecs) /\ Once(OfMobile!TaskSpecs)
<1> DEFINE specs == OfMobile!TaskSpecs
           Passes(spec) ==
             /\ OfMobile!QueryIsUnique(state, message)
             /\ ~(spec.action = "create_reminder" /\ message.message_id \in DOMAIN state.reminders)
             /\ ~(spec.action = "create_draft_reply" /\ message.message_id \in DOMAIN state.drafts)
             /\ ~(spec.constraint = "exact" /\ ~ReplyAllowed(OfMobile!ExactReply(message)))
           passes == [i \in DOMAIN specs |-> Passes(specs[i])]
<1>1. OfMobile!SpecsFor(state, message)
        = FlattenSeq([i \in DOMAIN specs |-> IF Passes(specs[i]) THEN <<specs[i]>> ELSE <<>>])
  BY SameCommon, Zenon DEF OfMobile!SpecsFor, OfMobile!Those
<1>2. specs \in Seq(MobileSpecs) /\ Once(specs)
  <2>1. specs = [i \in 1 .. 12 |-> specs[i]] /\ \A i, j \in 1 .. 12 : specs[i].kind = specs[j].kind => i = j
    BY DEF OfMobile!TaskSpecs, OfMobile!TaskSpec
  <2>2. specs \in Seq(MobileSpecs)
    BY MobileSpecsFor
  <2> HIDE DEF specs
  <2>3. Once(specs)
    BY <2>1 DEF Once
  <2>4. QED
    BY <2>2, <2>3
<1>3. \A spec : Passes(spec) => /\ OfMobile!QueryIsUnique(state, message)
                                /\ spec.constraint = "exact" => ReplyAllowed(OfMobile!ExactReply(message))
  BY Zenon
<1> HIDE DEF specs, Passes
<1>4. [i \in DOMAIN specs |-> IF Passes(specs[i]) THEN <<specs[i]>> ELSE <<>>]
        = [i \in DOMAIN specs |-> IF passes[i] THEN <<specs[i]>> ELSE <<>>]
  OBVIOUS
<1>5. \A i \in DOMAIN specs : passes[i] => Passes(specs[i])
  OBVIOUS
<1> HIDE DEF passes
<1> DEFINE kept == KeptOf(specs, passes)
<1>61. kept \in Seq(MobileSpecs) /\ Once(kept)
  BY <1>2, KeptOnce
<1>62. \A k \in DOMAIN kept : \E i \in DOMAIN specs : passes[i] /\ kept[k] = specs[i]
  BY <1>2, KeptOnce
<1>7. OfMobile!SpecsFor(state, message) = kept
  BY <1>1, <1>4 DEF KeptOf
<1> HIDE DEF kept
<1>8. \A k \in DOMAIN kept : /\ OfMobile!QueryIsUnique(state, message)
                             /\ kept[k].constraint = "exact" => ReplyAllowed(OfMobile!ExactReply(message))
  <2> SUFFICES ASSUME NEW k \in DOMAIN kept
               PROVE  /\ OfMobile!QueryIsUnique(state, message)
                      /\ kept[k].constraint = "exact" => ReplyAllowed(OfMobile!ExactReply(message))
    OBVIOUS
  <2>1. PICK i \in DOMAIN specs : passes[i] /\ kept[k] = specs[i]
    BY <1>62
  <2>2. Passes(kept[k])
    BY <1>5, <2>1
  <2>3. QED
    BY <1>3, <2>2, Zenon
<1>9. QED
  BY <1>2, <1>61, <1>7, <1>8, Zenon DEF specs

(* A list of the kinds of some messages has each of them once.                  *)
MobileList(k, rows, F) == FlattenSeq([i \in 1 .. k |-> [j \in DOMAIN F[i] |-> OfMobile!SlotOf(F[i][j], rows[i])]])
MobileListed(state, k, rows, F, w) ==
    /\ MobileList(k, rows, F) \in Seq(MobileSlots(state)) /\ Once(MobileList(k, rows, F))
    /\ Len(MobileList(k, rows, F)) = Cardinality(Places(w, 1 .. k))
    /\ \A x \in DOMAIN MobileList(k, rows, F) :
           \E i \in 1 .. k : \E j \in DOMAIN F[i] : MobileList(k, rows, F)[x] = MobileSlot(F[i][j], rows[i])
    /\ \A i \in 1 .. k : \A j \in DOMAIN F[i] :
           \E x \in DOMAIN MobileList(k, rows, F) : MobileList(k, rows, F)[x] = MobileSlot(F[i][j], rows[i])
LEMMA MobileListsOnce ==
  ASSUME NEW state, NEW k \in Nat, NEW rows, NEW F,
         \A i \in 1 .. k : rows[i] \in MobileMessagesOf(state) /\ F[i] \in Seq(MobileSpecs) /\ Once(F[i]),
         \A i, j \in 1 .. k : rows[i] = rows[j] => i = j, NEW w, \A i \in 1 .. k : w[i] = Len(F[i])
  PROVE  MobileListed(state, k, rows, F, w)
<1> DEFINE T == MobileSlots(state)
           part == [i \in 1 .. k |-> [j \in DOMAIN F[i] |-> OfMobile!SlotOf(F[i][j], rows[i])]]
           whole == FlattenSeq(part)
<1>1. \A spec, message : OfMobile!SlotOf(spec, message) = MobileSlot(spec, message)
  BY Zenon DEF OfMobile!SlotOf, OfMobile!SlotId, MobileSlot
<1>2. \A i \in 1 .. k : /\ part[i] \in Seq(T) /\ Len(part[i]) = Len(F[i]) /\ Len(F[i]) \in Nat
                        /\ DOMAIN part[i] = DOMAIN F[i] /\ DOMAIN F[i] = 1 .. Len(F[i])
                        /\ \A j \in DOMAIN F[i] : part[i][j] = MobileSlot(F[i][j], rows[i])
  <2> SUFFICES ASSUME NEW i \in 1 .. k
               PROVE  /\ part[i] \in Seq(T) /\ Len(part[i]) = Len(F[i]) /\ Len(F[i]) \in Nat
                      /\ DOMAIN part[i] = DOMAIN F[i] /\ DOMAIN F[i] = 1 .. Len(F[i])
                      /\ \A j \in DOMAIN F[i] : part[i][j] = MobileSlot(F[i][j], rows[i])
    OBVIOUS
  <2> DEFINE specs == F[i]
             Made(j) == OfMobile!SlotOf(specs[j], rows[i])
  <2>1. specs \in Seq(MobileSpecs) /\ rows[i] \in MobileMessagesOf(state)
    OBVIOUS
  <2>2. part[i] = [j \in DOMAIN specs |-> Made(j)]
    OBVIOUS
  <2>3. \A j : Made(j) = MobileSlot(specs[j], rows[i])
    BY <1>1
  <2> HIDE DEF specs, part, Made
  <2>4. \A j \in DOMAIN specs : Made(j) \in MobileSlots(state)
    BY <2>1, <2>3 DEF MobileSlots
  <2>5. DOMAIN specs = 1 .. Len(specs) /\ Len(specs) \in Nat
    BY <2>1
  <2>6. part[i] \in Seq(T) /\ Len(part[i]) = Len(specs) /\ DOMAIN part[i] = DOMAIN specs
    BY <2>2, <2>4, <2>5
  <2>7. QED
    BY <2>2, <2>3, <2>5, <2>6 DEF specs
<1>3. DOMAIN part = 1 .. k /\ part = [i \in 1 .. k |-> part[i]]
  OBVIOUS
<1> HIDE DEF part, T
<1>4. part \in Seq(Seq(T))
  BY <1>2, <1>3
<1>5. \A p, q, x, y : MobileSlot(p, x) = MobileSlot(q, y) => p = q /\ x = y
  BY DEF MobileSlot
<1>6. Apart(part)
  <2> SUFFICES ASSUME NEW i \in 1 .. k, NEW h \in 1 .. k, NEW j \in DOMAIN part[i],
                      NEW l \in DOMAIN part[h], part[i][j] = part[h][l]
               PROVE  i = h /\ j = l
    BY <1>3 DEF Apart
  <2>1. j \in DOMAIN F[i] /\ l \in DOMAIN F[h]
    BY <1>2
  <2>2. MobileSlot(F[i][j], rows[i]) = MobileSlot(F[h][l], rows[h])
    BY <1>2, <2>1
  <2>3. F[i][j] = F[h][l] /\ rows[i] = rows[h]
    BY <1>5, <2>2
  <2>4. i = h
    BY <2>3, Zenon
  <2>5. j = l
    BY <2>1, <2>3, <2>4, Zenon DEF Once
  <2>6. QED
    BY <2>4, <2>5
<1>7. /\ whole \in Seq(T) /\ Once(whole)
      /\ Len(whole) = Cardinality(Places(Lengths(part), DOMAIN part))
      /\ \A x \in DOMAIN whole : \E i \in DOMAIN part : \E j \in DOMAIN part[i] : whole[x] = part[i][j]
      /\ \A i \in DOMAIN part : \A j \in DOMAIN part[i] : \E x \in DOMAIN whole : whole[x] = part[i][j]
  BY <1>4, <1>6, FlattenElements
<1>8. Places(Lengths(part), DOMAIN part) = Places(w, 1 .. k)
  <2>1. \A i \in 1 .. k : Lengths(part)[i] = w[i]
    BY <1>2, <1>3 DEF Lengths
  <2>2. QED
    BY <1>3, <2>1 DEF Places
<1> HIDE DEF whole
<1>9. \A x \in DOMAIN whole : \E i \in 1 .. k : \E j \in DOMAIN F[i] : whole[x] = MobileSlot(F[i][j], rows[i])
  <2> SUFFICES ASSUME NEW x \in DOMAIN whole
               PROVE  \E i \in 1 .. k : \E j \in DOMAIN F[i] : whole[x] = MobileSlot(F[i][j], rows[i])
    OBVIOUS
  <2>1. PICK i \in DOMAIN part : \E j \in DOMAIN part[i] : whole[x] = part[i][j]
    BY <1>7
  <2>2. PICK j \in DOMAIN part[i] : whole[x] = part[i][j]
    BY <2>1
  <2>3. i \in 1 .. k
    BY <1>3
  <2>4. j \in DOMAIN F[i] /\ part[i][j] = MobileSlot(F[i][j], rows[i])
    BY <1>2, <2>3
  <2>5. QED
    BY <2>2, <2>3, <2>4, Zenon
<1>10. \A i \in 1 .. k : \A j \in DOMAIN F[i] : \E x \in DOMAIN whole : whole[x] = MobileSlot(F[i][j], rows[i])
  <2> SUFFICES ASSUME NEW i \in 1 .. k, NEW j \in DOMAIN F[i]
               PROVE  \E x \in DOMAIN whole : whole[x] = MobileSlot(F[i][j], rows[i])
    OBVIOUS
  <2>1. i \in DOMAIN part /\ j \in DOMAIN part[i] /\ part[i][j] = MobileSlot(F[i][j], rows[i])
    BY <1>2, <1>3
  <2>2. PICK x \in DOMAIN whole : whole[x] = part[i][j]
    BY <1>7, <2>1
  <2>3. QED
    BY <2>1, <2>2
<1>11. MobileList(k, rows, F) = whole
  BY Zenon DEF MobileList, whole, part
<1>12. QED
  BY <1>7, <1>8, <1>9, <1>10, <1>11 DEF T, MobileListed

(* What is true of a slot of Mobile Messages that was issued.                   *)
MobileStands(state, slot) ==
    /\ slot \in MobileSlots(state)
    /\ OfMobile!QueryIsUnique(state, slot.target)
    /\ slot.spec \in OfMobile!ToSet(OfMobile!SpecsFor(state, slot.target))
    /\ slot.spec.constraint = "exact" => ReplyAllowed(OfMobile!ExactReply(slot.target))
    /\ \E y \in DOMAIN EveryMobileSlot(state) : EveryMobileSlot(state)[y] = slot

(* As many slots as the capacity says, no two of them the same.               *)
LEMMA MobileSlotsCount ==
  ASSUME NEW state, IsFiniteSet(DOMAIN state.messages),
         \A id \in DOMAIN state.messages : state.messages[id].message_id = id
  PROVE  /\ Once(OfMobile!Slots(state))
         /\ Len(OfMobile!Slots(state)) = OfMobile!Capacity(state)
         /\ \A x \in DOMAIN OfMobile!Slots(state) : MobileStands(state, OfMobile!Slots(state)[x])
<1> DEFINE k == Cardinality(DOMAIN state.messages)
           rows == OfMobile!Rows(state.messages)
           Specs(m) == OfMobile!SpecsFor(state, m)
           F == [i \in 1 .. k |-> Specs(rows[i])]
           G == [i \in 1 .. k |-> OfMobile!TaskSpecs]
           e == SetToSeq(DOMAIN state.messages)
           w == [i \in 1 .. k |-> Len(Specs(rows[i]))]
           v == [i \in 1 .. k |-> Len(OfMobile!TaskSpecs)]
           D == DOMAIN rows
           sums == CHOOSE g : g = [T \in SUBSET D |-> IF T = {} THEN 0
                                      ELSE g[T \ {AnyOf(T)}] + Len(Specs(rows[AnyOf(T)]))]
<1>1. /\ k \in Nat /\ rows = [i \in 1 .. k |-> rows[i]]
      /\ \A i \in 1 .. k : e[i] \in DOMAIN state.messages /\ rows[i] = state.messages[e[i]]
  BY RowsAre
<1>2. \A i, j \in 1 .. k : e[i] = e[j] => i = j
  BY Enumerated
<1>3. OfMobile!Capacity(state) = sums[D]
  BY Zenon DEF OfMobile!Capacity, OfMobile!FoldSeq, OfMobile!FoldFunction, OfMobile!FoldFunctionOnSet,
               OfMobile!MapThenFoldSet, AnyOf
<1>4. OfMobile!Slots(state)
          = FlattenSeq([i \in DOMAIN rows |-> [j \in DOMAIN Specs(rows[i]) |->
                           OfMobile!SlotOf(Specs(rows[i])[j], rows[i])]])
  BY SameCommon, Zenon DEF OfMobile!Slots, OfMobile!SlotsFrom
<1>5. EveryMobileSlot(state)
          = FlattenSeq([i \in DOMAIN rows |-> [j \in DOMAIN OfMobile!TaskSpecs |->
                           OfMobile!SlotOf(OfMobile!TaskSpecs[j], rows[i])]])
  BY SameCommon, Zenon DEF EveryMobileSlot, OfMobile!SlotsFrom
<1> HIDE DEF rows, k, e, sums
<1>6. D = 1 .. k
  BY <1>1
<1>7. \A i \in 1 .. k : rows[i] \in MobileMessagesOf(state)
  BY <1>1 DEF MobileMessagesOf
<1>8. \A i, j \in 1 .. k : rows[i] = rows[j] => i = j
  BY <1>1, <1>2
<1>9. \A m : /\ Specs(m) \in Seq(MobileSpecs) /\ Once(Specs(m))
             /\ \A j \in DOMAIN Specs(m) :
                    /\ OfMobile!QueryIsUnique(state, m)
                    /\ Specs(m)[j].constraint = "exact" => ReplyAllowed(OfMobile!ExactReply(m))
  BY MobileSpecsOnce, Zenon
<1>10. OfMobile!TaskSpecs \in Seq(MobileSpecs) /\ Once(OfMobile!TaskSpecs)
  BY MobileSpecsOnce
<1>11. \A m : Specs(m) = OfMobile!SpecsFor(state, m)
  OBVIOUS
<1> HIDE DEF Specs
<1>12. \A i \in 1 .. k : F[i] = Specs(rows[i]) /\ w[i] = Len(F[i]) /\ w[i] = Len(Specs(rows[i])) /\ w[i] \in Nat
                         /\ G[i] = OfMobile!TaskSpecs /\ v[i] = Len(G[i])
  <2>1. \A m : Len(Specs(m)) \in Nat
    BY <1>9
  <2>2. QED
    BY <2>1
<1>13. MobileList(k, rows, F) = OfMobile!Slots(state)
  <2>1. [i \in D |-> [j \in DOMAIN Specs(rows[i]) |-> OfMobile!SlotOf(Specs(rows[i])[j], rows[i])]]
          = [i \in 1 .. k |-> [j \in DOMAIN F[i] |-> OfMobile!SlotOf(F[i][j], rows[i])]]
    BY <1>6
  <2>2. QED
    BY <1>4, <2>1, Zenon DEF MobileList
<1>14. MobileList(k, rows, G) = EveryMobileSlot(state)
  <2>1. [i \in D |-> [j \in DOMAIN OfMobile!TaskSpecs |-> OfMobile!SlotOf(OfMobile!TaskSpecs[j], rows[i])]]
          = [i \in 1 .. k |-> [j \in DOMAIN G[i] |-> OfMobile!SlotOf(G[i][j], rows[i])]]
    BY <1>6
  <2>2. QED
    BY <1>5, <2>1, Zenon DEF MobileList
<1> HIDE DEF F, G, w, v, D
<1>15. \A i \in 1 .. k : rows[i] \in MobileMessagesOf(state) /\ F[i] \in Seq(MobileSpecs) /\ Once(F[i])
  BY <1>7, <1>9, <1>12
<1>16. \A i \in 1 .. k : rows[i] \in MobileMessagesOf(state) /\ G[i] \in Seq(MobileSpecs) /\ Once(G[i])
  BY <1>7, <1>10, <1>12
<1> DEFINE issued == MobileList(k, rows, F)
           every == MobileList(k, rows, G)
<1>17. MobileListed(state, k, rows, F, w)
  <2>1. k \in Nat /\ \A i \in 1 .. k : w[i] = Len(F[i])
    BY <1>1, <1>12
  <2>2. QED
    BY <1>8, <1>15, <2>1, MobileListsOnce
<1>18. MobileListed(state, k, rows, G, v)
  <2>1. k \in Nat /\ \A i \in 1 .. k : v[i] = Len(G[i])
    BY <1>1, <1>12
  <2>2. QED
    BY <1>8, <1>16, <2>1, MobileListsOnce
<1>19. /\ issued \in Seq(MobileSlots(state)) /\ Once(issued)
       /\ Len(issued) = Cardinality(Places(w, 1 .. k))
       /\ \A x \in DOMAIN issued : \E i \in 1 .. k : \E j \in DOMAIN F[i] : issued[x] = MobileSlot(F[i][j], rows[i])
  BY <1>17, Zenon DEF MobileListed
<1>20. \A i \in 1 .. k : \A j \in DOMAIN G[i] : \E x \in DOMAIN every : every[x] = MobileSlot(G[i][j], rows[i])
  BY <1>18, Zenon DEF MobileListed
<1>21. every = EveryMobileSlot(state) /\ issued = OfMobile!Slots(state)
  BY <1>13, <1>14
<1> HIDE DEF issued, every
<1>22. \A x \in DOMAIN issued : MobileStands(state, issued[x])
  <2> SUFFICES ASSUME NEW x \in DOMAIN issued PROVE MobileStands(state, issued[x])
    OBVIOUS
  <2>1. PICK i \in 1 .. k : \E j \in DOMAIN F[i] : issued[x] = MobileSlot(F[i][j], rows[i])
    BY <1>19
  <2>2. PICK j \in DOMAIN F[i] : issued[x] = MobileSlot(F[i][j], rows[i])
    BY <2>1
  <2> DEFINE p == F[i][j]
             m == rows[i]
  <2>3. issued[x].spec = p /\ issued[x].target = m /\ issued[x] = MobileSlot(p, m)
    BY <2>2 DEF MobileSlot
  <2>4. F[i] = Specs(m)
    BY <1>12
  <2>5. /\ OfMobile!QueryIsUnique(state, m)
        /\ p.constraint = "exact" => ReplyAllowed(OfMobile!ExactReply(m))
    BY <1>9, <2>4, Zenon
  <2>6. p \in OfMobile!ToSet(OfMobile!SpecsFor(state, m))
    BY <1>11, <2>4 DEF OfMobile!ToSet
  <2>7. issued[x] \in MobileSlots(state) /\ p \in MobileSpecs
    BY <1>15, <1>19
  <2> HIDE DEF p, m
  <2>8. \E y \in DOMAIN every : every[y] = issued[x]
    <3>1. PICK n \in 1 .. 12 : OfMobile!TaskSpecs[n] = p
      BY <2>7, MobileSpecsAre
    <3>2. n \in DOMAIN G[i] /\ G[i][n] = p
      BY <1>12, <3>1, MobileSpecsAre
    <3>3. \E y \in DOMAIN every : every[y] = MobileSlot(G[i][n], rows[i])
      BY <1>20, <3>2
    <3>4. QED
      BY <2>3, <3>2, <3>3 DEF m
  <2>9. QED
    BY <1>21, <2>3, <2>5, <2>6, <2>7, <2>8 DEF MobileStands
<1>23. sums[D] = Cardinality(Places(w, D))
  <2>1. \A i \in D : w[i] \in Nat /\ w[i] = Len(Specs(rows[i]))
    BY <1>6, <1>12
  <2>2. IsFiniteSet(D)
    BY <1>1, <1>6, FS_Interval
  <2> DEFINE By(g) == [T \in SUBSET D |-> IF T = {} THEN 0 ELSE g[T \ {AnyOf(T)}] + Len(Specs(rows[AnyOf(T)]))]
  <2>3. \A T \in SUBSET D : T # {} => w[AnyOf(T)] = Len(Specs(rows[AnyOf(T)])) /\ w[AnyOf(T)] \in Nat
    <3> SUFFICES ASSUME NEW T \in SUBSET D, T # {}
                 PROVE  w[AnyOf(T)] = Len(Specs(rows[AnyOf(T)])) /\ w[AnyOf(T)] \in Nat
      OBVIOUS
    <3>1. AnyOf(T) \in D
      BY DEF AnyOf
    <3>2. QED
      BY <2>1, <3>1, Zenon
  <2>4. Sums(w, D) = By(Sums(w, D))
    <3>0. \A i \in D : w[i] \in Nat
      BY <2>1
    <3>5. \A T \in SUBSET D : T # {} => Sums(w, D)[T] = Sums(w, D)[T \ {AnyOf(T)}] + w[AnyOf(T)]
      BY <2>2, <3>0, SumsAre
    <3>6. \A T \in SUBSET D : T = {} => Sums(w, D)[T] = 0
      BY <2>2, <3>0, SumsAre
    <3> DEFINE g == Sums(w, D)
    <3>1. g = [T \in SUBSET D |-> g[T]]
      BY DEF Sums
    <3>2. \A T \in SUBSET D : g[T] = By(g)[T]
      <4> SUFFICES ASSUME NEW T \in SUBSET D PROVE g[T] = By(g)[T]
        OBVIOUS
      <4>1. CASE T = {}
        <5>1. g[T] = 0
          BY <3>6, <4>1
        <5>2. QED
          BY <4>1, <5>1
      <4>2. CASE T # {}
        <5>1. g[T] = g[T \ {AnyOf(T)}] + w[AnyOf(T)]
          BY <3>5, <4>2, Zenon
        <5>2. g[T] = g[T \ {AnyOf(T)}] + Len(Specs(rows[AnyOf(T)]))
          BY <2>3, <4>2, <5>1, Zenon
        <5>3. QED
          BY <4>2, <5>2, Zenon
      <4>3. QED
        BY <4>1, <4>2
    <3>3. By(g) = [T \in SUBSET D |-> By(g)[T]]
      BY Zenon
    <3> HIDE DEF By, g
    <3>4. g = By(g)
      BY <3>1, <3>2, <3>3
    <3>7. QED
      BY <3>4 DEF g
  <2>5. sums = CHOOSE g : g = By(g)
    BY Zenon DEF sums
  <2>6. sums = By(sums)
    <3> HIDE DEF By
    <3>1. QED
      BY <2>4, <2>5, Zenon
  <2>7. \A T \in SUBSET D : sums[T] = IF T = {} THEN 0 ELSE sums[T \ {AnyOf(T)}] + Len(Specs(rows[AnyOf(T)]))
    <3> SUFFICES ASSUME NEW T \in SUBSET D
                 PROVE sums[T] = IF T = {} THEN 0 ELSE sums[T \ {AnyOf(T)}] + Len(Specs(rows[AnyOf(T)]))
      OBVIOUS
    <3>1. By(sums)[T] = IF T = {} THEN 0 ELSE sums[T \ {AnyOf(T)}] + Len(Specs(rows[AnyOf(T)]))
      BY Zenon
    <3> HIDE DEF By
    <3>2. QED
      BY <2>6, <3>1, Zenon
  <2>8. sums[{}] = 0
    BY <2>7
  <2>9. \A T \in SUBSET D : T # {} /\ sums[T \ {AnyOf(T)}] \in Nat =>
             sums[T] = sums[T \ {AnyOf(T)}] + w[AnyOf(T)]
    BY <2>3, <2>7, Zenon
  <2>10. QED
    BY <2>1, <2>2, <2>8, <2>9, SumCounts
<1>24. QED
  BY <1>3, <1>6, <1>19, <1>21, <1>22, <1>23

(* The slot found under the id of an issued one is that one.                  *)
LEMMA MobileIssuedFound ==
  ASSUME NEW state, IsFiniteSet(DOMAIN state.messages), NEW slot, MobileStands(state, slot)
  PROVE  OfMobile!SlotWithId(state, slot.id) \in {None, slot} /\ (slot # None => OfMobile!SlotWithId(state, slot.id) = slot)
<1> DEFINE all == EveryMobileSlot(state)
           same == {i \in DOMAIN all : all[i].id = slot.id}
<1>1. OfMobile!SlotWithId(state, slot.id) = IF same = {} THEN None ELSE all[OfMobile!First(same)]
  BY Zenon DEF OfMobile!SlotWithId, EveryMobileSlot
<1>2. all \in Seq(MobileSlots(state)) /\ slot \in MobileSlots(state)
  BY MobileSlotsAre DEF MobileStands
<1>3. PICK y \in DOMAIN all : all[y] = slot
  BY DEF MobileStands
<1> HIDE DEF all
<1>4. same # {} /\ same \in SUBSET Nat
  BY <1>2, <1>3
<1>5. OfMobile!First(same) \in same
  <2> HIDE DEF same
  <2>1. \E i \in same : \A j \in same : i <= j
    BY <1>4, LeastExists
  <2>2. QED
    BY <2>1 DEF OfMobile!First
<1>6. all[OfMobile!First(same)].id = slot.id /\ all[OfMobile!First(same)] \in MobileSlots(state)
  BY <1>2, <1>5
<1>7. \A a, b \in MobileSlots(state) : a.id = b.id => a = b
  <2> SUFFICES ASSUME NEW a \in MobileSlots(state), NEW b \in MobileSlots(state), a.id = b.id PROVE a = b
    OBVIOUS
  <2>1. PICK p \in MobileSpecs, x \in MobileMessagesOf(state) : a = MobileSlot(p, x)
    BY DEF MobileSlots
  <2>2. PICK q \in MobileSpecs, z \in MobileMessagesOf(state) : b = MobileSlot(q, z)
    BY DEF MobileSlots
  <2>3. p.kind = q.kind /\ x = z
    <3>1. <<p.kind, x>> = <<q.kind, z>>
      BY <2>1, <2>2 DEF MobileSlot
    <3>2. \A u, v, w, o : <<u, v>> = <<w, o>> => u = w /\ v = o
      OBVIOUS
    <3>3. QED
      BY <3>1, <3>2, Zenon
  <2>4. p = q
    BY <2>3, MobileSpecsAre
  <2>5. QED
    BY <2>1, <2>2, <2>3, <2>4
<1>8. all[OfMobile!First(same)] = slot
  BY <1>2, <1>6, <1>7
<1>9. QED
  BY <1>1, <1>4, <1>8

(* A mutation under its condition is refused by none of these tests.          *)
LEMMA ConditionPasses ==
  ASSUME NEW fields, OfMobile!Get(fields, "condition", None) = "after_message_match", "condition" \in DOMAIN fields
  PROVE  Passed(OfMobile!ConditionRefusals(fields))
<1> DEFINE checks == OfMobile!ConditionRefusals(fields)
<1>1. /\ DOMAIN checks = 1 .. 2
      /\ checks[1][1] = ("condition" \notin DOMAIN fields)
      /\ checks[2][1] = (OfMobile!Get(fields, "condition", None) # "after_message_match")
  BY DEF OfMobile!ConditionRefusals
<1> HIDE DEF checks
<1>2. ~checks[1][1] /\ ~checks[2][1]
  BY <1>1, Zenon
<1>3. Passed(checks)
  BY <1>1, <1>2 DEF Passed
<1>4. QED
  BY <1>3 DEF checks

(* A reminder that is asked for passes.                                       *)
LEMMA ReminderPasses ==
  ASSUME RefusalsHaveReasons, NEW fields, NEW message,
         OfMobile!Get(fields, "condition", None) = "after_message_match",
         OfMobile!Get(fields, "reminder_text", None) = OfMobile!ReminderText(message),
         OfMobile!Get(fields, "remind_at", None) = OfMobile!RemindAt(message),
         DOMAIN fields = {"action", "condition", "message_query", "remind_at", "reminder_text", "route"}
  PROVE  Passed(OfMobile!ReminderRefusals(fields, message))
<1> DEFINE general == OfMobile!ConditionRefusals(fields)
           own == <<
    <<{"reminder_text", "remind_at"} \ DOMAIN fields # {}, "missing_mutation_argument">>,
    <<\/ OfMobile!Get(fields, "reminder_text", None) # OfMobile!ReminderText(message)
      \/ OfMobile!Get(fields, "remind_at", None) # OfMobile!RemindAt(message), "unauthorized_reminder_argument">>,
    <<DOMAIN fields # {"action", "condition", "message_query", "remind_at", "reminder_text", "route"},
      "unsupported_requested_action">>>>
<1>1. OfMobile!ReminderRefusals(fields, message) = general \o own
  BY Zenon DEF OfMobile!ReminderRefusals
<1>2. own = [i \in 1 .. 3 |-> own[i]] /\ \A i \in 1 .. 3 : own[i][2] # None
  BY DEF RefusalsHaveReasons
<1>3. /\ DOMAIN own = 1 .. 3
      /\ own[1][1] = ({"reminder_text", "remind_at"} \ DOMAIN fields # {})
      /\ own[2][1] = (\/ OfMobile!Get(fields, "reminder_text", None) # OfMobile!ReminderText(message)
                      \/ OfMobile!Get(fields, "remind_at", None) # OfMobile!RemindAt(message))
      /\ own[3][1] = (DOMAIN fields # {"action", "condition", "message_query", "remind_at", "reminder_text", "route"})
  OBVIOUS
<1>4. {"reminder_text", "remind_at"} \ DOMAIN fields = {} /\ "condition" \in DOMAIN fields
  OBVIOUS
<1>11. /\ OfMobile!Get(fields, "condition", None) = "after_message_match"
       /\ OfMobile!Get(fields, "reminder_text", None) = OfMobile!ReminderText(message)
       /\ OfMobile!Get(fields, "remind_at", None) = OfMobile!RemindAt(message)
       /\ DOMAIN fields = {"action", "condition", "message_query", "remind_at", "reminder_text", "route"}
  OBVIOUS
<1> HIDE DEF general, own
<1>5. Tests(own)
  BY <1>2 DEF Tests
<1>6. Tests(general)
  BY ConditionTests DEF general
<1>7. Passed(general)
  BY <1>4, <1>11, ConditionPasses DEF general
<1>8. ~own[1][1] /\ ~own[2][1] /\ ~own[3][1]
  BY <1>3, <1>4, <1>11, Zenon
<1>9. Passed(own)
  <2>1. DOMAIN own = 1 .. 3
    BY <1>3, Zenon
  <2>2. \A i \in 1 .. 3 : ~own[i][1]
    BY <1>8
  <2>3. QED
    BY <2>1, <2>2, Zenon DEF Passed
<1>10. QED
  BY <1>1, <1>5, <1>6, <1>7, <1>9, JoinedTests, Zenon

(* A draft that is asked for passes.                                          *)
LEMMA DraftPasses ==
  ASSUME RefusalsHaveReasons, NEW fields, NEW spec,
         OfMobile!Get(fields, "condition", None) = "after_message_match",
         OfMobile!Get(fields, "reply_constraint", None) = spec.constraint,
         spec.constraint = "exact" => ReplyAllowed(fields.reply),
         DOMAIN fields = {"action", "condition", "message_query", "reply_constraint", "route"}
                             \cup (IF spec.constraint = "exact" THEN {"reply"} ELSE {})
  PROVE  Passed(OfMobile!DraftRefusals(fields, spec))
<1> DEFINE general == OfMobile!ConditionRefusals(fields)
           exact == spec.constraint = "exact"
           domain_ == {"action", "condition", "message_query", "reply_constraint", "route"}
                                       \cup (IF exact THEN {"reply"} ELSE {})
           own == <<
        <<OfMobile!Get(fields, "reply_constraint", None) # spec.constraint, "unsupported_reply">>,
        <<exact /\ ("reply" \notin DOMAIN fields \/ ~ReplyAllowed(fields.reply)), "unsupported_reply">>,
        <<~exact /\ "reply" \in DOMAIN fields, "unsupported_reply">>,
        <<DOMAIN fields # domain_, "unsupported_requested_action">>>>
<1>1. OfMobile!DraftRefusals(fields, spec) = general \o own
  BY Zenon DEF OfMobile!DraftRefusals
<1>2. /\ exact => "reply" \in DOMAIN fields /\ ReplyAllowed(fields.reply)
      /\ ~exact => "reply" \notin DOMAIN fields
      /\ DOMAIN fields = domain_ /\ "condition" \in DOMAIN fields
  OBVIOUS
<1> HIDE DEF domain_, exact
<1>3. own = [i \in 1 .. 4 |-> own[i]] /\ \A i \in 1 .. 4 : own[i][2] # None
  BY DEF RefusalsHaveReasons
<1>4. /\ DOMAIN own = 1 .. 4
      /\ own[1][1] = (OfMobile!Get(fields, "reply_constraint", None) # spec.constraint)
      /\ own[2][1] = (exact /\ ("reply" \notin DOMAIN fields \/ ~ReplyAllowed(fields.reply)))
      /\ own[3][1] = (~exact /\ "reply" \in DOMAIN fields)
      /\ own[4][1] = (DOMAIN fields # domain_)
  OBVIOUS
<1> HIDE DEF general, own
<1>5. Tests(own)
  BY <1>3 DEF Tests
<1>6. Tests(general)
  BY ConditionTests DEF general
<1>7. Passed(general)
  BY <1>2, ConditionPasses DEF general
<1>8. ~own[1][1] /\ ~own[2][1] /\ ~own[3][1] /\ ~own[4][1]
  BY <1>2, <1>4, Zenon
<1>9. Passed(own)
  BY <1>4, <1>8 DEF Passed
<1>10. QED
  BY <1>1, <1>5, <1>6, <1>7, <1>9, JoinedTests, Zenon

(* What the prompt of an issued slot holds.                                     *)
MobilePromptHolds(state, slot) ==
    LET fields == OfMobile!Prompted(state, slot).fields
        spec == slot.spec
    IN  /\ OfMobile!Get(fields, "action", None) = spec.action
        /\ OfMobile!Get(fields, "route", None) = spec.route
        /\ OfMobile!Get(fields, "negated", None) = None
        /\ {"message_id", "target_message_id"} \cap DOMAIN fields = {}
        /\ spec.action # "search_messages" =>
               OfMobile!Get(fields, "message_query", None) = OfMobile!QueryFor(slot.target)
        /\ spec.action = "create_reminder" => Passed(OfMobile!ReminderRefusals(fields, slot.target))
        /\ spec.action = "create_draft_reply" => Passed(OfMobile!DraftRefusals(fields, spec))
LEMMA MobilePromptPasses ==
  ASSUME RefusalsHaveReasons, NEW state, NEW slot, slot.spec \in MobileSpecs,
         slot.spec.constraint = "exact" => ReplyAllowed(OfMobile!ExactReply(slot.target))
  PROVE  MobilePromptHolds(state, slot)
<1> DEFINE asked == OfMobile!Prompted(state, slot).fields
           spec == slot.spec
           query == OfMobile!QueryFor(slot.target)
<1>1. CASE spec.action = "search_messages"
  <2>1. asked = OfMobile!Both([action |-> spec.action, route |-> spec.route], [query |-> query])
    BY <1>1, MobilePrompt
  <2> HIDE DEF asked, query
  <2>2. /\ DOMAIN asked = {"action", "route", "query"}
        /\ asked["action"] = spec.action /\ asked["route"] = spec.route
    BY <2>1 DEF OfMobile!Both
  <2>3. /\ OfMobile!Get(asked, "action", None) = spec.action /\ OfMobile!Get(asked, "route", None) = spec.route
        /\ OfMobile!Get(asked, "negated", None) = None
        /\ {"message_id", "target_message_id"} \cap DOMAIN asked = {}
    BY <2>2 DEF OfMobile!Get
  <2>4. QED
    BY <1>1, <2>3 DEF MobilePromptHolds, asked
<1>2. CASE spec.action = "create_reminder"
  <2> DEFINE domain_ == {"action", "condition", "message_query", "remind_at", "reminder_text", "route"}
             text == OfMobile!ReminderText(slot.target)
             at == OfMobile!RemindAt(slot.target)
  <2>1. asked = OfMobile!Both(
            OfMobile!Both([action |-> spec.action, route |-> spec.route],
                          [condition |-> "after_message_match", message_query |-> query]),
            [reminder_text |-> text, remind_at |-> at])
    BY <1>2, MobilePrompt
  <2> HIDE DEF asked, query, text, at
  <2>2. /\ DOMAIN asked = domain_
        /\ asked["action"] = spec.action /\ asked["route"] = spec.route
        /\ asked["condition"] = "after_message_match" /\ asked["message_query"] = query
        /\ asked["reminder_text"] = text /\ asked["remind_at"] = at
    BY <2>1 DEF OfMobile!Both
  <2>3. /\ OfMobile!Get(asked, "action", None) = spec.action /\ OfMobile!Get(asked, "route", None) = spec.route
        /\ OfMobile!Get(asked, "negated", None) = None
        /\ {"message_id", "target_message_id"} \cap DOMAIN asked = {}
        /\ OfMobile!Get(asked, "message_query", None) = query
        /\ OfMobile!Get(asked, "condition", None) = "after_message_match"
        /\ OfMobile!Get(asked, "reminder_text", None) = text
        /\ OfMobile!Get(asked, "remind_at", None) = at
    BY <2>2 DEF OfMobile!Get
  <2>4. Passed(OfMobile!ReminderRefusals(asked, slot.target))
    BY <2>2, <2>3, ReminderPasses DEF text, at
  <2>5. QED
    BY <1>2, <2>3, <2>4 DEF MobilePromptHolds, asked, query
<1>3. CASE spec.action = "create_draft_reply"
  <2> DEFINE domain_ == {"action", "condition", "message_query", "reply_constraint", "route"}
                            \cup (IF spec.constraint = "exact" THEN {"reply"} ELSE {})
  <2>1. asked = OfMobile!Both(
            OfMobile!Both([action |-> spec.action, route |-> spec.route],
                          [condition |-> "after_message_match", message_query |-> query]),
            IF spec.constraint = "exact" THEN [reply_constraint |-> "exact", reply |-> OfMobile!ExactReply(slot.target)]
            ELSE [reply_constraint |-> spec.constraint])
    BY <1>3, MobilePrompt
  <2> HIDE DEF asked, query
  <2>2. /\ DOMAIN asked = domain_
        /\ asked["action"] = spec.action /\ asked["route"] = spec.route
        /\ asked["condition"] = "after_message_match" /\ asked["message_query"] = query
        /\ asked["reply_constraint"] = spec.constraint
        /\ spec.constraint = "exact" => asked["reply"] = OfMobile!ExactReply(slot.target)
    <3>1. CASE spec.constraint = "exact"
      BY <2>1, <3>1 DEF OfMobile!Both
    <3>2. CASE spec.constraint # "exact"
      BY <2>1, <3>2 DEF OfMobile!Both
    <3>3. QED
      BY <3>1, <3>2
  <2>3. /\ OfMobile!Get(asked, "action", None) = spec.action /\ OfMobile!Get(asked, "route", None) = spec.route
        /\ OfMobile!Get(asked, "negated", None) = None
        /\ {"message_id", "target_message_id"} \cap DOMAIN asked = {}
        /\ OfMobile!Get(asked, "message_query", None) = query
        /\ OfMobile!Get(asked, "condition", None) = "after_message_match"
        /\ OfMobile!Get(asked, "reply_constraint", None) = spec.constraint
    BY <2>2 DEF OfMobile!Get
  <2>4. spec.constraint = "exact" => ReplyAllowed(asked.reply)
    BY <2>2
  <2>5. Passed(OfMobile!DraftRefusals(asked, spec))
    BY <2>2, <2>3, <2>4, DraftPasses
  <2>6. QED
    BY <1>3, <2>3, <2>5 DEF MobilePromptHolds, asked, query
<1>4. QED
  BY <1>1, <1>2, <1>3, MobileSpecsAre

(* A prompt of Mobile Messages compiles, to the task of its slot.             *)
LEMMA MobileCompiles ==
  ASSUME RefusalsHaveReasons, PromptsAreAllowed, NEW state, IsFiniteSet(DOMAIN state.messages),
         NEW slot, MobileStands(state, slot)
  PROVE  LET result == OfMobile!Compile(state, slot.id, OfMobile!Prompted(state, slot))
         IN  result.reason = None /\ result.task = MobileTaskOf(slot, OfMobile!Prompted(state, slot).fields)
<1> DEFINE id == slot.id
           proposal == OfMobile!Prompted(state, slot)
           found == OfMobile!SlotWithId(state, id)
           spec == found.spec
           fields == proposal.fields
           action == OfMobile!Get(fields, "action", None)
           first == <<<<~OfMobile!QueryIsUnique(state, found.target), "unresolved_target_ambiguity">>,
              <<spec \notin OfMobile!ToSet(OfMobile!SpecsFor(state, found.target)), "unsupported_task_slot">>>>
           general == OfMobile!NotAnObject(proposal)
           own == <<
            <<action = None, "unsupported_requested_action">>,
            <<OfMobile!Get(fields, "negated", None) = "true" \/ action \in NegatedMessage, "negated_action">>,
            <<{"message_id", "target_message_id"} \cap DOMAIN fields # {}, "unsupported_private_exact_target">>,
            <<action # spec.action, "unsupported_requested_action">>,
            <<OfMobile!Get(fields, "route", None) # spec.route, "uncheckable_condition">>,
            <<action = "search_messages" /\ fields # OfMobile!Prompted(state, found).fields,
              "unsupported_requested_action">>,
            <<action # "search_messages"
                /\ OfMobile!Get(fields, "message_query", None) # OfMobile!QueryFor(found.target),
              "wrong_message_binding">>>>
           last == CASE action = "create_reminder" -> OfMobile!ReminderRefusals(fields, found.target)
                  [] action = "create_draft_reply" -> OfMobile!DraftRefusals(fields, spec)
                  [] OTHER -> <<>>
           checks == first \o general \o own \o last
           refusal == OfMobile!EarlyReturn(checks, None)
           task == [target |-> found.target, action |-> action, route |-> spec.route,
                       constraint |-> spec.constraint,
                       text |-> OfMobile!Get(fields, "reminder_text", None),
                       at |-> OfMobile!Get(fields, "remind_at", None),
                       exact |-> OfMobile!Get(fields, "reply", None)]
           result == OfMobile!Compile(state, id, proposal)
<1>1. result = IF found = None THEN OfMobile!Rejection("unsupported_task_slot")
               ELSE IF refusal # None THEN OfMobile!Rejection(refusal) ELSE OfMobile!Compiled(task)
  BY Zenon DEF OfMobile!Compile
<1>2. /\ slot.spec \in MobileSpecs /\ slot # None
      /\ OfMobile!QueryIsUnique(state, slot.target)
      /\ slot.spec \in OfMobile!ToSet(OfMobile!SpecsFor(state, slot.target))
      /\ slot.spec.constraint = "exact" => ReplyAllowed(OfMobile!ExactReply(slot.target))
  BY DEF MobileStands, MobileSlots, MobileSlot, PromptsAreAllowed
<1>3. found = slot
  BY <1>2, MobileIssuedFound
<1>4. proposal.parses = "object"
  BY DEF OfMobile!Prompted
<1>5. MobilePromptHolds(state, slot)
  BY <1>2, MobilePromptPasses
<1>6. /\ action = spec.action
      /\ OfMobile!Get(fields, "route", None) = spec.route
      /\ OfMobile!Get(fields, "negated", None) = None
      /\ {"message_id", "target_message_id"} \cap DOMAIN fields = {}
      /\ spec.action # "search_messages" =>
             OfMobile!Get(fields, "message_query", None) = OfMobile!QueryFor(found.target)
      /\ spec.action = "create_reminder" => Passed(OfMobile!ReminderRefusals(fields, found.target))
      /\ spec.action = "create_draft_reply" => Passed(OfMobile!DraftRefusals(fields, spec))
  BY <1>3, <1>5, Zenon DEF MobilePromptHolds
<1>7. fields = OfMobile!Prompted(state, found).fields
  BY <1>3
<1>8. spec.action \in {"search_messages", "create_reminder", "create_draft_reply"}
  BY <1>2, <1>3, MobileSpecsAre
<1>9. general = <<<<proposal.parses = "text" /\ proposal.negated, "negated_action">>,
                  <<proposal.parses = "text", "proposal_not_json">>,
                  <<proposal.parses # "object", "proposal_not_object">>>>
  BY Zenon DEF OfMobile!NotAnObject
<1> HIDE DEF refusal, task, result, id, proposal, fields, action, found, general, checks
<1>10. Tests(general) /\ Passed(general)
  <2>1. general = [i \in 1 .. 3 |-> general[i]] /\ \A i \in 1 .. 3 : general[i][2] # None
    BY <1>9 DEF RefusalsHaveReasons
  <2>4. /\ general[1][1] = (proposal.parses = "text" /\ proposal.negated)
        /\ general[2][1] = (proposal.parses = "text") /\ general[3][1] = (proposal.parses # "object")
    BY <1>9
  <2>5. proposal.parses # "text"
    BY <1>4
  <2>6. ~general[1][1] /\ ~general[2][1] /\ ~general[3][1]
    BY <1>4, <2>4, <2>5, Zenon
  <2>2. \A i \in 1 .. 3 : ~general[i][1]
    BY <2>6
  <2>3. DOMAIN general = 1 .. 3
    BY <2>1
  <2>7. QED
    BY <2>1, <2>2, <2>3, Zenon DEF Tests, Passed
<1>11. Tests(first) /\ Passed(first)
  <2>1. first = [i \in 1 .. 2 |-> first[i]] /\ \A i \in 1 .. 2 : first[i][2] # None
    BY DEF RefusalsHaveReasons
  <2>2. /\ first[1][1] = ~OfMobile!QueryIsUnique(state, found.target)
        /\ first[2][1] = (spec \notin OfMobile!ToSet(OfMobile!SpecsFor(state, found.target)))
    OBVIOUS
  <2> HIDE DEF first
  <2>3. ~first[1][1] /\ ~first[2][1]
    BY <1>2, <1>3, <2>2, Zenon
  <2>4. \A i \in 1 .. 2 : ~first[i][1]
    BY <2>3
  <2>5. DOMAIN first = 1 .. 2
    BY <2>1
  <2>6. QED
    BY <2>1, <2>4, <2>5, Zenon DEF Tests, Passed
<1>12. Tests(own) /\ Passed(own)
  <2>1. own = [i \in 1 .. 7 |-> own[i]] /\ \A i \in 1 .. 7 : own[i][2] # None
    BY DEF RefusalsHaveReasons
  <2>2. /\ own[1][1] = (action = None)
        /\ own[2][1] = (OfMobile!Get(fields, "negated", None) = "true" \/ action \in NegatedMessage)
        /\ own[3][1] = ({"message_id", "target_message_id"} \cap DOMAIN fields # {})
        /\ own[4][1] = (action # spec.action)
        /\ own[5][1] = (OfMobile!Get(fields, "route", None) # spec.route)
        /\ own[6][1] = (action = "search_messages" /\ fields # OfMobile!Prompted(state, found).fields)
        /\ own[7][1] = (action # "search_messages"
                          /\ OfMobile!Get(fields, "message_query", None) # OfMobile!QueryFor(found.target))
    OBVIOUS
  <2> HIDE DEF own
  <2>3. action # None /\ action \notin NegatedMessage /\ None # "true"
    BY <1>6, <1>8 DEF PromptsAreAllowed
  <2>4. ~own[1][1] /\ ~own[2][1] /\ ~own[3][1]
    BY <1>6, <2>2, <2>3, Zenon
  <2>5. ~own[4][1] /\ ~own[5][1] /\ ~own[6][1] /\ ~own[7][1]
    BY <1>6, <1>7, <2>2, Zenon
  <2>6. \A i \in 1 .. 7 : ~own[i][1]
    BY <2>4, <2>5
  <2>7. DOMAIN own = 1 .. 7
    BY <2>1
  <2>8. QED
    BY <2>1, <2>6, <2>7, Zenon DEF Tests, Passed
<1> HIDE DEF first, own
<1>13. Tests(last) /\ Passed(last)
  <2>1. Tests(<<>>) /\ Passed(<<>>)
    <3>1. <<>> = [i \in 1 .. 0 |-> <<>>[i]] /\ \A i \in 1 .. 0 : <<>>[i][2] # None
      OBVIOUS
    <3>2. DOMAIN <<>> = {}
      OBVIOUS
    <3>3. QED
      BY <3>1, <3>2 DEF Tests, Passed
  <2>2. Tests(OfMobile!ReminderRefusals(fields, found.target)) /\ Tests(OfMobile!DraftRefusals(fields, spec))
    BY ReminderAccepted, DraftAccepted, Zenon
  <2>3. CASE action = "create_reminder"
    <3>1. last = OfMobile!ReminderRefusals(fields, found.target)
      BY <2>3
    <3>2. Passed(OfMobile!ReminderRefusals(fields, found.target))
      BY <1>6, <2>3, Zenon
    <3> HIDE DEF last
    <3>3. QED
      BY <2>2, <3>1, <3>2, Zenon
  <2>4. CASE action = "create_draft_reply"
    <3>1. last = OfMobile!DraftRefusals(fields, spec)
      BY <2>4
    <3>2. Passed(OfMobile!DraftRefusals(fields, spec))
      BY <1>6, <2>4, Zenon
    <3> HIDE DEF last
    <3>3. QED
      BY <2>2, <3>1, <3>2, Zenon
  <2>5. CASE action \notin {"create_reminder", "create_draft_reply"}
    <3>1. last = <<>>
      BY <2>5
    <3> HIDE DEF last
    <3>2. QED
      BY <2>1, <3>1, Zenon
  <2>6. QED
    BY <2>3, <2>4, <2>5
<1> HIDE DEF last
<1>14. refusal = None
  <2>1. Tests(first \o general) /\ Passed(first \o general)
    BY <1>10, <1>11, JoinedTests, Zenon
  <2>2. Tests(first \o general \o own) /\ Passed(first \o general \o own)
    BY <1>12, <2>1, JoinedTests, Zenon
  <2>3. Tests(checks) /\ Passed(checks)
    BY <1>13, <2>2, JoinedTests, Zenon DEF checks
  <2>4. OfContacts!EarlyReturn(checks, None) = None
    BY <2>3, PassedTests, Zenon
  <2>5. QED
    BY <2>4, SameReturns, Zenon DEF refusal
<1>15. result = OfMobile!Compiled(task)
  BY <1>1, <1>2, <1>3, <1>14
<1>16. result.reason = None /\ result.task = task
  BY <1>15 DEF OfMobile!Compiled
<1>17. task = MobileTaskOf(slot, fields)
  BY <1>3, <1>6, Zenon DEF task, MobileTaskOf
<1>18. QED
  BY <1>16, <1>17 DEF result, id, proposal, fields

(* Slots of Mobile Messages with one key are one.                             *)
LEMMA MobileKeysDiffer ==
  ASSUME NEW state, NEW a \in MobileSlots(state), NEW b \in MobileSlots(state), NEW f, NEW g,
         OfMobile!SemanticKey(MobileTaskOf(a, f)) = OfMobile!SemanticKey(MobileTaskOf(b, g))
  PROVE  a = b
<1>1. PICK p \in MobileSpecs, x \in MobileMessagesOf(state) : a = MobileSlot(p, x)
  BY DEF MobileSlots
<1>2. PICK q \in MobileSpecs, y \in MobileMessagesOf(state) : b = MobileSlot(q, y)
  BY DEF MobileSlots
<1>3. a.spec = p /\ b.spec = q /\ a.target = x /\ b.target = y
  BY <1>1, <1>2 DEF MobileSlot
<1>4. p.action = q.action /\ p.route = q.route /\ p.constraint = q.constraint /\ x = y
  <2> DEFINE u == MobileTaskOf(a, f)
             v == MobileTaskOf(b, g)
  <2>1. u.action = p.action /\ u.route = p.route /\ u.constraint = p.constraint /\ u.target = x
    BY <1>3 DEF MobileTaskOf
  <2>2. v.action = q.action /\ v.route = q.route /\ v.constraint = q.constraint /\ v.target = y
    BY <1>3 DEF MobileTaskOf
  <2> HIDE DEF u, v
  <2>3. u.action = v.action /\ u.route = v.route /\ u.constraint = v.constraint /\ u.target = v.target
    <3>1. \A a1, a2, a3, a4, a5, a6, a7, b1, b2, b3, b4, b5, b6, b7 :
             <<a1, a2, a3, a4, a5, a6, a7>> = <<b1, b2, b3, b4, b5, b6, b7>> =>
                 a1 = b1 /\ a2 = b2 /\ a6 = b6 /\ a7 = b7
      OBVIOUS
    <3>2. OfMobile!SemanticKey(u) = OfMobile!SemanticKey(v)
      BY DEF u, v
    <3>3. QED
      BY <3>1, <3>2, Zenon DEF OfMobile!SemanticKey
  <2>4. QED
    BY <2>1, <2>2, <2>3
<1>5. p = q
  BY <1>4 DEF MobileSpecs, OfMobile!TaskSpecs, OfMobile!TaskSpec
<1>6. QED
  BY <1>1, <1>2, <1>4, <1>5

--------------------------------------------------------------------------------
(* The slots of Workspace Tasks. *)

(* Two sequences of different things, each thing once, have each of them once. *)
LEMMA JoinedOnce ==
  ASSUME NEW A, NEW B, NEW a \in Seq(A), NEW b \in Seq(B), A \cap B = {}, Once(a), Once(b)
  PROVE  a \o b \in Seq(A \cup B) /\ Once(a \o b)
<1> DEFINE m == Len(a)
           n == Len(b)
           whole == a \o b
           C == A \cup B
<1>1. /\ m \in Nat /\ n \in Nat /\ DOMAIN a = 1 .. m /\ DOMAIN b = 1 .. n
      /\ \A i \in 1 .. m : a[i] \in A
      /\ \A i \in 1 .. n : b[i] \in B
  OBVIOUS
<1>2. /\ whole \in Seq(C) /\ Len(whole) = m + n
      /\ \A i \in 1 .. m : whole[i] = a[i]
      /\ \A i \in 1 .. n : whole[m + i] = b[i]
  <2>1. a \in Seq(C) /\ b \in Seq(C)
    OBVIOUS
  <2> HIDE DEF C
  <2>2. QED
    BY <1>1, <2>1
<1> HIDE DEF m, n, whole, C
<1>3. \A i \in 1 .. m + n : i \in 1 .. m \/ (i - m \in 1 .. n /\ i = m + (i - m))
  BY <1>1
<1>4. Once(whole)
  <2> SUFFICES ASSUME NEW i \in 1 .. m + n, NEW j \in 1 .. m + n, whole[i] = whole[j] PROVE i = j
    <3>1. DOMAIN whole = 1 .. m + n
      BY <1>2
    <3>2. QED
      BY <3>1 DEF Once
  <2>1. CASE i \in 1 .. m /\ j \in 1 .. m
    BY <1>1, <1>2, <2>1 DEF Once
  <2>2. CASE i \in 1 .. m /\ j \notin 1 .. m
    <3>1. whole[i] \in A /\ whole[j] \in B
      <4>1. j - m \in 1 .. n /\ j = m + (j - m)
        BY <1>3, <2>2
      <4>2. whole[j] = b[j - m]
        BY <1>2, <4>1
      <4>3. QED
        BY <1>1, <1>2, <2>2, <4>1, <4>2
    <3>2. QED
      BY <3>1
  <2>3. CASE i \notin 1 .. m /\ j \in 1 .. m
    <3>1. whole[j] \in A /\ whole[i] \in B
      <4>1. i - m \in 1 .. n /\ i = m + (i - m)
        BY <1>3, <2>3
      <4>2. whole[i] = b[i - m]
        BY <1>2, <4>1
      <4>3. QED
        BY <1>1, <1>2, <2>3, <4>1, <4>2
    <3>2. QED
      BY <3>1
  <2>4. CASE i \notin 1 .. m /\ j \notin 1 .. m
    <3>1. i - m \in 1 .. n /\ i = m + (i - m) /\ j - m \in 1 .. n /\ j = m + (j - m)
      BY <1>3, <2>4
    <3>2. whole[i] = b[i - m] /\ whole[j] = b[j - m]
      BY <1>2, <3>1
    <3>3. i - m = j - m
      BY <1>1, <3>1, <3>2 DEF Once
    <3>4. QED
      BY <3>1, <3>3
  <2>5. QED
    BY <2>1, <2>2, <2>3, <2>4
<1>5. QED
  BY <1>2, <1>4 DEF whole, C

(* The items of a kind differ.                                                *)
LEMMA OfKindOnce ==
  ASSUME NEW items, WorkspaceState(items), NEW kind
  PROVE  Once(OfWorkspace!OfKind(items, kind))
<1> DEFINE rows == OfWorkspace!Sorted(items)
           passes == [i \in DOMAIN rows |-> rows[i].kind = kind]
<1>1. OfWorkspace!OfKind(items, kind)
        = FlattenSeq([i \in DOMAIN rows |-> IF rows[i].kind = kind THEN <<rows[i]>> ELSE <<>>])
  BY SameCommon, Zenon DEF OfWorkspace!OfKind, OfWorkspace!Those
<1>2. /\ Listed(rows) /\ OfWorkspace!DistinctIds(rows)
      /\ \A i \in DOMAIN rows : rows[i] \in ItemsOf(items)
  BY SortedReadsBack DEF ItemsOf
<1> HIDE DEF rows
<1>3. rows \in Seq(ItemsOf(items))
  <2>1. PICK n \in Nat : rows = [i \in 1 .. n |-> rows[i]]
    BY <1>2 DEF Listed
  <2>2. QED
    BY <1>2, <2>1
<1>4. Once(rows)
  BY <1>2 DEF Once, OfWorkspace!DistinctIds
<1>5. [i \in DOMAIN rows |-> IF rows[i].kind = kind THEN <<rows[i]>> ELSE <<>>]
        = [i \in DOMAIN rows |-> IF passes[i] THEN <<rows[i]>> ELSE <<>>]
  OBVIOUS
<1> HIDE DEF passes
<1>6. Once(KeptOf(rows, passes))
  BY <1>3, <1>4, KeptOnce
<1>7. QED
  BY <1>1, <1>5, <1>6 DEF KeptOf

(* So do the candidates of a spec.                                            *)
LEMMA CandidatesOnce ==
  ASSUME NEW items, WorkspaceState(items), NEW spec
  PROVE  Once(OfWorkspace!AnyTargets(items, spec))
<1> DEFINE Own(kind) == OfWorkspace!OfKind(items, kind)
           Of(kinds) == {item \in ItemsOf(items) : item.kind \in kinds}
<1>1. CASE spec.route = "missing"
  <2>1. OfWorkspace!AnyTargets(items, spec) = <<None>>
    BY <1>1, Zenon DEF OfWorkspace!AnyTargets
  <2>2. DOMAIN <<None>> = {1}
    OBVIOUS
  <2>3. QED
    BY <2>1, <2>2 DEF Once
<1>2. CASE spec.route # "missing"
  <2>1. OfWorkspace!AnyTargets(items, spec) =
          IF Own(spec.target) # <<>> \/ ~spec.fallback THEN Own(spec.target)
          ELSE Own("document") \o Own("project") \o Own("task") \o Own("comment")
    BY <1>2, Zenon DEF OfWorkspace!AnyTargets, OfWorkspace!Candidates
  <2>2. \A kind : Own(kind) \in Seq(Of({kind})) /\ Once(Own(kind))
    <3> SUFFICES ASSUME NEW kind PROVE Own(kind) \in Seq(Of({kind})) /\ Once(Own(kind))
      OBVIOUS
    <3>1. Of({kind}) = {item \in ItemsOf(items) : item.kind = kind}
      OBVIOUS
    <3>2. QED
      BY <3>1, OfKindAre, OfKindOnce
  <2>3. \A K, L : K \cap L = {} => Of(K) \cap Of(L) = {}
    OBVIOUS
  <2>4. \A K, L : Of(K) \cup Of(L) = Of(K \cup L)
    OBVIOUS
  <2> DEFINE a == Own("document")
             b == Own("project")
             c == Own("task")
             d == Own("comment")
  <2>5. CASE Own(spec.target) # <<>> \/ ~spec.fallback
    BY <2>1, <2>2, <2>5, Zenon
  <2>6. CASE ~(Own(spec.target) # <<>> \/ ~spec.fallback)
    <3>1. OfWorkspace!AnyTargets(items, spec) = a \o b \o c \o d
      BY <2>1, <2>6, Zenon
    <3>2. /\ a \in Seq(Of({"document"})) /\ b \in Seq(Of({"project"}))
          /\ c \in Seq(Of({"task"})) /\ d \in Seq(Of({"comment"}))
          /\ Once(a) /\ Once(b) /\ Once(c) /\ Once(d)
      BY <2>2
    <3>3. /\ Of({"document"}) \cap Of({"project"}) = {}
          /\ Of({"document", "project"}) \cap Of({"task"}) = {}
          /\ Of({"document", "project", "task"}) \cap Of({"comment"}) = {}
      BY <2>3
    <3>4. /\ Of({"document"}) \cup Of({"project"}) = Of({"document", "project"})
          /\ Of({"document", "project"}) \cup Of({"task"}) = Of({"document", "project", "task"})
      OBVIOUS
    <3> HIDE DEF a, b, c, d, Of
    <3>5. a \o b \in Seq(Of({"document", "project"})) /\ Once(a \o b)
      BY <3>2, <3>3, <3>4, JoinedOnce
    <3>6. (a \o b) \o c \in Seq(Of({"document", "project", "task"})) /\ Once((a \o b) \o c)
      <4>1. \A e \in Seq(Of({"document", "project"})) : Once(e) =>
                e \o c \in Seq(Of({"document", "project"}) \cup Of({"task"})) /\ Once(e \o c)
        BY <3>2, <3>3, JoinedOnce
      <4>2. QED
        BY <3>4, <3>5, <4>1
    <3>7. Once(((a \o b) \o c) \o d)
      <4>1. \A e \in Seq(Of({"document", "project", "task"})) : Once(e) => Once(e \o d)
        BY <3>2, <3>3, JoinedOnce
      <4>2. QED
        BY <3>6, <4>1
    <3>8. QED
      BY <3>1, <3>7
  <2>7. QED
    BY <2>5, <2>6
<1>3. QED
  BY <1>1, <1>2

(* And its targets, each of them a candidate that its query finds alone.      *)
TargetsStand(items, spec) ==
    /\ Once(OfWorkspace!Targets(items, spec))
    /\ \A n \in DOMAIN OfWorkspace!Targets(items, spec) :
           /\ spec.route # "missing" => OfWorkspace!QueryIsUnique(OfWorkspace!Targets(items, spec)[n], items)
           /\ \E i \in DOMAIN OfWorkspace!AnyTargets(items, spec) :
                  OfWorkspace!AnyTargets(items, spec)[i] = OfWorkspace!Targets(items, spec)[n]
LEMMA TargetsOnce == ASSUME NEW items, WorkspaceState(items), NEW spec PROVE TargetsStand(items, spec)
<1>1. CASE spec.route = "missing"
  <2>1. OfWorkspace!Targets(items, spec) = <<None>> /\ OfWorkspace!AnyTargets(items, spec) = <<None>>
    BY <1>1, Zenon DEF OfWorkspace!Targets, OfWorkspace!AnyTargets
  <2>2. DOMAIN <<None>> = {1}
    OBVIOUS
  <2>3. QED
    BY <1>1, <2>1, <2>2 DEF TargetsStand, Once
<1>2. CASE spec.route # "missing"
  <2> DEFINE rows == OfWorkspace!Candidates(items, spec)
             passes == [i \in DOMAIN rows |-> OfWorkspace!QueryIsUnique(rows[i], items)]
             U == TargetsOf(items, spec)
             kept == KeptOf(rows, passes)
  <2>1. OfWorkspace!Targets(items, spec)
          = FlattenSeq([i \in DOMAIN rows |-> IF OfWorkspace!QueryIsUnique(rows[i], items) THEN <<rows[i]>> ELSE <<>>])
    BY <1>2, SameCommon, Zenon DEF OfWorkspace!Targets, OfWorkspace!Those
  <2>2. OfWorkspace!AnyTargets(items, spec) = rows
    BY <1>2, Zenon DEF OfWorkspace!AnyTargets
  <2>3. rows \in Seq(U) /\ Once(rows)
    BY <2>2, CandidatesAre, CandidatesOnce
  <2> HIDE DEF rows, U
  <2>4. \A i \in DOMAIN rows : passes[i] = OfWorkspace!QueryIsUnique(rows[i], items)
    OBVIOUS
  <2>5. [i \in DOMAIN rows |-> IF OfWorkspace!QueryIsUnique(rows[i], items) THEN <<rows[i]>> ELSE <<>>]
          = [i \in DOMAIN rows |-> IF passes[i] THEN <<rows[i]>> ELSE <<>>]
    OBVIOUS
  <2> HIDE DEF passes
  <2>6. Once(kept)
    BY <2>3, KeptOnce
  <2>7. \A n \in DOMAIN kept : \E i \in DOMAIN rows : passes[i] /\ kept[n] = rows[i]
    BY <2>3, KeptOnce
  <2>8. OfWorkspace!Targets(items, spec) = kept
    BY <2>1, <2>5 DEF KeptOf
  <2> HIDE DEF kept
  <2>9. \A n \in DOMAIN kept : OfWorkspace!QueryIsUnique(kept[n], items) /\ \E i \in DOMAIN rows : rows[i] = kept[n]
    <3> SUFFICES ASSUME NEW n \in DOMAIN kept
                 PROVE  OfWorkspace!QueryIsUnique(kept[n], items) /\ \E i \in DOMAIN rows : rows[i] = kept[n]
      OBVIOUS
    <3>1. PICK i \in DOMAIN rows : passes[i] /\ kept[n] = rows[i]
      BY <2>7
    <3>2. QED
      BY <2>4, <3>1, Zenon
  <2>10. QED
    BY <2>2, <2>6, <2>8, <2>9, Zenon DEF TargetsStand
<1>3. QED
  BY <1>1, <1>2

(* A turn takes one target of each spec that has one.                           *)
Turn(targets, at) == FlattenSeq([s \in 1 .. 9 |-> PairAt(targets, s, at[s])])
Taken(targets, s, n) == <<OfWorkspace!TaskSpecs[s], targets[s][n]>>

(* No pair is of two specs or of two targets.                                 *)
LEMMA PairsDiffer ==
  \A targets : \A s, t \in 1 .. 9 : \A n, m :
      Taken(targets, s, n) = Taken(targets, t, m) => s = t /\ targets[s][n] = targets[t][m]
<1>1. \A u, v, w, z : <<u, v>> = <<w, z>> => u = w /\ v = z
  OBVIOUS
<1>2. \A i, j \in 1 .. 9 : OfWorkspace!TaskSpecs[i] = OfWorkspace!TaskSpecs[j] => i = j
  <2>1. \A i, j \in 1 .. 9 : OfWorkspace!TaskSpecs[i].kind = OfWorkspace!TaskSpecs[j].kind => i = j
    BY DEF OfWorkspace!TaskSpecs, OfWorkspace!ItemTask
  <2>2. QED
    BY <2>1
<1> SUFFICES ASSUME NEW targets, NEW s \in 1 .. 9, NEW t \in 1 .. 9, NEW n, NEW m,
                    Taken(targets, s, n) = Taken(targets, t, m)
             PROVE  s = t /\ targets[s][n] = targets[t][m]
  OBVIOUS
<1>3. OfWorkspace!TaskSpecs[s] = OfWorkspace!TaskSpecs[t] /\ targets[s][n] = targets[t][m]
  BY <1>1, Zenon DEF Taken
<1>4. QED
  BY <1>2, <1>3

(* The pairs of a turn differ.                                                *)
TurnHolds(items, targets, at) ==
    LET turn == Turn(targets, at)
    IN  /\ turn \in Seq(WorkspacePairs(items)) /\ Once(turn)
        /\ \A k \in DOMAIN turn : \E s \in 1 .. 9 :
               at[s] \in DOMAIN targets[s] /\ turn[k] = Taken(targets, s, at[s])
LEMMA TurnOnce ==
  ASSUME NEW items, NEW targets, AimedTargets(items, targets), NEW at
  PROVE  TurnHolds(items, targets, at)
<1> DEFINE parts == [s \in 1 .. 9 |-> PairAt(targets, s, at[s])]
           whole == FlattenSeq(parts)
           T == WorkspacePairs(items)
<1>1. \A s \in 1 .. 9 : parts[s] \in Seq(T)
  BY PairAtIs
<1>2. \A s \in 1 .. 9 : \A j \in DOMAIN parts[s] :
        j = 1 /\ at[s] \in DOMAIN targets[s] /\ parts[s][j] = Taken(targets, s, at[s])
  <2> SUFFICES ASSUME NEW s \in 1 .. 9, NEW j \in DOMAIN parts[s]
               PROVE  j = 1 /\ at[s] \in DOMAIN targets[s] /\ parts[s][j] = Taken(targets, s, at[s])
    OBVIOUS
  <2>1. parts[s] = IF at[s] \in DOMAIN targets[s] THEN <<Taken(targets, s, at[s])>> ELSE <<>>
    BY DEF PairAt, Taken
  <2> HIDE DEF parts
  <2>2. QED
    BY <2>1
<1>3. DOMAIN parts = 1 .. 9 /\ parts = [s \in 1 .. 9 |-> parts[s]]
  OBVIOUS
<1> HIDE DEF parts, T
<1>4. parts \in Seq(Seq(T))
  BY <1>1, <1>3
<1>5. Apart(parts)
  <2> SUFFICES ASSUME NEW s \in 1 .. 9, NEW t \in 1 .. 9, NEW j \in DOMAIN parts[s], NEW l \in DOMAIN parts[t],
                      parts[s][j] = parts[t][l]
               PROVE  s = t /\ j = l
    BY <1>3 DEF Apart
  <2> DEFINE n == at[s]
             m == at[t]
  <2>1. j = 1 /\ l = 1 /\ Taken(targets, s, n) = Taken(targets, t, m)
    BY <1>2
  <2> HIDE DEF n, m
  <2>2. s = t
    BY <2>1, PairsDiffer
  <2>3. QED
    BY <2>1, <2>2
<1>6. whole \in Seq(T) /\ Once(whole)
  BY <1>4, <1>5, FlattenElements
<1>7. \A k \in DOMAIN whole : \E s \in DOMAIN parts : \E j \in DOMAIN parts[s] : whole[k] = parts[s][j]
  BY <1>4, FlattenElements
<1> HIDE DEF whole
<1>8. \A k \in DOMAIN whole : \E s \in 1 .. 9 :
        at[s] \in DOMAIN targets[s] /\ whole[k] = Taken(targets, s, at[s])
  <2> SUFFICES ASSUME NEW k \in DOMAIN whole
               PROVE  \E s \in 1 .. 9 : at[s] \in DOMAIN targets[s] /\ whole[k] = Taken(targets, s, at[s])
    OBVIOUS
  <2>1. PICK s \in DOMAIN parts : \E j \in DOMAIN parts[s] : whole[k] = parts[s][j]
    BY <1>7
  <2>2. PICK j \in DOMAIN parts[s] : whole[k] = parts[s][j]
    BY <2>1
  <2>3. s \in 1 .. 9
    BY <1>3
  <2>4. QED
    BY <1>2, <2>2, <2>3
<1>9. Turn(targets, at) = whole
  BY Zenon DEF Turn, whole, parts
<1>10. QED
  BY <1>6, <1>8, <1>9, Zenon DEF TurnHolds, T

(* Turn by turn no pair is listed twice, if no spec has a target twice.       *)
LEMMA TurnsOnce ==
  ASSUME NEW items, NEW targets, AimedTargets(items, targets), \A s \in 1 .. 9 : Once(targets[s]), NEW most \in Nat
  PROVE  LET whole == FlattenSeq([n \in 1 .. most |-> Turn(targets, [s \in 1 .. 9 |-> n])])
         IN  /\ Once(whole)
             /\ \A k \in DOMAIN whole : \E s \in 1 .. 9 : \E n \in DOMAIN targets[s] : whole[k] = Taken(targets, s, n)
<1> DEFINE parts == [n \in 1 .. most |-> Turn(targets, [s \in 1 .. 9 |-> n])]
           whole == FlattenSeq(parts)
           T == WorkspacePairs(items)
<1>1. \A n \in 1 .. most : /\ parts[n] \in Seq(T) /\ Once(parts[n])
                           /\ \A k \in DOMAIN parts[n] : \E s \in 1 .. 9 :
                                  n \in DOMAIN targets[s] /\ parts[n][k] = Taken(targets, s, n)
  <2> SUFFICES ASSUME NEW n \in 1 .. most
               PROVE  /\ parts[n] \in Seq(T) /\ Once(parts[n])
                      /\ \A k \in DOMAIN parts[n] : \E s \in 1 .. 9 :
                             n \in DOMAIN targets[s] /\ parts[n][k] = Taken(targets, s, n)
    OBVIOUS
  <2> DEFINE at == [s \in 1 .. 9 |-> n]
             turn == parts[n]
  <2>1. turn = Turn(targets, at)
    OBVIOUS
  <2>2. TurnHolds(items, targets, at)
    BY TurnOnce
  <2>3. \A s \in 1 .. 9 : at[s] = n
    OBVIOUS
  <2> HIDE DEF at, turn
  <2>4. /\ turn \in Seq(T) /\ Once(turn)
        /\ \A k \in DOMAIN turn : \E s \in 1 .. 9 :
               at[s] \in DOMAIN targets[s] /\ turn[k] = Taken(targets, s, at[s])
    BY <2>1, <2>2, Zenon DEF TurnHolds
  <2>5. \A k \in DOMAIN turn : \E s \in 1 .. 9 : n \in DOMAIN targets[s] /\ turn[k] = Taken(targets, s, n)
    BY <2>3, <2>4
  <2>6. QED
    BY <2>4, <2>5 DEF turn
<1>2. DOMAIN parts = 1 .. most /\ parts = [n \in 1 .. most |-> parts[n]]
  OBVIOUS
<1> HIDE DEF parts, T
<1>3. parts \in Seq(Seq(T))
  BY <1>1, <1>2
<1>4. Apart(parts)
  <2> SUFFICES ASSUME NEW n \in 1 .. most, NEW m \in 1 .. most, NEW j \in DOMAIN parts[n], NEW l \in DOMAIN parts[m],
                      parts[n][j] = parts[m][l]
               PROVE  n = m /\ j = l
    BY <1>2 DEF Apart
  <2>1. PICK s \in 1 .. 9 : n \in DOMAIN targets[s] /\ parts[n][j] = Taken(targets, s, n)
    BY <1>1
  <2>2. PICK t \in 1 .. 9 : m \in DOMAIN targets[t] /\ parts[m][l] = Taken(targets, t, m)
    BY <1>1
  <2>3. s = t /\ targets[s][n] = targets[t][m]
    <3>1. Taken(targets, s, n) = Taken(targets, t, m)
      BY <2>1, <2>2
    <3>2. QED
      BY <3>1, PairsDiffer
  <2>4. n = m
    BY <2>1, <2>2, <2>3 DEF Once
  <2>5. j = l
    BY <1>1, <2>4 DEF Once
  <2>6. QED
    BY <2>4, <2>5
<1>5. whole \in Seq(T) /\ Once(whole)
  BY <1>3, <1>4, FlattenElements
<1>6. \A k \in DOMAIN whole : \E n \in DOMAIN parts : \E j \in DOMAIN parts[n] : whole[k] = parts[n][j]
  BY <1>3, FlattenElements
<1> HIDE DEF whole
<1>7. \A k \in DOMAIN whole : \E s \in 1 .. 9 : \E n \in DOMAIN targets[s] : whole[k] = Taken(targets, s, n)
  <2> SUFFICES ASSUME NEW k \in DOMAIN whole
               PROVE  \E s \in 1 .. 9 : \E n \in DOMAIN targets[s] : whole[k] = Taken(targets, s, n)
    OBVIOUS
  <2>1. PICK n \in DOMAIN parts : \E j \in DOMAIN parts[n] : whole[k] = parts[n][j]
    BY <1>6
  <2>2. PICK j \in DOMAIN parts[n] : whole[k] = parts[n][j]
    BY <2>1
  <2>3. n \in 1 .. most
    BY <1>2
  <2>4. PICK s \in 1 .. 9 : n \in DOMAIN targets[s] /\ parts[n][j] = Taken(targets, s, n)
    BY <1>1, <2>3
  <2>5. QED
    BY <2>2, <2>4
<1>8. QED
  BY <1>5, <1>7 DEF whole, parts

(* In both scopes what is listed are different pairs, each of a spec and one of *)
(* its targets.                                                               *)
SpecsListed(targets) ==
    LET whole == OfWorkspace!SpecsOver(targets)
    IN  /\ Once(whole)
        /\ \A k \in DOMAIN whole : \E s \in 1 .. 9 : \E n \in DOMAIN targets[s] : whole[k] = Taken(targets, s, n)
LEMMA SpecsOverOnce ==
  ASSUME NEW items, NEW targets, AimedTargets(items, targets), \A s \in 1 .. 9 : Once(targets[s])
  PROVE  SpecsListed(targets)
<1> DEFINE specs == OfWorkspace!TaskSpecs
           lengths == [s \in 1 .. 9 |-> Len(targets[s])]
           most == OfWorkspace!Max({lengths[s] : s \in 1 .. 9})
           at == [s \in 1 .. 9 |-> OfWorkspace!Lesser(specs[s].index + 1, Len(targets[s]))]
           all == FlattenSeq([n \in 1 .. most |-> Turn(targets, [s \in 1 .. 9 |-> n])])
           first == Turn(targets, at)
<1>1. DOMAIN specs = 1 .. 9
  BY WorkspaceSpecsAre
<1>2. OfWorkspace!SpecsOver(targets) =
        IF TargetScope = "all_unique"
        THEN FlattenSeq([n \in 1 .. OfWorkspace!Max({Len(targets[s]) : s \in 1 .. 9}) |->
                            FlattenSeq([s \in 1 .. 9 |-> PairAt(targets, s, n)])])
        ELSE FlattenSeq([s \in 1 .. 9 |->
                 PairAt(targets, s, OfWorkspace!Lesser(specs[s].index + 1, Len(targets[s])))])
  BY <1>1, SameCommon, Zenon DEF OfWorkspace!SpecsOver, PairAt
<1>3. most \in Nat
  <2>1. lengths \in [1 .. 9 -> Nat]
    <3>1. \A s \in 1 .. 9 : Len(targets[s]) \in Nat
      BY DEF AimedTargets
    <3>2. QED
      BY <3>1
  <2> HIDE DEF lengths
  <2>2. QED
    BY <2>1, MaxOfNine
<1>4. most = OfWorkspace!Max({Len(targets[s]) : s \in 1 .. 9})
  <2>1. {lengths[s] : s \in 1 .. 9} = {Len(targets[s]) : s \in 1 .. 9}
    OBVIOUS
  <2>2. QED
    BY <2>1, Zenon
<1> HIDE DEF most
<1>5. all = FlattenSeq([n \in 1 .. most |-> FlattenSeq([s \in 1 .. 9 |-> PairAt(targets, s, n)])])
  <2>1. \A n : [s \in 1 .. 9 |-> PairAt(targets, s, [t \in 1 .. 9 |-> n][s])] = [s \in 1 .. 9 |-> PairAt(targets, s, n)]
    OBVIOUS
  <2>2. \A n : Turn(targets, [s \in 1 .. 9 |-> n]) = FlattenSeq([s \in 1 .. 9 |-> PairAt(targets, s, n)])
    BY <2>1, Zenon DEF Turn
  <2>3. [n \in 1 .. most |-> Turn(targets, [s \in 1 .. 9 |-> n])]
          = [n \in 1 .. most |-> FlattenSeq([s \in 1 .. 9 |-> PairAt(targets, s, n)])]
    BY <2>2
  <2>4. QED
    BY <2>3, Zenon
<1>6. first = FlattenSeq([s \in 1 .. 9 |->
                 PairAt(targets, s, OfWorkspace!Lesser(specs[s].index + 1, Len(targets[s])))])
  <2>1. [s \in 1 .. 9 |-> PairAt(targets, s, at[s])]
          = [s \in 1 .. 9 |-> PairAt(targets, s, OfWorkspace!Lesser(specs[s].index + 1, Len(targets[s])))]
    OBVIOUS
  <2> HIDE DEF at
  <2>2. QED
    BY <2>1, Zenon DEF Turn
<1>7. CASE TargetScope = "all_unique"
  <2>1. OfWorkspace!SpecsOver(targets) = all
    BY <1>2, <1>4, <1>5, <1>7, Zenon
  <2>2. /\ Once(all)
        /\ \A k \in DOMAIN all : \E s \in 1 .. 9 : \E n \in DOMAIN targets[s] : all[k] = Taken(targets, s, n)
    BY <1>3, TurnsOnce
  <2> HIDE DEF all
  <2>3. QED
    BY <2>1, <2>2, Zenon DEF SpecsListed
<1>8. CASE TargetScope # "all_unique"
  <2>1. OfWorkspace!SpecsOver(targets) = first
    BY <1>2, <1>6, <1>8, Zenon
  <2> HIDE DEF at
  <2>2. TurnHolds(items, targets, at)
    BY TurnOnce
  <2>3. /\ Once(first)
        /\ \A k \in DOMAIN first : \E s \in 1 .. 9 :
               at[s] \in DOMAIN targets[s] /\ first[k] = Taken(targets, s, at[s])
    BY <2>2, Zenon DEF TurnHolds
  <2> HIDE DEF first
  <2>4. QED
    BY <2>1, <2>3, Zenon DEF SpecsListed
<1>9. QED
  BY <1>7, <1>8

(* The pair at a place of the list is one spec and one of its targets.            *)
Available(items, k, s, n) ==
    OfWorkspace!AvailableSpecs(items)[k]
        = <<OfWorkspace!TaskSpecs[s], OfWorkspace!Targets(items, OfWorkspace!TaskSpecs[s])[n]>>

(* What the slots are made of are different pairs of a spec and a target of it. *)
LEMMA AvailableOnce ==
  ASSUME NEW items, WorkspaceState(items)
  PROVE  /\ Once(OfWorkspace!AvailableSpecs(items))
         /\ \A k \in DOMAIN OfWorkspace!AvailableSpecs(items) :
                \E s \in 1 .. 9 : \E n \in DOMAIN OfWorkspace!Targets(items, OfWorkspace!TaskSpecs[s]) :
                    Available(items, k, s, n)
<1> DEFINE targets == OfWorkspace!AllTargets(items)
           Mine(s) == OfWorkspace!Targets(items, OfWorkspace!TaskSpecs[s])
           whole == OfWorkspace!AvailableSpecs(items)
<1>1. whole = CHOOSE result \in {OfWorkspace!SpecsOver(v) : v \in {targets}} : TRUE
  BY Zenon DEF OfWorkspace!AvailableSpecs, OfWorkspace!With
<1>2. targets = [s \in 1 .. 9 |-> Mine(s)]
  BY WorkspaceSpecsAre, Zenon DEF OfWorkspace!AllTargets
<1>3. \A s \in 1 .. 9 : Mine(s) \in Seq(TargetsOf(items, OfWorkspace!TaskSpecs[s])) /\ Once(Mine(s))
  BY TargetsAre, TargetsOnce DEF TargetsStand
<1> HIDE DEF targets, Mine, whole
<1>4. AimedTargets(items, targets) /\ \A s \in 1 .. 9 : targets[s] = Mine(s) /\ Once(targets[s])
  <2>1. \A s \in 1 .. 9 : targets[s] = Mine(s)
    BY <1>2
  <2>2. targets = [s \in 1 .. 9 |-> targets[s]]
    BY <1>2
  <2>3. \A s \in 1 .. 9 : targets[s] \in Seq(TargetsOf(items, OfWorkspace!TaskSpecs[s]))
    BY <1>3, <2>1
  <2>4. \A s \in 1 .. 9 : Once(targets[s])
    BY <1>3, <2>1
  <2>5. QED
    BY <2>1, <2>2, <2>3, <2>4, Zenon DEF AimedTargets
<1>5. whole = OfWorkspace!SpecsOver(targets)
  <2>1. \A x : (CHOOSE result \in {x} : TRUE) = x
    OBVIOUS
  <2>2. {OfWorkspace!SpecsOver(v) : v \in {targets}} = {OfWorkspace!SpecsOver(targets)}
    OBVIOUS
  <2>3. QED
    BY <1>1, <2>1, <2>2, Zenon
<1>6. SpecsListed(targets)
  BY <1>4, SpecsOverOnce
<1>7. /\ Once(whole)
      /\ \A k \in DOMAIN whole : \E s \in 1 .. 9 : \E n \in DOMAIN targets[s] : whole[k] = Taken(targets, s, n)
  BY <1>5, <1>6, Zenon DEF SpecsListed
<1>8. \A k \in DOMAIN whole : \E s \in 1 .. 9 : \E n \in DOMAIN Mine(s) : Available(items, k, s, n)
  <2> SUFFICES ASSUME NEW k \in DOMAIN whole
               PROVE  \E s \in 1 .. 9 : \E n \in DOMAIN Mine(s) : Available(items, k, s, n)
    OBVIOUS
  <2>1. PICK s \in 1 .. 9 : \E n \in DOMAIN targets[s] : whole[k] = Taken(targets, s, n)
    BY <1>7
  <2>2. PICK n \in DOMAIN targets[s] : whole[k] = Taken(targets, s, n)
    BY <2>1
  <2>3. targets[s] = Mine(s)
    BY <1>4
  <2>4. n \in DOMAIN Mine(s)
    BY <2>3
  <2>5. whole[k] = <<OfWorkspace!TaskSpecs[s], Mine(s)[n]>>
    BY <2>2, <2>3, Zenon DEF Taken
  <2>6. Available(items, k, s, n)
    BY <2>5, Zenon DEF Available, whole, Mine
  <2>7. QED
    BY <2>4, <2>6
<1>9. QED
  BY <1>7, <1>8 DEF whole, Mine

(* Every candidate of a spec is found with it.                                *)
LEMMA AnyHolds ==
  ASSUME NEW items, WorkspaceState(items), NEW s \in 1 .. 9,
         NEW i \in DOMAIN OfWorkspace!AnyTargets(items, OfWorkspace!TaskSpecs[s])
  PROVE  \E k \in DOMAIN OfWorkspace!AnySpecs(items) :
             OfWorkspace!AnySpecs(items)[k]
                 = <<OfWorkspace!TaskSpecs[s], OfWorkspace!AnyTargets(items, OfWorkspace!TaskSpecs[s])[i]>>
<1> DEFINE specs == OfWorkspace!TaskSpecs
           Aimed(t) == OfWorkspace!AnyTargets(items, specs[t])
           Made(t, targets) == [j \in DOMAIN targets |-> <<specs[t], targets[j]>>]
           parts == [t \in 1 .. 9 |-> CHOOSE result \in {Made(t, v) : v \in {Aimed(t)}} : TRUE]
           T == WorkspacePairs(items)
           whole == OfWorkspace!AnySpecs(items)
<1>1. whole = FlattenSeq(parts)
  BY WorkspaceSpecsAre, SameCommon, Zenon DEF OfWorkspace!AnySpecs, OfWorkspace!With
<1>2. \A t \in 1 .. 9 : parts[t] = Made(t, Aimed(t))
  <2> HIDE DEF Made, Aimed
  <2>1. \A x : (CHOOSE result \in {x} : TRUE) = x
    OBVIOUS
  <2>2. \A t : {Made(t, v) : v \in {Aimed(t)}} = {Made(t, Aimed(t))}
    OBVIOUS
  <2>3. \A t \in 1 .. 9 : parts[t] = CHOOSE result \in {Made(t, v) : v \in {Aimed(t)}} : TRUE
    OBVIOUS
  <2> HIDE DEF parts
  <2>4. QED
    BY <2>1, <2>2, <2>3, Zenon
<1>3. DOMAIN parts = 1 .. 9 /\ parts = [t \in 1 .. 9 |-> parts[t]]
  OBVIOUS
<1> HIDE DEF parts
<1>4. \A t \in 1 .. 9 : parts[t] \in Seq(T)
  <2> SUFFICES ASSUME NEW t \in 1 .. 9 PROVE parts[t] \in Seq(T)
    OBVIOUS
  <2> DEFINE spec == specs[t]
             targets == Aimed(t)
             Pair(j) == <<spec, targets[j]>>
  <2>1. targets \in Seq(TargetsOf(items, spec)) /\ spec \in WorkspaceSpecs
    BY CandidatesAre DEF WorkspaceSpecs
  <2>2. parts[t] = [j \in DOMAIN targets |-> Pair(j)]
    BY <1>2
  <2> HIDE DEF spec, targets
  <2>3. DOMAIN targets = 1 .. Len(targets) /\ Len(targets) \in Nat
    BY <2>1
  <2>4. \A j \in DOMAIN targets : Pair(j) \in T
    BY <2>1 DEF WorkspacePairs
  <2> HIDE DEF Pair, T
  <2>5. [j \in DOMAIN targets |-> Pair(j)] \in Seq(T)
    BY <2>3, <2>4
  <2>6. QED
    BY <2>2, <2>5
<1> HIDE DEF T
<1>5. parts \in Seq(Seq(T))
  BY <1>3, <1>4
<1>6. \A t \in DOMAIN parts : \A j \in DOMAIN parts[t] : \E k \in DOMAIN FlattenSeq(parts) :
          FlattenSeq(parts)[k] = parts[t][j]
  BY <1>5, FlattenElements
<1>7. i \in DOMAIN parts[s] /\ parts[s][i] = <<specs[s], Aimed(s)[i]>>
  <2> DEFINE targets == Aimed(s)
  <2>1. parts[s] = [j \in DOMAIN targets |-> <<specs[s], targets[j]>>] /\ i \in DOMAIN targets
    BY <1>2
  <2> HIDE DEF targets, specs
  <2>2. i \in DOMAIN parts[s] /\ parts[s][i] = <<specs[s], targets[i]>>
    BY <2>1
  <2>3. QED
    BY <2>2 DEF targets
<1> HIDE DEF whole
<1>8. PICK k \in DOMAIN FlattenSeq(parts) : FlattenSeq(parts)[k] = parts[s][i]
  BY <1>3, <1>6, <1>7
<1>9. k \in DOMAIN whole /\ whole[k] = <<specs[s], Aimed(s)[i]>>
  BY <1>1, <1>7, <1>8
<1>10. QED
  BY <1>9 DEF whole

(* A slot is found under its id wherever its pair is looked for.              *)
LEMMA WorkspaceFound ==
  ASSUME NEW items, WorkspaceState(items), NEW slot \in WorkspaceSlots(items), slot # None, NEW pairs,
         pairs = (IF TargetScope = "all_unique" THEN OfWorkspace!AvailableSpecs(items) ELSE OfWorkspace!AnySpecs(items)),
         NEW k \in DOMAIN pairs, OfWorkspace!SlotOf(items, pairs[k]) = slot
  PROVE  OfWorkspace!SlotWithId(items, slot.id) = slot
<1> DEFINE Slot(pair) == OfWorkspace!SlotOf(items, pair)
           Same(p) == {i \in DOMAIN p : Slot(p[i]).id = slot.id}
           Found(p, same) == IF same = {} THEN None ELSE Slot(p[OfWorkspace!First(same)])
           Sought(p) == CHOOSE result \in {Found(p, v) : v \in {Same(p)}} : TRUE
           found == OfWorkspace!SlotWithId(items, slot.id)
<1>1. found = CHOOSE result \in {Sought(v) : v \in {pairs}} : TRUE
  BY Zenon DEF OfWorkspace!SlotWithId, OfWorkspace!With
<1>2. pairs \in Seq(WorkspacePairs(items))
  BY AvailableSpecsAre, AnySpecsAre
<1>3. \A x : (CHOOSE result \in {x} : TRUE) = x
  OBVIOUS
<1>4. \A pair \in WorkspacePairs(items) : Slot(pair) \in WorkspaceSlots(items)
  BY DEF WorkspaceSlots
<1>5. Slot(pairs[k]).id = slot.id
  OBVIOUS
<1> HIDE DEF Slot
<1>6. found = Found(pairs, Same(pairs))
  <2> HIDE DEF Found, Same
  <2>1. Sought(pairs) = Found(pairs, Same(pairs))
    <3>1. {Found(pairs, v) : v \in {Same(pairs)}} = {Found(pairs, Same(pairs))}
      OBVIOUS
    <3>2. QED
      BY <1>3, <3>1, Zenon
  <2> HIDE DEF Sought
  <2>2. {Sought(v) : v \in {pairs}} = {Sought(pairs)}
    OBVIOUS
  <2>3. QED
    BY <1>1, <1>3, <2>1, <2>2, Zenon
<1> DEFINE same == Same(pairs)
<1>7. k \in same /\ same \in SUBSET Nat
  BY <1>2, <1>5
<1>8. OfWorkspace!First(same) \in same
  <2>1. OfWorkspace!First(same) = CHOOSE i \in same : \A j \in same : i <= j
    BY Zenon DEF OfWorkspace!First
  <2> HIDE DEF same
  <2>2. \E i \in same : \A j \in same : i <= j
    BY <1>7, LeastExists
  <2>3. QED
    BY <2>1, <2>2
<1> DEFINE n == OfWorkspace!First(same)
<1>9. n \in DOMAIN pairs /\ Slot(pairs[n]).id = slot.id
  BY <1>8
<1>10. same # {}
  BY <1>7
<1>11. found = Slot(pairs[n])
  BY <1>6, <1>10, Zenon
<1> HIDE DEF n, found, same
<1>12. pairs[n] \in WorkspacePairs(items)
  BY <1>2, <1>9
<1>13. found \in WorkspaceSlots(items) /\ found.id = slot.id
  BY <1>4, <1>9, <1>11, <1>12
<1>14. found = slot
  BY <1>13, WorkspaceIdsDiffer
<1>15. QED
  BY <1>14 DEF found

(* What is true of a slot of Workspace Tasks that was issued.                   *)
WorkspaceStands(items, slot) ==
    /\ slot \in WorkspaceSlots(items)
    /\ OfWorkspace!SlotWithId(items, slot.id) = slot /\ slot # None
    /\ slot.target # None => OfWorkspace!QueryIsUnique(slot.target, items)

(* The slot of a pair that is listed.                                         *)
LEMMA WorkspaceIssued ==
  ASSUME PromptsAreAllowed, NEW items, WorkspaceState(items), NEW k \in DOMAIN OfWorkspace!AvailableSpecs(items)
  PROVE  WorkspaceStands(items, OfWorkspace!SlotOf(items, OfWorkspace!AvailableSpecs(items)[k]))
<1> DEFINE whole == OfWorkspace!AvailableSpecs(items)
           pair == whole[k]
           slot == OfWorkspace!SlotOf(items, pair)
           Mine(s) == OfWorkspace!Targets(items, OfWorkspace!TaskSpecs[s])
           Aimed(s) == OfWorkspace!AnyTargets(items, OfWorkspace!TaskSpecs[s])
<1>1. \E s \in 1 .. 9 : \E n \in DOMAIN Mine(s) : Available(items, k, s, n)
  BY AvailableOnce
<1>2. PICK s \in 1 .. 9 : \E n \in DOMAIN Mine(s) : Available(items, k, s, n)
  BY <1>1
<1>3. PICK n \in DOMAIN Mine(s) : Available(items, k, s, n)
  BY <1>2
<1> DEFINE spec == OfWorkspace!TaskSpecs[s]
           target == Mine(s)[n]
<1>4. pair = <<spec, target>>
  BY <1>3, Zenon DEF Available
<1>5. slot = [id |-> OfWorkspace!SlotId(pair[1], pair[2], OfWorkspace!MissingQuery(items)),
              spec |-> pair[1], target |-> pair[2]]
  BY Zenon DEF OfWorkspace!SlotOf
<1>6. pair \in WorkspacePairs(items) /\ target \in TargetsOf(items, spec)
  <2>1. whole \in Seq(WorkspacePairs(items))
    BY AvailableSpecsAre
  <2>2. Mine(s) \in Seq(TargetsOf(items, spec))
    BY TargetsAre
  <2>0. k \in DOMAIN whole
    OBVIOUS
  <2> HIDE DEF whole, Mine, spec
  <2>3. pair \in WorkspacePairs(items)
    BY <2>0, <2>1
  <2> DEFINE mine == Mine(s)
  <2> HIDE DEF mine
  <2>4. mine \in Seq(TargetsOf(items, spec)) /\ n \in DOMAIN mine
    BY <2>2 DEF mine
  <2>5. mine[n] \in TargetsOf(items, spec)
    BY <2>4
  <2>6. QED
    BY <2>3, <2>5 DEF mine
<1>7. slot \in WorkspaceSlots(items)
  <2> HIDE DEF pair
  <2>1. QED
    BY <1>6 DEF WorkspaceSlots
<1>8. /\ spec.route # "missing" => OfWorkspace!QueryIsUnique(target, items)
      /\ \E i \in DOMAIN Aimed(s) : Aimed(s)[i] = target
  <2>1. TargetsStand(items, spec)
    BY TargetsOnce
  <2>2. \A m \in DOMAIN Mine(s) : /\ spec.route # "missing" => OfWorkspace!QueryIsUnique(Mine(s)[m], items)
                                 /\ \E i \in DOMAIN Aimed(s) : Aimed(s)[i] = Mine(s)[m]
    BY <2>1, Zenon DEF TargetsStand
  <2> HIDE DEF Mine, Aimed, spec
  <2>3. QED
    BY <2>2
<1>9. PICK i \in DOMAIN Aimed(s) : Aimed(s)[i] = target
  BY <1>8
<1>10. \E l \in DOMAIN OfWorkspace!AnySpecs(items) : OfWorkspace!AnySpecs(items)[l] = <<spec, Aimed(s)[i]>>
  BY AnyHolds
<1> HIDE DEF whole, pair, slot, Mine, Aimed, spec, target
<1>11. slot.spec = spec /\ slot.target = target
  BY <1>4, <1>5
<1>12. slot # None
  <2>1. \A id, sp, tg : [id |-> id, spec |-> sp, target |-> tg] # None
    BY DEF PromptsAreAllowed
  <2>2. QED
    BY <1>5, <2>1, Zenon
<1>13. target # None => OfWorkspace!QueryIsUnique(target, items)
  <2>1. spec.route = "missing" => target = None
    BY <1>6 DEF TargetsOf
  <2>2. QED
    BY <1>8, <2>1
<1> DEFINE pairs == IF TargetScope = "all_unique" THEN OfWorkspace!AvailableSpecs(items)
                    ELSE OfWorkspace!AnySpecs(items)
<1>14. \E l \in DOMAIN pairs : OfWorkspace!SlotOf(items, pairs[l]) = slot
  <2>1. CASE TargetScope = "all_unique"
    <3>1. pairs = OfWorkspace!AvailableSpecs(items)
      BY <2>1
    <3> HIDE DEF pairs
    <3>2. k \in DOMAIN pairs /\ pairs[k] = pair
      BY <3>1, Zenon DEF pair, whole
    <3>3. OfWorkspace!SlotOf(items, pairs[k]) = slot
      BY <3>2, Zenon DEF slot
    <3>4. QED
      BY <3>2, <3>3
  <2>2. CASE TargetScope # "all_unique"
    <3>1. pairs = OfWorkspace!AnySpecs(items)
      BY <2>2
    <3> HIDE DEF pairs
    <3>2. PICK l \in DOMAIN pairs : pairs[l] = <<spec, Aimed(s)[i]>>
      BY <1>10, <3>1, Zenon
    <3>3. pairs[l] = pair
      BY <1>4, <1>9, <3>2
    <3>4. OfWorkspace!SlotOf(items, pairs[l]) = slot
      BY <3>3, Zenon DEF slot
    <3>5. QED
      BY <3>4
  <2>3. QED
    BY <2>1, <2>2
<1>15. OfWorkspace!SlotWithId(items, slot.id) = slot
  <2>1. PICK l \in DOMAIN pairs : OfWorkspace!SlotOf(items, pairs[l]) = slot
    BY <1>14
  <2>2. pairs = (IF TargetScope = "all_unique" THEN OfWorkspace!AvailableSpecs(items) ELSE OfWorkspace!AnySpecs(items))
    OBVIOUS
  <2> HIDE DEF pairs
  <2>3. QED
    BY <1>7, <1>12, <2>1, <2>2, WorkspaceFound
<1>16. WorkspaceStands(items, slot)
  BY <1>7, <1>11, <1>12, <1>13, <1>15 DEF WorkspaceStands
<1>17. QED
  BY <1>16 DEF slot, pair, whole

(* As many slots as the capacity says, no two of them the same.               *)
LEMMA WorkspaceSlotsCount ==
  ASSUME PromptsAreAllowed, NEW items, WorkspaceState(items)
  PROVE  /\ Once(OfWorkspace!Slots(items))
         /\ Len(OfWorkspace!Slots(items)) = OfWorkspace!Capacity(items)
         /\ \A k \in DOMAIN OfWorkspace!Slots(items) : WorkspaceStands(items, OfWorkspace!Slots(items)[k])
<1> DEFINE pairs == OfWorkspace!AvailableSpecs(items)
           Slot(pair) == OfWorkspace!SlotOf(items, pair)
           slots_ == OfWorkspace!Slots(items)
<1>1. pairs \in Seq(WorkspacePairs(items)) /\ Once(pairs)
  BY AvailableSpecsAre, AvailableOnce
<1>2. slots_ = [i \in DOMAIN pairs |-> Slot(pairs[i])]
  BY Zenon DEF OfWorkspace!Slots
<1>3. OfWorkspace!Capacity(items) = Len(pairs)
  BY Zenon DEF OfWorkspace!Capacity
<1>4. \A k \in DOMAIN pairs : WorkspaceStands(items, Slot(pairs[k]))
  BY WorkspaceIssued
<1>5. \A p, q \in WorkspacePairs(items) : Slot(p) = Slot(q) => p = q
  <2> SUFFICES ASSUME NEW p \in WorkspacePairs(items), NEW q \in WorkspacePairs(items), Slot(p) = Slot(q) PROVE p = q
    OBVIOUS
  <2>1. \A pair : Slot(pair).spec = pair[1] /\ Slot(pair).target = pair[2]
    BY DEF OfWorkspace!SlotOf
  <2>2. \A pair \in WorkspacePairs(items) : \E a, b : pair = <<a, b>>
    BY DEF WorkspacePairs
  <2> HIDE DEF Slot
  <2>3. p[1] = q[1] /\ p[2] = q[2]
    <3>1. Slot(p).spec = p[1] /\ Slot(p).target = p[2]
      BY <2>1
    <3>2. Slot(q).spec = q[1] /\ Slot(q).target = q[2]
      BY <2>1
    <3>3. QED
      BY <3>1, <3>2
  <2>4. PICK a, b : p = <<a, b>>
    BY <2>2
  <2>5. PICK c, d : q = <<c, d>>
    BY <2>2
  <2>6. QED
    BY <2>3, <2>4, <2>5
<1> HIDE DEF pairs, Slot, slots_
<1>6. /\ DOMAIN pairs = 1 .. Len(pairs) /\ Len(pairs) \in Nat
      /\ \A i \in DOMAIN pairs : pairs[i] \in WorkspacePairs(items)
  BY <1>1
<1>7. DOMAIN slots_ = DOMAIN pairs /\ \A i \in DOMAIN pairs : slots_[i] = Slot(pairs[i])
  BY <1>2
<1>8. Len(slots_) = Len(pairs)
  BY <1>2, <1>6
<1>9. Once(slots_)
  <2> SUFFICES ASSUME NEW i \in DOMAIN pairs, NEW j \in DOMAIN pairs, slots_[i] = slots_[j] PROVE i = j
    BY <1>7 DEF Once
  <2>1. Slot(pairs[i]) = Slot(pairs[j])
    BY <1>7
  <2>2. pairs[i] = pairs[j]
    BY <1>5, <1>6, <2>1
  <2>3. QED
    BY <1>1, <2>2 DEF Once
<1>10. \A k \in DOMAIN slots_ : WorkspaceStands(items, slots_[k])
  BY <1>4, <1>7
<1>11. QED
  BY <1>3, <1>8, <1>9, <1>10 DEF slots_

(* Slots of Workspace Tasks with one key are one.                             *)
LEMMA WorkspaceKeysDiffer ==
  ASSUME NEW items, WorkspaceState(items), NEW a \in WorkspaceSlots(items), NEW b \in WorkspaceSlots(items),
         OfWorkspace!SemanticKey(WorkspaceCase(items, a)) = OfWorkspace!SemanticKey(WorkspaceCase(items, b))
  PROVE  a = b
<1> DEFINE u == WorkspaceCase(items, a)
           v == WorkspaceCase(items, b)
<1>1. u = v
  BY DEF OfWorkspace!SemanticKey
<1>2. a.spec \in WorkspaceSpecs /\ u.target = a.target /\ u.action = a.spec.action /\ u.route = a.spec.route
  BY WorkspaceCaseIs, Zenon
<1>3. b.spec \in WorkspaceSpecs /\ v.target = b.target /\ v.action = b.spec.action /\ v.route = b.spec.route
  BY WorkspaceCaseIs, Zenon
<1> HIDE DEF u, v
<1>4. a.target = b.target /\ a.spec.action = b.spec.action /\ a.spec.route = b.spec.route
  BY <1>1, <1>2, <1>3
<1>5. a.spec = b.spec
  <2>1. \A p, q \in WorkspaceSpecs : p.action = q.action /\ p.route = q.route => p = q
    <3> SUFFICES ASSUME NEW p \in WorkspaceSpecs, NEW q \in WorkspaceSpecs, p.action = q.action, p.route = q.route
                 PROVE  p = q
      OBVIOUS
    <3>1. QED
      BY DEF WorkspaceSpecs, OfWorkspace!TaskSpecs, OfWorkspace!ItemTask
  <2>2. QED
    BY <1>2, <1>3, <1>4, <2>1
<1>6. \A s \in WorkspaceSlots(items) : \E pair : s = OfWorkspace!SlotOf(items, pair)
  BY DEF WorkspaceSlots
<1>7. PICK p : a = OfWorkspace!SlotOf(items, p)
  BY <1>6
<1>8. PICK q : b = OfWorkspace!SlotOf(items, q)
  BY <1>6
<1>9. \A pair : /\ OfWorkspace!SlotOf(items, pair).spec = pair[1] /\ OfWorkspace!SlotOf(items, pair).target = pair[2]
                /\ OfWorkspace!SlotOf(items, pair)
                     = [id |-> OfWorkspace!SlotId(pair[1], pair[2], OfWorkspace!MissingQuery(items)),
                        spec |-> pair[1], target |-> pair[2]]
  BY DEF OfWorkspace!SlotOf
<1>10. /\ a.spec = p[1] /\ a.target = p[2]
       /\ a = [id |-> OfWorkspace!SlotId(p[1], p[2], OfWorkspace!MissingQuery(items)), spec |-> p[1], target |-> p[2]]
  BY <1>7, <1>9
<1>11. /\ b.spec = q[1] /\ b.target = q[2]
       /\ b = [id |-> OfWorkspace!SlotId(q[1], q[2], OfWorkspace!MissingQuery(items)), spec |-> q[1], target |-> q[2]]
  BY <1>8, <1>9
<1>12. p[1] = q[1] /\ p[2] = q[2]
  BY <1>4, <1>5, <1>10, <1>11
<1>13. QED
  BY <1>10, <1>11, <1>12, Zenon

--------------------------------------------------------------------------------
(* The prompts of Workspace Tasks. *)

(* What the fields of a prompt hold, by its action.                             *)
PayloadHolds(task, fields) ==
    LET exact == task.constraint = "exact"
    IN  /\ {"action", "route"} \subseteq DOMAIN fields
        /\ fields["action"] = task.action /\ fields["route"] = task.route
        /\ task.action = "search_workspace_items" => DOMAIN fields = {"action", "route", "kind", "query"}
        /\ task.action = "create_workspace_task" =>
               /\ fields["condition"] = "after_item_match"
               /\ fields["due_label"] = task.due_label /\ fields["priority"] = task.priority
               /\ exact => fields["title"] = task.title
               /\ ~exact => fields["task_constraint"] = task.constraint
               /\ DOMAIN fields = {"action", "route", "condition", "due_label", "priority", "project_kind", "project_query"}
                                      \cup (IF exact THEN {"title"} ELSE {"task_constraint"})
        /\ task.action = "add_workspace_comment" =>
               /\ fields["condition"] = "after_item_match"
               /\ fields["comment_constraint"] = task.constraint
               /\ exact => fields["comment"] = task.comment
               /\ DOMAIN fields = {"action", "route", "condition", "comment_constraint", "task_kind", "task_query"}
                                      \cup (IF exact THEN {"comment"} ELSE {})
LEMMA PayloadHas ==
  ASSUME NEW task, task.route = "missing" => task.action = "search_workspace_items",
         task.action \in {"search_workspace_items", "create_workspace_task", "add_workspace_comment"}
  PROVE  PayloadHolds(task, OfWorkspace!Payload(task))
<1> DEFINE base == [action |-> task.action, route |-> task.route]
           mutation == OfWorkspace!Both(base, [condition |-> "after_item_match"])
           exact == task.constraint = "exact"
           query == task.target.query
           kind == task.target.kind
           fields == OfWorkspace!Payload(task)
<1>1. CASE task.action = "search_workspace_items"
  <2> DEFINE absent == OfWorkspace!Both(base, [kind |-> "document", query |-> task.missing])
             search == OfWorkspace!Both(base, [kind |-> task.target.kind, query |-> task.target.query])
  <2> DEFINE create == OfWorkspace!Both(
                  OfWorkspace!Both(mutation, [due_label |-> task.due_label, priority |-> task.priority,
                                   project_kind |-> kind, project_query |-> query]),
                  IF exact THEN [title |-> task.title] ELSE [task_constraint |-> task.constraint])
             comment == OfWorkspace!Both(
                  OfWorkspace!Both(mutation, [comment_constraint |-> task.constraint,
                                   task_kind |-> kind, task_query |-> query]),
                  IF exact THEN [comment |-> task.comment] ELSE <<>>)
  <2>1. fields \in {absent, search}
    <3>1. fields = CASE task.route = "missing" -> absent
                     [] task.action = "search_workspace_items" -> search
                     [] task.action = "create_workspace_task" -> create
                     [] OTHER -> comment
      BY Zenon DEF OfWorkspace!Payload
    <3> HIDE DEF absent, search, fields, create, comment
    <3>2. fields = absent \/ fields = search
      <4>1. CASE task.route = "missing"
        <5>1. "create_workspace_task" # "search_workspace_items"
          OBVIOUS
        <5>2. task.route = "missing" /\ task.action = "search_workspace_items" /\ task.action # "create_workspace_task"
          BY <1>1, <4>1
        <5>3. QED
          BY <3>1, <5>2
      <4>2. CASE task.route # "missing"
        <5>1. task.action = "search_workspace_items" /\ task.action # "create_workspace_task"
          BY <1>1
        <5>2. QED
          BY <3>1, <4>2, <5>1
      <4>3. QED
        BY <4>1, <4>2
    <3>3. QED
      BY <3>2
  <2>2. \A x, y : LET made == OfWorkspace!Both(base, [kind |-> x, query |-> y])
                  IN  /\ DOMAIN made = {"action", "route", "kind", "query"}
                      /\ made["action"] = task.action /\ made["route"] = task.route
    BY DEF OfWorkspace!Both
  <2>3. /\ DOMAIN absent = {"action", "route", "kind", "query"}
        /\ absent["action"] = task.action /\ absent["route"] = task.route
    BY <2>2
  <2>4. /\ DOMAIN search = {"action", "route", "kind", "query"}
        /\ search["action"] = task.action /\ search["route"] = task.route
    BY <2>2
  <2> HIDE DEF absent, search, fields
  <2>5. /\ DOMAIN fields = {"action", "route", "kind", "query"}
        /\ fields["action"] = task.action /\ fields["route"] = task.route
    BY <2>1, <2>3, <2>4
  <2>6. QED
    BY <1>1, <2>5 DEF PayloadHolds, fields
<1>2. CASE task.action = "create_workspace_task"
  <2> DEFINE last == IF exact THEN [title |-> task.title] ELSE [task_constraint |-> task.constraint]
  <2>1. fields = OfWorkspace!Both(
            OfWorkspace!Both(mutation, [due_label |-> task.due_label, priority |-> task.priority,
                                        project_kind |-> kind, project_query |-> query]), last)
    BY <1>2, PayloadIs, Zenon
  <2> HIDE DEF fields, kind, query
  <2>2. /\ fields["action"] = task.action /\ fields["route"] = task.route
        /\ fields["condition"] = "after_item_match"
        /\ fields["due_label"] = task.due_label /\ fields["priority"] = task.priority
        /\ exact => fields["title"] = task.title
        /\ ~exact => fields["task_constraint"] = task.constraint
        /\ DOMAIN fields = {"action", "route", "condition", "due_label", "priority", "project_kind", "project_query"}
                              \cup (IF exact THEN {"title"} ELSE {"task_constraint"})
    <3>1. CASE exact
      <4>1. last = [title |-> task.title]
        BY <3>1
      <4> HIDE DEF last
      <4>2. QED
        BY <2>1, <3>1, <4>1 DEF OfWorkspace!Both
    <3>2. CASE ~exact
      <4>1. last = [task_constraint |-> task.constraint]
        BY <3>2
      <4> HIDE DEF last
      <4>2. QED
        BY <2>1, <3>2, <4>1 DEF OfWorkspace!Both
    <3>3. QED
      BY <3>1, <3>2
  <2>3. QED
    BY <1>2, <2>2 DEF PayloadHolds, fields
<1>3. CASE task.action = "add_workspace_comment"
  <2> DEFINE last == IF exact THEN [comment |-> task.comment] ELSE <<>>
  <2>1. fields = OfWorkspace!Both(
            OfWorkspace!Both(mutation, [comment_constraint |-> task.constraint,
                                        task_kind |-> kind, task_query |-> query]), last)
    BY <1>3, PayloadIs, Zenon
  <2> HIDE DEF fields, kind, query
  <2>2. /\ fields["action"] = task.action /\ fields["route"] = task.route
        /\ fields["condition"] = "after_item_match"
        /\ fields["comment_constraint"] = task.constraint
        /\ exact => fields["comment"] = task.comment
        /\ DOMAIN fields = {"action", "route", "condition", "comment_constraint", "task_kind", "task_query"}
                              \cup (IF exact THEN {"comment"} ELSE {})
    <3>1. CASE exact
      <4>1. last = [comment |-> task.comment]
        BY <3>1
      <4> HIDE DEF last
      <4>2. QED
        BY <2>1, <3>1, <4>1 DEF OfWorkspace!Both
    <3>2. CASE ~exact
      <4>1. last = <<>> /\ DOMAIN <<>> = {}
        BY <3>2
      <4> HIDE DEF last
      <4>2. QED
        BY <2>1, <3>2, <4>1 DEF OfWorkspace!Both
    <3>3. QED
      BY <3>1, <3>2
  <2>3. QED
    BY <1>3, <2>2 DEF PayloadHolds, fields
<1>4. QED
  BY <1>1, <1>2, <1>3

(* A mutation that binds what is expected of it passes.                       *)
LEMMA MutationPasses ==
  ASSUME NEW fields, NEW query \in DOMAIN fields, NEW kind \in DOMAIN fields,
         "condition" \in DOMAIN fields, fields["condition"] = "after_item_match"
  PROVE  Passed(OfWorkspace!MutationRefusals(fields, fields, query, kind))
<1> DEFINE wrong == OfWorkspace!Get(fields, query, None) # fields[query] \/ OfWorkspace!Get(fields, kind, None) # fields[kind]
           checks == <<
    <<"condition" \notin DOMAIN fields, "missing_mutation_authority">>,
    <<OfWorkspace!Get(fields, "condition", None) # "after_item_match", "uncheckable_condition">>,
    <<wrong, "wrong_item_binding">>>>
<1>0. OfWorkspace!MutationRefusals(fields, fields, query, kind) = checks
  BY Zenon DEF OfWorkspace!MutationRefusals
<1>1. ~wrong /\ OfWorkspace!Get(fields, "condition", None) = "after_item_match"
  BY DEF OfWorkspace!Get
<1> HIDE DEF wrong
<1>2. /\ DOMAIN checks = 1 .. 3
      /\ checks[1][1] = ("condition" \notin DOMAIN fields)
      /\ checks[2][1] = (OfWorkspace!Get(fields, "condition", None) # "after_item_match")
      /\ checks[3][1] = wrong
  OBVIOUS
<1>3. "condition" \in DOMAIN fields
  OBVIOUS
<1> HIDE DEF checks
<1>4. ~checks[1][1] /\ ~checks[2][1] /\ ~checks[3][1]
  BY <1>1, <1>2, <1>3, Zenon
<1>5. \A i \in 1 .. 3 : ~checks[i][1]
  BY <1>4
<1>6. DOMAIN checks = 1 .. 3
  BY <1>2, Zenon
<1>7. QED
  BY <1>0, <1>5, <1>6, Zenon DEF Passed

(* A task that is asked for passes.                                           *)
LEMMA TaskPasses ==
  ASSUME RefusalsHaveReasons, NEW task, NEW fields, PayloadHolds(task, fields),
         task.action = "create_workspace_task", task.constraint \in {"open", "exact"}
  PROVE  Passed(OfWorkspace!TaskRefusals(fields, task, fields))
<1> DEFINE general == OfWorkspace!MutationRefusals(fields, fields, "project_query", "project_kind")
           exact == task.constraint = "exact"
           own == <<
        <<{"priority", "due_label"} \ DOMAIN fields # {}, "missing_mutation_argument">>,
        <<\/ OfWorkspace!Get(fields, "priority", None) # task.priority
          \/ OfWorkspace!Get(fields, "due_label", None) # task.due_label, "unauthorized_task_argument">>,
        <<exact /\ "title" \notin DOMAIN fields, "missing_mutation_argument">>,
        <<exact /\ OfWorkspace!Get(fields, "title", None) # task.title, "unauthorized_task_argument">>,
        <<~exact /\ (OfWorkspace!Get(fields, "task_constraint", None) # "open" \/ "title" \in DOMAIN fields),
          "unsupported_task_title">>,
        <<DOMAIN fields # DOMAIN fields, "unsupported_requested_action">>>>
<1>1. OfWorkspace!TaskRefusals(fields, task, fields) = general \o own
  BY Zenon DEF OfWorkspace!TaskRefusals
<1>2. /\ fields["condition"] = "after_item_match"
      /\ fields["due_label"] = task.due_label /\ fields["priority"] = task.priority
      /\ exact => fields["title"] = task.title
      /\ ~exact => fields["task_constraint"] = task.constraint
      /\ DOMAIN fields = {"action", "route", "condition", "due_label", "priority", "project_kind", "project_query"}
                            \cup (IF exact THEN {"title"} ELSE {"task_constraint"})
  BY DEF PayloadHolds
<1>3. ~exact => task.constraint = "open"
  OBVIOUS
<1> HIDE DEF exact
<1>4. /\ "condition" \in DOMAIN fields /\ "project_query" \in DOMAIN fields /\ "project_kind" \in DOMAIN fields
      /\ {"priority", "due_label"} \ DOMAIN fields = {}
      /\ exact => "title" \in DOMAIN fields
      /\ ~exact => "title" \notin DOMAIN fields
  BY <1>2
<1>5. /\ OfWorkspace!Get(fields, "priority", None) = task.priority
      /\ OfWorkspace!Get(fields, "due_label", None) = task.due_label
      /\ exact => OfWorkspace!Get(fields, "title", None) = task.title
      /\ ~exact => OfWorkspace!Get(fields, "task_constraint", None) = "open"
  BY <1>2, <1>3 DEF OfWorkspace!Get
<1>6. own = [i \in 1 .. 6 |-> own[i]] /\ \A i \in 1 .. 6 : own[i][2] # None
  BY DEF RefusalsHaveReasons
<1>7. /\ own[1][1] = ({"priority", "due_label"} \ DOMAIN fields # {})
      /\ own[2][1] = (\/ OfWorkspace!Get(fields, "priority", None) # task.priority
                      \/ OfWorkspace!Get(fields, "due_label", None) # task.due_label)
      /\ own[3][1] = (exact /\ "title" \notin DOMAIN fields)
      /\ own[4][1] = (exact /\ OfWorkspace!Get(fields, "title", None) # task.title)
      /\ own[5][1] = (~exact /\ (\/ OfWorkspace!Get(fields, "task_constraint", None) # "open"
                                 \/ "title" \in DOMAIN fields))
      /\ own[6][1] = (DOMAIN fields # DOMAIN fields)
  OBVIOUS
<1>8. Passed(general)
  BY <1>2, <1>4, MutationPasses
<1> HIDE DEF general, own
<1>9. Tests(own) /\ DOMAIN own = 1 .. 6
  BY <1>6 DEF Tests
<1>10. Tests(general)
  BY MutationTests DEF general
<1>11. ~own[1][1] /\ ~own[2][1] /\ ~own[3][1]
  BY <1>4, <1>5, <1>7, Zenon
<1>12. ~own[4][1] /\ ~own[5][1] /\ ~own[6][1]
  BY <1>4, <1>5, <1>7, Zenon
<1>13. \A i \in 1 .. 6 : ~own[i][1]
  BY <1>11, <1>12
<1>14. Passed(own)
  BY <1>9, <1>13, Zenon DEF Passed
<1>15. QED
  BY <1>1, <1>8, <1>9, <1>10, <1>14, JoinedTests, Zenon

(* A comment that is asked for passes.                                        *)
LEMMA CommentPasses ==
  ASSUME RefusalsHaveReasons, NEW task, NEW fields, PayloadHolds(task, fields),
         task.action = "add_workspace_comment"
  PROVE  Passed(OfWorkspace!CommentRefusals(fields, task, fields))
<1> DEFINE general == OfWorkspace!MutationRefusals(fields, fields, "task_query", "task_kind")
           exact == task.constraint = "exact"
           own == <<
        <<OfWorkspace!Get(fields, "comment_constraint", None) # task.constraint, "unsupported_comment">>,
        <<exact /\ OfWorkspace!Get(fields, "comment", None) # task.comment, "unauthorized_comment_argument">>,
        <<~exact /\ "comment" \in DOMAIN fields, "unsupported_comment">>,
        <<DOMAIN fields # DOMAIN fields, "unsupported_requested_action">>>>
<1>1. OfWorkspace!CommentRefusals(fields, task, fields) = general \o own
  BY Zenon DEF OfWorkspace!CommentRefusals
<1>2. /\ fields["condition"] = "after_item_match"
      /\ fields["comment_constraint"] = task.constraint
      /\ exact => fields["comment"] = task.comment
      /\ DOMAIN fields = {"action", "route", "condition", "comment_constraint", "task_kind", "task_query"}
                            \cup (IF exact THEN {"comment"} ELSE {})
  BY DEF PayloadHolds
<1> HIDE DEF exact
<1>4. /\ "condition" \in DOMAIN fields /\ "task_query" \in DOMAIN fields /\ "task_kind" \in DOMAIN fields
      /\ ~exact => "comment" \notin DOMAIN fields
  BY <1>2
<1>5. /\ OfWorkspace!Get(fields, "comment_constraint", None) = task.constraint
      /\ exact => OfWorkspace!Get(fields, "comment", None) = task.comment
  BY <1>2 DEF OfWorkspace!Get
<1>6. own = [i \in 1 .. 4 |-> own[i]] /\ \A i \in 1 .. 4 : own[i][2] # None
  BY DEF RefusalsHaveReasons
<1>7. /\ own[1][1] = (OfWorkspace!Get(fields, "comment_constraint", None) # task.constraint)
      /\ own[2][1] = (exact /\ OfWorkspace!Get(fields, "comment", None) # task.comment)
      /\ own[3][1] = (~exact /\ "comment" \in DOMAIN fields)
      /\ own[4][1] = (DOMAIN fields # DOMAIN fields)
  OBVIOUS
<1>8. Passed(general)
  BY <1>2, <1>4, MutationPasses
<1> HIDE DEF general, own
<1>9. Tests(own) /\ DOMAIN own = 1 .. 4
  BY <1>6 DEF Tests
<1>10. Tests(general)
  BY MutationTests DEF general
<1>11. ~own[1][1] /\ ~own[2][1] /\ ~own[3][1] /\ ~own[4][1]
  BY <1>4, <1>5, <1>7, Zenon
<1>13. \A i \in 1 .. 4 : ~own[i][1]
  BY <1>11
<1>14. Passed(own)
  BY <1>9, <1>13, Zenon DEF Passed
<1>15. QED
  BY <1>1, <1>8, <1>9, <1>10, <1>14, JoinedTests, Zenon

(* What is asked for is refused by none of the tests of its compiler.         *)
LEMMA WorkspacePromptPasses ==
  ASSUME RefusalsHaveReasons, PromptsAreAllowed, NEW items, NEW task, NEW proposal,
         proposal.parses = "object", proposal.fields = OfWorkspace!Payload(task),
         task.target # None => OfWorkspace!QueryIsUnique(task.target, items),
         task.action \in {"search_workspace_items", "create_workspace_task", "add_workspace_comment"},
         task.route = "missing" => task.action = "search_workspace_items",
         task.action = "create_workspace_task" => task.constraint \in {"open", "exact"}
  PROVE  OfWorkspace!CompileRefusal(items, task, proposal) = None
<1> DEFINE fields == proposal.fields
           action == OfWorkspace!Get(fields, "action", None)
           expected == OfWorkspace!Payload(task)
           ambiguous == task.target # None /\ ~OfWorkspace!QueryIsUnique(task.target, items)
           first == <<<<ambiguous, "unresolved_target_ambiguity">>>>
           general == OfWorkspace!NotAnObject(proposal)
           own == <<
            <<OfWorkspace!Get(fields, "negated", None) = "true" \/ action \in NegatedItem, "negated_action">>,
            <<OfWorkspace!PrivateFields \cap DOMAIN fields # {}, "unsupported_private_exact_target">>,
            <<action # task.action, "unsupported_requested_action">>,
            <<OfWorkspace!Get(fields, "route", None) # task.route, "uncheckable_condition">>>>
           Act(e) == CASE task.action = "search_workspace_items" ->
                            <<<<fields # e, "unsupported_requested_action">>>>
                       [] task.action = "create_workspace_task" -> OfWorkspace!TaskRefusals(fields, task, e)
                       [] OTHER -> OfWorkspace!CommentRefusals(fields, task, e)
           last == CHOOSE result \in {Act(v) : v \in {expected}} : TRUE
           checks == first \o general \o own \o last
<1>1. OfWorkspace!CompileRefusal(items, task, proposal) = OfWorkspace!EarlyReturn(checks, None)
  BY Zenon DEF OfWorkspace!CompileRefusal, OfWorkspace!With
<1>2. last = Act(expected)
  <2> HIDE DEF Act, expected
  <2>1. \A x : (CHOOSE result \in {x} : TRUE) = x
    OBVIOUS
  <2>2. {Act(v) : v \in {expected}} = {Act(expected)}
    OBVIOUS
  <2>3. QED
    BY <2>1, <2>2, Zenon
<1>3. ~ambiguous /\ proposal.parses = "object" /\ fields = expected
  OBVIOUS
<1>4. PayloadHolds(task, fields)
  <2>1. PayloadHolds(task, expected)
    BY PayloadHas
  <2>2. QED
    BY <1>3, <2>1, Zenon
<1>5. task.action \in {"search_workspace_items", "create_workspace_task", "add_workspace_comment"}
  OBVIOUS
<1>6. task.action = "create_workspace_task" => task.constraint \in {"open", "exact"}
  OBVIOUS
<1>7. general = <<<<proposal.parses = "text" /\ proposal.negated, "negated_action">>,
                  <<proposal.parses = "text", "proposal_not_json">>,
                  <<proposal.parses # "object", "proposal_not_object">>>>
  BY Zenon DEF OfWorkspace!NotAnObject
<1> HIDE DEF last, checks, general
<1>8. /\ "action" \in DOMAIN fields /\ "route" \in DOMAIN fields
      /\ fields["action"] = task.action /\ fields["route"] = task.route
  <2> HIDE DEF fields
  <2>1. QED
    BY <1>4 DEF PayloadHolds
<1>9. /\ "negated" \notin DOMAIN fields /\ OfWorkspace!PrivateFields \cap DOMAIN fields = {}
  <2> HIDE DEF fields, expected
  <2>1. CASE task.action = "search_workspace_items"
    <3>1. DOMAIN fields = {"action", "route", "kind", "query"}
      BY <1>4, <2>1 DEF PayloadHolds
    <3>2. QED
      BY <3>1 DEF OfWorkspace!PrivateFields
  <2>2. CASE task.action = "create_workspace_task"
    <3>1. DOMAIN fields \subseteq {"action", "route", "condition", "due_label", "priority", "project_kind",
                                   "project_query", "title", "task_constraint"}
      BY <1>4, <2>2 DEF PayloadHolds
    <3>2. QED
      BY <3>1 DEF OfWorkspace!PrivateFields
  <2>3. CASE task.action = "add_workspace_comment"
    <3>1. DOMAIN fields \subseteq {"action", "route", "condition", "comment_constraint", "task_kind",
                                   "task_query", "comment"}
      BY <1>4, <2>3 DEF PayloadHolds
    <3>2. QED
      BY <3>1 DEF OfWorkspace!PrivateFields
  <2>4. QED
    BY <1>5, <2>1, <2>2, <2>3
<1>10. /\ action = task.action /\ OfWorkspace!Get(fields, "route", None) = task.route
       /\ OfWorkspace!Get(fields, "negated", None) = None
  <2> HIDE DEF fields
  <2>1. QED
    BY <1>8, <1>9 DEF OfWorkspace!Get
<1> HIDE DEF fields, action, expected, ambiguous
<1>11. Tests(first) /\ Passed(first)
  <2>1. first = [i \in 1 .. 1 |-> first[i]] /\ \A i \in 1 .. 1 : first[i][2] # None
    BY DEF RefusalsHaveReasons
  <2>2. first[1][1] = ambiguous
    OBVIOUS
  <2> HIDE DEF first
  <2>3. ~first[1][1]
    BY <1>3, <2>2, Zenon
  <2>4. \A i \in 1 .. 1 : ~first[i][1]
    BY <2>3
  <2>5. DOMAIN first = 1 .. 1
    BY <2>1
  <2>6. QED
    BY <2>1, <2>4, <2>5, Zenon DEF Tests, Passed
<1>12. Tests(general) /\ Passed(general)
  <2>1. general = [i \in 1 .. 3 |-> general[i]] /\ \A i \in 1 .. 3 : general[i][2] # None
    BY <1>7 DEF RefusalsHaveReasons
  <2>2. /\ general[1][1] = (proposal.parses = "text" /\ proposal.negated)
        /\ general[2][1] = (proposal.parses = "text") /\ general[3][1] = (proposal.parses # "object")
    BY <1>7
  <2>3. proposal.parses # "text"
    BY <1>3
  <2>4. ~general[1][1] /\ ~general[2][1] /\ ~general[3][1]
    BY <1>3, <2>2, <2>3, Zenon
  <2>5. \A i \in 1 .. 3 : ~general[i][1]
    BY <2>4
  <2>6. DOMAIN general = 1 .. 3
    BY <2>1
  <2>7. QED
    BY <2>1, <2>5, <2>6, Zenon DEF Tests, Passed
<1>13. Tests(own) /\ Passed(own)
  <2>1. own = [i \in 1 .. 4 |-> own[i]] /\ \A i \in 1 .. 4 : own[i][2] # None
    BY DEF RefusalsHaveReasons
  <2>2. /\ own[1][1] = (OfWorkspace!Get(fields, "negated", None) = "true" \/ action \in NegatedItem)
        /\ own[2][1] = (OfWorkspace!PrivateFields \cap DOMAIN fields # {})
        /\ own[3][1] = (action # task.action)
        /\ own[4][1] = (OfWorkspace!Get(fields, "route", None) # task.route)
    OBVIOUS
  <2> HIDE DEF own
  <2>3. action \notin NegatedItem /\ None # "true"
    BY <1>5, <1>10 DEF PromptsAreAllowed
  <2>4. ~own[1][1] /\ ~own[2][1] /\ ~own[3][1] /\ ~own[4][1]
    BY <1>9, <1>10, <2>2, <2>3, Zenon
  <2>5. \A i \in 1 .. 4 : ~own[i][1]
    BY <2>4
  <2>6. DOMAIN own = 1 .. 4
    BY <2>1
  <2>7. QED
    BY <2>1, <2>5, <2>6, Zenon DEF Tests, Passed
<1> DEFINE search == <<<<fields # expected, "unsupported_requested_action">>>>
           create == OfWorkspace!TaskRefusals(fields, task, expected)
           comment == OfWorkspace!CommentRefusals(fields, task, expected)
<1>14. Tests(last) /\ Passed(last)
  <2>1. last = CASE task.action = "search_workspace_items" -> search
                 [] task.action = "create_workspace_task" -> create
                 [] OTHER -> comment
    BY <1>2, Zenon
  <2>2. "create_workspace_task" # "search_workspace_items" /\ "add_workspace_comment" # "search_workspace_items"
        /\ "add_workspace_comment" # "create_workspace_task"
    OBVIOUS
  <2>3. Tests(search) /\ Passed(search)
    <3>1. search = [i \in 1 .. 1 |-> search[i]] /\ \A i \in 1 .. 1 : search[i][2] # None
      BY DEF RefusalsHaveReasons
    <3>2. search[1][1] = (fields # expected)
      OBVIOUS
    <3> HIDE DEF search
    <3>3. ~search[1][1]
      BY <1>3, <3>2, Zenon
    <3>4. \A i \in 1 .. 1 : ~search[i][1]
      BY <3>3
    <3>5. DOMAIN search = 1 .. 1
      BY <3>1
    <3>6. QED
      BY <3>1, <3>4, <3>5, Zenon DEF Tests, Passed
  <2>4. Tests(create) /\ Tests(comment)
    BY TaskAccepted, CommentAccepted, Zenon
  <2>5. task.action = "create_workspace_task" => Passed(create)
    BY <1>3, <1>4, <1>6, TaskPasses, Zenon
  <2>6. task.action = "add_workspace_comment" => Passed(comment)
    BY <1>3, <1>4, CommentPasses, Zenon
  <2> HIDE DEF search, create, comment
  <2>7. CASE task.action = "search_workspace_items"
    <3>1. last = search
      BY <2>1, <2>2, <2>7, Zenon
    <3>2. QED
      BY <2>3, <3>1, Zenon
  <2>8. CASE task.action = "create_workspace_task"
    <3>1. last = create
      BY <2>1, <2>2, <2>8, Zenon
    <3>2. QED
      BY <2>4, <2>5, <2>8, <3>1, Zenon
  <2>9. CASE task.action = "add_workspace_comment"
    <3>1. last = comment
      BY <2>1, <2>2, <2>9, Zenon
    <3>2. QED
      BY <2>4, <2>6, <2>9, <3>1, Zenon
  <2>10. QED
    BY <1>5, <2>7, <2>8, <2>9
<1> HIDE DEF first, own
<1>15. Tests(first \o general) /\ Passed(first \o general)
  BY <1>11, <1>12, JoinedTests, Zenon
<1>16. Tests(first \o general \o own) /\ Passed(first \o general \o own)
  BY <1>13, <1>15, JoinedTests, Zenon
<1>17. Tests(checks) /\ Passed(checks)
  BY <1>14, <1>16, JoinedTests, Zenon DEF checks
<1>18. OfContacts!EarlyReturn(checks, None) = None
  BY <1>17, PassedTests, Zenon
<1>19. QED
  BY <1>1, <1>18, SameReturns, Zenon

(* A prompt of Workspace Tasks compiles, to the case of its slot.             *)
LEMMA WorkspaceCompiles ==
  ASSUME RefusalsHaveReasons, PromptsAreAllowed, NEW items, WorkspaceState(items),
         NEW slot, WorkspaceStands(items, slot)
  PROVE  LET result == OfWorkspace!Compile(items, slot.id, OfWorkspace!Prompted(items, slot))
         IN  result.reason = None /\ result.task = WorkspaceCase(items, slot)
<1> DEFINE id == slot.id
           proposal == OfWorkspace!Prompted(items, slot)
           found == OfWorkspace!SlotWithId(items, id)
           Case(s) == OfWorkspace!CaseFor(s.spec, s.target, OfWorkspace!MissingQuery(items))
           Settled(task, refusal) ==
               IF refusal # None THEN OfWorkspace!Rejection(refusal) ELSE OfWorkspace!Compiled(task)
           Judged(task) == CHOOSE result \in {Settled(task, v) :
                                              v \in {OfWorkspace!CompileRefusal(items, task, proposal)}} : TRUE
           Tried(s) == IF s = None THEN OfWorkspace!Rejection("unsupported_task_slot")
                       ELSE CHOOSE result \in {Judged(v) : v \in {Case(s)}} : TRUE
           result == OfWorkspace!Compile(items, id, proposal)
           refusal == OfWorkspace!CompileRefusal(items, Case(found), proposal)
           task == WorkspaceCase(items, slot)
<1>1. result = CHOOSE r \in {Tried(v) : v \in {found}} : TRUE
  BY Zenon DEF OfWorkspace!Compile, OfWorkspace!With
<1>2. \A x : (CHOOSE r \in {x} : TRUE) = x
  OBVIOUS
<1>3. result = Tried(found)
  <2> HIDE DEF Tried, found, result
  <2>1. {Tried(v) : v \in {found}} = {Tried(found)}
    OBVIOUS
  <2>2. QED
    BY <1>1, <1>2, <2>1, Zenon
<1>4. Tried(found) = IF found = None THEN OfWorkspace!Rejection("unsupported_task_slot") ELSE Judged(Case(found))
  <2> HIDE DEF found, Judged, Case
  <2>1. {Judged(v) : v \in {Case(found)}} = {Judged(Case(found))}
    OBVIOUS
  <2>2. QED
    BY <1>2, <2>1, Zenon
<1>5. Judged(Case(found)) = Settled(Case(found), refusal)
  <2> HIDE DEF found, Case, Settled, refusal
  <2>1. {Settled(Case(found), v) : v \in {refusal}} = {Settled(Case(found), refusal)}
    OBVIOUS
  <2>2. Judged(Case(found)) = CHOOSE r \in {Settled(Case(found), v) : v \in {refusal}} : TRUE
    BY Zenon DEF refusal
  <2> HIDE DEF Judged
  <2>3. QED
    BY <1>2, <2>1, <2>2, Zenon
<1> HIDE DEF Tried, Judged
<1>6. result = IF found = None THEN OfWorkspace!Rejection("unsupported_task_slot")
               ELSE IF refusal # None THEN OfWorkspace!Rejection(refusal) ELSE OfWorkspace!Compiled(Case(found))
  BY <1>3, <1>4, <1>5, Zenon DEF Settled
<1>7. /\ slot \in WorkspaceSlots(items) /\ found = slot /\ slot # None
      /\ slot.target # None => OfWorkspace!QueryIsUnique(slot.target, items)
  BY Zenon DEF WorkspaceStands
<1>8. Case(found) = task
  BY <1>7, Zenon DEF WorkspaceCase
<1>9. /\ slot.spec \in WorkspaceSpecs
      /\ task.target = slot.target /\ task.action = slot.spec.action /\ task.route = slot.spec.route
      /\ task.constraint = slot.spec.constraint
  BY <1>7, WorkspaceCaseIs, Zenon
<1>10. /\ slot.spec.action \in {"search_workspace_items", "create_workspace_task", "add_workspace_comment"}
       /\ slot.spec.route = "missing" => slot.spec.action = "search_workspace_items"
       /\ slot.spec.action # "search_workspace_items" => slot.spec.constraint \in {"open", "exact"}
  BY <1>9, WorkspaceSpecsAre, Zenon
<1>11. proposal.parses = "object" /\ proposal.fields = OfWorkspace!Payload(task)
  BY DEF OfWorkspace!Prompted, WorkspaceCase
<1> HIDE DEF result, refusal, Case, Settled, task, proposal, found
<1>12. /\ task.target # None => OfWorkspace!QueryIsUnique(task.target, items)
       /\ task.action \in {"search_workspace_items", "create_workspace_task", "add_workspace_comment"}
       /\ task.route = "missing" => task.action = "search_workspace_items"
       /\ task.action = "create_workspace_task" => task.constraint \in {"open", "exact"}
  BY <1>7, <1>9, <1>10
<1>13. OfWorkspace!CompileRefusal(items, task, proposal) = None
  BY <1>11, <1>12, WorkspacePromptPasses, Zenon
<1>14. refusal = None
  BY <1>8, <1>13, Zenon DEF refusal
<1>15. result = OfWorkspace!Compiled(task)
  BY <1>6, <1>7, <1>8, <1>14, Zenon
<1>16. result.reason = None /\ result.task = task
  BY <1>15 DEF OfWorkspace!Compiled
<1>17. QED
  BY <1>16, Zenon DEF result, proposal, id, task

--------------------------------------------------------------------------------
(* The capacity of a run. *)

(* What the capacity of a run counts: each slot is found under its id, compiles *)
(* from what its prompt asks for, and no two of them are one task.              *)
SlotCounts(d, state, slot) ==
    /\ slot # None /\ DomainSlot(d, state, slot.id) = slot
    /\ DomainCompile(d, state, slot.id, DomainPrompt(d, state, slot)).reason = None
KeyOf(d, state, slot) ==
    DomainKey(d, DomainCompile(d, state, slot.id, DomainPrompt(d, state, slot)).task)
RunCounts(d, state) ==
    LET issued == DomainSlots(d, state)
        n == DomainCapacity(d, state)
    IN  /\ n \in Nat /\ DOMAIN issued = 1 .. n /\ Len(issued) = n /\ Once(issued)
        /\ \A i \in 1 .. n : SlotCounts(d, state, issued[i])
        /\ \A i, j \in 1 .. n : KeyOf(d, state, issued[i]) = KeyOf(d, state, issued[j]) => issued[i] = issued[j]

(* The capacity of Contacts counts its tasks.                                 *)
LEMMA ContactsCount ==
  ASSUME TextsAreSound, PromptsAreAllowed, NEW d, ContactsRuns(d),
         NEW s \in DomainSources(d), DomainParse(d, s) # None
  PROVE  RunCounts(d, DomainParse(d, s))
<1> DEFINE state == DomainParse(d, s)
           issued == OfContacts!Slots(state)
           n == OfContacts!Capacity(state)
<1>1. ContactsSource(s) /\ OfContacts!Parse(s) # None /\ state = OfContacts!Parse(s)
  BY Zenon DEF ContactsRuns
<1>2. NamesAreNormal /\ RefusalsHaveReasons
  BY DEF TextsAreSound
<1>3. IsFiniteSet(DOMAIN state.contacts)
  <2>1. state = ContactsRead(s)
    BY <1>1, ContactsParse
  <2>2. DOMAIN state.contacts = ContactNames(s)
    BY <2>1 DEF ContactsRead
  <2>3. PICK k \in Nat : s.contacts = [i \in 1 .. k |-> s.contacts[i]]
    BY <1>1 DEF ContactsSource
  <2>4. IsFiniteSet({Strip(s.contacts[i].name) : i \in DOMAIN s.contacts})
    BY <2>3, FiniteTable
  <2>5. QED
    BY <2>2, <2>4 DEF ContactNames
<1> HIDE DEF state
<1>4. issued \in Seq(ContactSlots(state))
  BY <1>3, ContactSlotsAre
<1>5. Once(issued) /\ Len(issued) = n
  BY <1>3, ContactSlotsCount
<1>6. \A slot \in ContactSlots(state) :
        (\E i \in DOMAIN issued : issued[i] = slot) =>
            /\ slot # None /\ OfContacts!SlotWithId(state, slot.id) = slot
            /\ LET result == OfContacts!Compile(state, slot.id, OfContacts!Prompted(state, slot))
               IN  result.reason = None /\ result.task = ContactTaskOf(state, slot)
  <2> SUFFICES ASSUME NEW slot \in ContactSlots(state), \E i \in DOMAIN issued : issued[i] = slot
               PROVE  /\ slot # None /\ OfContacts!SlotWithId(state, slot.id) = slot
                      /\ LET result == OfContacts!Compile(state, slot.id, OfContacts!Prompted(state, slot))
                         IN  result.reason = None /\ result.task = ContactTaskOf(state, slot)
    OBVIOUS
  <2>1. slot # None
    <3>1. PICK spec \in ContactSpecs, name \in DOMAIN state.contacts : slot = ContactSlot(state, spec, name)
      BY DEF ContactSlots
    <3>2. \A id, sp, tg : [id |-> id, spec |-> sp, target |-> tg] # None
      BY DEF PromptsAreAllowed
    <3>3. QED
      BY <3>1, <3>2, Zenon DEF ContactSlot
  <2>2. OfContacts!SlotWithId(state, slot.id) = slot
    BY <1>2, <1>3, ContactSlotFound
  <2>3. LET result == OfContacts!Compile(state, slot.id, OfContacts!Prompted(state, slot))
        IN  result.reason = None /\ result.task = ContactTaskOf(state, slot)
    BY <1>2, <2>1, <2>2, ContactCompiles
  <2>4. QED
    BY <2>1, <2>2, <2>3
<1>7. /\ DomainSlots(d, state) = issued /\ DomainCapacity(d, state) = n
      /\ \A slot : DomainPrompt(d, state, slot) = OfContacts!Prompted(state, slot)
      /\ \A id : DomainSlot(d, state, id) = OfContacts!SlotWithId(state, id)
      /\ \A id, proposal : DomainCompile(d, state, id, proposal) = OfContacts!Compile(state, id, proposal)
      /\ \A task : DomainKey(d, task) = OfContacts!SemanticKey(task)
  BY Zenon DEF ContactsRuns
<1>8. \A a, b \in ContactSlots(state) :
        OfContacts!SemanticKey(ContactTaskOf(state, a)) = OfContacts!SemanticKey(ContactTaskOf(state, b)) => a = b
  BY ContactKeysDiffer
<1> HIDE DEF issued, n
<1>9. /\ n \in Nat /\ DOMAIN issued = 1 .. n
      /\ \A i \in 1 .. n : issued[i] \in ContactSlots(state) /\ \E j \in DOMAIN issued : issued[j] = issued[i]
  BY <1>4, <1>5
<1>10. ASSUME NEW i \in 1 .. n
       PROVE  /\ SlotCounts(d, state, issued[i])
              /\ KeyOf(d, state, issued[i]) = OfContacts!SemanticKey(ContactTaskOf(state, issued[i]))
  <2> DEFINE slot == issued[i]
  <2>1. slot \in ContactSlots(state) /\ \E j \in DOMAIN issued : issued[j] = slot
    BY <1>9
  <2> HIDE DEF slot
  <2>2. /\ slot # None /\ OfContacts!SlotWithId(state, slot.id) = slot
        /\ OfContacts!Compile(state, slot.id, OfContacts!Prompted(state, slot)).reason = None
        /\ OfContacts!Compile(state, slot.id, OfContacts!Prompted(state, slot)).task = ContactTaskOf(state, slot)
    BY <1>6, <2>1, Zenon
  <2>3. DomainCompile(d, state, slot.id, DomainPrompt(d, state, slot))
          = OfContacts!Compile(state, slot.id, OfContacts!Prompted(state, slot))
    BY <1>7
  <2>4. DomainSlot(d, state, slot.id) = slot
    BY <1>7, <2>2
  <2>5. SlotCounts(d, state, slot)
    BY <2>2, <2>3, <2>4, Zenon DEF SlotCounts
  <2>6. KeyOf(d, state, slot) = OfContacts!SemanticKey(ContactTaskOf(state, slot))
    BY <1>7, <2>2, <2>3, Zenon DEF KeyOf
  <2>7. QED
    BY <2>5, <2>6 DEF slot
<1>11. ASSUME NEW i \in 1 .. n, NEW j \in 1 .. n, KeyOf(d, state, issued[i]) = KeyOf(d, state, issued[j])
       PROVE  issued[i] = issued[j]
  BY <1>8, <1>9, <1>10, <1>11
<1>12. RunCounts(d, state)
  BY <1>5, <1>7, <1>9, <1>10, <1>11 DEF RunCounts
<1>13. QED
  BY <1>12 DEF state

(* The capacity of Mobile Messages counts its tasks.                          *)
LEMMA MobileCount ==
  ASSUME TextsAreSound, PromptsAreAllowed, NEW d, MobileRuns(d),
         NEW s \in DomainSources(d), DomainParse(d, s) # None
  PROVE  RunCounts(d, DomainParse(d, s))
<1> DEFINE state == DomainParse(d, s)
           issued == OfMobile!Slots(state)
           n == OfMobile!Capacity(state)
<1>1. MobileSource(s) /\ OfMobile!Parse(s) # None /\ state = OfMobile!Parse(s)
  BY Zenon DEF MobileRuns
<1>2. RefusalsHaveReasons
  BY DEF TextsAreSound
<1>3. /\ IsFiniteSet(DOMAIN state.messages)
      /\ \A id \in DOMAIN state.messages : state.messages[id].message_id = id
  <2>1. state = MobileRead(s)
    BY <1>1, MobileParse
  <2>2. state.messages = OfMobile!Table(s.messages)
    BY <2>1 DEF MobileRead
  <2>3. Listed(s.messages)
    BY <1>1 DEF MobileSource
  <2> DEFINE table == OfMobile!Table(s.messages)
  <2>4. IsFiniteSet(DOMAIN table) /\ \A id \in DOMAIN table : table[id].message_id = id
    BY <2>3, TableIs
  <2> HIDE DEF table
  <2>5. state.messages = table
    BY <2>2 DEF table
  <2>6. QED
    BY <2>4, <2>5
<1> HIDE DEF state
<1>4. issued \in Seq(MobileSlots(state))
  BY <1>3, MobileSlotsAre
<1>5. /\ Once(issued) /\ Len(issued) = n
      /\ \A x \in DOMAIN issued : MobileStands(state, issued[x])
  BY <1>3, MobileSlotsCount, Zenon
<1>6. ASSUME NEW slot, MobileStands(state, slot)
      PROVE  /\ slot \in MobileSlots(state) /\ slot # None /\ OfMobile!SlotWithId(state, slot.id) = slot
             /\ LET result == OfMobile!Compile(state, slot.id, OfMobile!Prompted(state, slot))
                IN  /\ result.reason = None
                    /\ result.task = MobileTaskOf(slot, OfMobile!Prompted(state, slot).fields)
  <2>0. slot \in MobileSlots(state)
    BY <1>6 DEF MobileStands
  <2>1. slot # None
    <3>1. PICK spec \in MobileSpecs, message \in MobileMessagesOf(state) : slot = MobileSlot(spec, message)
      BY <2>0 DEF MobileSlots
    <3>2. \A id, sp, tg : [id |-> id, spec |-> sp, target |-> tg] # None
      BY DEF PromptsAreAllowed
    <3>3. QED
      BY <3>1, <3>2, Zenon DEF MobileSlot
  <2>2. OfMobile!SlotWithId(state, slot.id) = slot
    BY <1>3, <1>6, <2>1, MobileIssuedFound
  <2>3. LET result == OfMobile!Compile(state, slot.id, OfMobile!Prompted(state, slot))
        IN  /\ result.reason = None
            /\ result.task = MobileTaskOf(slot, OfMobile!Prompted(state, slot).fields)
    BY <1>2, <1>3, <1>6, MobileCompiles
  <2>4. QED
    BY <2>0, <2>1, <2>2, <2>3
<1>7. /\ DomainSlots(d, state) = issued /\ DomainCapacity(d, state) = n
      /\ \A slot : DomainPrompt(d, state, slot) = OfMobile!Prompted(state, slot)
      /\ \A id : DomainSlot(d, state, id) = OfMobile!SlotWithId(state, id)
      /\ \A id, proposal : DomainCompile(d, state, id, proposal) = OfMobile!Compile(state, id, proposal)
      /\ \A task : DomainKey(d, task) = OfMobile!SemanticKey(task)
  BY Zenon DEF MobileRuns
<1>8. \A a, b \in MobileSlots(state) : \A f, g :
        OfMobile!SemanticKey(MobileTaskOf(a, f)) = OfMobile!SemanticKey(MobileTaskOf(b, g)) => a = b
  BY MobileKeysDiffer
<1> HIDE DEF issued, n
<1>9. n \in Nat /\ DOMAIN issued = 1 .. n
  BY <1>4, <1>5
<1>10. ASSUME NEW i \in 1 .. n
       PROVE  /\ SlotCounts(d, state, issued[i]) /\ issued[i] \in MobileSlots(state)
              /\ \E f : KeyOf(d, state, issued[i]) = OfMobile!SemanticKey(MobileTaskOf(issued[i], f))
  <2> DEFINE slot == issued[i]
  <2>1. MobileStands(state, slot)
    BY <1>5, <1>9
  <2> HIDE DEF slot
  <2>2. /\ slot \in MobileSlots(state) /\ slot # None /\ OfMobile!SlotWithId(state, slot.id) = slot
        /\ OfMobile!Compile(state, slot.id, OfMobile!Prompted(state, slot)).reason = None
        /\ OfMobile!Compile(state, slot.id, OfMobile!Prompted(state, slot)).task
             = MobileTaskOf(slot, OfMobile!Prompted(state, slot).fields)
    BY <1>6, <2>1, Zenon
  <2>3. DomainCompile(d, state, slot.id, DomainPrompt(d, state, slot))
          = OfMobile!Compile(state, slot.id, OfMobile!Prompted(state, slot))
    BY <1>7
  <2>4. DomainSlot(d, state, slot.id) = slot
    BY <1>7, <2>2
  <2>5. SlotCounts(d, state, slot)
    BY <2>2, <2>3, <2>4, Zenon DEF SlotCounts
  <2>6. KeyOf(d, state, slot) = OfMobile!SemanticKey(MobileTaskOf(slot, OfMobile!Prompted(state, slot).fields))
    BY <1>7, <2>2, <2>3, Zenon DEF KeyOf
  <2>7. QED
    BY <2>2, <2>5, <2>6, Zenon DEF slot
<1>11. ASSUME NEW i \in 1 .. n, NEW j \in 1 .. n, KeyOf(d, state, issued[i]) = KeyOf(d, state, issued[j])
       PROVE  issued[i] = issued[j]
  <2>1. PICK f : KeyOf(d, state, issued[i]) = OfMobile!SemanticKey(MobileTaskOf(issued[i], f))
    BY <1>10
  <2>2. PICK g : KeyOf(d, state, issued[j]) = OfMobile!SemanticKey(MobileTaskOf(issued[j], g))
    BY <1>10
  <2>3. OfMobile!SemanticKey(MobileTaskOf(issued[i], f)) = OfMobile!SemanticKey(MobileTaskOf(issued[j], g))
    BY <1>11, <2>1, <2>2
  <2>4. issued[i] \in MobileSlots(state) /\ issued[j] \in MobileSlots(state)
    BY <1>10
  <2>5. QED
    BY <1>8, <2>3, <2>4, Zenon
<1>12. \A i \in 1 .. n : SlotCounts(d, state, issued[i])
  BY <1>10
<1>13. RunCounts(d, state)
  BY <1>5, <1>7, <1>9, <1>11, <1>12 DEF RunCounts
<1>14. QED
  BY <1>13 DEF state

(* The capacity of Workspace Tasks counts its tasks, in either scope.         *)
LEMMA WorkspaceCount ==
  ASSUME TextsAreSound, PromptsAreAllowed, NEW d, WorkspaceRuns(d),
         NEW s \in DomainSources(d), DomainParse(d, s) # None
  PROVE  RunCounts(d, DomainParse(d, s))
<1> DEFINE items == DomainParse(d, s)
           issued == OfWorkspace!Slots(items)
           n == OfWorkspace!Capacity(items)
<1>1. WorkspaceSource(s) /\ OfWorkspace!Parse(s) # None /\ items = OfWorkspace!Parse(s)
  BY Zenon DEF WorkspaceRuns
<1>2. RefusalsHaveReasons /\ ItemsAreItems
  BY DEF TextsAreSound
<1>3. WorkspaceState(items)
  BY <1>1, <1>2, WorkspaceStates
<1> HIDE DEF items
<1>4. issued \in Seq(WorkspaceSlots(items))
  BY <1>3, WorkspaceSlotsAre
<1>5. /\ Once(issued) /\ Len(issued) = n
      /\ \A x \in DOMAIN issued : WorkspaceStands(items, issued[x])
  BY <1>3, WorkspaceSlotsCount, Zenon
<1>6. ASSUME NEW slot, WorkspaceStands(items, slot)
      PROVE  LET result == OfWorkspace!Compile(items, slot.id, OfWorkspace!Prompted(items, slot))
             IN  result.reason = None /\ result.task = WorkspaceCase(items, slot)
  BY <1>2, <1>3, <1>6, WorkspaceCompiles
<1>7. /\ DomainSlots(d, items) = issued /\ DomainCapacity(d, items) = n
      /\ \A slot : DomainPrompt(d, items, slot) = OfWorkspace!Prompted(items, slot)
      /\ \A id : DomainSlot(d, items, id) = OfWorkspace!SlotWithId(items, id)
      /\ \A id, proposal : DomainCompile(d, items, id, proposal) = OfWorkspace!Compile(items, id, proposal)
      /\ \A task : DomainKey(d, task) = OfWorkspace!SemanticKey(task)
  BY Zenon DEF WorkspaceRuns
<1>8. \A a, b \in WorkspaceSlots(items) :
        OfWorkspace!SemanticKey(WorkspaceCase(items, a)) = OfWorkspace!SemanticKey(WorkspaceCase(items, b)) => a = b
  BY <1>3, WorkspaceKeysDiffer
<1> HIDE DEF issued, n
<1>9. n \in Nat /\ DOMAIN issued = 1 .. n
  BY <1>4, <1>5
<1>10. ASSUME NEW i \in 1 .. n
       PROVE  /\ SlotCounts(d, items, issued[i]) /\ issued[i] \in WorkspaceSlots(items)
              /\ KeyOf(d, items, issued[i]) = OfWorkspace!SemanticKey(WorkspaceCase(items, issued[i]))
  <2> DEFINE slot == issued[i]
  <2>1. WorkspaceStands(items, slot)
    BY <1>5, <1>9
  <2> HIDE DEF slot
  <2>2. /\ slot \in WorkspaceSlots(items) /\ slot # None /\ OfWorkspace!SlotWithId(items, slot.id) = slot
    BY <2>1, Zenon DEF WorkspaceStands
  <2>3. /\ OfWorkspace!Compile(items, slot.id, OfWorkspace!Prompted(items, slot)).reason = None
        /\ OfWorkspace!Compile(items, slot.id, OfWorkspace!Prompted(items, slot)).task = WorkspaceCase(items, slot)
    BY <1>6, <2>1, Zenon
  <2>4. DomainCompile(d, items, slot.id, DomainPrompt(d, items, slot))
          = OfWorkspace!Compile(items, slot.id, OfWorkspace!Prompted(items, slot))
    BY <1>7
  <2>5. DomainSlot(d, items, slot.id) = slot
    BY <1>7, <2>2
  <2>6. SlotCounts(d, items, slot)
    BY <2>2, <2>3, <2>4, <2>5, Zenon DEF SlotCounts
  <2>7. KeyOf(d, items, slot) = OfWorkspace!SemanticKey(WorkspaceCase(items, slot))
    BY <1>7, <2>3, <2>4, Zenon DEF KeyOf
  <2>8. QED
    BY <2>2, <2>6, <2>7, Zenon DEF slot
<1>11. ASSUME NEW i \in 1 .. n, NEW j \in 1 .. n, KeyOf(d, items, issued[i]) = KeyOf(d, items, issued[j])
       PROVE  issued[i] = issued[j]
  BY <1>8, <1>10, <1>11
<1>12. \A i \in 1 .. n : SlotCounts(d, items, issued[i])
  BY <1>10
<1>13. RunCounts(d, items)
  BY <1>5, <1>7, <1>9, <1>11, <1>12 DEF RunCounts
<1>14. QED
  BY <1>13 DEF items

(* As many values as indices, when no two of them are the same.               *)
LEMMA DistinctCount ==
  ASSUME NEW n \in Nat, NEW f, \A i, j \in 1 .. n : f[i] = f[j] => i = j
  PROVE  Cardinality({f[i] : i \in 1 .. n}) = n
<1> DEFINE S == {f[i] : i \in 1 .. n}
           g == [i \in 1 .. n |-> f[i]]
<1>1. g \in Bijection(1 .. n, S)
  <2>1. g \in [1 .. n -> S]
    OBVIOUS
  <2>2. \A i, j \in DOMAIN g : g[i] = g[j] => i = j
    OBVIOUS
  <2>3. \A t \in S : \E i \in 1 .. n : g[i] = t
    OBVIOUS
  <2> HIDE DEF g, S
  <2>4. QED
    BY <2>1, <2>2, <2>3 DEF Bijection, Injection, Surjection, IsInjective
<1>2. ExistsBijection(1 .. n, S)
  BY <1>1, Zenon DEF ExistsBijection
<1>3. IsFiniteSet(1 .. n) /\ Cardinality(1 .. n) = n
  BY FS_Interval
<1> HIDE DEF S
<1>4. Cardinality(S) = Cardinality(1 .. n)
  BY <1>2, <1>3, FS_Bijection
<1>5. QED
  BY <1>3, <1>4 DEF S

(* The capacity an accepted target is compared with is real, in every built-in  *)
(* Domain: as many slots, each found under its own id, each compiling from what *)
(* its prompt asks for, and as many semantic keys (engine.py:517-541).          *)
THEOREM CapacityCountsTasks ==
  BuiltinTasksRun /\ TextsAreSound /\ PromptsAreAllowed => (Spec => []CapacityIsDistinctTasks)
<1> SUFFICES ASSUME BuiltinTasksRun, TextsAreSound, PromptsAreAllowed PROVE Spec => []CapacityIsDistinctTasks
  OBVIOUS
<1>1. NoneIsNoAnswer /\ SnapshotsReopen
  BY SnapshotsAreKept DEF TextsAreSound
<1>2. Spec => []TaskInvariant
  BY <1>1, TaskInvariantAlways
<1>3. TaskInvariant => CapacityIsDistinctTasks
  <2> SUFFICES ASSUME TaskInvariant, run # None, slots # <<>> PROVE CapacityIsDistinctTasks
    BY DEF CapacityIsDistinctTasks
  <2>1. run = State /\ State # None /\ slots = Issued(State) /\ domain \in Domains /\ source \in DomainSources(domain)
    BY DEF TaskInvariant, Running, Allocated, Given
  <2> DEFINE issued == DomainSlots(domain, run)
             n == DomainCapacity(domain, run)
             Prompt(i) == DomainPrompt(domain, run, issued[i])
             compiled == [i \in DOMAIN slots |-> DomainCompile(domain, run, slots[i].id, slots[i].prompt)]
             keys == [i \in 1 .. n |-> KeyOf(domain, run, issued[i])]
             ids == [i \in 1 .. n |-> issued[i].id]
  <2>2. RunCounts(domain, run)
    <3>1. ContactsRuns(domain) \/ MobileRuns(domain) \/ WorkspaceRuns(domain)
      BY <2>1 DEF BuiltinTasksRun
    <3>2. run = DomainParse(domain, source)
      BY <2>1 DEF State
    <3>3. RunCounts(domain, DomainParse(domain, source))
      BY <2>1, <3>1, ContactsCount, MobileCount, WorkspaceCount DEF State
    <3>4. QED
      BY <3>2, <3>3
  <2>3. /\ n \in Nat /\ DOMAIN issued = 1 .. n /\ Once(issued)
        /\ \A i \in 1 .. n : SlotCounts(domain, run, issued[i])
        /\ \A i, j \in 1 .. n : KeyOf(domain, run, issued[i]) = KeyOf(domain, run, issued[j]) => issued[i] = issued[j]
    BY <2>2, Zenon DEF RunCounts
  <2>4. slots = [i \in DOMAIN issued |-> [id |-> issued[i].id, prompt |-> Prompt(i)]]
    BY <2>1, Zenon DEF Issued
  <2> HIDE DEF issued, n, Prompt
  <2>5. /\ DOMAIN slots = 1 .. n /\ Len(slots) = n
        /\ \A i \in 1 .. n : slots[i].id = issued[i].id /\ slots[i].prompt = Prompt(i)
    BY <2>3, <2>4
  <2>6. \A i \in 1 .. n :
          /\ issued[i] # None /\ DomainSlot(domain, run, issued[i].id) = issued[i]
          /\ DomainCompile(domain, run, issued[i].id, Prompt(i)).reason = None
    BY <2>3, Zenon DEF SlotCounts, Prompt
  <2>7. /\ DOMAIN compiled = 1 .. n
        /\ \A i \in 1 .. n : compiled[i] = DomainCompile(domain, run, issued[i].id, Prompt(i))
    BY <2>5
  <2> HIDE DEF compiled
  <2>8. ASSUME NEW i \in DOMAIN slots
        PROVE  /\ DomainSlot(domain, run, slots[i].id) # None
               /\ DomainPrompt(domain, run, DomainSlot(domain, run, slots[i].id)) = slots[i].prompt
               /\ compiled[i].reason = None
    <3>1. i \in 1 .. n
      BY <2>5
    <3>2. /\ slots[i].id = issued[i].id /\ slots[i].prompt = Prompt(i)
          /\ DomainSlot(domain, run, issued[i].id) = issued[i] /\ issued[i] # None
          /\ compiled[i].reason = None
      BY <2>5, <2>6, <2>7, <3>1
    <3>3. DomainSlot(domain, run, slots[i].id) = issued[i]
      BY <3>2
    <3>4. DomainPrompt(domain, run, DomainSlot(domain, run, slots[i].id)) = slots[i].prompt
      BY <3>2, <3>3, Zenon DEF Prompt
    <3>5. QED
      BY <3>2, <3>3, <3>4
  <2>9. Cardinality({DomainKey(domain, compiled[i].task) : i \in DOMAIN slots}) = n
    <3>1. \A i, j \in 1 .. n : keys[i] = keys[j] => i = j
      BY <2>3 DEF Once
    <3>2. \A i \in 1 .. n : DomainKey(domain, compiled[i].task) = keys[i]
      BY <2>7 DEF KeyOf, Prompt
    <3> HIDE DEF keys
    <3>3. {DomainKey(domain, compiled[i].task) : i \in DOMAIN slots} = {keys[i] : i \in 1 .. n}
      BY <2>5, <3>2
    <3>4. Cardinality({keys[i] : i \in 1 .. n}) = n
      BY <2>3, <3>1, DistinctCount
    <3>5. QED
      BY <3>3, <3>4
  <2>10. Cardinality({slots[i].id : i \in DOMAIN slots}) = Len(slots)
    <3>1. \A i, j \in 1 .. n : ids[i] = ids[j] => i = j
      <4> SUFFICES ASSUME NEW i \in 1 .. n, NEW j \in 1 .. n, ids[i] = ids[j] PROVE i = j
        OBVIOUS
      <4>1. issued[i].id = issued[j].id
        OBVIOUS
      <4>2. issued[i] = issued[j]
        BY <2>6, <4>1
      <4>3. QED
        BY <2>3, <4>2 DEF Once
    <3>2. \A i \in 1 .. n : slots[i].id = ids[i]
      BY <2>5
    <3> HIDE DEF ids
    <3>3. {slots[i].id : i \in DOMAIN slots} = {ids[i] : i \in 1 .. n}
      BY <2>5, <3>2
    <3>4. Cardinality({ids[i] : i \in 1 .. n}) = n
      BY <2>3, <3>1, DistinctCount
    <3>5. QED
      BY <2>5, <3>3, <3>4
  <2>11. QED
    BY <2>8, <2>9, <2>10, Zenon DEF CapacityIsDistinctTasks, compiled, n
<1>4. QED
  BY <1>2, <1>3, PTL

==================================================================================
