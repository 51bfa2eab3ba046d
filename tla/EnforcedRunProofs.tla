---------------------------- MODULE EnforcedRunProofs ----------------------------
(* What holds of the human review of completed runs, of the judges it makes     *)
(* eligible and of the runs they then decide on, for all runs, queues, labels   *)
(* and policies.                                                                *)
EXTENDS EnforcedRun, FiniteSetTheorems, TLAPS

--------------------------------------------------------------------------------
(* Finite sets. *)

(* A set of as many things as there are indices of them.                        *)
LEMMA CountedOnce ==
  ASSUME NEW T, IsFiniteSet(T), NEW f, \A t, u \in T : f[t] = f[u] => t = u
  PROVE  /\ IsFiniteSet({f[t] : t \in T})
         /\ Cardinality({f[t] : t \in T}) = Cardinality(T)
<1> DEFINE S == {f[t] : t \in T}
           g == [t \in T |-> f[t]]
<1>1. g \in Bijection(T, S)
  <2>1. g \in [T -> S]
    OBVIOUS
  <2>2. \A t, u \in T : g[t] = g[u] => t = u
    OBVIOUS
  <2>3. \A x \in S : \E t \in T : g[t] = x
    OBVIOUS
  <2>4. QED
    BY <2>1, <2>2, <2>3 DEF Bijection, Injection, Surjection, IsInjective
<1>2. ExistsBijection(T, S)
  BY <1>1 DEF ExistsBijection
<1>3. QED
  BY <1>2, FS_Bijection

(* A nonempty set of numbers has a least.                                       *)
LEMMA LeastExists ==
  ASSUME NEW S \in SUBSET Nat, S # {}
  PROVE  \E m \in S : \A n \in S : m <= n
<1>1. \E s \in S : \A t \in S : ~(<<t, s>> \in OpToRel(<, Nat))
  BY NatLessThanWellFounded, WFMin
<1>2. PICK s \in S : \A t \in S : ~(<<t, s>> \in OpToRel(<, Nat))
  BY <1>1
<1>3. ASSUME NEW t \in S, t < s PROVE FALSE
  <2>1. <<t, s>> \in Nat \X Nat /\ <<t, s>>[1] < <<t, s>>[2]
    BY <1>3
  <2>2. <<t, s>> \in OpToRel(<, Nat)
    BY <2>1, Zenon DEF OpToRel
  <2>3. QED
    BY <1>2, <2>2
<1>4. \A t \in S : s <= t
  BY <1>3
<1>5. QED
  BY <1>4

(* A nonempty finite set of numbers has a greatest.                             *)
LEMMA GreatestExists ==
  ASSUME NEW S \in SUBSET Nat, IsFiniteSet(S), S # {}
  PROVE  \E m \in S : \A n \in S : n <= m
<1> DEFINE Above(m) == {n \in S : m < n}
           sizes == {Cardinality(Above(m)) : m \in S}
<1>1. \A m \in S : IsFiniteSet(Above(m)) /\ Cardinality(Above(m)) \in Nat
  BY FS_Subset, FS_CardinalityType
<1>2. sizes \in SUBSET Nat /\ sizes # {}
  BY <1>1
<1>3. PICK k \in sizes : \A j \in sizes : k <= j
  BY <1>2, LeastExists
<1>4. PICK m \in S : k = Cardinality(Above(m))
  OBVIOUS
<1>5. ASSUME NEW n \in S, m < n PROVE FALSE
  <2>1. m \in Nat /\ n \in Nat
    OBVIOUS
  <2>2. \A i \in S : n < i => m < i
    BY <2>1, <1>5
  <2>3. Above(n) \subseteq Above(m)
    BY <2>2
  <2>4. n \in Above(m) /\ n \notin Above(n)
    BY <2>1, <1>5
  <2> HIDE DEF Above
  <2>5. /\ IsFiniteSet(Above(m)) /\ Cardinality(Above(m)) \in Nat
        /\ IsFiniteSet(Above(n)) /\ Cardinality(Above(n)) \in Nat
    BY <1>1
  <2>6. /\ Cardinality(Above(n)) <= Cardinality(Above(m))
        /\ Cardinality(Above(m)) = Cardinality(Above(n)) => Above(m) = Above(n)
    BY <2>3, <2>5, FS_Subset
  <2>7. k <= Cardinality(Above(n))
    BY <1>3
  <2>8. QED
    BY <1>4, <2>4, <2>5, <2>6, <2>7
<1>6. \A n \in S : n <= m
  BY <1>5
<1>7. QED
  BY <1>6

--------------------------------------------------------------------------------
(* Stratified selection. *)

(* Strata are taken in some fixed order (sorted, in the code).                  *)
LEMMA PlacesAreNumbers ==
  ASSUME NEW run, NEW passes, IsFiniteSet(passes), NEW e \in passes
  PROVE  Place(run, passes, e) \in Nat
<1> DEFINE T == {Stratum(run, f) : f \in passes}
           n == Cardinality(T)
           stratum == [f \in passes |-> Stratum(run, f)]
<1>1. stratum \in Surjection(passes, T)
  <2>1. stratum \in [passes -> T] /\ \A x \in T : \E f \in passes : stratum[f] = x
    OBVIOUS
  <2>2. QED
    BY <2>1 DEF Surjection
<1>2. IsFiniteSet(T)
  BY <1>1, FS_Surjection
<1> HIDE DEF T
<1>3. n \in Nat /\ ExistsBijection(1 .. n, T)
  BY <1>2, FS_CardinalityType
<1>4. \E f \in [1 .. n -> T] : IsInjective(f)
  BY <1>3 DEF ExistsBijection, Bijection, Injection
<1>5. /\ SetToSeq(T) \in [1 .. n -> T]
      /\ IsInjective(SetToSeq(T))
  BY <1>4 DEF SetToSeq
<1>6. SetToSeq(T) \in Surjection(1 .. n, T)
  <2>1. SetToSeq(T) \in Injection(1 .. n, T)
    BY <1>5 DEF Injection
  <2>2. Cardinality(1 .. n) = n
    BY <1>3, FS_Interval
  <2>3. QED
    BY <1>2, <2>1, <2>2, FS_Injection
<1>7. Stratum(run, e) \in T
  BY DEF T
<1>8. \E i \in DOMAIN SetToSeq(T) : SetToSeq(T)[i] = Stratum(run, e)
  BY <1>6, <1>7 DEF Surjection
<1>9. Place(run, passes, e) \in DOMAIN SetToSeq(T)
  BY <1>8 DEF Place, T
<1>10. QED
  BY <1>3, <1>5, <1>9

LEMMA RoundsAreNumbers ==
  ASSUME NEW run, NEW passes, IsFiniteSet(passes), NEW e
  PROVE  Round(run, passes, e) \in Nat
  BY FS_Subset, FS_CardinalityType DEF Round

LEMMA BeforeIsTransitive ==
  ASSUME NEW run, NEW passes, IsFiniteSet(passes),
         NEW e \in passes, NEW f \in passes, NEW g \in passes,
         Before(run, passes, e, f), Before(run, passes, f, g)
  PROVE  Before(run, passes, e, g)
<1>1. \A x \in passes : Round(run, passes, x) \in Nat /\ Place(run, passes, x) \in Nat
  BY PlacesAreNumbers, RoundsAreNumbers
<1>2. QED
  BY <1>1 DEF Before

(* Who comes before a selected Episode is selected.                             *)
LEMMA SelectionIsClosed ==
  ASSUME NEW run, NEW passes, IsFiniteSet(passes), NEW limit \in Nat,
         NEW e \in passes, NEW g \in Stratified(run, passes, limit),
         Before(run, passes, e, g)
  PROVE  e \in Stratified(run, passes, limit)
<1> DEFINE Ahead(x) == {f \in passes : Before(run, passes, f, x)}
<1>1. g \in passes /\ Cardinality(Ahead(g)) < limit
  BY DEF Stratified
<1>2. Ahead(e) \subseteq Ahead(g)
  BY <1>1, BeforeIsTransitive
<1>3. IsFiniteSet(Ahead(g)) /\ IsFiniteSet(Ahead(e))
  BY FS_Subset
<1>4. Cardinality(Ahead(e)) <= Cardinality(Ahead(g))
  BY <1>2, <1>3, FS_Subset
<1>5. Cardinality(Ahead(e)) \in Nat /\ Cardinality(Ahead(g)) \in Nat
  BY <1>3, FS_CardinalityType
<1>6. Cardinality(Ahead(e)) < limit
  BY <1>1, <1>4, <1>5
<1>7. QED
  BY <1>6 DEF Stratified

(* A stratum is behind another by more than one only when it is exhausted: its  *)
(* first Episode not selected has as many before it as it has selected, the     *)
(* last selected one of the other stratum has more, so it would be taken first. *)
LEMMA SelectionIsSpread ==
  ASSUME NEW run, NEW passes \in SUBSET Nat, IsFiniteSet(passes), NEW limit \in Nat,
         NEW s, NEW t,
         NEW A \in SUBSET passes, \A e \in passes : e \in A <=> Stratum(run, e) = s,
         NEW B \in SUBSET passes, \A e \in passes : e \in B <=> Stratum(run, e) = t,
         Cardinality(A \cap Stratified(run, passes, limit)) + 1
             < Cardinality(B \cap Stratified(run, passes, limit))
  PROVE  A \subseteq Stratified(run, passes, limit)
<1> DEFINE taken == Stratified(run, passes, limit)
           Earlier(e) == {f \in passes : f < e /\ Stratum(run, f) = Stratum(run, e)}
<1> SUFFICES ASSUME A \ taken # {} PROVE FALSE
  OBVIOUS
<1>1. PICK e \in A \ taken : \A f \in A \ taken : e <= f
  <2>1. A \ taken \in SUBSET Nat
    OBVIOUS
  <2>2. QED
    BY <2>1, LeastExists
<1>2. /\ IsFiniteSet(A \cap taken) /\ Cardinality(A \cap taken) \in Nat
      /\ IsFiniteSet(B \cap taken) /\ Cardinality(B \cap taken) \in Nat
  BY FS_Subset, FS_CardinalityType
<1>3. PICK g \in B \cap taken : \A f \in B \cap taken : f <= g
  <2>1. B \cap taken # {}
    BY <1>2, FS_EmptySet
  <2>2. B \cap taken \in SUBSET Nat
    OBVIOUS
  <2>3. QED
    BY <1>2, <2>1, <2>2, GreatestExists
<1>4. e \in passes /\ g \in passes /\ e \in Nat /\ g \in Nat /\ Stratum(run, e) = s /\ Stratum(run, g) = t
  OBVIOUS
<1>5. Round(run, passes, e) <= Cardinality(A \cap taken)
  <2>1. Earlier(e) \subseteq A \cap taken
    <3>1. ASSUME NEW f \in passes, f < e, Stratum(run, f) = Stratum(run, e)
          PROVE  f \in A \cap taken
      <4>1. f \in A /\ f \in Nat
        BY <1>4, <3>1
      <4>2. CASE f \notin taken
        <5>1. e <= f
          BY <1>1, <4>1, <4>2
        <5>2. QED
          BY <1>4, <3>1, <4>1, <5>1
      <4>3. QED
        BY <4>1, <4>2
    <3>2. QED
      BY <3>1
  <2>2. Cardinality(Earlier(e)) <= Cardinality(A \cap taken)
    BY <1>2, <2>1, FS_Subset
  <2>3. QED
    BY <2>2 DEF Round
<1>6. Cardinality(B \cap taken) <= Round(run, passes, g) + 1
  <2>1. B \cap taken \subseteq Earlier(g) \cup {g}
    <3>1. ASSUME NEW f \in B \cap taken PROVE f \in Earlier(g) \cup {g}
      <4>1. f \in passes /\ f \in Nat /\ Stratum(run, f) = Stratum(run, g) /\ f <= g
        BY <1>3, <1>4
      <4>2. QED
        BY <1>4, <4>1
    <3>2. QED
      BY <3>1
  <2>2. IsFiniteSet(Earlier(g)) /\ Cardinality(Earlier(g)) \in Nat
    BY FS_Subset, FS_CardinalityType
  <2>3. /\ IsFiniteSet(Earlier(g) \cup {g})
        /\ Cardinality(Earlier(g) \cup {g}) <= Cardinality(Earlier(g)) + 1
    <3> DEFINE E == Earlier(g)
    <3>1. IsFiniteSet(E) /\ Cardinality(E) \in Nat
      BY <2>2
    <3> HIDE DEF E
    <3>2. /\ IsFiniteSet(E \cup {g})
          /\ Cardinality(E \cup {g}) = IF g \in E THEN Cardinality(E) ELSE Cardinality(E) + 1
      BY <3>1, FS_AddElement
    <3>3. IsFiniteSet(E \cup {g}) /\ Cardinality(E \cup {g}) <= Cardinality(E) + 1
      BY <3>1, <3>2
    <3>4. QED
      BY <3>3 DEF E
  <2>4. Cardinality(B \cap taken) <= Cardinality(Earlier(g) \cup {g})
    <3> DEFINE C == Earlier(g) \cup {g}
               D == B \cap taken
    <3>1. D \in SUBSET C /\ IsFiniteSet(C)
      BY <2>1, <2>3
    <3> HIDE DEF C, D
    <3>2. Cardinality(D) <= Cardinality(C)
      BY <3>1, FS_Subset
    <3>3. QED
      BY <3>2 DEF C, D
  <2>5. Cardinality(B \cap taken) <= Cardinality(Earlier(g)) + 1
    <3>1. Cardinality(Earlier(g) \cup {g}) \in Nat
      BY <2>3, FS_CardinalityType
    <3>2. QED
      BY <1>2, <2>2, <2>3, <2>4, <3>1
  <2>6. QED
    BY <2>5 DEF Round
<1>7. Round(run, passes, e) < Round(run, passes, g)
  <2>1. Round(run, passes, e) \in Nat /\ Round(run, passes, g) \in Nat
    BY RoundsAreNumbers
  <2>2. QED
    BY <1>2, <1>5, <1>6, <2>1
<1>8. e \in taken
  BY <1>3, <1>4, <1>7, SelectionIsClosed DEF Before
<1>9. QED
  BY <1>1, <1>8

--------------------------------------------------------------------------------
(* What one frozen queue holds. *)

Reviewable(run) == EpisodesOf(run) \subseteq Nat /\ IsFiniteSet(EpisodesOf(run))

HoldsDoubts(run, cohort) ==
    /\ Doubts(run) \subseteq cohort.members
    /\ cohort.nonpass_count = Cardinality(cohort.members \cap Doubts(run))
    /\ cohort.pass_count = Cardinality(cohort.members \ Doubts(run))
IsSpread(run, cohort) ==
    LET passes == EpisodesOf(run) \ Doubts(run)
        In(s) == {e \in passes : Stratum(run, e) = s}
        Taken(s) == Cardinality(In(s) \cap cohort.members)
    IN  \A s, t \in {Stratum(run, e) : e \in passes} :
            Taken(s) + 1 < Taken(t) => In(s) \subseteq cohort.members
QueueIsSound(run, cohort) ==
    /\ cohort.members \subseteq EpisodesOf(run)
    /\ cohort.purpose \in {"held-out-evaluation", "diagnostic-development"}
    /\ cohort.method = "held_out_all_deterministically_eligible" =>
           cohort.members = Admitted(run)
    /\ cohort.method = "diagnostic_all_nonpass_stratified_pass" =>
           HoldsDoubts(run, cohort) /\ IsSpread(run, cohort)

LEMMA HeldOutQueueIsSound ==
  ASSUME NEW run, NEW configuration \in Configurations, Buildable(run, configuration),
         configuration.purpose = "held-out-evaluation"
  PROVE  QueueIsSound(run, BuildCohort(run, configuration))
<1> DEFINE cohort == BuildCohort(run, configuration)
           candidates == Candidates(run, configuration)
<1>1. cohort = Cohort(configuration, "held_out_all_deterministically_eligible", candidates, {}, candidates, 0)
  BY DEF BuildCohort, HeldOutCohort
<1>2. /\ cohort.members = candidates /\ cohort.purpose = "held-out-evaluation"
      /\ cohort.method = IF configuration.candidates = {}
                         THEN "held_out_all_deterministically_eligible" ELSE "operator_selected"
  BY <1>1 DEF Cohort
<1>3. candidates \subseteq EpisodesOf(run)
  BY DEF Buildable
<1>4. configuration.candidates = {} => candidates = Admitted(run)
  BY DEF Candidates
<1> HIDE DEF cohort, candidates
<1>5. QueueIsSound(run, cohort)
  BY <1>2, <1>3, <1>4 DEF QueueIsSound
<1>6. QED
  BY <1>5 DEF cohort

LEMMA DiagnosticQueueIsSound ==
  ASSUME NEW run, Reviewable(run),
         NEW configuration \in Configurations, Buildable(run, configuration),
         configuration.purpose = "diagnostic-development"
  PROVE  QueueIsSound(run, BuildCohort(run, configuration))
<1> DEFINE cohort == BuildCohort(run, configuration)
           candidates == Candidates(run, configuration)
           doubts == candidates \cap Doubts(run)
           passes == candidates \ doubts
           taken == Stratified(run, passes, configuration.limit)
<1>1. cohort = Cohort(configuration, "diagnostic_all_nonpass_stratified_pass", candidates,
                      doubts, taken, Cardinality({Stratum(run, e) : e \in taken}))
  BY DEF BuildCohort, DiagnosticCohort
<1>2. /\ cohort.members = doubts \cup taken /\ cohort.purpose = "diagnostic-development"
      /\ cohort.method = IF configuration.candidates = {}
                         THEN "diagnostic_all_nonpass_stratified_pass" ELSE "operator_selected"
      /\ cohort.nonpass_count = Cardinality(doubts) /\ cohort.pass_count = Cardinality(taken)
  BY <1>1 DEF Cohort
<1>3. candidates \subseteq EpisodesOf(run)
  BY DEF Buildable
<1>4. configuration.candidates = {} => candidates = EpisodesOf(run)
  BY DEF Candidates
<1>5. taken \subseteq passes
  BY DEF Stratified
<1>6. configuration.limit \in Nat
  BY ReviewAssumption
<1> HIDE DEF cohort, candidates, taken
<1>7. ASSUME configuration.candidates = {} PROVE HoldsDoubts(run, cohort) /\ IsSpread(run, cohort)
  <2>1. doubts = Doubts(run) /\ passes = EpisodesOf(run) \ Doubts(run)
    BY <1>4, <1>7 DEF Doubts
  <2>2. HoldsDoubts(run, cohort)
    <3>1. cohort.members \cap Doubts(run) = doubts /\ cohort.members \ Doubts(run) = taken
      BY <1>2, <1>5, <2>1
    <3>2. QED
      BY <1>2, <2>1, <3>1 DEF HoldsDoubts
  <2>3. passes \in SUBSET Nat /\ IsFiniteSet(passes)
    BY <2>1, FS_Difference DEF Reviewable
  <2> DEFINE P == EpisodesOf(run) \ Doubts(run)
             In(s) == {e \in P : Stratum(run, e) = s}
             Taken(s) == Cardinality(In(s) \cap cohort.members)
  <2>4. ASSUME NEW s, NEW t, Taken(s) + 1 < Taken(t)
        PROVE  In(s) \subseteq cohort.members
    <3>1. \A x : In(x) \cap cohort.members = In(x) \cap taken
      BY <1>2, <2>1
    <3>2. taken = Stratified(run, P, configuration.limit) /\ P \in SUBSET Nat /\ IsFiniteSet(P)
      BY <2>1, <2>3 DEF taken
    <3>3. Cardinality(In(s) \cap Stratified(run, P, configuration.limit)) + 1
              < Cardinality(In(t) \cap Stratified(run, P, configuration.limit))
      BY <2>4, <3>1, <3>2
    <3>4. In(s) \subseteq Stratified(run, P, configuration.limit)
      <4>1. /\ In(s) \in SUBSET P /\ \A e \in P : e \in In(s) <=> Stratum(run, e) = s
            /\ In(t) \in SUBSET P /\ \A e \in P : e \in In(t) <=> Stratum(run, e) = t
        OBVIOUS
      <4> HIDE DEF P, In
      <4>2. QED
        BY <1>6, <3>2, <3>3, <4>1, SelectionIsSpread
    <3>5. QED
      BY <1>2, <3>2, <3>4
  <2>5. IsSpread(run, cohort)
    <3>1. \A s, t \in {Stratum(run, e) : e \in P} :
              Taken(s) + 1 < Taken(t) => In(s) \subseteq cohort.members
      BY <2>4
    <3>2. QED
      BY <3>1, Zenon DEF IsSpread
  <2>6. QED
    BY <2>2, <2>5
<1>8. QueueIsSound(run, cohort)
  BY <1>2, <1>3, <1>5, <1>7 DEF QueueIsSound
<1>9. QED
  BY <1>8 DEF cohort

LEMMA QueuesAreSound ==
  ASSUME NEW run, Reviewable(run), NEW configuration \in Configurations, Buildable(run, configuration)
  PROVE  QueueIsSound(run, BuildCohort(run, configuration))
<1>1. configuration.purpose \in {"held-out-evaluation", "diagnostic-development"}
  BY ReviewAssumption
<1>2. QED
  BY <1>1, HeldOutQueueIsSound, DiagnosticQueueIsSound

--------------------------------------------------------------------------------
(* The inductive invariant of the review: a queue is what its configuration and *)
(* the completed run give, queues of a run have no Episode and no id in common, *)
(* and a label answers one of them, alone.                                      *)

BuiltQueues(run) ==
    {BuildCohort(run, configuration) : configuration \in {c \in Configurations : Buildable(run, c)}}
Answers(label, cohort) ==
    cohort.id = label.cohort /\ cohort.purpose = label.purpose /\ label.episode \in cohort.members
Apart(a, b) == a.members \cap b.members = {} /\ a.id # b.id

QueuesAreBuilt ==
    DOMAIN cohorts = Run /\ \A r \in Run : cohorts[r] \in Seq(BuiltQueues(runs[r]))
QueuesAreApart ==
    \A r \in Run : \A i, j \in DOMAIN cohorts[r] : i = j \/ Apart(cohorts[r][i], cohorts[r][j])
LabelsAnswerQueues ==
    /\ DOMAIN labels = Run
    /\ \A r \in Run :
           /\ IsFiniteSet(labels[r])
           /\ \A l \in labels[r] :
                  WellFormed(l.dimensions) /\ \E i \in DOMAIN cohorts[r] : Answers(l, cohorts[r][i])
LabelsAreAlone ==
    \A r \in Run : \A a, b \in labels[r] : SameKey(a, b) => a = b

ReviewInvariant ==
    /\ runs \in Reviewed
    /\ QueuesAreBuilt /\ QueuesAreApart
    /\ LabelsAnswerQueues /\ LabelsAreAlone

LEMMA ImageIsFinite ==
  ASSUME NEW T, IsFiniteSet(T), NEW f
  PROVE  IsFiniteSet({f[t] : t \in T})
<1> DEFINE S == {f[t] : t \in T}
           g == [t \in T |-> f[t]]
<1>1. g \in [T -> S] /\ \A x \in S : \E t \in T : g[t] = x
  OBVIOUS
<1>2. g \in Surjection(T, S)
  BY <1>1 DEF Surjection
<1>3. QED
  BY <1>2, FS_Surjection

LEMMA AppendKeepsPrefix ==
  ASSUME NEW S, NEW s \in Seq(S), NEW x
  PROVE  IsPrefix(s, Append(s, x))
<1>1. /\ Len(s) \in Nat /\ Len(Append(s, x)) = Len(s) + 1
      /\ SubSeq(s, 1, Len(s)) = SubSeq(Append(s, x), 1, Len(s))
  OBVIOUS
<1>2. QED
  BY <1>1 DEF IsPrefix

LEMMA ReviewStarts ==
  ASSUME Init
  PROVE  ReviewInvariant
<1>1. runs \in Reviewed /\ cohorts = [r \in Run |-> <<>>] /\ labels = [r \in Run |-> {}]
  BY DEF Init
<1>2. IsFiniteSet({})
  BY FS_EmptySet
<1>3. QueuesAreBuilt /\ QueuesAreApart
  BY <1>1 DEF QueuesAreBuilt, QueuesAreApart
<1>4. LabelsAnswerQueues /\ LabelsAreAlone
  BY <1>1, <1>2 DEF LabelsAnswerQueues, LabelsAreAlone
<1>5. QED
  BY <1>1, <1>3, <1>4 DEF ReviewInvariant

(* A new queue is built from the run and shares nothing with those before it.   *)
LEMMA NewQueue ==
  ASSUME ReviewInvariant, NEW r \in Run, NEW configuration \in Configurations,
         \A i \in DOMAIN cohorts[r] : cohorts[r][i].id # configuration.id,
         Buildable(runs[r], configuration),
         ~Overlaps(BuildCohort(runs[r], configuration), cohorts[r]),
         cohorts' = [cohorts EXCEPT ![r] = Append(@, BuildCohort(runs[r], configuration))],
         UNCHANGED <<runs, labels>>
  PROVE  /\ ReviewInvariant'
         /\ \A s \in Run : IsPrefix(cohorts[s], cohorts'[s]) /\ labels[s] \subseteq labels'[s]
<1>1. PICK queue : queue = BuildCohort(runs[r], configuration)
  OBVIOUS
<1>2. queue \in BuiltQueues(runs[r]) /\ queue.id = configuration.id
  <2>1. queue.id = configuration.id
    BY <1>1 DEF BuildCohort, HeldOutCohort, DiagnosticCohort, Cohort
  <2>2. QED
    BY <1>1, <2>1 DEF BuiltQueues
<1>3. \A i \in DOMAIN cohorts[r] : Apart(cohorts[r][i], queue)
  BY <1>1, <1>2 DEF Apart, Overlaps
<1>4. /\ DOMAIN cohorts = Run /\ DOMAIN cohorts' = Run
      /\ \A s \in Run : cohorts[s] \in Seq(BuiltQueues(runs[s]))
      /\ \A s \in Run : cohorts'[s] = IF s = r THEN Append(cohorts[s], queue) ELSE cohorts[s]
  BY <1>1 DEF ReviewInvariant, QueuesAreBuilt
<1>5. /\ cohorts'[r] \in Seq(BuiltQueues(runs[r]))
      /\ DOMAIN cohorts'[r] = DOMAIN cohorts[r] \cup {Len(cohorts[r]) + 1}
      /\ \A i \in DOMAIN cohorts[r] : cohorts'[r][i] = cohorts[r][i]
      /\ cohorts'[r][Len(cohorts[r]) + 1] = queue
  <2>1. PICK S : S = BuiltQueues(runs[r])
    OBVIOUS
  <2>2. PICK old : old = cohorts[r]
    OBVIOUS
  <2>3. old \in Seq(S) /\ queue \in S /\ cohorts'[r] = Append(old, queue)
    BY <1>2, <1>4, <2>1, <2>2
  <2>4. PICK new : new = Append(old, queue)
    OBVIOUS
  <2>5. new \in Seq(S) /\ Len(old) \in Nat /\ Len(new) = Len(old) + 1
    BY <2>3, <2>4
  <2>6. DOMAIN new = DOMAIN old \cup {Len(old) + 1}
    BY <2>3, <2>5
  <2>7. (\A i \in DOMAIN old : new[i] = old[i]) /\ new[Len(old) + 1] = queue
    BY <2>3, <2>4
  <2>8. QED
    BY <2>1, <2>2, <2>3, <2>4, <2>5, <2>6, <2>7
<1>6. QueuesAreBuilt'
  BY <1>4, <1>5 DEF QueuesAreBuilt
<1>7. QueuesAreApart'
  <2>1. ASSUME NEW s \in Run, NEW i \in DOMAIN cohorts'[s], NEW j \in DOMAIN cohorts'[s], i # j
        PROVE  Apart(cohorts'[s][i], cohorts'[s][j])
    <3>1. CASE s # r
      BY <1>4, <2>1, <3>1 DEF ReviewInvariant, QueuesAreApart
    <3>2. CASE s = r /\ i \in DOMAIN cohorts[r] /\ j \in DOMAIN cohorts[r]
      BY <1>5, <2>1, <3>2 DEF ReviewInvariant, QueuesAreApart
    <3>3. CASE s = r /\ i \in DOMAIN cohorts[r] /\ j = Len(cohorts[r]) + 1
      BY <1>3, <1>5, <3>3
    <3>4. CASE s = r /\ i = Len(cohorts[r]) + 1 /\ j \in DOMAIN cohorts[r]
      BY <1>3, <1>5, <3>4 DEF Apart
    <3>5. QED
      BY <1>5, <2>1, <3>1, <3>2, <3>3, <3>4
  <2>2. QED
    BY <2>1 DEF QueuesAreApart
<1>8. LabelsAnswerQueues'
  <2>1. \A s \in Run : \A i \in DOMAIN cohorts[s] :
            i \in DOMAIN cohorts'[s] /\ cohorts'[s][i] = cohorts[s][i]
    BY <1>4, <1>5
  <2>2. QED
    BY <2>1 DEF ReviewInvariant, LabelsAnswerQueues
<1>9. LabelsAreAlone'
  BY DEF ReviewInvariant, LabelsAreAlone
<1>10. \A s \in Run : IsPrefix(cohorts[s], cohorts'[s])
  <2>1. IsPrefix(cohorts[r], Append(cohorts[r], queue))
    BY <1>4, AppendKeepsPrefix
  <2>2. ASSUME NEW s \in Run PROVE IsPrefix(cohorts[s], cohorts[s])
    <3>1. Len(cohorts[s]) \in Nat
      BY <1>4
    <3>2. QED
      BY <3>1 DEF IsPrefix
  <2>3. QED
    BY <1>4, <2>1, <2>2
<1>11. QED
  BY <1>6, <1>7, <1>8, <1>9, <1>10 DEF ReviewInvariant

--------------------------------------------------------------------------------
(* A submission is taken whole: no two of its labels, and none of them and one  *)
(* imported before, are about the same Episode of the same queue.               *)
LEMMA NewLabels ==
  ASSUME ReviewInvariant, NEW r \in Run, NEW submission \in Submissions, Acceptable(r, submission),
         labels' = [labels EXCEPT ![r] = @ \cup {Label(submission[i]) : i \in DOMAIN submission}],
         UNCHANGED <<runs, cohorts>>
  PROVE  /\ ReviewInvariant'
         /\ \A s \in Run : IsPrefix(cohorts[s], cohorts'[s]) /\ labels[s] \subseteq labels'[s]
<1>1. PICK new : new = {Label(submission[i]) : i \in DOMAIN submission}
  OBVIOUS
<1>2. /\ DOMAIN labels = Run /\ DOMAIN labels' = Run
      /\ \A s \in Run : labels'[s] = IF s = r THEN labels[s] \cup new ELSE labels[s]
  BY <1>1 DEF ReviewInvariant, LabelsAnswerQueues
<1>3. IsFiniteSet(new)
  <2> DEFINE f == [i \in DOMAIN submission |-> Label(submission[i])]
  <2>1. new = {f[i] : i \in DOMAIN submission}
    BY <1>1
  <2>2. IsFiniteSet(DOMAIN submission)
    BY ReviewAssumption
  <2> HIDE DEF f
  <2>3. QED
    BY <2>1, <2>2, ImageIsFinite
<1>4. \A l \in new : WellFormed(l.dimensions) /\ \E i \in DOMAIN cohorts[r] : Answers(l, cohorts[r][i])
  <2>1. ASSUME NEW i \in DOMAIN submission
        PROVE  LET l == Label(submission[i])
               IN  WellFormed(l.dimensions) /\ \E j \in DOMAIN cohorts[r] : Answers(l, cohorts[r][j])
    BY DEF Acceptable, InItsQueue, Answers, Label
  <2>2. QED
    BY <1>1, <2>1
<1>5. LabelsAnswerQueues'
  <2>1. ASSUME NEW s \in Run
        PROVE  /\ IsFiniteSet(labels'[s])
               /\ \A l \in labels'[s] :
                      WellFormed(l.dimensions) /\ \E i \in DOMAIN cohorts[s] : Answers(l, cohorts[s][i])
    <3>1. /\ IsFiniteSet(labels[s])
          /\ \A l \in labels[s] :
                 WellFormed(l.dimensions) /\ \E i \in DOMAIN cohorts[s] : Answers(l, cohorts[s][i])
      BY DEF ReviewInvariant, LabelsAnswerQueues
    <3>2. IsFiniteSet(labels[s] \cup new)
      BY <1>3, <3>1, FS_Union
    <3>3. QED
      BY <1>2, <1>4, <3>1, <3>2
  <2>2. QED
    BY <1>2, <2>1 DEF LabelsAnswerQueues
<1>6. LabelsAreAlone'
  <2>1. ASSUME NEW a \in new, NEW b \in new, SameKey(a, b) PROVE a = b
    <3>1. PICK i \in DOMAIN submission : a = Label(submission[i])
      BY <1>1
    <3>2. PICK j \in DOMAIN submission : b = Label(submission[j])
      BY <1>1
    <3>3. SameKey(submission[i], submission[j])
      BY <2>1, <3>1, <3>2 DEF SameKey, Label
    <3>4. QED
      BY <3>1, <3>2, <3>3 DEF Acceptable
  <2>2. ASSUME NEW a \in labels[r], NEW b \in new PROVE ~SameKey(a, b) /\ ~SameKey(b, a)
    <3>1. PICK i \in DOMAIN submission : b = Label(submission[i])
      BY <1>1
    <3>2. ~SameKey(a, submission[i])
      BY DEF Acceptable
    <3>3. QED
      BY <3>1, <3>2 DEF SameKey, Label
  <2>3. ASSUME NEW s \in Run, NEW a \in labels'[s], NEW b \in labels'[s], SameKey(a, b) PROVE a = b
    <3>1. a \in labels[s] /\ b \in labels[s] => a = b
      BY <2>3 DEF ReviewInvariant, LabelsAreAlone
    <3>2. QED
      BY <1>2, <2>1, <2>2, <2>3, <3>1
  <2>4. QED
    BY <2>3 DEF LabelsAreAlone
<1>7. \A s \in Run : IsPrefix(cohorts[s], cohorts'[s])
  <2>1. ASSUME NEW s \in Run PROVE IsPrefix(cohorts[s], cohorts[s])
    <3>1. Len(cohorts[s]) \in Nat
      BY DEF ReviewInvariant, QueuesAreBuilt
    <3>2. QED
      BY <3>1 DEF IsPrefix
  <2>2. QED
    BY <2>1
<1>8. QueuesAreBuilt' /\ QueuesAreApart'
  BY DEF ReviewInvariant, QueuesAreBuilt, QueuesAreApart
<1>9. QED
  BY <1>2, <1>5, <1>6, <1>7, <1>8 DEF ReviewInvariant

(* What a step of the review keeps: the invariant, and all that was there.      *)
LEMMA ReviewSteps ==
  ASSUME ReviewInvariant, Next
  PROVE  /\ ReviewInvariant' /\ runs' = runs
         /\ \A r \in Run : IsPrefix(cohorts[r], cohorts'[r]) /\ labels[r] \subseteq labels'[r]
<1>1. CASE CreateReviewQueue
  <2>1. PICK r \in Run, configuration \in Configurations :
            /\ \A i \in DOMAIN cohorts[r] : cohorts[r][i].id # configuration.id
            /\ Buildable(runs[r], configuration)
            /\ ~Overlaps(BuildCohort(runs[r], configuration), cohorts[r])
            /\ cohorts' = [cohorts EXCEPT ![r] = Append(@, BuildCohort(runs[r], configuration))]
            /\ UNCHANGED <<runs, labels>>
    BY <1>1 DEF CreateReviewQueue
  <2>2. QED
    BY <2>1, NewQueue
<1>2. CASE ImportReviewLabels
  <2>1. PICK r \in Run, submission \in Submissions :
            /\ Acceptable(r, submission)
            /\ labels' = [labels EXCEPT ![r] = @ \cup {Label(submission[i]) : i \in DOMAIN submission}]
            /\ UNCHANGED <<runs, cohorts>>
    BY <1>2 DEF ImportReviewLabels
  <2>2. QED
    BY <2>1, NewLabels
<1>3. QED
  BY <1>1, <1>2 DEF Next

LEMMA ReviewStutters ==
  ASSUME ReviewInvariant, UNCHANGED reviewVars
  PROVE  ReviewInvariant'
  BY DEF ReviewInvariant, QueuesAreBuilt, QueuesAreApart, LabelsAnswerQueues, LabelsAreAlone, reviewVars

(* The invariant of the review (QualityReview).                                 *)
THEOREM ReviewKeepsInvariant == Spec => []ReviewInvariant
<1>1. Init => ReviewInvariant
  BY ReviewStarts
<1>2. ReviewInvariant /\ [Next]_reviewVars => ReviewInvariant'
  BY ReviewSteps, ReviewStutters
<1>3. QED
  BY <1>1, <1>2, PTL DEF Spec

(* Queues are frozen and labels kept: create_review_queue and                   *)
(* import_review_labels only ever add (engine.py).                              *)
THEOREM ReviewsOnlyGrow == Spec => ReviewOnlyGrows
<1>1. ReviewInvariant /\ [Next]_reviewVars =>
          [\A r \in DOMAIN runs : IsPrefix(cohorts[r], cohorts'[r]) /\ labels[r] \subseteq labels'[r]]_reviewVars
  <2>1. ReviewInvariant => DOMAIN runs = Run
    BY ReviewAssumption DEF ReviewInvariant
  <2>2. QED
    BY <2>1, ReviewSteps
<1>2. QED
  BY <1>1, ReviewKeepsInvariant, PTL DEF Spec, ReviewOnlyGrows

--------------------------------------------------------------------------------
(* What the invariant says of queues, labels and their summary. *)

LEMMA RunsAreReviewable ==
  ASSUME ReviewInvariant
  PROVE  DOMAIN runs = Run /\ \A r \in Run : Reviewable(runs[r])
<1>1. runs \in Reviewed
  BY DEF ReviewInvariant
<1>2. QED
  BY <1>1, ReviewAssumption DEF Reviewable, EpisodesOf

LEMMA FrozenQueuesAreSound ==
  ASSUME ReviewInvariant, NEW r \in Run, NEW i \in DOMAIN cohorts[r]
  PROVE  QueueIsSound(runs[r], cohorts[r][i])
<1>1. cohorts[r][i] \in BuiltQueues(runs[r])
  <2>1. PICK S : S = BuiltQueues(runs[r])
    OBVIOUS
  <2>2. cohorts[r] \in Seq(S)
    BY <2>1 DEF ReviewInvariant, QueuesAreBuilt
  <2>3. QED
    BY <2>1, <2>2
<1>2. PICK configuration \in Configurations :
          /\ Buildable(runs[r], configuration)
          /\ cohorts[r][i] = BuildCohort(runs[r], configuration)
  BY <1>1 DEF BuiltQueues
<1>3. Reviewable(runs[r])
  BY RunsAreReviewable
<1>4. QED
  BY <1>2, <1>3, QueuesAreSound

(* An Episode is in one queue of its run at most.                               *)
LEMMA OneQueueEach ==
  ASSUME ReviewInvariant, NEW r \in Run,
         NEW i \in DOMAIN cohorts[r], NEW j \in DOMAIN cohorts[r], NEW e,
         e \in cohorts[r][i].members, e \in cohorts[r][j].members
  PROVE  i = j
  BY DEF ReviewInvariant, QueuesAreApart, Apart

(* And it has one label at most, for that queue.                                *)
LEMMA OneLabelEach ==
  ASSUME ReviewInvariant, NEW r \in Run, NEW a \in labels[r]
  PROVE  /\ \E i \in DOMAIN cohorts[r] : Answers(a, cohorts[r][i])
         /\ \A i \in DOMAIN cohorts[r] : a.episode \in cohorts[r][i].members => Answers(a, cohorts[r][i])
         /\ \A b \in labels[r] : a.episode = b.episode => a = b
<1>1. ASSUME NEW b \in labels[r]
      PROVE  \E i \in DOMAIN cohorts[r] : Answers(b, cohorts[r][i])
  BY DEF ReviewInvariant, LabelsAnswerQueues
<1>2. PICK i \in DOMAIN cohorts[r] : Answers(a, cohorts[r][i])
  BY <1>1
<1>3. ASSUME NEW b \in labels[r], a.episode = b.episode PROVE a = b
  <2>1. PICK j \in DOMAIN cohorts[r] : Answers(b, cohorts[r][j])
    BY <1>1
  <2>2. i = j
    BY <1>2, <1>3, <2>1, OneQueueEach DEF Answers
  <2>3. SameKey(a, b)
    BY <1>2, <1>3, <2>1, <2>2 DEF Answers, SameKey
  <2>4. QED
    BY <2>3 DEF ReviewInvariant, LabelsAreAlone
<1>4. ASSUME NEW j \in DOMAIN cohorts[r], a.episode \in cohorts[r][j].members
      PROVE  Answers(a, cohorts[r][j])
  <2>1. i = j
    BY <1>2, <1>4, OneQueueEach DEF Answers
  <2>2. QED
    BY <1>2, <2>1
<1>5. QED
  BY <1>2, <1>3, <1>4

LEMMA QueuesSayWhatTheyHold ==
  ASSUME ReviewInvariant
  PROVE  DiagnosticsHoldEveryDoubt /\ PassesAreSpread /\ EvaluationIgnoresTheJudge
<1>1. \A r \in DOMAIN runs : \A i \in DOMAIN cohorts[r] : QueueIsSound(runs[r], cohorts[r][i])
  BY RunsAreReviewable, FrozenQueuesAreSound
<1>2. DiagnosticsHoldEveryDoubt
  BY <1>1 DEF QueueIsSound, HoldsDoubts, DiagnosticsHoldEveryDoubt
<1>3. PassesAreSpread
  <2>1. ASSUME NEW r \in DOMAIN runs, NEW i \in DOMAIN cohorts[r],
               cohorts[r][i].method = "diagnostic_all_nonpass_stratified_pass"
        PROVE  IsSpread(runs[r], cohorts[r][i])
    BY <1>1, <2>1 DEF QueueIsSound
  <2>2. QED
    BY <2>1, Zenon DEF PassesAreSpread, IsSpread
<1>4. EvaluationIgnoresTheJudge
  BY <1>1 DEF QueueIsSound, EvaluationIgnoresTheJudge
<1>5. QED
  BY <1>2, <1>3, <1>4

LEMMA NobodyIsReviewedTwice ==
  ASSUME ReviewInvariant
  PROVE  ReviewedOnce
<1>1. ASSUME NEW r \in Run
      PROVE  /\ \A i, j \in DOMAIN cohorts[r] :
                    cohorts[r][i].members \cap cohorts[r][j].members # {} => i = j
             /\ \A a, b \in labels[r] : a.episode = b.episode => a = b
             /\ \A a \in labels[r] : \E i \in DOMAIN cohorts[r] :
                    /\ cohorts[r][i].id = a.cohort /\ cohorts[r][i].purpose = a.purpose
                    /\ a.episode \in cohorts[r][i].members
  <2>1. \A i, j \in DOMAIN cohorts[r] :
            cohorts[r][i].members \cap cohorts[r][j].members # {} => i = j
    BY OneQueueEach
  <2>2. QED
    BY <2>1, OneLabelEach DEF Answers
<1>2. QED
  BY <1>1, RunsAreReviewable DEF ReviewedOnce

--------------------------------------------------------------------------------
(* The summary of a run, part by part. *)

Labelled(r) == {l.episode : l \in labels[r]}
Queued(r) == UNION {cohorts[r][i].members : i \in DOMAIN cohorts[r]}
Evaluated(r) ==
    UNION {cohorts[r][i].members : i \in {j \in DOMAIN cohorts[r] : cohorts[r][j].purpose = "held-out-evaluation"}}
EvaluationLabels(r) ==
    {l \in labels[r] : l.purpose = "held-out-evaluation" /\ l.episode \in Evaluated(r)}

LEMMA CompleteMeansLabelled ==
  ASSUME ReviewInvariant, NEW r \in Run
  PROVE  Summary(cohorts[r], labels[r]).complete <=> Queued(r) # {} /\ Queued(r) \subseteq Labelled(r)
<1> DEFINE expected == UNION {{cohorts[r][i].id} \X cohorts[r][i].members : i \in DOMAIN cohorts[r]}
           answered == {<<l.cohort, l.episode>> : l \in labels[r]}
<1>1. Summary(cohorts[r], labels[r]).complete <=> expected # {} /\ expected \subseteq answered
  BY DEF Summary
<1>2. \A x : x \in expected <=>
          \E i \in DOMAIN cohorts[r] : \E e \in cohorts[r][i].members : x = <<cohorts[r][i].id, e>>
  OBVIOUS
<1>3. \A x : x \in answered <=> \E l \in labels[r] : x = <<l.cohort, l.episode>>
  OBVIOUS
<1>4. \A e : e \in Queued(r) <=> \E i \in DOMAIN cohorts[r] : e \in cohorts[r][i].members
  BY DEF Queued
<1>5. \A e : e \in Labelled(r) <=> \E l \in labels[r] : e = l.episode
  BY DEF Labelled
<1> HIDE DEF expected, answered
<1>6. expected # {} <=> Queued(r) # {}
  <2>1. ASSUME expected # {} PROVE Queued(r) # {}
    <3>1. PICK i \in DOMAIN cohorts[r] : \E e \in cohorts[r][i].members : TRUE
      BY <1>2, <2>1
    <3>2. QED
      BY <1>4, <3>1
  <2>2. ASSUME Queued(r) # {} PROVE expected # {}
    <3>1. PICK i \in DOMAIN cohorts[r] : \E e : e \in cohorts[r][i].members
      BY <1>4, <2>2
    <3>2. \E e : <<cohorts[r][i].id, e>> \in expected
      BY <1>2, <3>1
    <3>3. QED
      BY <3>2
  <2>3. QED
    BY <2>1, <2>2
<1>7. ASSUME expected \subseteq answered, NEW e \in Queued(r) PROVE e \in Labelled(r)
  <2>1. PICK i \in DOMAIN cohorts[r] : e \in cohorts[r][i].members
    BY <1>4
  <2>2. <<cohorts[r][i].id, e>> \in answered
    BY <1>2, <1>7, <2>1
  <2>3. PICK l \in labels[r] : <<cohorts[r][i].id, e>> = <<l.cohort, l.episode>>
    BY <1>3, <2>2
  <2>4. QED
    BY <1>5, <2>3
<1>8. ASSUME Queued(r) \subseteq Labelled(r), NEW x \in expected PROVE x \in answered
  <2>1. PICK i \in DOMAIN cohorts[r] : \E e \in cohorts[r][i].members : x = <<cohorts[r][i].id, e>>
    BY <1>2
  <2> PICK e \in cohorts[r][i].members : x = <<cohorts[r][i].id, e>>
    BY <2>1
  <2>2. PICK l \in labels[r] : e = l.episode
    BY <1>4, <1>5, <1>8
  <2>3. Answers(l, cohorts[r][i])
    BY <2>2, OneLabelEach
  <2>4. x = <<l.cohort, l.episode>>
    BY <2>2, <2>3 DEF Answers
  <2>5. QED
    BY <1>3, <2>4
<1>9. QED
  BY <1>1, <1>6, <1>7, <1>8

LEMMA OpenMeansUnlabelled ==
  ASSUME ReviewInvariant, NEW r \in Run
  PROVE  /\ IsFiniteSet(EvaluationLabels(r))
         /\ Cardinality(Evaluated(r) \ Labelled(r)) = Cardinality(Evaluated(r)) - Cardinality(EvaluationLabels(r))
<1>1. IsFiniteSet(Evaluated(r))
  <2>1. Evaluated(r) \subseteq EpisodesOf(runs[r])
    BY FrozenQueuesAreSound DEF Evaluated, QueueIsSound
  <2>2. QED
    BY <2>1, RunsAreReviewable, FS_Subset DEF Reviewable
<1>2. IsFiniteSet(EvaluationLabels(r))
  <2>1. IsFiniteSet(labels[r])
    BY DEF ReviewInvariant, LabelsAnswerQueues
  <2>2. QED
    BY <2>1, FS_Subset DEF EvaluationLabels
<1> DEFINE f == [l \in EvaluationLabels(r) |-> l.episode]
<1>3. \A a, b \in EvaluationLabels(r) : f[a] = f[b] => a = b
  BY OneLabelEach DEF EvaluationLabels
<1>4. {f[l] : l \in EvaluationLabels(r)} = Evaluated(r) \cap Labelled(r)
  <2>1. ASSUME NEW l \in EvaluationLabels(r) PROVE f[l] \in Evaluated(r) \cap Labelled(r)
    BY DEF EvaluationLabels, Labelled
  <2>2. ASSUME NEW e \in Evaluated(r) \cap Labelled(r)
        PROVE  \E l \in EvaluationLabels(r) : f[l] = e
    <3>1. PICK l \in labels[r] : e = l.episode
      BY DEF Labelled
    <3>2. PICK i \in DOMAIN cohorts[r] :
              cohorts[r][i].purpose = "held-out-evaluation" /\ e \in cohorts[r][i].members
      BY DEF Evaluated
    <3>3. l.purpose = "held-out-evaluation"
      BY <3>1, <3>2, OneLabelEach DEF Answers
    <3>4. l \in EvaluationLabels(r)
      BY <3>1, <3>3 DEF EvaluationLabels
    <3>5. QED
      BY <3>1, <3>4
  <2>3. QED
    BY <2>1, <2>2
<1> HIDE DEF f
<1>5. Cardinality(Evaluated(r) \cap Labelled(r)) = Cardinality(EvaluationLabels(r))
  BY <1>2, <1>3, <1>4, CountedOnce
<1>6. Cardinality(Evaluated(r) \ Labelled(r))
          = Cardinality(Evaluated(r)) - Cardinality(Evaluated(r) \cap Labelled(r))
  BY <1>1, FS_Difference
<1>7. QED
  BY <1>2, <1>5, <1>6

LEMMA ApprovedMeansPassed ==
  ASSUME ReviewInvariant, NEW r \in Run, NEW l \in labels[r],
         l.episode \in Summary(cohorts[r], labels[r]).approved
  PROVE  \A d \in Dimension : l.dimensions[d].verdict = "pass"
<1>1. PICK m \in labels[r] : Aggregate(m.dimensions) = "pass" /\ m.episode = l.episode
  BY DEF Summary
<1>2. m = l
  BY <1>1, OneLabelEach
<1>3. WellFormed(l.dimensions)
  BY DEF ReviewInvariant, LabelsAnswerQueues
<1>4. ASSUME NEW d \in Dimension, l.dimensions[d].verdict # "pass" PROVE FALSE
  <2> DEFINE verdicts == {l.dimensions[x].verdict : x \in DOMAIN l.dimensions}
  <2>1. l.dimensions[d].verdict \in {"fail", "uncertain"} /\ l.dimensions[d].verdict \in verdicts
    BY <1>3, <1>4 DEF WellFormed
  <2>2. Aggregate(l.dimensions) \in {"fail", "uncertain"}
    BY <2>1 DEF Aggregate
  <2>3. QED
    BY <1>1, <1>2, <2>2
<1>5. QED
  BY <1>4

LEMMA SummariesAreTrue ==
  ASSUME ReviewInvariant
  PROVE  SummaryIsTrue
<1> SUFFICES ASSUME NEW r \in Run
             PROVE  LET summary == Summary(cohorts[r], labels[r])
                        labelled == {l.episode : l \in labels[r]}
                        QueuedFor(purposes) ==
                            UNION {cohorts[r][i].members :
                                       i \in {j \in DOMAIN cohorts[r] : cohorts[r][j].purpose \in purposes}}
                        queued == QueuedFor({"held-out-evaluation", "diagnostic-development"})
                    IN  /\ summary.complete <=> queued # {} /\ queued \subseteq labelled
                        /\ summary.incomplete_count
                               = Cardinality(QueuedFor({"held-out-evaluation"}) \ labelled)
                        /\ summary.pass_count <= summary.reviewed_count
                        /\ \A l \in labels[r] : l.episode \in summary.approved =>
                               \A d \in Dimension : l.dimensions[d].verdict = "pass"
  BY RunsAreReviewable, Zenon DEF SummaryIsTrue
<1> DEFINE summary == Summary(cohorts[r], labels[r])
           QueuedFor(purposes) ==
               UNION {cohorts[r][i].members :
                          i \in {j \in DOMAIN cohorts[r] : cohorts[r][j].purpose \in purposes}}
<1>1. QueuedFor({"held-out-evaluation", "diagnostic-development"}) = Queued(r)
  BY FrozenQueuesAreSound DEF Queued, QueueIsSound
<1>2. QueuedFor({"held-out-evaluation"}) = Evaluated(r)
  BY DEF Evaluated
<1>3. summary.complete <=> Queued(r) # {} /\ Queued(r) \subseteq Labelled(r)
  BY CompleteMeansLabelled
<1>4. /\ summary.incomplete_count = Cardinality(Evaluated(r)) - Cardinality(EvaluationLabels(r))
      /\ summary.reviewed_count = Cardinality(EvaluationLabels(r))
      /\ summary.pass_count = Cardinality({l \in EvaluationLabels(r) : Aggregate(l.dimensions) = "pass"})
  BY DEF Summary, Evaluated, EvaluationLabels
<1>5. summary.pass_count <= summary.reviewed_count
  <2> DEFINE passed == {l \in EvaluationLabels(r) : Aggregate(l.dimensions) = "pass"}
  <2>1. passed \in SUBSET EvaluationLabels(r) /\ IsFiniteSet(EvaluationLabels(r))
    BY OpenMeansUnlabelled
  <2>2. Cardinality(passed) <= Cardinality(EvaluationLabels(r))
    BY <2>1, FS_Subset
  <2>3. QED
    BY <1>4, <2>2
<1>6. summary.incomplete_count = Cardinality(Evaluated(r) \ Labelled(r))
  BY <1>4, OpenMeansUnlabelled
<1>7. \A l \in labels[r] : l.episode \in summary.approved =>
          \A d \in Dimension : l.dimensions[d].verdict = "pass"
  BY ApprovedMeansPassed
<1>8. QED
  BY <1>1, <1>2, <1>3, <1>5, <1>6, <1>7, Zenon DEF Labelled

(* What reviewers are shown, and what the summary makes of their labels, is     *)
(* sound (quality.py:575-734, 766-791).                                         *)
THEOREM ReviewsAreSound == Spec => []ReviewIsSound
<1>1. ReviewInvariant => ReviewIsSound
  BY QueuesSayWhatTheyHold, NobodyIsReviewedTwice, SummariesAreTrue DEF ReviewIsSound
<1>2. QED
  BY <1>1, ReviewKeepsInvariant, PTL

--------------------------------------------------------------------------------
(* An eligible policy: what it means that no reason was found. *)

LEMMA NoReasons ==
  ASSUME NEW checks, Reasons(checks) = {}, NEW name, NEW condition, <<name, condition>> \in checks
  PROVE  ~condition
<1>1. ASSUME condition PROVE FALSE
  <2>1. <<name, condition>> \in {c \in checks : c[2]}
    BY <1>1
  <2>2. name \in Reasons(checks)
    BY <2>1 DEF Reasons
  <2>3. QED
    BY <2>2
<1>2. QED
  BY <1>1

(* The checks that have to fail, one by one.                                    *)
DevelopmentIsSound(policy, development) ==
    /\ ~development.unavailable
    /\ ~(Metrics(development.reviewed).reviewed < ReviewQuota)
    /\ ~(Metrics(development.reviewed).missing > 0)
    /\ AllNonpassesIncluded(development)
EvaluationIsSound(policy, development, evaluation) ==
    /\ ~evaluation.unavailable
    /\ ~(Metrics(evaluation.reviewed).reviewed < ReviewQuota)
    /\ ~(Metrics(evaluation.reviewed).missing > 0)
    /\ SelectionIsComplete(evaluation)
    /\ PolicyIsBound(policy, evaluation)
    /\ Disjoint(development, evaluation)
ScopeIsSound(policy, reviewed) ==
    /\ Domains(reviewed) = policy.domains
    /\ \A x \in reviewed :
           /\ x.scope = policy.scope /\ x.models = policy.models
           /\ x.judged_by = policy.judge /\ x.settings = policy.settings
RatesAreSound(evaluation) ==
    LET overall == Metrics(evaluation.reviewed)
        PerDomain(domain) == Metrics(InDomain(evaluation.reviewed, domain)).false_pass
    IN  /\ RateAtLeast(overall.agreement, AgreementMinimum)
        /\ overall.false_pass.denominator # 0 /\ RateAtMost(overall.false_pass, FalsePassMaximum)
        /\ overall.false_fail.denominator # 0 /\ RateAtMost(overall.false_fail, FalseFailMaximum)
        /\ ~(overall.critical.numerator > 0)
        /\ \A domain \in Domains(evaluation.candidates) :
               RateAtMost(PerDomain(domain), DomainFalsePassMaximum)

LEMMA EligiblePolicies ==
  ASSUME NEW policy \in Policy, PolicyReasons(policy) = {}
  PROVE  policy.judge # None /\ policy.judge \notin policy.models
<1> DEFINE missing == None \in {policy[f] : f \in DOMAIN policy} \/ policy.domains = {}
           checks == {<<"policy_judge_identity_not_independent", policy.judge \in policy.models>>}
<1>1. ~missing /\ Reasons(checks) = {}
  BY DEF PolicyReasons
<1>2. "judge" \in DOMAIN policy
  BY EnforcementAssumption
<1>3. policy.judge # None
  BY <1>1, <1>2
<1>4. ~(policy.judge \in policy.models)
  <2>1. <<"policy_judge_identity_not_independent", policy.judge \in policy.models>> \in checks
    OBVIOUS
  <2> HIDE DEF checks
  <2>2. QED
    BY <1>1, <2>1, NoReasons, Zenon
<1>5. QED
  BY <1>3, <1>4

LEMMA EligibleDevelopment ==
  ASSUME NEW policy, NEW development, DevelopmentReasons(policy, development) = {}
  PROVE  DevelopmentIsSound(policy, development)
<1> DEFINE overall == Metrics(development.reviewed)
           checks == {
               <<"development_evidence_unavailable", development.unavailable>>,
               <<"development_review_quota_not_met", overall.reviewed < ReviewQuota>>,
               <<"development_human_labels_incomplete", overall.missing > 0>>,
               <<"development_nonpass_or_unavailable_not_fully_reviewed", ~AllNonpassesIncluded(development)>>,
               <<"development_passes_not_stratified", ~PassesStratified(development)>>,
               <<"development_domain_review_quota_not_met", DomainQuotaMissed(policy, development)>>}
<1>1. Reasons(checks) = {}
  BY DEF DevelopmentReasons
<1>2. ~development.unavailable
  <2>1. <<"development_evidence_unavailable", development.unavailable>> \in checks
    OBVIOUS
  <2> HIDE DEF checks
  <2>2. QED
    BY <1>1, <2>1, NoReasons, Zenon
<1>3. ~(overall.reviewed < ReviewQuota)
  <2>1. <<"development_review_quota_not_met", overall.reviewed < ReviewQuota>> \in checks
    OBVIOUS
  <2> HIDE DEF checks
  <2>2. QED
    BY <1>1, <2>1, NoReasons, Zenon
<1>4. ~(overall.missing > 0)
  <2>1. <<"development_human_labels_incomplete", overall.missing > 0>> \in checks
    OBVIOUS
  <2> HIDE DEF checks
  <2>2. QED
    BY <1>1, <2>1, NoReasons, Zenon
<1>5. AllNonpassesIncluded(development)
  <2>1. <<"development_nonpass_or_unavailable_not_fully_reviewed", ~AllNonpassesIncluded(development)>> \in checks
    OBVIOUS
  <2> HIDE DEF checks
  <2>2. ~(~AllNonpassesIncluded(development))
    BY <1>1, <2>1, NoReasons, Zenon
  <2>3. QED
    BY <2>2
<1>6. QED
  BY <1>2, <1>3, <1>4, <1>5 DEF DevelopmentIsSound

--------------------------------------------------------------------------------
LEMMA EligibleEvaluation ==
  ASSUME NEW policy, NEW development, NEW evaluation,
         EvaluationReasons(policy, development, evaluation) = {}
  PROVE  /\ EvaluationIsSound(policy, development, evaluation)
         /\ ScopeReasons(policy, evaluation.reviewed) = {}
<1> DEFINE overall == Metrics(evaluation.reviewed)
           checks == {
               <<"evaluation_evidence_unavailable", evaluation.unavailable>>,
               <<"evaluation_review_quota_not_met", overall.reviewed < ReviewQuota>>,
               <<"evaluation_human_labels_incomplete", overall.missing > 0>>,
               <<"evaluation_selection_not_deterministically_complete", ~SelectionIsComplete(evaluation)>>,
               <<"evaluation_policy_not_frozen_before_review", ~PolicyIsBound(policy, evaluation)>>,
               <<"evaluation_reuses_development_evidence", ~Disjoint(development, evaluation)>>,
               <<"evaluation_domain_review_quota_not_met", DomainQuotaMissed(policy, evaluation)>>}
<1>1. Reasons(checks) = {} /\ ScopeReasons(policy, evaluation.reviewed) = {}
  BY DEF EvaluationReasons
<1>2. ~(evaluation.unavailable)
  <2>1. <<"evaluation_evidence_unavailable", evaluation.unavailable>> \in checks
    OBVIOUS
  <2> HIDE DEF checks
  <2>2. QED
    BY <1>1, <2>1, NoReasons, Zenon
<1>3. ~(overall.reviewed < ReviewQuota)
  <2>1. <<"evaluation_review_quota_not_met", overall.reviewed < ReviewQuota>> \in checks
    OBVIOUS
  <2> HIDE DEF checks
  <2>2. QED
    BY <1>1, <2>1, NoReasons, Zenon
<1>4. ~(overall.missing > 0)
  <2>1. <<"evaluation_human_labels_incomplete", overall.missing > 0>> \in checks
    OBVIOUS
  <2> HIDE DEF checks
  <2>2. QED
    BY <1>1, <2>1, NoReasons, Zenon
<1>5. ~(~SelectionIsComplete(evaluation))
  <2>1. <<"evaluation_selection_not_deterministically_complete", ~SelectionIsComplete(evaluation)>> \in checks
    OBVIOUS
  <2> HIDE DEF checks
  <2>2. QED
    BY <1>1, <2>1, NoReasons, Zenon
<1>6. ~(~PolicyIsBound(policy, evaluation))
  <2>1. <<"evaluation_policy_not_frozen_before_review", ~PolicyIsBound(policy, evaluation)>> \in checks
    OBVIOUS
  <2> HIDE DEF checks
  <2>2. QED
    BY <1>1, <2>1, NoReasons, Zenon
<1>7. ~(~Disjoint(development, evaluation))
  <2>1. <<"evaluation_reuses_development_evidence", ~Disjoint(development, evaluation)>> \in checks
    OBVIOUS
  <2> HIDE DEF checks
  <2>2. QED
    BY <1>1, <2>1, NoReasons, Zenon
<1>8. QED
  BY <1>1, <1>2, <1>3, <1>4, <1>5, <1>6, <1>7 DEF EvaluationIsSound

LEMMA EligibleScope ==
  ASSUME NEW policy, NEW reviewed, ScopeReasons(policy, reviewed) = {}
  PROVE  ScopeIsSound(policy, reviewed)
<1> DEFINE checks == {
               <<"evaluation_domain_scope_mismatch", Domains(reviewed) # policy.domains>>,
               <<"evaluation_contains_noneligible_episode", \E x \in reviewed : ~x.eligible>>,
               <<"evaluation_canonical_group_evidence_missing", \E x \in reviewed : x.group = None>>,
               <<"evaluation_source_or_task_scope_mismatch", \E x \in reviewed : x.scope # policy.scope>>,
               <<"evaluation_generator_or_agent_identity_mismatch", \E x \in reviewed : x.models # policy.models>>,
               <<"evaluation_judge_identity_mismatch", \E x \in reviewed : x.judged_by # policy.judge>>,
               <<"evaluation_model_settings_mismatch", \E x \in reviewed : x.settings # policy.settings>>}
<1>1. Reasons(checks) = {}
  BY DEF ScopeReasons
<1>2. ~(Domains(reviewed) # policy.domains)
  <2>1. <<"evaluation_domain_scope_mismatch", Domains(reviewed) # policy.domains>> \in checks
    OBVIOUS
  <2> HIDE DEF checks
  <2>2. QED
    BY <1>1, <2>1, NoReasons, Zenon
<1>3. ~(\E x \in reviewed : x.scope # policy.scope)
  <2>1. <<"evaluation_source_or_task_scope_mismatch", \E x \in reviewed : x.scope # policy.scope>> \in checks
    OBVIOUS
  <2> HIDE DEF checks
  <2>2. QED
    BY <1>1, <2>1, NoReasons, Zenon
<1>4. ~(\E x \in reviewed : x.models # policy.models)
  <2>1. <<"evaluation_generator_or_agent_identity_mismatch", \E x \in reviewed : x.models # policy.models>> \in checks
    OBVIOUS
  <2> HIDE DEF checks
  <2>2. QED
    BY <1>1, <2>1, NoReasons, Zenon
<1>5. ~(\E x \in reviewed : x.judged_by # policy.judge)
  <2>1. <<"evaluation_judge_identity_mismatch", \E x \in reviewed : x.judged_by # policy.judge>> \in checks
    OBVIOUS
  <2> HIDE DEF checks
  <2>2. QED
    BY <1>1, <2>1, NoReasons, Zenon
<1>6. ~(\E x \in reviewed : x.settings # policy.settings)
  <2>1. <<"evaluation_model_settings_mismatch", \E x \in reviewed : x.settings # policy.settings>> \in checks
    OBVIOUS
  <2> HIDE DEF checks
  <2>2. QED
    BY <1>1, <2>1, NoReasons, Zenon
<1>7. QED
  BY <1>2, <1>3, <1>4, <1>5, <1>6 DEF ScopeIsSound

LEMMA EligibleRates ==
  ASSUME NEW evaluation, ThresholdReasons(evaluation) = {}
  PROVE  RatesAreSound(evaluation)
<1> DEFINE overall == Metrics(evaluation.reviewed)
           PerDomain(domain) == Metrics(InDomain(evaluation.reviewed, domain)).false_pass
           Above(rate, maximum) == rate.denominator # 0 /\ ~RateAtMost(rate, maximum)
           checks == {
               <<"agreement_denominator_zero", overall.agreement.denominator = 0>>,
               <<"overall_agreement_below_threshold", overall.agreement.denominator # 0 /\ ~RateAtLeast(overall.agreement, AgreementMinimum)>>,
               <<"overall_false_pass_denominator_zero", overall.false_pass.denominator = 0>>,
               <<"overall_false_pass_above_threshold", Above(overall.false_pass, FalsePassMaximum)>>,
               <<"overall_false_fail_denominator_zero", overall.false_fail.denominator = 0>>,
               <<"overall_false_fail_above_threshold", Above(overall.false_fail, FalseFailMaximum)>>,
               <<"critical_safety_false_pass_detected", overall.critical.numerator > 0>>,
               <<"per_domain_false_pass_denominator_zero", \E domain \in Domains(evaluation.candidates) : PerDomain(domain).denominator = 0>>,
               <<"per_domain_false_pass_above_threshold", \E domain \in Domains(evaluation.candidates) : Above(PerDomain(domain), DomainFalsePassMaximum)>>}
<1>1. Reasons(checks) = {}
  BY Zenon DEF ThresholdReasons
<1>2. ~(overall.agreement.denominator = 0)
  <2>1. <<"agreement_denominator_zero", overall.agreement.denominator = 0>> \in checks
    OBVIOUS
  <2> HIDE DEF checks
  <2>2. QED
    BY <1>1, <2>1, NoReasons, Zenon
<1>3. ~(overall.agreement.denominator # 0 /\ ~RateAtLeast(overall.agreement, AgreementMinimum))
  <2>1. <<"overall_agreement_below_threshold", overall.agreement.denominator # 0 /\ ~RateAtLeast(overall.agreement, AgreementMinimum)>> \in checks
    OBVIOUS
  <2> HIDE DEF checks
  <2>2. QED
    BY <1>1, <2>1, NoReasons, Zenon
<1>4. ~(overall.false_pass.denominator = 0)
  <2>1. <<"overall_false_pass_denominator_zero", overall.false_pass.denominator = 0>> \in checks
    OBVIOUS
  <2> HIDE DEF checks
  <2>2. QED
    BY <1>1, <2>1, NoReasons, Zenon
<1>5. ~(Above(overall.false_pass, FalsePassMaximum))
  <2>1. <<"overall_false_pass_above_threshold", Above(overall.false_pass, FalsePassMaximum)>> \in checks
    OBVIOUS
  <2> HIDE DEF checks
  <2>2. QED
    BY <1>1, <2>1, NoReasons, Zenon
<1>6. ~(overall.false_fail.denominator = 0)
  <2>1. <<"overall_false_fail_denominator_zero", overall.false_fail.denominator = 0>> \in checks
    OBVIOUS
  <2> HIDE DEF checks
  <2>2. QED
    BY <1>1, <2>1, NoReasons, Zenon
<1>7. ~(Above(overall.false_fail, FalseFailMaximum))
  <2>1. <<"overall_false_fail_above_threshold", Above(overall.false_fail, FalseFailMaximum)>> \in checks
    OBVIOUS
  <2> HIDE DEF checks
  <2>2. QED
    BY <1>1, <2>1, NoReasons, Zenon
<1>8. ~(overall.critical.numerator > 0)
  <2>1. <<"critical_safety_false_pass_detected", overall.critical.numerator > 0>> \in checks
    OBVIOUS
  <2> HIDE DEF checks
  <2>2. QED
    BY <1>1, <2>1, NoReasons, Zenon
<1>9. ~(\E domain \in Domains(evaluation.candidates) : PerDomain(domain).denominator = 0)
  <2>1. <<"per_domain_false_pass_denominator_zero", \E domain \in Domains(evaluation.candidates) : PerDomain(domain).denominator = 0>> \in checks
    OBVIOUS
  <2> HIDE DEF checks
  <2>2. QED
    BY <1>1, <2>1, NoReasons, Zenon
<1>10. ~(\E domain \in Domains(evaluation.candidates) : Above(PerDomain(domain), DomainFalsePassMaximum))
  <2>1. <<"per_domain_false_pass_above_threshold", \E domain \in Domains(evaluation.candidates) : Above(PerDomain(domain), DomainFalsePassMaximum)>> \in checks
    OBVIOUS
  <2> HIDE DEF checks
  <2>2. QED
    BY <1>1, <2>1, NoReasons, Zenon
<1> HIDE DEF checks
<1>11. QED
  BY <1>2, <1>3, <1>4, <1>5, <1>6, <1>7, <1>8, <1>9, <1>10, Zenon DEF RatesAreSound

--------------------------------------------------------------------------------
(* What a campaign projects: evidence of the Episodes of its runs.              *)

EvidenceIn(purpose, campaign, r, e) == Evidence(r, QueuesFor(r, purpose, campaign), e)

LEMMA ProjectionsHold ==
  ASSUME ReviewInvariant, NEW purpose, NEW campaign, ~Project(purpose, campaign).unavailable
  PROVE  /\ Campaign(purpose, campaign) \subseteq Run
         /\ \A r \in Campaign(purpose, campaign) : QueuesFor(r, purpose, campaign) # {}
         /\ \A q : q \in Project(purpose, campaign).queues <=>
                \E r \in Campaign(purpose, campaign) : \E i \in QueuesFor(r, purpose, campaign) :
                    q = cohorts[r][i]
         /\ \A x : x \in Project(purpose, campaign).candidates <=>
                \E r \in Campaign(purpose, campaign) : \E e \in EpisodesOf(runs[r]) :
                    x = EvidenceIn(purpose, campaign, r, e)
         /\ \A x : x \in Project(purpose, campaign).reviewed <=>
                \E r \in Campaign(purpose, campaign) : \E i \in QueuesFor(r, purpose, campaign) :
                \E e \in cohorts[r][i].members : x = EvidenceIn(purpose, campaign, r, e)
<1> DEFINE named == Campaign(purpose, campaign)
           held == {r \in named \cap DOMAIN runs : QueuesFor(r, purpose, campaign) # {}}
<1>1. named = held
  BY DEF Project
<1>2. named \subseteq Run /\ \A r \in named : QueuesFor(r, purpose, campaign) # {}
  BY <1>1, RunsAreReviewable
<1>3. /\ Project(purpose, campaign).queues = UNION {{cohorts[r][i] : i \in QueuesFor(r, purpose, campaign)} : r \in held}
      /\ Project(purpose, campaign).candidates =
             UNION {{EvidenceIn(purpose, campaign, r, e) : e \in EpisodesOf(runs[r])} : r \in held}
      /\ Project(purpose, campaign).reviewed =
             UNION {{EvidenceIn(purpose, campaign, r, e) :
                        e \in UNION {cohorts[r][i].members : i \in QueuesFor(r, purpose, campaign)}} : r \in held}
  BY DEF Project, EvidenceIn
<1> HIDE DEF held
<1>4. /\ \A q : q \in Project(purpose, campaign).queues <=>
             \E r \in named : \E i \in QueuesFor(r, purpose, campaign) : q = cohorts[r][i]
      /\ \A x : x \in Project(purpose, campaign).candidates <=>
             \E r \in named : \E e \in EpisodesOf(runs[r]) : x = EvidenceIn(purpose, campaign, r, e)
  BY <1>1, <1>3
<1>5. \A x : x \in Project(purpose, campaign).reviewed <=>
          \E r \in named : \E i \in QueuesFor(r, purpose, campaign) :
          \E e \in cohorts[r][i].members : x = EvidenceIn(purpose, campaign, r, e)
  BY <1>1, <1>3
<1>6. QED
  BY <1>2, <1>4, <1>5

(* Evidence says of which Episode it is and what the run recorded of it.        *)
LEMMA EvidenceIsRecorded ==
  ASSUME NEW purpose, NEW campaign, NEW r, NEW e
  PROVE  LET x == EvidenceIn(purpose, campaign, r, e)
         IN  /\ x.run = r /\ x.episode = e
             /\ x.domain = DomainOf(<<r, e>>) /\ x.judge = JudgeVerdict(<<r, e>>)
             /\ x.group = runs[r].episodes[e].group
             /\ x.judged_by = IF runs[r].episodes[e].judge = None THEN None ELSE runs[r].judge
             /\ x.models = runs[r].models /\ x.settings = runs[r].settings /\ x.scope = runs[r].scope
  BY DEF EvidenceIn, Evidence, DomainOf, JudgeVerdict

(* A human verdict is that of the one label the Episode has, for a queue of the *)
(* campaign.                                                                    *)
LEMMA VerdictsAreLabels ==
  ASSUME ReviewInvariant, NEW purpose, NEW campaign, NEW r \in Run, NEW e,
         EvidenceIn(purpose, campaign, r, e).human # None
  PROVE  \E i \in QueuesFor(r, purpose, campaign), l \in labels[r] :
             /\ Answers(l, cohorts[r][i]) /\ l.episode = e /\ Labels(<<r, e>>) = {l}
             /\ EvidenceIn(purpose, campaign, r, e).human = Aggregate(l.dimensions)
             /\ CriticalSafetyFailure(l.dimensions) => EvidenceIn(purpose, campaign, r, e).critical
<1> DEFINE queues == QueuesFor(r, purpose, campaign)
           queue == QueueOf(r, queues, e)
           dimensions == LabelOf(r, queue, e)
           found == {l \in labels[r] : queue # None /\ l.cohort = queue.id /\ l.episode = e}
           holding == {i \in queues : e \in cohorts[r][i].members}
<1>1. EvidenceIn(purpose, campaign, r, e).human = IF dimensions = None THEN None ELSE Aggregate(dimensions)
  BY DEF EvidenceIn, Evidence
<1>2. EvidenceIn(purpose, campaign, r, e).critical = (dimensions # None /\ CriticalSafetyFailure(dimensions))
  BY DEF EvidenceIn, Evidence
<1>3. dimensions # None
  BY <1>1
<1>4. found # {} /\ dimensions = (CHOOSE l \in found : TRUE).dimensions
  BY <1>3 DEF LabelOf
<1>5. PICK l \in found : l = CHOOSE m \in found : TRUE
  BY <1>4
<1>6. dimensions = l.dimensions
  BY <1>4, <1>5
<1>7. queue # None /\ l \in labels[r] /\ l.cohort = queue.id /\ l.episode = e
  BY <1>5
<1>8. holding # {} /\ queue = cohorts[r][CHOOSE i \in holding : TRUE]
  BY <1>7 DEF QueueOf
<1>9. PICK i \in holding : queue = cohorts[r][i]
  BY <1>8
<1>10. i \in DOMAIN cohorts[r] /\ e \in cohorts[r][i].members
  BY <1>9 DEF QueuesFor
<1>11. Answers(l, cohorts[r][i])
  BY <1>7, <1>10, OneLabelEach
<1>12. Labels(<<r, e>>) = {l}
  BY <1>7, OneLabelEach DEF Labels
<1>13. EvidenceIn(purpose, campaign, r, e).human = Aggregate(l.dimensions)
  BY <1>1, <1>3, <1>6
<1>14. CriticalSafetyFailure(l.dimensions) => EvidenceIn(purpose, campaign, r, e).critical
  BY <1>2, <1>3, <1>6, Zenon
<1>15. QED
  BY <1>7, <1>9, <1>11, <1>12, <1>13, <1>14

(* The Episodes of a campaign, and so its evidence, are finitely many.          *)
LEMMA EvidenceIsFinite ==
  ASSUME ReviewInvariant,
         NEW purpose \in {"held-out-evaluation", "diagnostic-development"}, NEW campaign \in CampaignId,
         ~Project(purpose, campaign).unavailable
  PROVE  /\ IsFiniteSet(UNION {{r} \X EpisodesOf(runs[r]) : r \in Campaign(purpose, campaign)})
         /\ IsFiniteSet(UNION {{r} \X labels[r] : r \in Campaign(purpose, campaign)})
         /\ IsFiniteSet(Project(purpose, campaign).candidates)
         /\ Project(purpose, campaign).reviewed \subseteq Project(purpose, campaign).candidates
         /\ IsFiniteSet(Project(purpose, campaign).reviewed)
<1> DEFINE named == Campaign(purpose, campaign)
           Pairs(r) == {r} \X EpisodesOf(runs[r])
           Marks(r) == {r} \X labels[r]
           pairs == UNION {Pairs(r) : r \in named}
           marks == UNION {Marks(r) : r \in named}
           f == [t \in pairs |-> EvidenceIn(purpose, campaign, t[1], t[2])]
           P == [r \in named |-> Pairs(r)]
           M == [r \in named |-> Marks(r)]
<1>1. IsFiniteSet(named) /\ named \subseteq Run
  BY EnforcementAssumption, ProjectionsHold
<1>2. \A r \in named : IsFiniteSet(Pairs(r)) /\ IsFiniteSet(Marks(r))
  <2>1. ASSUME NEW r \in named PROVE IsFiniteSet({r}) /\ IsFiniteSet(EpisodesOf(runs[r])) /\ IsFiniteSet(labels[r])
    BY <1>1, RunsAreReviewable, FS_Singleton DEF Reviewable, ReviewInvariant, LabelsAnswerQueues
  <2>2. QED
    BY <2>1, FS_Product
<1>3. IsFiniteSet(pairs)
  <2> HIDE DEF P, Pairs
  <2>1. IsFiniteSet({P[r] : r \in named})
    BY <1>1, ImageIsFinite
  <2>2. {P[r] : r \in named} = {Pairs(r) : r \in named}
    BY DEF P
  <2>3. \A S \in {Pairs(r) : r \in named} : IsFiniteSet(S)
    BY <1>2
  <2>4. QED
    BY <2>1, <2>2, <2>3, FS_UNION
<1>4. IsFiniteSet(marks)
  <2> HIDE DEF M, Marks
  <2>1. IsFiniteSet({M[r] : r \in named})
    BY <1>1, ImageIsFinite
  <2>2. {M[r] : r \in named} = {Marks(r) : r \in named}
    BY DEF M
  <2>3. \A S \in {Marks(r) : r \in named} : IsFiniteSet(S)
    BY <1>2
  <2>4. QED
    BY <2>1, <2>2, <2>3, FS_UNION
<1>5. Project(purpose, campaign).candidates = {f[t] : t \in pairs}
  <2>1. ASSUME NEW x \in Project(purpose, campaign).candidates PROVE \E t \in pairs : x = f[t]
    <3>1. PICK r \in named : \E e \in EpisodesOf(runs[r]) : x = EvidenceIn(purpose, campaign, r, e)
      BY ProjectionsHold
    <3>2. PICK e \in EpisodesOf(runs[r]) : x = EvidenceIn(purpose, campaign, r, e)
      BY <3>1
    <3>3. <<r, e>> \in pairs
      OBVIOUS
    <3>4. QED
      BY <3>2, <3>3
  <2>2. ASSUME NEW t \in pairs PROVE f[t] \in Project(purpose, campaign).candidates
    <3>1. PICK r \in named : t \in {r} \X EpisodesOf(runs[r])
      OBVIOUS
    <3>2. f[t] = EvidenceIn(purpose, campaign, r, t[2]) /\ t[2] \in EpisodesOf(runs[r])
      BY <3>1
    <3>3. QED
      BY <3>2, ProjectionsHold
  <2> HIDE DEF f, pairs
  <2>3. QED
    BY <2>1, <2>2
<1>6. IsFiniteSet(Project(purpose, campaign).candidates)
  <2> HIDE DEF f, pairs
  <2>1. QED
    BY <1>3, <1>5, ImageIsFinite
<1>7. Project(purpose, campaign).reviewed \subseteq Project(purpose, campaign).candidates
  <2>1. ASSUME NEW x \in Project(purpose, campaign).reviewed
        PROVE  x \in Project(purpose, campaign).candidates
    <3>1. PICK r \in named : \E i \in QueuesFor(r, purpose, campaign) :
              \E e \in cohorts[r][i].members : x = EvidenceIn(purpose, campaign, r, e)
      BY ProjectionsHold
    <3>2. PICK i \in QueuesFor(r, purpose, campaign) :
              \E e \in cohorts[r][i].members : x = EvidenceIn(purpose, campaign, r, e)
      BY <3>1
    <3>3. PICK e \in cohorts[r][i].members : x = EvidenceIn(purpose, campaign, r, e)
      BY <3>2
    <3>4. e \in EpisodesOf(runs[r])
      BY <1>1, FrozenQueuesAreSound DEF QueueIsSound, QueuesFor
    <3>5. QED
      BY <3>3, <3>4, ProjectionsHold
  <2>2. QED
    BY <2>1
<1>8. IsFiniteSet(Project(purpose, campaign).reviewed)
  BY <1>6, <1>7, FS_Subset
<1>9. QED
  BY <1>3, <1>4, <1>6, <1>7, <1>8
--------------------------------------------------------------------------------
(* An activation: its evaluation is a copy of what runs and labels say of its   *)
(* tests, one to one.                                                           *)

Development(a) == Project("diagnostic-development", a.tuning)
Evaluation(a) == Project("held-out-evaluation", a.testing)
ProofOf(a, t) == EvidenceIn("held-out-evaluation", a.testing, t[1], t[2])

LEMMA ActivationsWereChecked ==
  ASSUME NEW a \in Activations
  PROVE  /\ a.policy \in Policy /\ a.tuning \in CampaignId /\ a.testing \in CampaignId
         /\ a.policy.judge # None /\ a.policy.judge \notin a.policy.models
         /\ DevelopmentIsSound(a.policy, Development(a))
         /\ EvaluationIsSound(a.policy, Development(a), Evaluation(a))
         /\ ScopeIsSound(a.policy, Evaluation(a).reviewed)
         /\ RatesAreSound(Evaluation(a))
<1>1. /\ a.policy \in Policy /\ a.tuning \in CampaignId /\ a.testing \in CampaignId
      /\ Eligible(a.policy, a.tuning, a.testing)
  BY DEF Activations
<1>2. IneligibilityReasons(a.policy, Development(a), Evaluation(a)) = {}
  BY <1>1 DEF Eligible, Report, Development, Evaluation
<1>3. /\ PolicyReasons(a.policy) = {} /\ DevelopmentReasons(a.policy, Development(a)) = {}
      /\ EvaluationReasons(a.policy, Development(a), Evaluation(a)) = {}
      /\ ThresholdReasons(Evaluation(a)) = {}
  BY <1>2 DEF IneligibilityReasons
<1>4. QED
  BY <1>1, <1>3, EligiblePolicies, EligibleDevelopment, EligibleEvaluation, EligibleScope, EligibleRates

LEMMA NothingIsMissing ==
  ASSUME NEW reviewed, IsFiniteSet(reviewed), ~(Metrics(reviewed).missing > 0)
  PROVE  \A x \in reviewed : x.human # None
<1> DEFINE labelled == {x \in reviewed : x.human # None}
           open == reviewed \ labelled
<1>1. Metrics(reviewed).missing = Cardinality(open)
  BY DEF Metrics
<1>2. IsFiniteSet(open)
  BY FS_Difference
<1> HIDE DEF open
<1>3. Cardinality(open) \in Nat
  BY <1>2, FS_CardinalityType
<1>4. Cardinality(open) = 0
  BY <1>1, <1>3
<1>5. open = {}
  BY <1>2, <1>4, FS_EmptySet
<1>6. QED
  BY <1>5 DEF open

(* What was reviewed are the tests, each with the label it has.                 *)
LEMMA TestsAreReviewed ==
  ASSUME ReviewInvariant, NEW a \in Activations
  PROVE  /\ TestingRuns(a) \subseteq Run /\ IsFiniteSet(Tests(a))
         /\ \A t \in Tests(a) : ProofOf(a, t) \in Evaluation(a).reviewed
         /\ \A x \in Evaluation(a).reviewed : \E t \in Tests(a) : x = ProofOf(a, t)
         /\ Evaluation(a).reviewed \subseteq Evaluation(a).candidates
<1> DEFINE purpose == "held-out-evaluation"
           evaluation == Evaluation(a)
<1>1. /\ a.testing \in CampaignId /\ ~Project(purpose, a.testing).unavailable
      /\ SelectionIsComplete(evaluation)
  BY ActivationsWereChecked DEF EvaluationIsSound, Evaluation
<1>2. {x \in evaluation.candidates : x.eligible} = evaluation.reviewed
  BY <1>1 DEF SelectionIsComplete
<1>3. \A x : x \in evaluation.candidates <=>
          \E r \in TestingRuns(a) : \E e \in EpisodesOf(runs[r]) : x = EvidenceIn(purpose, a.testing, r, e)
  BY <1>1, ProjectionsHold DEF Evaluation, TestingRuns
<1>4. \A t : t \in Tests(a) <=>
          \E r \in TestingRuns(a) : \E e \in EpisodesOf(runs[r]) : runs[r].episodes[e].gates /\ t = <<r, e>>
  BY DEF Tests
<1>5. TestingRuns(a) \subseteq Run
  BY <1>1, ProjectionsHold DEF TestingRuns
<1>6. IsFiniteSet(Tests(a))
  <2> DEFINE pairs == UNION {{r} \X EpisodesOf(runs[r]) : r \in Campaign(purpose, a.testing)}
  <2>1. IsFiniteSet(pairs)
    BY <1>1, EvidenceIsFinite
  <2>2. Tests(a) \subseteq pairs
    <3>1. ASSUME NEW t \in Tests(a) PROVE t \in pairs
      <4>1. PICK r \in TestingRuns(a) : \E e \in EpisodesOf(runs[r]) : t = <<r, e>>
        BY <1>4
      <4>2. QED
        BY <4>1 DEF TestingRuns
    <3>2. QED
      BY <3>1
  <2>3. QED
    BY <2>1, <2>2, FS_Subset
<1>7. ASSUME NEW t \in Tests(a) PROVE ProofOf(a, t) \in evaluation.reviewed
  <2>1. PICK r \in TestingRuns(a) : \E e \in EpisodesOf(runs[r]) : runs[r].episodes[e].gates /\ t = <<r, e>>
    BY <1>4
  <2>2. PICK e \in EpisodesOf(runs[r]) : runs[r].episodes[e].gates /\ t = <<r, e>>
    BY <2>1
  <2>3. ProofOf(a, t) = EvidenceIn(purpose, a.testing, r, e)
    BY <2>2 DEF ProofOf
  <2>4. ProofOf(a, t) \in evaluation.candidates
    BY <1>3, <2>3
  <2>5. ProofOf(a, t).eligible
    <3>1. ProofOf(a, t).eligible = runs[r].episodes[e].gates
      BY <2>3, SMT DEF EvidenceIn, Evidence
    <3>2. QED
      BY <2>2, <3>1, Zenon
  <2>6. QED
    BY <1>2, <2>4, <2>5, Zenon
<1>8. ASSUME NEW x \in evaluation.reviewed PROVE \E t \in Tests(a) : x = ProofOf(a, t)
  <2>1. x \in evaluation.candidates /\ x.eligible
    BY <1>2, Zenon
  <2>2. PICK r \in TestingRuns(a) : \E e \in EpisodesOf(runs[r]) : x = EvidenceIn(purpose, a.testing, r, e)
    BY <1>3, <2>1
  <2>3. PICK e \in EpisodesOf(runs[r]) : x = EvidenceIn(purpose, a.testing, r, e)
    BY <2>2
  <2>4. runs[r].episodes[e].gates
    <3>1. x.eligible = runs[r].episodes[e].gates
      BY <2>3, SMT DEF EvidenceIn, Evidence
    <3>2. QED
      BY <2>1, <3>1, Zenon
  <2>5. <<r, e>> \in Tests(a)
    BY <1>4, <2>4, Zenon
  <2>6. x = ProofOf(a, <<r, e>>)
    BY <2>3 DEF ProofOf
  <2>7. QED
    BY <2>5, <2>6
<1>9. evaluation.reviewed \subseteq evaluation.candidates
  BY <1>1, EvidenceIsFinite DEF Evaluation
<1>10. QED
  BY <1>5, <1>6, <1>7, <1>8, <1>9

(* A test and its evidence say the same.                                        *)
LEMMA TestsAreRecorded ==
  ASSUME ReviewInvariant, NEW a \in Activations, NEW t \in Tests(a)
  PROVE  /\ t = <<ProofOf(a, t).run, ProofOf(a, t).episode>> /\ t[1] \in TestingRuns(a)
         /\ ProofOf(a, t).human = HumanVerdict(t) /\ ProofOf(a, t).human # None
         /\ ProofOf(a, t).judge = JudgeVerdict(t) /\ ProofOf(a, t).domain = DomainOf(t)
         /\ Cardinality(Labels(t)) = 1
         /\ \A l \in Labels(t) :
                /\ CriticalSafetyFailure(l.dimensions) => ProofOf(a, t).critical
                /\ \E i \in DOMAIN cohorts[t[1]] :
                       cohorts[t[1]][i].id = l.cohort /\ cohorts[t[1]][i].policy = a.policy
<1> DEFINE purpose == "held-out-evaluation"
           evaluation == Evaluation(a)
           x == ProofOf(a, t)
<1>1. PICK r \in TestingRuns(a) : \E e \in EpisodesOf(runs[r]) : t = <<r, e>>
  BY DEF Tests
<1>2. PICK e \in EpisodesOf(runs[r]) : t = <<r, e>>
  BY <1>1
<1>3. x = EvidenceIn(purpose, a.testing, r, e) /\ x \in evaluation.reviewed /\ r \in Run
  BY <1>2, TestsAreReviewed DEF ProofOf
<1>4. /\ a.testing \in CampaignId /\ ~Project(purpose, a.testing).unavailable
      /\ ~(Metrics(evaluation.reviewed).missing > 0) /\ PolicyIsBound(a.policy, evaluation)
  BY ActivationsWereChecked DEF EvaluationIsSound, Evaluation
<1>5. IsFiniteSet(evaluation.reviewed)
  BY <1>4, EvidenceIsFinite DEF Evaluation
<1>6. x.human # None
  BY <1>3, <1>4, <1>5, NothingIsMissing
<1>7. PICK i \in QueuesFor(r, purpose, a.testing), l \in labels[r] :
          /\ Answers(l, cohorts[r][i]) /\ l.episode = e /\ Labels(<<r, e>>) = {l}
          /\ EvidenceIn(purpose, a.testing, r, e).human = Aggregate(l.dimensions)
          /\ CriticalSafetyFailure(l.dimensions) => EvidenceIn(purpose, a.testing, r, e).critical
  <2>1. EvidenceIn(purpose, a.testing, r, e).human # None
    BY <1>3, <1>6
  <2>2. QED
    BY <1>3, <2>1, VerdictsAreLabels, Zenon
<1>8. cohorts[r][i] \in evaluation.queues
  <2>1. \A q : q \in evaluation.queues <=>
            \E s \in Campaign(purpose, a.testing) : \E j \in QueuesFor(s, purpose, a.testing) : q = cohorts[s][j]
    BY <1>4, ProjectionsHold DEF Evaluation
  <2>2. QED
    BY <2>1 DEF TestingRuns
<1>9. cohorts[r][i].policy = a.policy /\ i \in DOMAIN cohorts[r] /\ cohorts[r][i].id = l.cohort
  BY <1>4, <1>7, <1>8 DEF PolicyIsBound, QueuesFor, Answers
<1>10. x.human = HumanVerdict(t)
  BY <1>2, <1>3, <1>7 DEF HumanVerdict
<1>11. x.run = r /\ x.episode = e /\ x.judge = JudgeVerdict(t) /\ x.domain = DomainOf(t)
  BY <1>2, <1>3, EvidenceIsRecorded
<1>12. Cardinality(Labels(t)) = 1
  BY <1>2, <1>7, FS_Singleton
<1>13. t[1] = r /\ t = <<x.run, x.episode>>
  BY <1>2, <1>11
<1>14. \A m \in Labels(t) : CriticalSafetyFailure(m.dimensions) => x.critical
  <2>1. Labels(t) = {l}
    BY <1>2, <1>7
  <2>2. CriticalSafetyFailure(l.dimensions) => x.critical
    BY <1>3, <1>7, Zenon
  <2>3. QED
    BY <2>1, <2>2, Zenon
<1>15. \A m \in Labels(t) : \E j \in DOMAIN cohorts[t[1]] :
           cohorts[t[1]][j].id = m.cohort /\ cohorts[t[1]][j].policy = a.policy
  BY <1>2, <1>7, <1>9, <1>13
<1>16. QED
  BY <1>6, <1>10, <1>11, <1>12, <1>13, <1>14, <1>15, Zenon
(* So what is counted of the evidence is counted of the tests.                  *)
LEMMA CountedAlike ==
  ASSUME ReviewInvariant, NEW a \in Activations,
         NEW P \in SUBSET Tests(a), NEW Q \in SUBSET Evaluation(a).reviewed,
         \A t \in Tests(a) : t \in P <=> ProofOf(a, t) \in Q
  PROVE  Cardinality(Q) = Cardinality(P) /\ Cardinality(P) \in Nat /\ (P = {} <=> Cardinality(P) = 0)
<1> DEFINE f == [t \in P |-> ProofOf(a, t)]
<1>1. IsFiniteSet(P)
  BY TestsAreReviewed, FS_Subset
<1>2. \A t, u \in P : f[t] = f[u] => t = u
  <2>1. ASSUME NEW t \in P, NEW u \in P, ProofOf(a, t) = ProofOf(a, u) PROVE t = u
    <3>1. /\ t = <<ProofOf(a, t).run, ProofOf(a, t).episode>>
          /\ u = <<ProofOf(a, u).run, ProofOf(a, u).episode>>
      BY TestsAreRecorded
    <3>2. QED
      BY <2>1, <3>1
  <2>2. QED
    BY <2>1
<1>3. Q = {f[t] : t \in P}
  <2>1. ASSUME NEW x \in Q PROVE \E t \in P : x = f[t]
    <3>1. PICK t \in Tests(a) : x = ProofOf(a, t)
      BY TestsAreReviewed
    <3>2. QED
      BY <3>1
  <2>2. \A t \in P : f[t] \in Q
    OBVIOUS
  <2>3. QED
    BY <2>1, <2>2
<1> HIDE DEF f
<1>4. Cardinality(Q) = Cardinality(P)
  BY <1>1, <1>2, <1>3, CountedOnce
<1>5. QED
  BY <1>1, <1>4, FS_CardinalityType, FS_EmptySet

(* The metrics of evidence that has all its labels.                             *)
LEMMA MetricsOfLabelled ==
  ASSUME NEW evidence, \A x \in evidence : x.human # None
  PROVE  /\ Metrics(evidence).reviewed = Cardinality(evidence)
         /\ Metrics(evidence).agreement = Rate({x \in evidence : x.judge = x.human}, evidence)
         /\ Metrics(evidence).false_pass =
                Rate({x \in evidence : x.judge = "pass" /\ x.human # "pass"}, {x \in evidence : x.judge = "pass"})
         /\ Metrics(evidence).false_fail =
                Rate({x \in evidence : x.human = "pass" /\ x.judge # "pass"}, {x \in evidence : x.human = "pass"})
         /\ Metrics(evidence).critical =
                Rate({x \in evidence : x.judge = "pass" /\ x.critical}, {x \in evidence : x.judge = "pass"})
<1> DEFINE labelled == {x \in evidence : x.human # None}
           JudgePass == {x \in labelled : x.judge = "pass"}
           HumanPass == {x \in labelled : x.human = "pass"}
<1>1. labelled = evidence
  OBVIOUS
<1>2. /\ JudgePass = {x \in evidence : x.judge = "pass"}
      /\ HumanPass = {x \in evidence : x.human = "pass"}
  BY <1>1
<1>3. /\ {x \in JudgePass : x.human # "pass"} = {x \in evidence : x.judge = "pass" /\ x.human # "pass"}
      /\ {x \in HumanPass : x.judge # "pass"} = {x \in evidence : x.human = "pass" /\ x.judge # "pass"}
  BY <1>1
<1>4. {x \in JudgePass : x.critical} = {x \in evidence : x.judge = "pass" /\ x.critical}
  BY <1>1, Zenon
<1>5. /\ Metrics(evidence).reviewed = Cardinality(labelled)
      /\ Metrics(evidence).agreement = Rate({x \in labelled : x.judge = x.human}, labelled)
      /\ Metrics(evidence).false_pass = Rate({x \in JudgePass : x.human # "pass"}, JudgePass)
      /\ Metrics(evidence).false_fail = Rate({x \in HumanPass : x.judge # "pass"}, HumanPass)
      /\ Metrics(evidence).critical = Rate({x \in JudgePass : x.critical}, JudgePass)
  BY DEF Metrics
<1> HIDE DEF labelled, JudgePass, HumanPass
<1>6. {x \in labelled : x.judge = x.human} = {x \in evidence : x.judge = x.human}
  BY <1>1
<1>7. QED
  BY <1>1, <1>2, <1>3, <1>4, <1>5, <1>6, Zenon

(* People reviewed all there was to review.                                     *)
LEMMA EverythingWasReviewed ==
  ASSUME ReviewInvariant, NEW a \in Activations
  PROVE  ReviewedInFull(a)
<1> DEFINE purpose == "diagnostic-development"
           development == Development(a)
<1>1. /\ a.tuning \in CampaignId /\ ~Project(purpose, a.tuning).unavailable
      /\ ~(Metrics(development.reviewed).reviewed < ReviewQuota)
      /\ ~(Metrics(development.reviewed).missing > 0) /\ AllNonpassesIncluded(development)
  BY ActivationsWereChecked DEF DevelopmentIsSound, Development
<1>2. /\ IsFiniteSet(development.reviewed)
      /\ \A x \in development.reviewed : x.human # None
  BY <1>1, EvidenceIsFinite, NothingIsMissing DEF Development
<1>3. /\ TuningRuns(a) \subseteq Run
      /\ \A x : x \in development.candidates <=>
             \E r \in TuningRuns(a) : \E e \in EpisodesOf(runs[r]) : x = EvidenceIn(purpose, a.tuning, r, e)
      /\ development.reviewed \subseteq development.candidates
  BY <1>1, ProjectionsHold, EvidenceIsFinite DEF Development, TuningRuns
<1>4. ASSUME NEW r \in TuningRuns(a), NEW e \in EpisodesOf(runs[r]),
             EvidenceIn(purpose, a.tuning, r, e) \in development.reviewed
      PROVE  \E l \in labels[r] : l.episode = e
  <2>1. EvidenceIn(purpose, a.tuning, r, e).human # None /\ r \in Run
    BY <1>2, <1>3, <1>4
  <2>2. PICK i \in QueuesFor(r, purpose, a.tuning), l \in labels[r] :
            /\ Answers(l, cohorts[r][i]) /\ l.episode = e /\ Labels(<<r, e>>) = {l}
            /\ EvidenceIn(purpose, a.tuning, r, e).human = Aggregate(l.dimensions)
            /\ CriticalSafetyFailure(l.dimensions) => EvidenceIn(purpose, a.tuning, r, e).critical
    BY <2>1, VerdictsAreLabels, Zenon
  <2>3. QED
    BY <2>2
<1>5. ASSUME NEW r \in TuningRuns(a), NEW e \in Doubts(runs[r]) PROVE Labels(<<r, e>>) # {}
  <2> DEFINE x == EvidenceIn(purpose, a.tuning, r, e)
  <2>1. e \in EpisodesOf(runs[r]) /\ runs[r].episodes[e].judge # "pass"
    BY DEF Doubts
  <2>2. x.judge # "pass"
    <3>1. x.judge = JudgeVerdict(<<r, e>>)
      BY EvidenceIsRecorded
    <3>2. QED
      BY <2>1, <3>1 DEF JudgeVerdict
  <2>3. x \in development.candidates
    BY <1>3, <2>1
  <2> HIDE DEF x
  <2>4. x \in development.reviewed
    BY <1>1, <2>2, <2>3 DEF AllNonpassesIncluded
  <2>5. PICK l \in labels[r] : l.episode = e
    BY <1>4, <2>1, <2>4 DEF x
  <2>6. QED
    BY <2>5 DEF Labels
<1>6. Cardinality(UNION {{r} \X labels[r] : r \in TuningRuns(a)}) >= ReviewQuota
  <2> DEFINE marks == UNION {{r} \X labels[r] : r \in TuningRuns(a)}
             Mark(x) == <<x.run, CHOOSE l \in labels[x.run] : l.episode = x.episode>>
             g == [x \in development.reviewed |-> Mark(x)]
  <2>1. IsFiniteSet(marks)
    BY <1>1, EvidenceIsFinite DEF TuningRuns
  <2>2. ASSUME NEW x \in development.reviewed
        PROVE  /\ Mark(x) \in marks /\ Mark(x)[1] = x.run /\ Mark(x)[2].episode = x.episode
               /\ x = EvidenceIn(purpose, a.tuning, x.run, x.episode)
    <3>1. PICK r \in TuningRuns(a) : \E e \in EpisodesOf(runs[r]) : x = EvidenceIn(purpose, a.tuning, r, e)
      BY <1>3
    <3>2. PICK e \in EpisodesOf(runs[r]) : x = EvidenceIn(purpose, a.tuning, r, e)
      BY <3>1
    <3>3. x.run = r /\ x.episode = e
      BY <3>2 DEF EvidenceIn, Evidence
    <3>4. \E l \in labels[r] : l.episode = e
      BY <1>4, <3>2
    <3>5. PICK l \in labels[r] : l.episode = e /\ Mark(x) = <<r, l>>
      BY <3>3, <3>4
    <3>6. Mark(x) \in marks
      <4>1. <<r, l>> \in marks
        OBVIOUS
      <4> HIDE DEF Mark, marks
      <4>2. QED
        BY <3>5, <4>1
    <3>7. QED
      BY <3>2, <3>3, <3>5, <3>6
  <2> HIDE DEF Mark, marks
  <2>3. g \in Injection(development.reviewed, marks)
    <3>1. g \in [development.reviewed -> marks]
      BY <2>2
    <3>2. ASSUME NEW x \in development.reviewed, NEW y \in development.reviewed, g[x] = g[y] PROVE x = y
      <4>1. x.run = y.run /\ x.episode = y.episode
        BY <2>2, <3>2
      <4>2. QED
        BY <2>2, <4>1
    <3>3. QED
      BY <3>1, <3>2 DEF Injection, IsInjective
  <2> HIDE DEF g
  <2>4. Cardinality(development.reviewed) <= Cardinality(marks)
    BY <2>1, <2>3, FS_Injection
  <2>5. Metrics(development.reviewed).reviewed = Cardinality(development.reviewed)
    BY <1>2, MetricsOfLabelled
  <2>6. Cardinality(development.reviewed) \in Nat /\ Cardinality(marks) \in Nat
    BY <1>2, <2>1, FS_CardinalityType
  <2>7. Cardinality(marks) >= ReviewQuota
    BY <1>1, <2>4, <2>5, <2>6, QuotaAssumption
  <2>8. QED
    BY <2>7 DEF marks
<1>7. \A t \in Tests(a) : Cardinality(Labels(t)) = 1
  BY TestsAreRecorded
<1>8. Cardinality(Tests(a)) >= ReviewQuota
  <2> DEFINE reviewed == Evaluation(a).reviewed
  <2>1. Cardinality(reviewed) = Cardinality(Tests(a)) /\ Cardinality(Tests(a)) \in Nat
    <3>1. reviewed \in SUBSET Evaluation(a).reviewed /\ \A t \in Tests(a) : ProofOf(a, t) \in reviewed
      BY TestsAreReviewed
    <3> HIDE DEF reviewed
    <3>2. QED
      BY <3>1, CountedAlike
  <2>2. \A x \in reviewed : x.human # None
    BY TestsAreReviewed, TestsAreRecorded
  <2>3. ~(Metrics(reviewed).reviewed < ReviewQuota)
    BY ActivationsWereChecked DEF EvaluationIsSound
  <2>4. Metrics(reviewed).reviewed = Cardinality(reviewed)
    BY <2>2, MetricsOfLabelled
  <2>5. QED
    BY <2>1, <2>3, <2>4, QuotaAssumption
<1>9. QED
  BY <1>5, <1>6, <1>7, <1>8 DEF ReviewedInFull
--------------------------------------------------------------------------------
(* Rates of evidence are rates of the tests it is of.                           *)
LEMMA RatesAreAlike ==
  ASSUME ReviewInvariant, NEW a \in Activations,
         NEW T \in SUBSET Tests(a), NEW E \in SUBSET Evaluation(a).reviewed,
         \A t \in Tests(a) : t \in T <=> ProofOf(a, t) \in E
  PROVE  /\ Metrics(E).agreement = Rate({t \in T : JudgeVerdict(t) = HumanVerdict(t)}, T)
         /\ Metrics(E).false_pass = Rate(FalsePasses(T), JudgePassed(T))
         /\ Metrics(E).false_fail = Rate(FalseFails(T), HumanPassed(T))
<1>1. \A t \in Tests(a) :
          /\ ProofOf(a, t).judge = JudgeVerdict(t) /\ ProofOf(a, t).human = HumanVerdict(t)
          /\ ProofOf(a, t).human # None
  BY TestsAreRecorded
<1>2. \A x \in E : x.human # None
  BY <1>1, TestsAreReviewed
<1>3. Cardinality(E) = Cardinality(T)
  BY CountedAlike
<1>4. Cardinality({x \in E : x.judge = x.human}) = Cardinality({t \in T : JudgeVerdict(t) = HumanVerdict(t)})
  <2> DEFINE Q == {x \in E : x.judge = x.human}
             P == {t \in T : JudgeVerdict(t) = HumanVerdict(t)}
  <2>1. P \in SUBSET Tests(a) /\ Q \in SUBSET Evaluation(a).reviewed
    OBVIOUS
  <2>2. \A t \in Tests(a) : t \in P <=> ProofOf(a, t) \in Q
    BY <1>1
  <2> HIDE DEF P, Q
  <2>3. Cardinality(Q) = Cardinality(P)
    BY <2>1, <2>2, CountedAlike
  <2>4. QED
    BY <2>3 DEF P, Q
<1>5. Cardinality({x \in E : x.judge = "pass"}) = Cardinality(JudgePassed(T))
  <2> DEFINE Q == {x \in E : x.judge = "pass"}
             P == JudgePassed(T)
  <2>1. P \in SUBSET Tests(a) /\ Q \in SUBSET Evaluation(a).reviewed
    BY DEF JudgePassed
  <2>2. \A t \in Tests(a) : t \in P <=> ProofOf(a, t) \in Q
    BY <1>1 DEF JudgePassed
  <2> HIDE DEF P, Q
  <2>3. Cardinality(Q) = Cardinality(P)
    BY <2>1, <2>2, CountedAlike
  <2>4. QED
    BY <2>3 DEF P, Q
<1>6. Cardinality({x \in E : x.human = "pass"}) = Cardinality(HumanPassed(T))
  <2> DEFINE Q == {x \in E : x.human = "pass"}
             P == HumanPassed(T)
  <2>1. P \in SUBSET Tests(a) /\ Q \in SUBSET Evaluation(a).reviewed
    BY DEF HumanPassed
  <2>2. \A t \in Tests(a) : t \in P <=> ProofOf(a, t) \in Q
    BY <1>1 DEF HumanPassed
  <2> HIDE DEF P, Q
  <2>3. Cardinality(Q) = Cardinality(P)
    BY <2>1, <2>2, CountedAlike
  <2>4. QED
    BY <2>3 DEF P, Q
<1>7. Cardinality({x \in E : x.judge = "pass" /\ x.human # "pass"}) = Cardinality(FalsePasses(T))
  <2> DEFINE Q == {x \in E : x.judge = "pass" /\ x.human # "pass"}
             P == FalsePasses(T)
  <2>1. P \in SUBSET Tests(a) /\ Q \in SUBSET Evaluation(a).reviewed
    BY DEF FalsePasses, JudgePassed
  <2>2. \A t \in Tests(a) : t \in P <=> ProofOf(a, t) \in Q
    BY <1>1 DEF FalsePasses, JudgePassed
  <2> HIDE DEF P, Q
  <2>3. Cardinality(Q) = Cardinality(P)
    BY <2>1, <2>2, CountedAlike
  <2>4. QED
    BY <2>3 DEF P, Q
<1>8. Cardinality({x \in E : x.human = "pass" /\ x.judge # "pass"}) = Cardinality(FalseFails(T))
  <2> DEFINE Q == {x \in E : x.human = "pass" /\ x.judge # "pass"}
             P == FalseFails(T)
  <2>1. P \in SUBSET Tests(a) /\ Q \in SUBSET Evaluation(a).reviewed
    BY DEF FalseFails, HumanPassed
  <2>2. \A t \in Tests(a) : t \in P <=> ProofOf(a, t) \in Q
    BY <1>1 DEF FalseFails, HumanPassed
  <2> HIDE DEF P, Q
  <2>3. Cardinality(Q) = Cardinality(P)
    BY <2>1, <2>2, CountedAlike
  <2>4. QED
    BY <2>3 DEF P, Q
<1>9. /\ Metrics(E).agreement = Rate({x \in E : x.judge = x.human}, E)
      /\ Metrics(E).false_pass =
             Rate({x \in E : x.judge = "pass" /\ x.human # "pass"}, {x \in E : x.judge = "pass"})
      /\ Metrics(E).false_fail =
             Rate({x \in E : x.human = "pass" /\ x.judge # "pass"}, {x \in E : x.human = "pass"})
  BY <1>2, MetricsOfLabelled
<1>10. QED
  BY <1>3, <1>4, <1>5, <1>6, <1>7, <1>8, <1>9 DEF Rate

(* The rates that were checked are those of the table.                          *)
LEMMA TableIsMet ==
  ASSUME ReviewInvariant, NEW a \in Activations
  PROVE  MeetsTheTable(a)
<1> DEFINE tests == Tests(a)
           reviewed == Evaluation(a).reviewed
           TestsIn(d) == {t \in tests : DomainOf(t) = d}
           overall == Metrics(reviewed)
<1>1. /\ \A t \in tests : ProofOf(a, t) \in reviewed /\ ProofOf(a, t) \in Evaluation(a).candidates
      /\ \A x \in reviewed : x.human # None
      /\ \A t \in tests : ProofOf(a, t).domain = DomainOf(t) /\ ProofOf(a, t).judge = JudgeVerdict(t)
  BY TestsAreReviewed, TestsAreRecorded
<1>2. /\ overall.agreement = Rate({t \in tests : JudgeVerdict(t) = HumanVerdict(t)}, tests)
      /\ overall.false_pass = Rate(FalsePasses(tests), JudgePassed(tests))
      /\ overall.false_fail = Rate(FalseFails(tests), HumanPassed(tests))
  <2> HIDE DEF reviewed
  <2>1. reviewed \in SUBSET Evaluation(a).reviewed /\ \A t \in Tests(a) : ProofOf(a, t) \in reviewed
    BY <1>1 DEF reviewed
  <2>2. QED
    BY <2>1, RatesAreAlike
<1>3. /\ RateAtLeast(overall.agreement, AgreementMinimum)
      /\ overall.false_pass.denominator # 0 /\ RateAtMost(overall.false_pass, FalsePassMaximum)
      /\ overall.false_fail.denominator # 0 /\ RateAtMost(overall.false_fail, FalseFailMaximum)
      /\ ~(overall.critical.numerator > 0)
      /\ \A d \in Domains(Evaluation(a).candidates) :
             RateAtMost(Metrics(InDomain(reviewed, d)).false_pass, DomainFalsePassMaximum)
  BY ActivationsWereChecked, Zenon DEF RatesAreSound
<1>4. Cardinality({t \in tests : JudgeVerdict(t) = HumanVerdict(t)}) * Scale
          >= Cardinality(tests) * AgreementMinimum
  BY <1>2, <1>3 DEF RateAtLeast, Rate
<1>5. JudgePassed(tests) # {} /\ HumanPassed(tests) # {}
  <2>1. Cardinality(JudgePassed(tests)) # 0 /\ Cardinality(HumanPassed(tests)) # 0
    BY <1>2, <1>3 DEF Rate
  <2>2. QED
    BY <2>1, FS_EmptySet
<1>6. /\ AtMost(FalsePasses(tests), JudgePassed(tests), FalsePassMaximum)
      /\ AtMost(FalseFails(tests), HumanPassed(tests), FalseFailMaximum)
  BY <1>2, <1>3 DEF AtMost, RateAtMost, Rate
<1>7. ASSUME NEW t \in tests
      PROVE  LET d == DomainOf(t)
             IN  AtMost(FalsePasses(TestsIn(d)), JudgePassed(TestsIn(d)), DomainFalsePassMaximum)
  <2>1. PICK d : d = DomainOf(t)
    OBVIOUS
  <2>2. d \in Domains(Evaluation(a).candidates)
    BY <1>1, <2>1 DEF Domains
  <2>3. PICK T : T = TestsIn(d)
    OBVIOUS
  <2>4. PICK E : E = InDomain(reviewed, d)
    OBVIOUS
  <2>5. T \in SUBSET Tests(a) /\ E \in SUBSET Evaluation(a).reviewed
    BY <2>3, <2>4 DEF InDomain
  <2>6. \A u \in Tests(a) : u \in T <=> ProofOf(a, u) \in E
    BY <1>1, <2>3, <2>4 DEF InDomain
  <2>7. Metrics(E).false_pass = Rate(FalsePasses(T), JudgePassed(T))
    BY <2>5, <2>6, RatesAreAlike
  <2>8. RateAtMost(Metrics(E).false_pass, DomainFalsePassMaximum)
    BY <1>3, <2>2, <2>4
  <2>9. AtMost(FalsePasses(T), JudgePassed(T), DomainFalsePassMaximum)
    BY <2>7, <2>8 DEF AtMost, RateAtMost, Rate
  <2>10. QED
    BY <2>1, <2>3, <2>9
<1>8. ASSUME NEW t \in JudgePassed(tests), NEW l \in Labels(t), CriticalSafetyFailure(l.dimensions)
      PROVE  FALSE
  <2> DEFINE missed == {x \in reviewed : x.judge = "pass" /\ x.critical}
  <2>1. t \in tests /\ JudgeVerdict(t) = "pass"
    BY DEF JudgePassed
  <2>2. ProofOf(a, t).critical
    BY <1>8, <2>1, TestsAreRecorded, Zenon
  <2>3. ProofOf(a, t).judge = "pass" /\ ProofOf(a, t) \in reviewed
    BY <1>1, <2>1
  <2>4. ProofOf(a, t) \in missed
    BY <2>2, <2>3, Zenon
  <2>5. overall.critical.numerator = Cardinality(missed)
    <3>1. overall.critical = Rate(missed, {x \in reviewed : x.judge = "pass"})
      BY <1>1, MetricsOfLabelled, Zenon
    <3> HIDE DEF missed
    <3>2. QED
      BY <3>1 DEF Rate
  <2>6. IsFiniteSet(missed)
    <3>1. IsFiniteSet(reviewed)
      BY ActivationsWereChecked, EvidenceIsFinite DEF EvaluationIsSound, Evaluation
    <3>2. missed \in SUBSET reviewed
      BY Zenon
    <3>3. QED
      BY <3>1, <3>2, FS_Subset
  <2> HIDE DEF missed
  <2>7. Cardinality(missed) = 0
    BY <1>3, <2>5, <2>6, FS_CardinalityType
  <2>8. QED
    BY <2>4, <2>6, <2>7, FS_EmptySet
<1>9. \A d \in {DomainOf(t) : t \in tests} :
          AtMost(FalsePasses(TestsIn(d)), JudgePassed(TestsIn(d)), DomainFalsePassMaximum)
  BY <1>7
<1>10. \A t \in JudgePassed(tests) : \A l \in Labels(t) : ~CriticalSafetyFailure(l.dimensions)
  BY <1>8
<1>11. QED
  BY <1>4, <1>5, <1>6, <1>9, <1>10, Zenon DEF MeetsTheTable

(* Nothing is borrowed from development, and what was evaluated is this judge.  *)
LEMMA NothingIsBorrowed ==
  ASSUME ReviewInvariant, NEW a \in Activations
  PROVE  Independent(a)
<1> DEFINE Tasks(named) == UNION {{runs[r].episodes[e].group : e \in EpisodesOf(runs[r])} : r \in named}
           Groups(campaign) == {x.group : x \in campaign.candidates}
<1>1. /\ ~Project("diagnostic-development", a.tuning).unavailable
      /\ ~Project("held-out-evaluation", a.testing).unavailable
      /\ Disjoint(Development(a), Evaluation(a))
  BY ActivationsWereChecked DEF DevelopmentIsSound, EvaluationIsSound, Development, Evaluation
<1>2. Tasks(TuningRuns(a)) \subseteq Groups(Development(a))
  <2>1. ASSUME NEW r \in TuningRuns(a), NEW e \in EpisodesOf(runs[r])
        PROVE  runs[r].episodes[e].group \in Groups(Development(a))
    <3>1. PICK x : x = EvidenceIn("diagnostic-development", a.tuning, r, e)
      OBVIOUS
    <3>2. x \in Development(a).candidates
      BY <1>1, <3>1, ProjectionsHold DEF Development, TuningRuns
    <3>3. x.group = runs[r].episodes[e].group
      BY <3>1 DEF EvidenceIn, Evidence
    <3>4. QED
      BY <3>2, <3>3
  <2>2. QED
    BY <2>1
<1>3. Tasks(TestingRuns(a)) \subseteq Groups(Evaluation(a))
  <2>1. ASSUME NEW r \in TestingRuns(a), NEW e \in EpisodesOf(runs[r])
        PROVE  runs[r].episodes[e].group \in Groups(Evaluation(a))
    <3>1. PICK x : x = EvidenceIn("held-out-evaluation", a.testing, r, e)
      OBVIOUS
    <3>2. x \in Evaluation(a).candidates
      BY <1>1, <3>1, ProjectionsHold DEF Evaluation, TestingRuns
    <3>3. x.group = runs[r].episodes[e].group
      BY <3>1 DEF EvidenceIn, Evidence
    <3>4. QED
      BY <3>2, <3>3
  <2>2. QED
    BY <2>1
<1>4. Groups(Development(a)) \cap Groups(Evaluation(a)) = {}
  BY <1>1 DEF Disjoint
<1>5. Tasks(TuningRuns(a)) \cap Tasks(TestingRuns(a)) = {}
  BY <1>2, <1>3, <1>4
<1>6. ASSUME NEW t \in Tests(a)
      PROVE  /\ runs[t[1]].judge = a.policy.judge /\ runs[t[1]].models = a.policy.models
             /\ runs[t[1]].settings = a.policy.settings /\ runs[t[1]].scope = a.policy.scope
  <2>1. PICK x : x = ProofOf(a, t)
    OBVIOUS
  <2>2. x \in Evaluation(a).reviewed
    BY <2>1, TestsAreReviewed
  <2>3. /\ x.scope = a.policy.scope /\ x.models = a.policy.models
        /\ x.judged_by = a.policy.judge /\ x.settings = a.policy.settings /\ a.policy.judge # None
    BY <2>2, ActivationsWereChecked DEF ScopeIsSound
  <2>4. x.scope = runs[t[1]].scope /\ x.models = runs[t[1]].models /\ x.settings = runs[t[1]].settings
    BY <2>1 DEF ProofOf, EvidenceIn, Evidence
  <2>5. x.judged_by = IF runs[t[1]].episodes[t[2]].judge = None THEN None ELSE runs[t[1]].judge
    BY <2>1 DEF ProofOf, EvidenceIn, Evidence
  <2>6. QED
    BY <2>3, <2>4, <2>5
<1>7. \A t \in Tests(a) : \A f \in {"judge", "models", "settings", "scope"} : runs[t[1]][f] = a.policy[f]
  BY <1>6
<1>8. a.policy.judge \notin a.policy.models
  BY ActivationsWereChecked
<1>9. QED
  BY <1>5, <1>7, <1>8, Zenon DEF Independent

(* No judge decides but on such evidence: what evaluate_semantic_enforcement    *)
(* accepts was reviewed in full under a policy that came first, meets the       *)
(* table, and has nothing of development in it (enforcement.py:400-893).        *)
THEOREM ActivationsAreEarned == Spec => []ActivationsAreSound
<1>1. ASSUME ReviewInvariant PROVE ActivationsAreSound
  <2>1. \A a \in Activations : PolicyCameFirst(a)
    BY <1>1, TestsAreRecorded DEF PolicyCameFirst
  <2>2. QED
    BY <1>1, <2>1, EverythingWasReviewed, TableIsMet, NothingIsBorrowed DEF ActivationsAreSound
<1>2. QED
  BY <1>1, ReviewKeepsInvariant, PTL
--------------------------------------------------------------------------------
(* Enforced runs. Reports and runs leave the reviews alone, so all of the above *)
(* holds while judges decide.                                                   *)

THEOREM EnforcedRunsReview == EnforcedSpec => Spec
<1>1. EnforcedInit => Init
  BY DEF EnforcedInit
<1>2. [EnforcedNext]_enforcedVars => [Next]_reviewVars
  BY DEF EnforcedNext, Review, IssueReport, StartRun, enforcedVars, reviewVars
<1>3. QED
  BY <1>1, <1>2, PTL DEF EnforcedSpec, Spec

THEOREM EnforcedReviewsAreSound ==
  EnforcedSpec => [](ReviewIsSound /\ ActivationsAreSound) /\ ReviewOnlyGrows
  BY EnforcedRunsReview, ReviewsAreSound, ActivationsAreEarned, ReviewsOnlyGrow, PTL

(* What a report without reasons says stays true: of each reviewed Episode the  *)
(* queue, the label and what was judged are on record, and the Domains are      *)
(* those of the policy.                                                         *)
OnRecord(report, x) ==
    \E i \in DOMAIN cohorts[x.run], l \in labels[x.run] :
        /\ cohorts[x.run][i].policy = report.policy
        /\ l.cohort = cohorts[x.run][i].id /\ l.episode = x.episode
        /\ Aggregate(l.dimensions) = x.human
WasJudged(report, x) ==
    /\ runs[x.run].judge = report.policy.judge /\ runs[x.run].models = report.policy.models
    /\ runs[x.run].settings = report.policy.settings /\ runs[x.run].scope = report.policy.scope
    /\ runs[x.run].episodes[x.episode].domain = x.domain
IsEarned(report) ==
    /\ Domains(report.evaluation.reviewed) = report.policy.domains
    /\ \A x \in report.evaluation.reviewed :
           x.run \in Run /\ OnRecord(report, x) /\ WasJudged(report, x)

ReportsAreEarned == \A report \in reports : report.reasons = {} => IsEarned(report)
RunsAreActivated ==
    \A s \in started :
        s.report \in reports /\ s.report.reasons = {} /\ Matches(s.report.policy, s.request)

EnforcedInvariant == ReviewInvariant /\ ReportsAreEarned /\ RunsAreActivated

LEMMA PrefixesAreKept ==
  ASSUME NEW S, NEW s \in Seq(S), NEW t \in Seq(S), IsPrefix(s, t)
  PROVE  \A i \in DOMAIN s : i \in DOMAIN t /\ t[i] = s[i]
<1>1. Len(s) \in Nat /\ Len(t) \in Nat /\ Len(s) <= Len(t) /\ SubSeq(s, 1, Len(s)) = SubSeq(t, 1, Len(s))
  BY DEF IsPrefix
<1>2. ASSUME NEW i \in DOMAIN s PROVE i \in DOMAIN t /\ t[i] = s[i]
  <2>1. i \in 1 .. Len(s)
    OBVIOUS
  <2>2. PICK n \in Nat : n = Len(s)
    BY <1>1
  <2>3. i \in 1 .. n /\ n <= Len(s) /\ n <= Len(t)
    BY <1>1, <2>1, <2>2
  <2>4. SubSeq(s, 1, n)[i] = s[i] /\ SubSeq(t, 1, n)[i] = t[i]
    BY <1>1, <2>3
  <2>5. QED
    BY <1>1, <2>1, <2>2, <2>4
<1>3. QED
  BY <1>2

LEMMA EarnedWhenIssued ==
  ASSUME ReviewInvariant, NEW policy \in Policy, NEW tuning \in CampaignId, NEW testing \in CampaignId,
         Report(policy, tuning, testing).reasons = {}
  PROVE  IsEarned(Report(policy, tuning, testing))
<1> DEFINE a == [policy |-> policy, tuning |-> tuning, testing |-> testing]
           report == Report(policy, tuning, testing)
<1>1. a \in Activations
  BY DEF Activations, Eligible
<1>2. a.policy = policy /\ report.policy = policy /\ report.evaluation = Evaluation(a)
  BY DEF Report, Evaluation
<1> HIDE DEF a, report
<1>3. Domains(report.evaluation.reviewed) = report.policy.domains
  BY <1>1, <1>2, ActivationsWereChecked DEF ScopeIsSound
<1>4. ASSUME NEW x \in report.evaluation.reviewed
      PROVE  x.run \in Run /\ OnRecord(report, x) /\ WasJudged(report, x)
  <2>1. PICK t \in Tests(a) : x = ProofOf(a, t)
    BY <1>1, <1>2, TestsAreReviewed
  <2>2. /\ t = <<x.run, x.episode>> /\ t[1] \in TestingRuns(a)
        /\ x.human = HumanVerdict(t) /\ x.domain = DomainOf(t)
        /\ Cardinality(Labels(t)) = 1
        /\ \A l \in Labels(t) : \E i \in DOMAIN cohorts[t[1]] :
               cohorts[t[1]][i].id = l.cohort /\ cohorts[t[1]][i].policy = a.policy
    BY <1>1, <2>1, TestsAreRecorded, Zenon
  <2>3. t[1] = x.run /\ t[2] = x.episode /\ x.run \in Run
    BY <1>1, <2>2, TestsAreReviewed
  <2>4. PICK l \in Labels(t) : l = CHOOSE m \in Labels(t) : TRUE
    <3>1. Labels(t) # {}
      <4>1. Cardinality({}) = 0
        BY FS_EmptySet
      <4>2. ASSUME Labels(t) = {} PROVE FALSE
        BY <2>2, <4>1, <4>2
      <4>3. QED
        BY <4>2
    <3>2. PICK L : L = Labels(t)
      OBVIOUS
    <3>3. (CHOOSE m \in L : TRUE) \in L
      BY <3>1, <3>2
    <3>4. QED
      BY <3>2, <3>3
  <2>5. l \in labels[x.run] /\ l.episode = x.episode /\ Aggregate(l.dimensions) = x.human
    BY <2>2, <2>3, <2>4 DEF Labels, HumanVerdict
  <2>6. PICK i \in DOMAIN cohorts[x.run] :
            cohorts[x.run][i].id = l.cohort /\ cohorts[x.run][i].policy = a.policy
    BY <2>2, <2>3
  <2>7. OnRecord(report, x)
    BY <1>2, <2>5, <2>6 DEF OnRecord
  <2>8. \A f \in {"judge", "models", "settings", "scope"} : runs[x.run][f] = a.policy[f]
    BY <1>1, <2>3, NothingIsBorrowed, Zenon DEF Independent
  <2>9. WasJudged(report, x)
    BY <1>2, <2>2, <2>3, <2>8 DEF WasJudged, DomainOf
  <2>10. QED
    BY <2>3, <2>7, <2>9
<1>5. IsEarned(report)
  BY <1>3, <1>4 DEF IsEarned
<1>6. QED
  BY <1>5 DEF report

(* What was earned stays earned while reviews go on.                            *)
LEMMA EarnedForever ==
  ASSUME ReviewInvariant, Next, NEW report, IsEarned(report)
  PROVE  IsEarned(report)'
<1>1. /\ ReviewInvariant' /\ runs' = runs
      /\ \A r \in Run : IsPrefix(cohorts[r], cohorts'[r]) /\ labels[r] \subseteq labels'[r]
  BY ReviewSteps
<1>2. ASSUME NEW r \in Run, NEW i \in DOMAIN cohorts[r]
      PROVE  i \in DOMAIN cohorts'[r] /\ cohorts'[r][i] = cohorts[r][i]
  <2>1. PICK S : S = BuiltQueues(runs[r])
    OBVIOUS
  <2>2. cohorts[r] \in Seq(S)
    BY <2>1 DEF ReviewInvariant, QueuesAreBuilt
  <2>3. cohorts'[r] \in Seq(BuiltQueues(runs[r])')
    BY <1>1 DEF ReviewInvariant, QueuesAreBuilt
  <2>4. BuiltQueues(runs[r])' = BuiltQueues(runs[r])
    BY <1>1
  <2>5. cohorts'[r] \in Seq(S)
    BY <2>1, <2>3, <2>4
  <2>6. QED
    BY <1>1, <2>2, <2>5, PrefixesAreKept
<1>3. ASSUME NEW x \in report.evaluation.reviewed
      PROVE  x.run \in Run /\ OnRecord(report, x)' /\ WasJudged(report, x)'
  <2>1. x.run \in Run /\ OnRecord(report, x) /\ WasJudged(report, x)
    BY DEF IsEarned
  <2>2. PICK i \in DOMAIN cohorts[x.run], l \in labels[x.run] :
            /\ cohorts[x.run][i].policy = report.policy
            /\ l.cohort = cohorts[x.run][i].id /\ l.episode = x.episode
            /\ Aggregate(l.dimensions) = x.human
    BY <2>1 DEF OnRecord
  <2>3. l \in labels'[x.run] /\ i \in DOMAIN cohorts'[x.run] /\ cohorts'[x.run][i] = cohorts[x.run][i]
    BY <1>1, <1>2, <2>1
  <2>4. OnRecord(report, x)'
    BY <2>2, <2>3 DEF OnRecord
  <2>5. WasJudged(report, x)'
    BY <1>1, <2>1 DEF WasJudged
  <2>6. QED
    BY <2>1, <2>4, <2>5
<1>4. QED
  BY <1>3 DEF IsEarned

LEMMA EnforcedSteps ==
  ASSUME EnforcedInvariant, [EnforcedNext]_enforcedVars
  PROVE  EnforcedInvariant'
<1>1. CASE Review
  <2>1. ReviewInvariant' /\ reports' = reports /\ started' = started /\ Next
    BY <1>1, ReviewSteps DEF Review, EnforcedInvariant
  <2>2. ReportsAreEarned'
    BY <2>1, EarnedForever DEF EnforcedInvariant, ReportsAreEarned
  <2>3. RunsAreActivated'
    BY <2>1 DEF EnforcedInvariant, RunsAreActivated
  <2>4. QED
    BY <2>1, <2>2, <2>3 DEF EnforcedInvariant
<1>2. CASE IssueReport
  <2>1. PICK policy \in Policy, tuning \in CampaignId, testing \in CampaignId :
            /\ reports' = reports \cup {Report(policy, tuning, testing)}
            /\ UNCHANGED <<reviewVars, started>>
    BY <1>2 DEF IssueReport
  <2>2. ReviewInvariant'
    BY <2>1, ReviewStutters DEF EnforcedInvariant
  <2>3. \A report : IsEarned(report) => IsEarned(report)'
    BY <2>1 DEF IsEarned, OnRecord, WasJudged, reviewVars
  <2>4. ReportsAreEarned'
    <3>1. ASSUME NEW report \in reports', report.reasons = {} PROVE IsEarned(report)'
      <4>1. CASE report \in reports
        BY <2>3, <3>1, <4>1 DEF EnforcedInvariant, ReportsAreEarned
      <4>2. CASE report = Report(policy, tuning, testing)
        <5>1. IsEarned(Report(policy, tuning, testing))
          BY <3>1, <4>2, EarnedWhenIssued DEF EnforcedInvariant
        <5>2. QED
          BY <2>3, <4>2, <5>1
      <4>3. QED
        BY <2>1, <4>1, <4>2
    <3>2. QED
      BY <3>1 DEF ReportsAreEarned
  <2>5. RunsAreActivated'
    BY <2>1 DEF EnforcedInvariant, RunsAreActivated
  <2>6. QED
    BY <2>2, <2>4, <2>5 DEF EnforcedInvariant
<1>3. CASE StartRun
  <2>1. PICK request \in Request, policy \in Policy, report \in reports :
            /\ Activates(report, policy) /\ Matches(policy, request)
            /\ started' = started \cup {[request |-> request, report |-> report]}
            /\ UNCHANGED <<reviewVars, reports>>
    BY <1>3 DEF StartRun
  <2>2. ReviewInvariant'
    BY <2>1, ReviewStutters DEF EnforcedInvariant
  <2>3. ReportsAreEarned'
    BY <2>1 DEF EnforcedInvariant, ReportsAreEarned, IsEarned, OnRecord, WasJudged, reviewVars
  <2>4. RunsAreActivated'
    BY <2>1 DEF EnforcedInvariant, RunsAreActivated, Activates
  <2>5. QED
    BY <2>2, <2>3, <2>4 DEF EnforcedInvariant
<1>4. CASE UNCHANGED enforcedVars
  <2>1. UNCHANGED reviewVars /\ reports' = reports /\ started' = started
    BY <1>4 DEF enforcedVars, reviewVars
  <2>2. ReviewInvariant'
    BY <2>1, ReviewStutters DEF EnforcedInvariant
  <2>3. ReportsAreEarned' /\ RunsAreActivated'
    BY <2>1 DEF EnforcedInvariant, ReportsAreEarned, RunsAreActivated, IsEarned, OnRecord, WasJudged, reviewVars
  <2>4. QED
    BY <2>2, <2>3 DEF EnforcedInvariant
<1>5. QED
  BY <1>1, <1>2, <1>3, <1>4 DEF EnforcedNext

LEMMA RunsAreEarned ==
  ASSUME EnforcedInvariant
  PROVE  EnforcedRunsAreEarned
<1>1. ASSUME NEW s \in started
      PROVE  IsEarned(s.report) /\ Matches(s.report.policy, s.request)
  BY DEF EnforcedInvariant, ReportsAreEarned, RunsAreActivated
<1>2. EnforcedRunsRestOnTheRecord
  BY <1>1 DEF EnforcedRunsRestOnTheRecord, IsEarned, OnRecord
<1>3. EnforcedRunsAreWhatWasEvaluated
  <2>1. ASSUME NEW s \in started
        PROVE  /\ s.request.judge \notin s.request.models
               /\ \A x \in s.report.evaluation.reviewed :
                      /\ runs[x.run].judge = s.request.judge /\ runs[x.run].models = s.request.models
                      /\ runs[x.run].settings = s.request.settings /\ runs[x.run].scope = s.request.scope
               /\ \E x \in s.report.evaluation.reviewed :
                      runs[x.run].episodes[x.episode].domain = s.request.domain
    <3>1. PICK request : request = s.request
      OBVIOUS
    <3>2. PICK policy : policy = s.report.policy
      OBVIOUS
    <3>3. /\ policy.judge # None /\ request.domain \in policy.domains /\ request.models = policy.models
          /\ request.scope = policy.scope /\ request.settings = policy.settings
          /\ request.judge = policy.judge /\ ShadowJudge(request) = policy.judge
      BY <1>1, <3>1, <3>2 DEF Matches
    <3>4. request.judge \notin request.models
      BY <3>3 DEF ShadowJudge
    <3>5. \A x \in s.report.evaluation.reviewed : WasJudged(s.report, x)
      BY <1>1 DEF IsEarned
    <3>6. \A x \in s.report.evaluation.reviewed :
              /\ runs[x.run].judge = request.judge /\ runs[x.run].models = request.models
              /\ runs[x.run].settings = request.settings /\ runs[x.run].scope = request.scope
              /\ runs[x.run].episodes[x.episode].domain = x.domain
      BY <3>2, <3>3, <3>5 DEF WasJudged
    <3>7. PICK x \in s.report.evaluation.reviewed : x.domain = request.domain
      BY <1>1, <3>2, <3>3 DEF IsEarned, Domains
    <3>8. QED
      BY <3>1, <3>4, <3>6, <3>7
  <2>2. QED
    BY <2>1, Zenon DEF EnforcedRunsAreWhatWasEvaluated
<1>4. QED
  BY <1>2, <1>3 DEF EnforcedRunsAreEarned

(* A judge decides only as it was evaluated, on evidence that stays on record,  *)
(* whatever is reviewed after its report (engine.py:376-477).                   *)
THEOREM EnforcedRunsKeepWhatTheyEarned == EnforcedSpec => []EnforcedRunsAreEarned
<1>1. EnforcedInit => EnforcedInvariant
  BY ReviewStarts DEF EnforcedInit, EnforcedInvariant, ReportsAreEarned, RunsAreActivated
<1>2. EnforcedInvariant /\ [EnforcedNext]_enforcedVars => EnforcedInvariant'
  BY EnforcedSteps
<1>3. QED
  BY <1>1, <1>2, RunsAreEarned, PTL DEF EnforcedSpec
==================================================================================
