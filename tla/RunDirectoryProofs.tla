-------------------------- MODULE RunDirectoryProofs --------------------------
(***************************************************************************)
(* Proofs about RunDirectory: the invariant of RunDirectoryInvariant is    *)
(* inductive, so whatever the commands, the source and the crashes do, a   *)
(* directory stays resumable from one frozen state, quiet directories are  *)
(* published, and review evidence is consistent and kept; and what a       *)
(* replay next to all of that reads and writes is true of the run.         *)
(***************************************************************************)
EXTENDS RunDirectoryInvariant, DirectoryReplay, TLAPS, SequenceTheorems

(* A plan is done from its head; what is left is again one of its suffixes.  *)
LEMMA SuffixStep ==
  ASSUME NEW S, NEW full \in Seq(S), NEW plan \in Suffixes(full), plan # <<>>
  PROVE  \E i \in 1 .. Len(full) :
            /\ Head(plan) = full[i]
            /\ \A x : x \in Range(plan) <=> \E j \in i .. Len(full) : x = full[j]
            /\ \A x : x \in Range(Tail(plan)) <=> \E j \in i + 1 .. Len(full) : x = full[j]
            /\ Tail(plan) \in Suffixes(full)
<1>1. PICK i \in 1 .. Len(full) : plan = SubSeq(full, i, Len(full))
  BY DEF Suffixes
<1> DEFINE n == Len(full)
<1>2. n \in Nat /\ \A j \in 1 .. n : full[j] \in S
  BY LenProperties, ElementOfSeq
<1>3. /\ plan \in Seq(S) /\ Len(plan) = n - i + 1
      /\ \A j \in 1 .. n - i + 1 : plan[j] = full[i + j - 1]
  <2>1. \A j \in i .. n : full[j] \in S
    BY <1>2
  <2>2. QED
    BY <1>1, <1>2, <2>1, SubSeqProperties
<1>4. /\ Tail(plan) \in Seq(S) /\ Len(Tail(plan)) = n - i
      /\ \A j \in 1 .. n - i : Tail(plan)[j] = full[i + j]
  <2>1. /\ Tail(plan) \in Seq(S) /\ Len(Tail(plan)) = Len(plan) - 1
        /\ \A j \in 1 .. Len(Tail(plan)) : Tail(plan)[j] = plan[j + 1]
    BY <1>3, HeadTailProperties
  <2>2. QED
    BY <1>2, <1>3, <2>1
<1>5. Head(plan) = full[i]
  BY <1>2, <1>3
<1>6. Range(plan) = {full[j] : j \in i .. n}
  <2>1. DOMAIN plan = 1 .. n - i + 1
    BY <1>3, LenProperties
  <2>2. ASSUME NEW j \in i .. n PROVE full[j] \in Range(plan)
    <3>1. j - i + 1 \in 1 .. n - i + 1 /\ plan[j - i + 1] = full[j]
      BY <1>2, <1>3
    <3>2. QED
      BY <2>1, <3>1 DEF Range
  <2>3. ASSUME NEW j \in DOMAIN plan PROVE plan[j] \in {full[k] : k \in i .. n}
    BY <1>2, <1>3, <2>1, i + j - 1 \in i .. n
  <2>4. QED
    BY <2>2, <2>3 DEF Range
<1>7. Range(Tail(plan)) = {full[j] : j \in i + 1 .. n}
  <2>1. DOMAIN Tail(plan) = 1 .. n - i
    BY <1>4, LenProperties
  <2>2. ASSUME NEW j \in i + 1 .. n PROVE full[j] \in Range(Tail(plan))
    <3>1. j - i \in 1 .. n - i /\ Tail(plan)[j - i] = full[j]
      BY <1>2, <1>4, j - i \in 1 .. n - i, i + (j - i) = j
    <3>2. QED
      BY <2>1, <3>1 DEF Range
  <2>3. ASSUME NEW j \in DOMAIN Tail(plan)
        PROVE  Tail(plan)[j] \in {full[k] : k \in i + 1 .. n}
    BY <1>2, <1>4, <2>1, i + j \in i + 1 .. n
  <2>4. QED
    BY <2>2, <2>3 DEF Range
<1>8. Tail(plan) \in Suffixes(full)
  <2>1. CASE i = n
    <3>1. Len(Tail(plan)) = 0
      BY <1>2, <1>4, <2>1
    <3>2. Tail(plan) = <<>>
      BY <1>4, <3>1, EmptySeq
    <3>3. QED
      BY <3>2 DEF Suffixes
  <2>2. CASE i # n
    <3>1. i + 1 \in 1 .. n /\ \A j \in i + 1 .. n : full[j] \in S
      BY <1>2, <2>2
    <3>2. /\ SubSeq(full, i + 1, n) \in Seq(S) /\ Len(SubSeq(full, i + 1, n)) = n - i
          /\ \A j \in 1 .. n - i : SubSeq(full, i + 1, n)[j] = full[i + j]
      BY <1>2, <3>1, SubSeqProperties
    <3>3. Tail(plan) = SubSeq(full, i + 1, n)
      BY <1>4, <3>2, SeqEqual
    <3>4. QED
      BY <3>1, <3>3 DEF Suffixes
  <2>3. QED
    BY <2>1, <2>2
<1>9. /\ \A x : x \in Range(plan) <=> \E j \in i .. n : x = full[j]
      /\ \A x : x \in Range(Tail(plan)) <=> \E j \in i + 1 .. n : x = full[j]
  BY <1>6, <1>7
<1>10. QED
  BY <1>5, <1>8, <1>9

(* No write is planned twice: what is left is what was left without the head. *)
LEMMA DoneOnce ==
  ASSUME NEW S, NEW full \in Seq(S), NEW plan \in Suffixes(full), plan # <<>>,
         \A j, k \in 1 .. Len(full) : full[j] = full[k] => j = k
  PROVE  \E i \in 1 .. Len(full) :
            /\ Head(plan) = full[i]
            /\ \A j \in i + 1 .. Len(full) : full[j] \in Range(Tail(plan))
            /\ \A k \in 1 .. Len(full) : k < i => full[k] \notin Range(plan)
            /\ Range(Tail(plan)) = Range(plan) \ {Head(plan)}
            /\ Head(plan) \in Range(plan)
            /\ Tail(plan) \in Suffixes(full)
<1>1. PICK i \in 1 .. Len(full) :
            /\ Head(plan) = full[i]
            /\ \A x : x \in Range(plan) <=> \E j \in i .. Len(full) : x = full[j]
            /\ \A x : x \in Range(Tail(plan)) <=> \E j \in i + 1 .. Len(full) : x = full[j]
            /\ Tail(plan) \in Suffixes(full)
  BY SuffixStep
<1>2. Len(full) \in Nat
  BY LenProperties
<1>3. ASSUME NEW x
      PROVE  x \in Range(Tail(plan)) <=> x \in Range(plan) /\ x # Head(plan)
  <2>1. \A j \in i .. Len(full) : j \in i + 1 .. Len(full) <=> full[j] # full[i]
    BY <1>2
  <2>2. i + 1 .. Len(full) \subseteq i .. Len(full)
    BY <1>2
  <2>3. QED
    BY <1>1, <2>1, <2>2
<1>4. Range(Tail(plan)) = Range(plan) \ {Head(plan)}
  BY <1>3
<1>5. Head(plan) \in Range(plan)
  BY <1>1, <1>2
<1>6. \A k \in 1 .. Len(full) : k < i => full[k] \notin Range(plan)
  <2>1. \A k \in 1 .. Len(full), j \in i .. Len(full) : k < i => j \in 1 .. Len(full) /\ j # k
    BY <1>2
  <2>2. QED
    BY <1>1, <2>1
<1>7. QED
  BY <1>1, <1>4, <1>5, <1>6

(* The plans, write by write.                                                *)
LEMMA PlanValues ==
  /\ Startup \in Seq(Durable) /\ Len(Startup) = 4
  /\ Startup[1] = "metadata" /\ Startup[2] = "frozen" /\ Startup[3] = "running"
  /\ Startup[4] = "snapshot"
  /\ Publication \in Seq(Durable) /\ Len(Publication) = 8
  /\ Publication[1] = "demonstrations" /\ Publication[2] = "negatives" /\ Publication[3] = "judgments"
  /\ Publication[4] = "usage" /\ Publication[5] = "report" /\ Publication[6] = "quality"
  /\ Publication[7] = "truncate" /\ Publication[8] = "manifest"
  /\ Freezing \in Seq(Durable) /\ Len(Freezing) = 5
  /\ Freezing[1] = "cohorts" /\ Freezing[2] = "queue" /\ Freezing[3] = "quality"
  /\ Freezing[4] = "truncate" /\ Freezing[5] = "manifest"
  /\ Importing \in Seq(Durable) /\ Len(Importing) = 5
  /\ Importing[1] = "labels" /\ Importing[2] = "labelReport" /\ Importing[3] = "quality"
  /\ Importing[4] = "truncate" /\ Importing[5] = "manifest"
<1>1. /\ Startup \in Seq(Durable) /\ Len(Startup) = 4
      /\ Startup[1] = "metadata" /\ Startup[2] = "frozen" /\ Startup[3] = "running"
      /\ Startup[4] = "snapshot"
  BY DEF Startup, Durable
<1>2. /\ Publication \in Seq(Durable) /\ Len(Publication) = 8
      /\ Publication[1] = "demonstrations" /\ Publication[2] = "negatives" /\ Publication[3] = "judgments"
      /\ Publication[4] = "usage" /\ Publication[5] = "report" /\ Publication[6] = "quality"
      /\ Publication[7] = "truncate" /\ Publication[8] = "manifest"
  BY DEF Publication, Durable, Base, Collections
<1>3. ASSUME NEW first \in Seq(Durable), Len(first) = 2
      PROVE  /\ first \o Refresh \in Seq(Durable) /\ Len(first \o Refresh) = 5
             /\ (first \o Refresh)[1] = first[1] /\ (first \o Refresh)[2] = first[2]
             /\ (first \o Refresh)[3] = "quality" /\ (first \o Refresh)[4] = "truncate"
             /\ (first \o Refresh)[5] = "manifest"
  <2>1. /\ Refresh \in Seq(Durable) /\ Len(Refresh) = 3
        /\ Refresh[1] = "quality" /\ Refresh[2] = "truncate" /\ Refresh[3] = "manifest"
    BY DEF Refresh, Durable, Base, Collections
  <2>2. /\ first \o Refresh \in Seq(Durable) /\ Len(first \o Refresh) = 5
        /\ \A k \in 1 .. 5 :
              (first \o Refresh)[k] = IF k <= 2 THEN first[k] ELSE Refresh[k - 2]
    <3>1. /\ first \o Refresh \in Seq(Durable)
          /\ Len(first \o Refresh) = Len(first) + Len(Refresh)
          /\ \A k \in 1 .. Len(first) + Len(Refresh) :
                (first \o Refresh)[k] =
                    IF k <= Len(first) THEN first[k] ELSE Refresh[k - Len(first)]
      BY <2>1, ConcatProperties, Zenon
    <3>2. QED
      BY <1>3, <2>1, <3>1
  <2>3. /\ (first \o Refresh)[1] = first[1] /\ (first \o Refresh)[2] = first[2]
        /\ (first \o Refresh)[3] = Refresh[1] /\ (first \o Refresh)[4] = Refresh[2]
        /\ (first \o Refresh)[5] = Refresh[3]
    BY <2>2
  <2>4. QED
    BY <2>1, <2>2, <2>3
<1>4. /\ <<"cohorts", "queue">> \in Seq(Durable) /\ Len(<<"cohorts", "queue">>) = 2
      /\ <<"cohorts", "queue">>[1] = "cohorts" /\ <<"cohorts", "queue">>[2] = "queue"
      /\ <<"labels", "labelReport">> \in Seq(Durable) /\ Len(<<"labels", "labelReport">>) = 2
      /\ <<"labels", "labelReport">>[1] = "labels" /\ <<"labels", "labelReport">>[2] = "labelReport"
  BY DEF Durable, Review
<1>5. /\ Freezing = <<"cohorts", "queue">> \o Refresh
      /\ Importing = <<"labels", "labelReport">> \o Refresh
  BY DEF Freezing, Importing
<1>6. /\ Freezing \in Seq(Durable) /\ Len(Freezing) = 5
      /\ Freezing[1] = "cohorts" /\ Freezing[2] = "queue" /\ Freezing[3] = "quality"
      /\ Freezing[4] = "truncate" /\ Freezing[5] = "manifest"
  BY <1>3, <1>4, <1>5
<1>7. /\ Importing \in Seq(Durable) /\ Len(Importing) = 5
      /\ Importing[1] = "labels" /\ Importing[2] = "labelReport" /\ Importing[3] = "quality"
      /\ Importing[4] = "truncate" /\ Importing[5] = "manifest"
  BY <1>3, <1>4, <1>5
<1>8. QED
  BY <1>1, <1>2, <1>6, <1>7

(* The plans themselves: what is done, and what comes after it.              *)
LEMMA StartupPlan ==
  ASSUME NEW plan \in Suffixes(Startup), plan # <<>>
  PROVE  /\ Tail(plan) \in Suffixes(Startup)
         /\ Range(Tail(plan)) = Range(plan) \ {Head(plan)}
         /\ Head(plan) \in Range(plan)
         /\ Head(plan) \in {"metadata", "frozen", "running", "snapshot"}
<1>3. \A j, k \in 1 .. Len(Startup) : Startup[j] = Startup[k] => j = k
  BY PlanValues
<1>4. PICK i \in 1 .. Len(Startup) :
            /\ Head(plan) = Startup[i]
            /\ \A j \in i + 1 .. Len(Startup) : Startup[j] \in Range(Tail(plan))
            /\ \A k \in 1 .. Len(Startup) : k < i => Startup[k] \notin Range(plan)
            /\ Range(Tail(plan)) = Range(plan) \ {Head(plan)}
            /\ Head(plan) \in Range(plan)
            /\ Tail(plan) \in Suffixes(Startup)
  BY PlanValues, <1>3, DoneOnce
<1>5. QED
  BY PlanValues, <1>4

LEMMA PublicationPlan ==
  ASSUME NEW plan \in Suffixes(Publication), plan # <<>>
  PROVE  /\ Tail(plan) \in Suffixes(Publication)
         /\ Range(Tail(plan)) = Range(plan) \ {Head(plan)}
         /\ Head(plan) \in Range(plan)
         /\ Head(plan) \in Base \cup {"truncate", "manifest"}
         /\ Head(plan) # "manifest" => "manifest" \in Range(Tail(plan))
         /\ Head(plan) = "judgments" => "quality" \in Range(Tail(plan))
<1>3. \A j, k \in 1 .. Len(Publication) : Publication[j] = Publication[k] => j = k
  BY PlanValues
<1>4. PICK i \in 1 .. Len(Publication) :
            /\ Head(plan) = Publication[i]
            /\ \A j \in i + 1 .. Len(Publication) : Publication[j] \in Range(Tail(plan))
            /\ \A k \in 1 .. Len(Publication) : k < i => Publication[k] \notin Range(plan)
            /\ Range(Tail(plan)) = Range(plan) \ {Head(plan)}
            /\ Head(plan) \in Range(plan)
            /\ Tail(plan) \in Suffixes(Publication)
  BY PlanValues, <1>3, DoneOnce
<1>5. /\ i # 8 => 8 \in i + 1 .. 8
      /\ i = 3 => 6 \in i + 1 .. 8
      /\ i \in 1 .. 8
  BY PlanValues
<1>6. \A j \in 1 .. 8 : Publication[j] \in Base \cup {"truncate", "manifest"}
  BY PlanValues DEF Base, Collections
<1>7. QED
  BY PlanValues, <1>3, <1>4, <1>5, <1>6

LEMMA FreezingPlan ==
  ASSUME NEW plan \in Suffixes(Freezing), plan # <<>>
  PROVE  /\ Tail(plan) \in Suffixes(Freezing)
         /\ Range(Tail(plan)) = Range(plan) \ {Head(plan)}
         /\ Head(plan) \in Range(plan)
         /\ Head(plan) \in {"cohorts", "queue", "quality", "truncate", "manifest"}
         /\ Head(plan) # "manifest" => "manifest" \in Range(Tail(plan))
         /\ Head(plan) \in {"cohorts", "queue"} => "quality" \in Range(Tail(plan))
         /\ Head(plan) = "cohorts" => "queue" \in Range(Tail(plan))
         /\ Head(plan) = "queue" => "cohorts" \notin Range(plan)
<1>3. \A j, k \in 1 .. Len(Freezing) : Freezing[j] = Freezing[k] => j = k
  BY PlanValues
<1>4. PICK i \in 1 .. Len(Freezing) :
            /\ Head(plan) = Freezing[i]
            /\ \A j \in i + 1 .. Len(Freezing) : Freezing[j] \in Range(Tail(plan))
            /\ \A k \in 1 .. Len(Freezing) : k < i => Freezing[k] \notin Range(plan)
            /\ Range(Tail(plan)) = Range(plan) \ {Head(plan)}
            /\ Head(plan) \in Range(plan)
            /\ Tail(plan) \in Suffixes(Freezing)
  BY PlanValues, <1>3, DoneOnce
<1>5. /\ i # 5 => 5 \in i + 1 .. 5
      /\ i \in {1, 2} => 3 \in i + 1 .. 5
      /\ i = 1 => 2 \in i + 1 .. 5
      /\ i = 2 => 1 < i /\ 1 \in 1 .. 5
      /\ i \in 1 .. 5
  BY PlanValues
<1>6. QED
  BY PlanValues, <1>3, <1>4, <1>5

LEMMA ImportingPlan ==
  ASSUME NEW plan \in Suffixes(Importing), plan # <<>>
  PROVE  /\ Tail(plan) \in Suffixes(Importing)
         /\ Range(Tail(plan)) = Range(plan) \ {Head(plan)}
         /\ Head(plan) \in Range(plan)
         /\ Head(plan) \in {"labels", "labelReport", "quality", "truncate", "manifest"}
         /\ Head(plan) # "manifest" => "manifest" \in Range(Tail(plan))
         /\ Head(plan) \in {"labels", "labelReport"} => "quality" \in Range(Tail(plan))
         /\ Head(plan) = "labels" => "labelReport" \in Range(Tail(plan))
         /\ Head(plan) = "labelReport" => "labels" \notin Range(plan)
<1>3. \A j, k \in 1 .. Len(Importing) : Importing[j] = Importing[k] => j = k
  BY PlanValues
<1>4. PICK i \in 1 .. Len(Importing) :
            /\ Head(plan) = Importing[i]
            /\ \A j \in i + 1 .. Len(Importing) : Importing[j] \in Range(Tail(plan))
            /\ \A k \in 1 .. Len(Importing) : k < i => Importing[k] \notin Range(plan)
            /\ Range(Tail(plan)) = Range(plan) \ {Head(plan)}
            /\ Head(plan) \in Range(plan)
            /\ Tail(plan) \in Suffixes(Importing)
  BY PlanValues, <1>3, DoneOnce
<1>5. /\ i # 5 => 5 \in i + 1 .. 5
      /\ i \in {1, 2} => 3 \in i + 1 .. 5
      /\ i = 1 => 2 \in i + 1 .. 5
      /\ i = 2 => 1 < i /\ 1 \in 1 .. 5
      /\ i \in 1 .. 5
  BY PlanValues
<1>6. QED
  BY PlanValues, <1>3, <1>4, <1>5

(* Before its first write a plan has all of them to do.                      *)
LEMMA WholePlans ==
  /\ \A full \in {Startup, Publication, Freezing, Importing} :
        full \in Seq(Durable) /\ full \in Suffixes(full)
  /\ Range(Startup) = {"metadata", "frozen", "running", "snapshot"}
  /\ Range(Publication) = Base \cup {"truncate", "manifest"}
  /\ Range(Freezing) = {"cohorts", "queue", "quality", "truncate", "manifest"}
  /\ Range(Importing) = {"labels", "labelReport", "quality", "truncate", "manifest"}
<1>1. ASSUME NEW full \in Seq(Durable), Len(full) >= 1 PROVE full \in Suffixes(full)
  <2>1. full = SubSeq(full, 1, Len(full)) /\ 1 \in 1 .. Len(full)
    BY <1>1, LenProperties
  <2>2. QED
    BY <2>1 DEF Suffixes
<1>2. ASSUME NEW full \in Seq(Durable) PROVE Range(full) = {full[j] : j \in 1 .. Len(full)}
  BY <1>2, LenProperties DEF Range
<1>3. \A full \in {Startup, Publication, Freezing, Importing} :
         full \in Seq(Durable) /\ Len(full) >= 1
  <2>1. /\ Startup \in Seq(Durable) /\ Len(Startup) >= 1
        /\ Publication \in Seq(Durable) /\ Len(Publication) >= 1
        /\ Freezing \in Seq(Durable) /\ Len(Freezing) >= 1
        /\ Importing \in Seq(Durable) /\ Len(Importing) >= 1
    BY PlanValues
  <2>2. QED
    BY <2>1
<1>4. Range(Startup) = {"metadata", "frozen", "running", "snapshot"}
  <2>1. Range(Startup) = {Startup[j] : j \in 1 .. 4}
    BY <1>2, PlanValues
  <2>2. \A j \in 1 .. 4 : Startup[j] \in {"metadata", "frozen", "running", "snapshot"}
    BY PlanValues
  <2>3. {"metadata", "frozen", "running", "snapshot"} \subseteq {Startup[j] : j \in 1 .. 4}
    BY PlanValues
  <2>4. QED
    BY <2>1, <2>2, <2>3
<1>5. Range(Publication) = Base \cup {"truncate", "manifest"}
  <2>1. Range(Publication) = {Publication[j] : j \in 1 .. 8}
    BY <1>2, PlanValues
  <2>2. \A j \in 1 .. 8 : Publication[j] \in Base \cup {"truncate", "manifest"}
    BY PlanValues DEF Base, Collections
  <2>3. Base \cup {"truncate", "manifest"} \subseteq {Publication[j] : j \in 1 .. 8}
    BY PlanValues DEF Base, Collections
  <2>4. QED
    BY <2>1, <2>2, <2>3
<1>6. Range(Freezing) = {"cohorts", "queue", "quality", "truncate", "manifest"}
  <2>1. Range(Freezing) = {Freezing[j] : j \in 1 .. 5}
    BY <1>2, PlanValues
  <2>2. \A j \in 1 .. 5 : Freezing[j] \in {"cohorts", "queue", "quality", "truncate", "manifest"}
    BY PlanValues
  <2>3. {"cohorts", "queue", "quality", "truncate", "manifest"} \subseteq {Freezing[j] : j \in 1 .. 5}
    BY PlanValues
  <2>4. QED
    BY <2>1, <2>2, <2>3
<1>7. Range(Importing) = {"labels", "labelReport", "quality", "truncate", "manifest"}
  <2>1. Range(Importing) = {Importing[j] : j \in 1 .. 5}
    BY <1>2, PlanValues
  <2>2. \A j \in 1 .. 5 : Importing[j] \in {"labels", "labelReport", "quality", "truncate", "manifest"}
    BY PlanValues
  <2>3. {"labels", "labelReport", "quality", "truncate", "manifest"} \subseteq {Importing[j] : j \in 1 .. 5}
    BY PlanValues
  <2>4. QED
    BY <2>1, <2>2, <2>3
<1>8. QED
  BY <1>1, <1>3, <1>4, <1>5, <1>6, <1>7

--------------------------------------------------------------------------------
(* Only the holder of the writer lock is in a command.                       *)
LEMMA Holder ==
  ASSUME OneWriter, NEW p \in Process, proc[p].phase # "idle"
  PROVE  /\ lock = p /\ lock # None
         /\ \A q \in Process \ {p} : proc[q] = IdleProcess
<1>1. IdleProcess.phase = "idle"
  BY DEF IdleProcess
<1>2. lock = p
  BY <1>1 DEF OneWriter
<1>3. QED
  BY <1>2, DirectoryAssumption DEF OneWriter

(* What the content of each file depends on.                                 *)
LEMMA Contents ==
  ASSUME NEW q
  PROVE  /\ \A f \in Collections \cup {"usage"} : Content(f, q) = Decided
         /\ Content("judgments", q) = ledger.judged
         /\ Content("report", q) = [status |-> ledger.status, decided |-> Decided]
         /\ Content("quality", q) =
               [status |-> ledger.status, decided |-> Decided, judged |-> ledger.judged,
                cohorts |-> Frozen, labels |-> Labels]
         /\ \A f \in {"cohorts", "queue"} : Content(f, q) = q.cohorts
         /\ \A f \in {"labels", "labelReport"} : Content(f, q) = q.labels
  BY DEF Content, Collections

LEMMA PlansTyped ==
  /\ <<>> \in Seq(Durable) /\ Startup \in Seq(Durable) /\ Publication \in Seq(Durable)
  /\ Freezing \in Seq(Durable) /\ Importing \in Seq(Durable)
  /\ <<"slots">> \in Seq(Durable) /\ <<"running">> \in Seq(Durable)
  /\ <<"slots", "running">> \in Seq(Durable)
  /\ \A status \in FinalStatus : <<status>> \o Publication \in Seq(Durable)
<1>1. ASSUME NEW status \in FinalStatus PROVE <<status>> \o Publication \in Seq(Durable)
  <2>1. <<status>> \in Seq(Durable)
    BY DEF Durable
  <2>2. QED
    BY <2>1, PlanValues, ConcatProperties
<1>2. /\ <<>> \in Seq(Durable) /\ <<"slots">> \in Seq(Durable)
      /\ <<"running">> \in Seq(Durable) /\ <<"slots", "running">> \in Seq(Durable)
  BY DEF Durable
<1>3. QED
  BY <1>1, <1>2, PlanValues

(* A process that takes the lock, gives it back or changes its own plan.     *)
LEMMA OwnStepTyped ==
  ASSUME Shaped, UNCHANGED <<source, ledger, snapshot, files>>, proc' \in [Process -> ProcessState]
  PROVE  Shaped'
  BY DEF Shaped, Decided, Frozen, Labels

LEMMA StepTyped == ASSUME Shaped, [Next]_vars PROVE Shaped'
<1> USE DEF Shaped
<1>1. IdleProcess \in ProcessState
  BY PlansTyped DEF IdleProcess, ProcessState, Phase
<1>2. ASSUME NEW p \in Process, Leave(p) PROVE proc' \in [Process -> ProcessState]
  BY <1>1, <1>2 DEF Leave
<1>3. ASSUME NEW p \in Process, Advance(p), proc[p].plan # <<>>
      PROVE  proc' \in [Process -> ProcessState]
  <2>1. Tail(proc[p].plan) \in Seq(Durable)
    BY <1>3, HeadTailProperties DEF ProcessState
  <2>2. QED
    BY <1>3, <2>1 DEF Advance, ProcessState
<1>4. ASSUME NEW p \in Process, NEW phase \in Phase, NEW plan \in Seq(Durable),
             Follow(p, phase, plan)
      PROVE  proc' \in [Process -> ProcessState]
  BY <1>4 DEF Follow, ProcessState
<1>5. ASSUME NEW p \in Process, NEW frozen \in Source \cup {None}, NEW plan \in Seq(Durable),
             Drive(p, frozen, plan)
      PROVE  proc' \in [Process -> ProcessState]
  <2>1. <<"failed">> \o Publication \in Seq(Durable)
    BY PlansTyped DEF FinalStatus
  <2> DEFINE newPlan == IF frozen \in TooSmall THEN <<"failed">> \o Publication ELSE plan
             newPhase == IF frozen \in TooSmall THEN "publishing" ELSE "driving"
  <2>2. newPlan \in Seq(Durable) /\ newPhase \in Phase
    BY <2>1 DEF Phase
  <2>3. proc' = [proc EXCEPT ![p].frozen = frozen, ![p].phase = newPhase, ![p].plan = newPlan]
    BY <1>5 DEF Drive
  <2> HIDE DEF newPlan, newPhase
  <2>4. [proc[p] EXCEPT !.frozen = frozen, !.phase = newPhase, !.plan = newPlan] \in ProcessState
    BY <2>2 DEF ProcessState
  <2>5. QED
    BY <2>3, <2>4
<1>6. CASE UNCHANGED vars \/ EditSource
  BY <1>6 DEF vars, EditSource, Decided, Frozen, Labels
<1>7. ASSUME NEW p \in Process, NEW command \in {"run", "resume", "review", "import"},
             TakeLock(p, command)
      PROVE  Shaped'
  <2>1. proc' \in [Process -> ProcessState]
    BY <1>7 DEF TakeLock, ProcessState, Phase
  <2>2. QED
    BY <1>7, <2>1, OwnStepTyped DEF TakeLock
<1>8. ASSUME NEW p \in Process, Refuse(p) \/ Return(p) \/ Die(p) PROVE Shaped'
  BY <1>2, <1>8, OwnStepTyped DEF Refuse, Return, Die
<1>9. ASSUME NEW p \in Process, CreateLedger(p) PROVE Shaped'
  <2>1. CASE Refuse(p)
    BY <1>8, <2>1
  <2>2. CASE ledger' = [ledger EXCEPT !.file = TRUE] /\ Follow(p, "created", <<>>)
             /\ UNCHANGED <<source, lock, snapshot, files, interrupted, deaths>>
    <3>1. proc' \in [Process -> ProcessState]
      BY <1>4, <2>2, PlansTyped DEF Phase
    <3>2. QED
      BY <2>2, <3>1 DEF LedgerState, Decided, Frozen, Labels
  <2>3. QED
    BY <1>9, <2>1, <2>2 DEF CreateLedger
<1>10. ASSUME NEW p \in Process, FreezeInitialState(p) PROVE Shaped'
  <2>1. proc' \in [Process -> ProcessState]
    <3>1. Startup \in Seq(Durable) /\ "starting" \in Phase
      BY PlansTyped DEF Phase
    <3>2. [proc[p] EXCEPT !.phase = "starting", !.plan = Startup, !.frozen = source] \in ProcessState
      BY <3>1 DEF ProcessState
    <3>3. QED
      BY <1>10, <3>2 DEF FreezeInitialState
  <2>2. QED
    BY <1>10, <2>1, OwnStepTyped DEF FreezeInitialState
<1>11. ASSUME NEW p \in Process, Started(p) \/ OpenRun(p) PROVE Shaped'
  <2>1. CASE Refuse(p)
    BY <1>8, <2>1
  <2>2. CASE Started(p)
    <3>1. proc[p].frozen \in Source \cup {None}
      BY DEF ProcessState
    <3>2. QED
      BY <1>5, <2>2, <3>1, PlansTyped, OwnStepTyped DEF Started
  <2>3. CASE OpenRun(p) /\ ~Refuse(p)
    BY <1>5, <2>3, PlansTyped, OwnStepTyped DEF OpenRun
  <2>4. QED
    BY <1>11, <2>1, <2>2, <2>3
<1>12. ASSUME NEW p \in Process, NEW e \in Episode, Decide(p, e) PROVE Shaped'
  <2>1. ledger' \in LedgerState /\ ledger'.judged = ledger.judged /\ Decided \subseteq Decided'
    BY <1>12, DirectoryAssumption DEF Decide, LedgerState, Decided, ProcessState
  <2>2. QED
    BY <1>12, <2>1 DEF Decide, Frozen, Labels
<1>13. ASSUME NEW p \in Process, StopDriving(p) PROVE Shaped'
  BY <1>4, <1>13, PlansTyped, OwnStepTyped DEF StopDriving, Phase, FinalStatus
<1>14. ASSUME NEW p \in Process, OpenReview(p) \/ OpenImport(p) PROVE Shaped'
  <2>1. CASE Refuse(p)
    BY <1>8, <2>1
  <2>2. CASE OpenReview(p) /\ ~Refuse(p)
    <3>1. PICK id \in CohortId, members \in SUBSET Episode :
            proc' = [proc EXCEPT
                    ![p].phase = "reviewing", ![p].plan = Freezing,
                    ![p].cohorts = Frozen \cup {[id |-> id, members |-> members]}]
      BY <2>2 DEF OpenReview, Decided
    <3>2. proc' \in [Process -> ProcessState]
      <4>1. Freezing \in Seq(Durable) /\ "reviewing" \in Phase
        BY PlansTyped DEF Phase
      <4>2. Frozen \cup {[id |-> id, members |-> members]} \in SUBSET Cohort
        BY DEF Cohort
      <4>3. [proc[p] EXCEPT !.phase = "reviewing", !.plan = Freezing,
                !.cohorts = Frozen \cup {[id |-> id, members |-> members]}] \in ProcessState
        BY <4>1, <4>2 DEF ProcessState
      <4>4. QED
        BY <3>1, <4>3
    <3>3. QED
      BY <2>2, <3>2, OwnStepTyped DEF OpenReview
  <2>3. CASE OpenImport(p) /\ ~Refuse(p)
    <3>1. PICK submitted \in SUBSET Label :
            proc' = [proc EXCEPT ![p].phase = "reviewing", ![p].plan = Importing,
                                 ![p].labels = Labels \cup submitted]
      BY <2>3 DEF OpenImport, Missing
    <3>2. proc' \in [Process -> ProcessState]
      <4>1. Importing \in Seq(Durable) /\ "reviewing" \in Phase
        BY PlansTyped DEF Phase
      <4>2. Labels \cup submitted \in SUBSET Label
        OBVIOUS
      <4>3. [proc[p] EXCEPT !.phase = "reviewing", !.plan = Importing,
                !.labels = Labels \cup submitted] \in ProcessState
        BY <4>1, <4>2 DEF ProcessState
      <4>4. QED
        BY <3>1, <4>3
    <3>3. QED
      BY <2>3, <3>2, OwnStepTyped DEF OpenImport
  <2>4. QED
    BY <1>14, <2>1, <2>2, <2>3
<1>15. ASSUME NEW p \in Process, proc[p].plan # <<>>, NEW w,
              \/ WriteLedger(p, w) \/ WriteSnapshot(p, w) \/ RecordJudgment(p, w)
              \/ WriteFile(p, w) \/ WriteManifest(p, w)
       PROVE  Shaped'
  <2>1. CASE WriteLedger(p, w)
    <3>1. ledger' \in LedgerState /\ UNCHANGED <<ledger.done, ledger.judged>>
      BY <2>1 DEF WriteLedger, LedgerState, ProcessState
    <3>2. QED
      BY <1>3, <1>15, <2>1, <3>1 DEF WriteLedger, Decided, Frozen, Labels
  <2>2. CASE WriteSnapshot(p, w)
    BY <1>3, <1>15, <2>2 DEF WriteSnapshot, Decided, Frozen, Labels, ProcessState
  <2>3. CASE RecordJudgment(p, w)
    <3>1. /\ ledger' \in LedgerState /\ UNCHANGED ledger.done
          /\ ledger'.judged \subseteq Decided
      BY <2>3 DEF RecordJudgment, LedgerState, Decided
    <3>2. QED
      BY <2>3, <3>1 DEF RecordJudgment, Decided, Frozen, Labels
  <2>4. CASE WriteFile(p, w)
    <3>1. files' = [files EXCEPT ![w] = Content(w, proc[p])] /\ w \in Base \cup Review
      BY <2>4 DEF WriteFile
    <3>2. \A f \in Collections : files'[f] = None \/ files'[f] \subseteq Decided
      BY <3>1, Contents DEF Base
    <3>3. Frozen' \subseteq Cohort /\ Labels' \subseteq Label
      <4>1. proc[p].cohorts \subseteq Cohort /\ proc[p].labels \subseteq Label
        BY DEF ProcessState
      <4>2. QED
        BY <3>1, <4>1, Contents DEF Frozen, Labels, Base, Collections, Review
    <3>4. QED
      BY <1>3, <1>15, <2>4, <3>1, <3>2, <3>3 DEF WriteFile, Decided
  <2>5. CASE WriteManifest(p, w)
    <3>1. \A f \in Base \cup Review : files'[f] = files[f]
      BY <2>5 DEF WriteManifest, Base, Collections, Review
    <3>2. DOMAIN files' = DOMAIN files
      BY <2>5 DEF WriteManifest
    <3>3. proc' \in [Process -> ProcessState] /\ UNCHANGED <<source, ledger, snapshot>>
      BY <1>2, <1>3, <1>15, <2>5 DEF WriteManifest
    <3>4. QED
      BY <3>1, <3>2, <3>3 DEF Decided, Frozen, Labels, Base, Review
  <2>6. QED
    BY <1>15, <2>1, <2>2, <2>3, <2>4, <2>5
<1>16. QED
  BY <1>6, <1>7, <1>8, <1>9, <1>10, <1>11, <1>12, <1>13, <1>14, <1>15
     DEF Next, Command, Write

LEMMA StepExclusive == ASSUME Shaped, OneWriter, [Next]_vars PROVE OneWriter'
<1> USE DEF Shaped
<1>1. IdleProcess.phase = "idle"
  BY DEF IdleProcess
<1>2. CASE UNCHANGED vars \/ EditSource
  BY <1>2 DEF vars, EditSource, OneWriter
<1>3. ASSUME NEW p \in Process, NEW command \in {"run", "resume", "review", "import"},
             TakeLock(p, command)
      PROVE  OneWriter'
  BY <1>3, DirectoryAssumption DEF TakeLock, OneWriter, ProcessState
<1>4. ASSUME NEW p \in Process, proc[p].phase # "idle", Leave(p) PROVE OneWriter'
  BY <1>1, <1>4, Holder, DirectoryAssumption DEF Leave, OneWriter
<1>5. ASSUME NEW p \in Process, proc[p].phase # "idle", UNCHANGED lock,
             \A q \in Process \ {p} : proc'[q] = proc[q], proc'[p].phase # "idle"
      PROVE  OneWriter'
  BY <1>5, Holder DEF OneWriter
<1>6. ASSUME NEW p \in Process, NEW phase \in Phase \ {"idle"}, NEW plan, Follow(p, phase, plan)
      PROVE  proc'[p].phase # "idle" /\ \A q \in Process \ {p} : proc'[q] = proc[q]
  BY <1>6 DEF Follow, ProcessState
<1>7. ASSUME NEW p \in Process, NEW frozen, NEW plan, Drive(p, frozen, plan)
      PROVE  proc'[p].phase # "idle" /\ \A q \in Process \ {p} : proc'[q] = proc[q]
  BY <1>7 DEF Drive, ProcessState
<1>8. ASSUME NEW p \in Process, Advance(p)
      PROVE  proc'[p].phase = proc[p].phase /\ \A q \in Process \ {p} : proc'[q] = proc[q]
  BY <1>8 DEF Advance, ProcessState
<1>9. ASSUME NEW p \in Process, Return(p) \/ Die(p) PROVE OneWriter'
  BY <1>4, <1>9 DEF Return, Die
<1>10. ASSUME NEW p \in Process,
              CreateLedger(p) \/ FreezeInitialState(p) \/ Started(p) \/ OpenRun(p) \/ StopDriving(p)
       PROVE  OneWriter'
  <2>1. CASE CreateLedger(p) \/ OpenRun(p)
    BY <1>4, <1>5, <1>6, <1>7, <2>1 DEF CreateLedger, OpenRun, Refuse, Phase
  <2>2. CASE FreezeInitialState(p)
    <3>1. proc'[p].phase # "idle" /\ \A q \in Process \ {p} : proc'[q] = proc[q]
      BY <2>2 DEF FreezeInitialState, ProcessState
    <3>2. QED
      BY <1>5, <2>2, <3>1 DEF FreezeInitialState
  <2>3. CASE Started(p) \/ StopDriving(p)
    BY <1>5, <1>6, <1>7, <2>3 DEF Started, StopDriving, Phase
  <2>4. QED
    BY <1>10, <2>1, <2>2, <2>3
<1>11. ASSUME NEW p \in Process, OpenReview(p) \/ OpenImport(p) PROVE OneWriter'
  <2>1. CASE Refuse(p)
    BY <1>4, <1>11, <2>1 DEF OpenReview, OpenImport, Refuse
  <2>2. CASE ~Refuse(p)
    <3>1. proc'[p].phase # "idle" /\ \A q \in Process \ {p} : proc'[q] = proc[q]
      BY <1>11, <2>2 DEF OpenReview, OpenImport, ProcessState
    <3>2. QED
      BY <1>5, <1>11, <2>2, <3>1 DEF OpenReview, OpenImport
  <2>3. QED
    BY <2>1, <2>2
<1>12. ASSUME NEW p \in Process, NEW e \in Episode, Decide(p, e) PROVE OneWriter'
  BY <1>12 DEF Decide, OneWriter
<1>13. ASSUME NEW p \in Process, Write(p) PROVE OneWriter'
  <2>1. proc[p].phase # "idle"
    BY <1>13 DEF Write, OneWriter, IdleProcess
  <2>2. PICK w : \/ WriteLedger(p, w) \/ WriteSnapshot(p, w) \/ RecordJudgment(p, w)
                 \/ WriteFile(p, w) \/ WriteManifest(p, w)
    BY <1>13 DEF Write
  <2>3. (Advance(p) /\ UNCHANGED lock) \/ UNCHANGED <<lock, proc>> \/ Leave(p)
    BY <2>2 DEF WriteLedger, WriteSnapshot, RecordJudgment, WriteFile, WriteManifest
  <2>4. QED
    BY <1>4, <1>5, <1>8, <2>1, <2>3 DEF OneWriter
<1>14. QED
  BY <1>2, <1>3, <1>9, <1>10, <1>11, <1>12, <1>13 DEF Next, Command

--------------------------------------------------------------------------------
(* Each part of the invariant after a step, one kind of step a lemma.        *)

LEMMA IdleWorks ==
  ASSUME NEW q, proc'[q] = IdleProcess
  PROVE  Working(q)'
  BY DEF Working, Settled, Creating, Starting, Driving, Publishing, Reviewing, IdleProcess, Asking

(* Nothing is recorded or published, and nothing is taken back.              *)
LEMMA FilesFrame ==
  ASSUME UNCHANGED <<ledger, files>>
  PROVE  /\ Decided' = Decided /\ Frozen' = Frozen /\ Labels' = Labels
         /\ \A pending : Published(pending)' <=> Published(pending)
  BY DEF Decided, Frozen, Labels, Published, Content, Bound, Exists

LEMMA RecordedFrame ==
  ASSUME Recorded, UNCHANGED <<ledger, snapshot, files>>
  PROVE  Recorded' /\ (Unpaid' <=> Unpaid) /\ (Resumable' <=> Resumable)
  BY FilesFrame DEF Recorded, Unpaid, Resumable, OneInitialState, ReviewFollowsEvidence, Exists

LEMMA PlansGoOn ==
  /\ Startup # <<>> /\ Publication # <<>> /\ Freezing # <<>> /\ Importing # <<>>
  /\ \A status \in FinalStatus :
        /\ <<status>> \o Publication # <<>> /\ Head(<<status>> \o Publication) = status
        /\ Tail(<<status>> \o Publication) = Publication
<1>1. /\ Startup # <<>> /\ Publication # <<>> /\ Freezing # <<>> /\ Importing # <<>>
  <2>1. Len(Startup) # 0 /\ Len(Publication) # 0 /\ Len(Freezing) # 0 /\ Len(Importing) # 0
    BY PlanValues
  <2>2. QED
    BY <2>1, EmptySeq
<1>2. ASSUME NEW status \in FinalStatus, NEW first, first = <<status>>,
             NEW plan, plan = first \o Publication
      PROVE  plan # <<>> /\ Head(plan) = status /\ Tail(plan) = Publication
  <2>1. first \in Seq(Durable) /\ Len(first) = 1 /\ first[1] = status
    BY <1>2 DEF Durable
  <2>2. /\ first \o Publication \in Seq(Durable)
        /\ Len(first \o Publication) = Len(first) + Len(Publication)
        /\ \A i \in 1 .. Len(first) + Len(Publication) :
              (first \o Publication)[i] =
                  IF i <= Len(first) THEN first[i] ELSE Publication[i - Len(first)]
    BY <2>1, PlanValues, ConcatProperties, Zenon
  <2>3. Len(Publication) = 8 /\ Publication \in Seq(Durable)
    BY PlanValues
  <2>4. /\ plan \in Seq(Durable) /\ Len(plan) = 9 /\ plan[1] = status
        /\ \A i \in 1 .. 8 : plan[i + 1] = Publication[i]
    <3>1. \A i \in 1 .. 9 : plan[i] = IF i <= 1 THEN first[i] ELSE Publication[i - 1]
      BY <1>2, <2>1, <2>2, <2>3
    <3>2. \A i \in 1 .. 8 : i + 1 \in 1 .. 9 /\ ~(i + 1 <= 1) /\ i + 1 - 1 = i
      OBVIOUS
    <3>3. plan \in Seq(Durable) /\ Len(plan) = 9
      BY <1>2, <2>1, <2>2, <2>3
    <3>4. QED
      BY <2>1, <3>1, <3>2, <3>3
  <2>5. plan # <<>> /\ Head(plan) = status
    <3>1. Len(plan) # 0 /\ Head(plan) = plan[1]
      BY <2>4
    <3>2. QED
      BY <2>4, <3>1, EmptySeq
  <2>6. /\ Tail(plan) \in Seq(Durable) /\ Len(Tail(plan)) = Len(plan) - 1
        /\ \A i \in 1 .. Len(Tail(plan)) : Tail(plan)[i] = plan[i + 1]
    BY <2>4, <2>5, HeadTailProperties
  <2>7. Tail(plan) = Publication
    <3>1. Len(Tail(plan)) = 8
      BY <2>4, <2>6
    <3>2. \A i \in 1 .. Len(Tail(plan)) : Tail(plan)[i] = Publication[i]
      BY <2>4, <2>6, <3>1, Zenon
    <3>3. Len(Tail(plan)) = Len(Publication)
      BY <2>3, <3>1
    <3>4. QED
      BY <2>3, <2>6, <3>2, <3>3, SeqEqual, Zenon
  <2>8. QED
    BY <2>5, <2>7
<1>3. QED
  BY <1>1, <1>2

(* A command that asks leaves a quiet directory quiet.                       *)
LEMMA TakeLockKeeps ==
  ASSUME DirectoryInvariant, NEW p \in Process,
         NEW command \in Asking, TakeLock(p, command)
  PROVE  DirectoryInvariant'
<1> USE DEF DirectoryInvariant
<1>1. Shaped' /\ OneWriter'
  BY StepTyped, StepExclusive DEF Next, Command, Asking
<1>2. Recorded'
  BY RecordedFrame DEF TakeLock
<1>3. lock' # None
  BY DirectoryAssumption DEF TakeLock
<1>4. /\ proc'[p].phase = command /\ proc'[p].plan = <<>>
      /\ \A q \in Process \ {p} : proc'[q] = IdleProcess
  BY DirectoryAssumption DEF TakeLock, OneWriter, IdleProcess, Shaped, ProcessState
<1>5. Working(p)'
  <2>1. ledger'.file /\ ~interrupted' => Published({})'
    BY FilesFrame DEF TakeLock
  <2>2. QED
    BY <1>4, <2>1 DEF Working, Settled, Creating, Starting, Driving, Publishing, Reviewing, Asking
<1>6. \A q \in Process : Working(q)'
  BY <1>4, <1>5, IdleWorks
<1>7. QED
  BY <1>1, <1>2, <1>3, <1>6

(* A command that returns, is refused or dies gives the lock back; unless it *)
(* was interrupted, the directory is published then.                         *)
LEMMA LeaveKeeps ==
  ASSUME DirectoryInvariant, [Next]_vars, NEW p \in Process, proc[p].phase # "idle",
         Leave(p), UNCHANGED <<ledger, snapshot, files>>,
         ledger.file /\ ~interrupted' => Published({})
  PROVE  DirectoryInvariant'
<1> USE DEF DirectoryInvariant
<1>1. Shaped' /\ OneWriter'
  BY StepTyped, StepExclusive
<1>2. Recorded'
  BY RecordedFrame
<1>3. ledger'.file /\ ~interrupted' => Published({})'
  BY FilesFrame
<1>4. \A q \in Process : proc'[q] = IdleProcess
  BY Holder DEF Leave, Shaped
<1>5. \A q \in Process : Working(q)'
  BY <1>4, IdleWorks
<1>6. QED
  BY <1>1, <1>2, <1>3, <1>5

LEMMA RefuseKeeps ==
  ASSUME DirectoryInvariant, [Next]_vars, NEW p \in Process, proc[p].phase \in Asking, Refuse(p)
  PROVE  DirectoryInvariant'
<1>1. Settled(p)
  BY DEF DirectoryInvariant, Working
<1>2. QED
  BY <1>1, LeaveKeeps DEF Refuse, Settled, Asking

(* Without pending writes, what a command was to publish is published.       *)
LEMMA DoneIsPublished ==
  ASSUME DirectoryInvariant, NEW p \in Process, proc[p].plan = <<>>,
         \/ proc[p].phase = "publishing"
         \/ proc[p].phase = "reviewing" /\ ~interrupted
  PROVE  Published({})
<1>1. Publishing(p) /\ Reviewing(p)
  BY DEF DirectoryInvariant, Working
<1>2. Pending(p) = {}
  BY DEF Pending, Range
<1>3. ~Announcing(p)
  BY PlansGoOn DEF Announcing
<1>4. QED
  BY <1>1, <1>2, <1>3 DEF Publishing, Reviewing

LEMMA ReturnKeeps ==
  ASSUME DirectoryInvariant, NEW p \in Process, Return(p)
  PROVE  DirectoryInvariant'
<1>1. ~interrupted' => Published({})
  BY DoneIsPublished DEF Return
<1>2. QED
  BY <1>1, LeaveKeeps DEF Return, Next, Command

LEMMA DieKeeps ==
  ASSUME DirectoryInvariant, NEW p \in Process, Die(p)
  PROVE  DirectoryInvariant'
<1>1. ASSUME ledger.file, ~interrupted' PROVE Published({})
  <2>1. /\ ~interrupted /\ proc[p].plan = <<>>
        /\ proc[p].phase \in Asking \cup {"publishing", "reviewing"}
    BY <1>1 DEF Die, DirectoryInvariant, Shaped, ProcessState, Phase, Asking
  <2>2. Settled(p)
    BY DEF DirectoryInvariant, Working
  <2>3. QED
    BY <1>1, <2>1, <2>2, DoneIsPublished DEF Settled
<1>2. QED
  BY <1>1, LeaveKeeps DEF Die, Next

(* A step of the holder that keeps the lock concerns the holder only.        *)
LEMMA HolderKeeps ==
  ASSUME DirectoryInvariant, [Next]_vars, NEW p \in Process, proc[p].phase # "idle",
         UNCHANGED lock, \A q \in Process \ {p} : proc'[q] = proc[q], Recorded', Working(p)'
  PROVE  DirectoryInvariant'
<1> USE DEF DirectoryInvariant
<1>1. Shaped' /\ OneWriter'
  BY StepTyped, StepExclusive
<1>2. lock' # None /\ \A q \in Process \ {p} : proc'[q] = IdleProcess
  BY Holder
<1>3. \A q \in Process : Working(q)'
  BY <1>2, IdleWorks
<1>4. QED
  BY <1>1, <1>2, <1>3

LEMMA CreateLedgerKeeps ==
  ASSUME DirectoryInvariant, NEW p \in Process, CreateLedger(p)
  PROVE  DirectoryInvariant'
<1> USE DEF DirectoryInvariant
<1>0. Next
  BY DEF Next, Command
<1>1. CASE Refuse(p)
  BY <1>0, <1>1, RefuseKeeps DEF CreateLedger, Asking
<1>2. CASE ~ledger.file /\ ledger' = [ledger EXCEPT !.file = TRUE] /\ Follow(p, "created", <<>>)
           /\ UNCHANGED <<source, lock, snapshot, files, interrupted, deaths>>
  <2>1. /\ ledger'.file /\ ledger'.done = ledger.done /\ ledger'.slots = ledger.slots
        /\ ledger'.status = ledger.status
    BY <1>2 DEF Shaped, LedgerState
  <2>2. Decided' = Decided /\ Frozen' = Frozen /\ Labels' = Labels
    BY <1>2, <2>1 DEF Decided, Frozen, Labels
  <2>3. Unpaid /\ Unpaid'
    BY <1>2, <2>1, <2>2 DEF Recorded, Unpaid
  <2>4. Recorded'
    BY <1>2, <2>1, <2>2, <2>3
       DEF Recorded, OneInitialState, ReviewFollowsEvidence, Exists
  <2>5. /\ proc'[p].phase = "created" /\ proc'[p].plan = <<>>
        /\ \A q \in Process \ {p} : proc'[q] = proc[q]
    BY <1>2 DEF Follow, Shaped, ProcessState
  <2>6. Working(p)'
    BY <2>1, <2>3, <2>5
       DEF Working, Settled, Creating, Starting, Driving, Publishing, Reviewing, Asking
  <2>7. QED
    BY <1>0, <1>2, <2>4, <2>5, <2>6, HolderKeeps DEF CreateLedger
<1>3. QED
  BY <1>1, <1>2 DEF CreateLedger

LEMMA FreezeKeeps ==
  ASSUME DirectoryInvariant, NEW p \in Process, FreezeInitialState(p)
  PROVE  DirectoryInvariant'
<1> USE DEF DirectoryInvariant
<1>1. /\ proc'[p].phase = "starting" /\ proc'[p].plan = Startup /\ proc'[p].frozen = source
      /\ \A q \in Process \ {p} : proc'[q] = proc[q]
  BY DEF FreezeInitialState, Shaped, ProcessState
<1>2. Recorded' /\ (Unpaid' <=> Unpaid)
  BY RecordedFrame DEF FreezeInitialState
<1>3. ledger.file /\ Unpaid
  BY DEF FreezeInitialState, Working, Creating
<1>4. Starting(p)'
  <2>1. Startup \in Suffixes(Startup) /\ Range(Startup) = {"metadata", "frozen", "running", "snapshot"}
    BY WholePlans
  <2>2. source \in Source /\ ledger'.file
    BY <1>3 DEF Shaped, FreezeInitialState
  <2>3. QED
    BY <1>1, <1>2, <1>3, <2>1, <2>2 DEF Starting, Pending
<1>5. Working(p)'
  BY <1>1, <1>4 DEF Working, Settled, Creating, Driving, Publishing, Reviewing, Asking
<1>6. QED
  BY <1>1, <1>2, <1>5, HolderKeeps DEF FreezeInitialState, Next, Command

(* From a resumable directory, _drive_run or an early failure can begin.     *)
LEMMA DriveKeeps ==
  ASSUME DirectoryInvariant, [Next]_vars, NEW p \in Process, proc[p].phase # "idle", Resumable,
         NEW preparation \in {<<"slots", "running">>, <<"slots">>, <<"running">>},
         Drive(p, snapshot, preparation),
         UNCHANGED <<source, lock, ledger, snapshot, files, interrupted, deaths>>
  PROVE  DirectoryInvariant'
<1> USE DEF DirectoryInvariant
<1>1. /\ proc'[p].frozen = snapshot /\ \A q \in Process \ {p} : proc'[q] = proc[q]
      /\ snapshot \in TooSmall =>
            proc'[p].phase = "publishing" /\ proc'[p].plan = <<"failed">> \o Publication
      /\ snapshot \notin TooSmall =>
            proc'[p].phase = "driving" /\ proc'[p].plan = preparation
  BY DEF Drive, Shaped, ProcessState
<1>2. Recorded' /\ Resumable'
  BY RecordedFrame
<1>3. CASE snapshot \in TooSmall
  <2>1. Announcing(p)'
    BY <1>1, <1>3 DEF Announcing, FinalStatus
  <2>2. Working(p)'
    BY <1>1, <1>2, <1>3, <2>1
       DEF Working, Settled, Creating, Starting, Driving, Publishing, Reviewing, Asking
  <2>3. QED
    BY <1>1, <1>2, <2>2, HolderKeeps
<1>4. CASE snapshot \notin TooSmall
  <2>1. Working(p)'
    BY <1>1, <1>2, <1>4
       DEF Working, Settled, Creating, Starting, Driving, Publishing, Reviewing, Asking
  <2>2. QED
    BY <1>1, <1>2, <2>1, HolderKeeps
<1>5. QED
  BY <1>3, <1>4

LEMMA StartedKeeps ==
  ASSUME DirectoryInvariant, NEW p \in Process, Started(p)
  PROVE  DirectoryInvariant'
<1>1. Starting(p) /\ Pending(p) = {}
  BY DEF DirectoryInvariant, Working, Started, Pending, Range
<1>2. snapshot = proc[p].frozen /\ Resumable
  BY <1>1, DirectoryAssumption, AbsenceAssumption DEF Starting, Started, Resumable
<1>3. QED
  BY <1>2, DriveKeeps DEF Started, Next, Command

LEMMA OpenRunKeeps ==
  ASSUME DirectoryInvariant, NEW p \in Process, OpenRun(p)
  PROVE  DirectoryInvariant'
<1>0. Next
  BY DEF Next, Command
<1>1. CASE Refuse(p)
  BY <1>0, <1>1, RefuseKeeps DEF OpenRun, Asking
<1>2. CASE ~Refuse(p)
  BY <1>0, <1>2, DriveKeeps DEF OpenRun
<1>3. QED
  BY <1>1, <1>2

LEMMA DecideKeeps ==
  ASSUME DirectoryInvariant, NEW p \in Process, NEW e \in Episode, Decide(p, e)
  PROVE  DirectoryInvariant'
<1> USE DEF DirectoryInvariant
<1>1. Driving(p) /\ Resumable /\ proc[p].frozen = snapshot /\ snapshot # None
  BY DEF Decide, Working, Driving, Resumable
<1>2. ledger' = [ledger EXCEPT !.done[e] = snapshot] /\ UNCHANGED <<lock, proc, snapshot, files>>
  BY <1>1 DEF Decide
<1>3. /\ ledger'.done = [ledger.done EXCEPT ![e] = snapshot]
      /\ ledger'.file = ledger.file /\ ledger'.metadata = ledger.metadata
      /\ ledger'.frozen = ledger.frozen /\ ledger'.status = ledger.status
      /\ ledger'.slots = ledger.slots
  BY <1>2 DEF Shaped, LedgerState
<1>4. Decided' = Decided \cup {e} /\ Frozen' = Frozen /\ Labels' = Labels
  BY <1>1, <1>2, <1>3 DEF Decided, Shaped, LedgerState, Frozen, Labels
<1>5. Decided \notin Sufficient
  BY DEF Decide
<1>6. Recorded'
  <2>1. Resumable' /\ ledger'.file
    BY <1>1, <1>2, <1>3 DEF Resumable
  <2>2. OneInitialState'
    BY <1>2, <1>3, <1>4 DEF OneInitialState, Recorded, Shaped, LedgerState
  <2>3. Frozen = {} /\ ledger.status # "completed"
    BY <1>5 DEF Recorded, ReviewFollowsEvidence
  <2>4. ReviewFollowsEvidence'
    BY <1>2, <1>4, <2>3 DEF ReviewFollowsEvidence, Recorded, Exists
  <2>5. QED
    BY <1>3, <2>1, <2>2, <2>3, <2>4 DEF Recorded
<1>7. Working(p)'
  BY <1>1, <1>2, <1>3
     DEF Working, Settled, Creating, Starting, Driving, Publishing, Reviewing, Asking, Decide,
         Resumable
<1>8. QED
  BY <1>2, <1>6, <1>7, HolderKeeps DEF Decide, Next, Command

LEMMA StopDrivingKeeps ==
  ASSUME DirectoryInvariant, NEW p \in Process, StopDriving(p)
  PROVE  DirectoryInvariant'
<1> USE DEF DirectoryInvariant
<1>1. PICK status \in {"completed", "partial", "cancelled"} :
            /\ status = "completed" => Decided \in Sufficient
            /\ Follow(p, "publishing", <<status>> \o Publication)
  BY DEF StopDriving
<1>2. /\ proc'[p].phase = "publishing" /\ proc'[p].plan = <<status>> \o Publication
      /\ \A q \in Process \ {p} : proc'[q] = proc[q]
  BY <1>1 DEF Follow, Shaped, ProcessState
<1>3. Recorded' /\ Resumable' /\ Decided' = Decided
  BY RecordedFrame, FilesFrame DEF StopDriving, Working, Driving
<1>4. Announcing(p)'
  BY <1>1, <1>2, <1>3 DEF Announcing, FinalStatus
<1>5. Working(p)'
  BY <1>2, <1>3, <1>4
     DEF Working, Settled, Creating, Starting, Driving, Publishing, Reviewing, Asking
<1>6. QED
  BY <1>2, <1>3, <1>5, HolderKeeps DEF StopDriving, Next, Command

(* A cohort is frozen in a completed run, apart from the earlier ones.       *)
LEMMA OpenReviewKeeps ==
  ASSUME DirectoryInvariant, NEW p \in Process, OpenReview(p)
  PROVE  DirectoryInvariant'
<1> USE DEF DirectoryInvariant
<1>0. Next
  BY DEF Next, Command
<1>1. CASE Refuse(p)
  BY <1>0, <1>1, RefuseKeeps DEF OpenReview, Asking
<1>2. CASE ~Refuse(p)
  <2>1. PICK id \in CohortId \ {c.id : c \in Frozen},
             members \in SUBSET (Decided \ UNION {c.members : c \in Frozen}) :
                proc' = [proc EXCEPT
                    ![p].phase = "reviewing", ![p].plan = Freezing,
                    ![p].cohorts = Frozen \cup {[id |-> id, members |-> members]}]
    BY <1>2 DEF OpenReview
  <2> DEFINE cohorts == Frozen \cup {[id |-> id, members |-> members]}
  <2>2. /\ ledger.file /\ ledger.status = "completed" /\ proc[p].phase = "review"
        /\ UNCHANGED <<lock, ledger, snapshot, files, interrupted>>
    BY <1>2 DEF OpenReview
  <2>3. /\ proc'[p].phase = "reviewing" /\ proc'[p].plan = Freezing
        /\ proc'[p].cohorts = cohorts
        /\ \A q \in Process \ {p} : proc'[q] = proc[q]
    BY <2>1 DEF Shaped, ProcessState
  <2>4. /\ Frozen' = Frozen /\ Labels' = Labels /\ Recorded'
    BY <2>2, FilesFrame, RecordedFrame
  <2>5. Disjoint(cohorts)
    <3>1. Disjoint(Frozen)
      BY DEF Recorded, ReviewFollowsEvidence, Disjoint
    <3>2. QED
      BY <3>1 DEF Disjoint
  <2>6. ~interrupted => Published(Range(Freezing))
    <3>1. ~interrupted => Published({})
      BY <2>2 DEF Working, Settled, Asking
    <3>2. QED
      BY <3>1 DEF Published
  <2>7. ~interrupted' => Published(Range(Freezing))'
    BY <2>2, <2>6, FilesFrame
  <2>8. Range(Freezing) = {"cohorts", "queue", "quality", "truncate", "manifest"}
        /\ Freezing \in Suffixes(Freezing)
    BY WholePlans
  <2>9. Published(Pending(p))' <=> Published(Range(Freezing))'
    BY <2>3 DEF Published, Pending
  <2>10. Reviewing(p)'
    <3>1. Pending(p)' = {"cohorts", "queue", "quality", "truncate", "manifest"}
      BY <2>3, <2>8 DEF Pending
    <3>2. Disjoint(proc[p].cohorts)'
      BY <2>3, <2>5 DEF Disjoint
    <3> HIDE DEF cohorts
    <3>3. Frozen' \subseteq proc'[p].cohorts
      BY <2>3, <2>4 DEF cohorts
    <3>4. QED
      BY <2>2, <2>3, <2>7, <2>8, <2>9, <3>1, <3>2, <3>3 DEF Reviewing
  <2>11. Working(p)'
    BY <2>3, <2>10 DEF Working, Settled, Creating, Starting, Driving, Publishing, Asking
  <2>12. QED
    BY <1>0, <2>2, <2>3, <2>4, <2>11, HolderKeeps
<1>3. QED
  BY <1>1, <1>2

(* Labels are imported as a whole, each of a member of a frozen cohort.      *)
LEMMA OpenImportKeeps ==
  ASSUME DirectoryInvariant, NEW p \in Process, OpenImport(p)
  PROVE  DirectoryInvariant'
<1> USE DEF DirectoryInvariant
<1>0. Next
  BY DEF Next, Command
<1>1. CASE Refuse(p)
  BY <1>0, <1>1, RefuseKeeps DEF OpenImport, Asking
<1>2. CASE ~Refuse(p)
  <2>1. PICK submitted \in SUBSET Missing :
                proc' = [proc EXCEPT ![p].phase = "reviewing", ![p].plan = Importing,
                                     ![p].labels = Labels \cup submitted]
    BY <1>2 DEF OpenImport
  <2> DEFINE labels == Labels \cup submitted
  <2>2. /\ ledger.file /\ ledger.status = "completed" /\ proc[p].phase = "import"
        /\ UNCHANGED <<lock, ledger, snapshot, files, interrupted>>
    BY <1>2 DEF OpenImport
  <2>3. /\ proc'[p].phase = "reviewing" /\ proc'[p].plan = Importing
        /\ proc'[p].labels = labels
        /\ \A q \in Process \ {p} : proc'[q] = proc[q]
    BY <2>1 DEF Shaped, ProcessState
  <2>4. /\ Frozen' = Frozen /\ Labels' = Labels /\ Recorded'
    BY <2>2, FilesFrame, RecordedFrame
  <2>5. Covered(labels)
    <3>1. Covered(Labels)
      BY DEF Recorded, ReviewFollowsEvidence, Covered
    <3>2. QED
      BY <3>1 DEF Covered, Missing
  <2>6. ~interrupted => Published(Range(Importing))
    <3>1. ~interrupted => Published({})
      BY <2>2 DEF Working, Settled, Asking
    <3>2. QED
      BY <3>1 DEF Published
  <2>7. ~interrupted' => Published(Range(Importing))'
    BY <2>2, <2>6, FilesFrame
  <2>8. Range(Importing) = {"labels", "labelReport", "quality", "truncate", "manifest"}
        /\ Importing \in Suffixes(Importing)
    BY WholePlans
  <2>9. Published(Pending(p))' <=> Published(Range(Importing))'
    BY <2>3 DEF Published, Pending
  <2>10. Reviewing(p)'
    <3>1. Pending(p)' = {"labels", "labelReport", "quality", "truncate", "manifest"}
      BY <2>3, <2>8 DEF Pending
    <3>2. Covered(proc[p].labels)'
      BY <2>3, <2>4, <2>5 DEF Covered
    <3> HIDE DEF labels
    <3>3. Labels' \subseteq proc'[p].labels
      BY <2>3, <2>4 DEF labels
    <3>4. QED
      BY <2>2, <2>3, <2>7, <2>8, <2>9, <3>1, <3>2, <3>3 DEF Reviewing
  <2>11. Working(p)'
    BY <2>3, <2>10 DEF Working, Settled, Creating, Starting, Driving, Publishing, Asking
  <2>12. QED
    BY <1>0, <2>2, <2>3, <2>4, <2>11, HolderKeeps
<1>3. QED
  BY <1>1, <1>2

(* A process that has done one write goes on to the next.                    *)
LEMMA AdvanceEffect ==
  ASSUME Shaped, NEW p \in Process, Advance(p)
  PROVE  /\ proc'[p].plan = Tail(proc[p].plan) /\ proc'[p].phase = proc[p].phase
         /\ proc'[p].frozen = proc[p].frozen /\ proc'[p].cohorts = proc[p].cohorts
         /\ proc'[p].labels = proc[p].labels
         /\ \A q \in Process \ {p} : proc'[q] = proc[q]
  BY DEF Advance, Shaped, ProcessState

(* The five kinds of write.                                                  *)
WriteOf(p, w) ==
    \/ WriteLedger(p, w) \/ WriteSnapshot(p, w) \/ RecordJudgment(p, w)
    \/ WriteFile(p, w) \/ WriteManifest(p, w)

(* The start of a run writes the rows a resume needs, before anything paid.  *)
LEMMA StartingWrites ==
  ASSUME DirectoryInvariant, [Next]_vars, NEW p \in Process, proc[p].phase = "starting",
         proc[p].plan # <<>>, NEW w, w = Head(proc[p].plan), WriteOf(p, w)
  PROVE  DirectoryInvariant'
<1> USE DEF DirectoryInvariant
<1>1. /\ proc[p].plan \in Suffixes(Startup) /\ Starting(p) /\ ledger.file /\ Unpaid
      /\ proc[p].frozen \in Source
  BY DEF Working, Starting
<1>2. /\ Tail(proc[p].plan) \in Suffixes(Startup)
      /\ Range(Tail(proc[p].plan)) = Pending(p) \ {w}
      /\ w \in {"metadata", "frozen", "running", "snapshot"}
  BY <1>1, StartupPlan DEF Pending
<1>3. (WriteLedger(p, w) \/ WriteSnapshot(p, w)) /\ Advance(p) /\ UNCHANGED <<lock, files>>
  BY <1>2 DEF WriteOf, WriteLedger, WriteSnapshot, RecordJudgment, WriteFile, WriteManifest, Base,
     Review, Collections
<1>4. /\ proc'[p].plan = Tail(proc[p].plan) /\ proc'[p].phase = "starting"
      /\ proc'[p].frozen = proc[p].frozen /\ Pending(p)' = Pending(p) \ {w}
      /\ \A q \in Process \ {p} : proc'[q] = proc[q]
  BY <1>2, <1>3, AdvanceEffect DEF Pending
<1>5. /\ ledger'.done = ledger.done /\ ledger'.slots = ledger.slots /\ ledger'.file = ledger.file
      /\ ledger'.metadata = (ledger.metadata \/ w = "metadata")
      /\ ledger'.frozen = IF w = "frozen" THEN proc[p].frozen ELSE ledger.frozen
      /\ ledger'.status = IF w = "running" THEN "running" ELSE ledger.status
      /\ snapshot' = IF w = "snapshot" THEN proc[p].frozen ELSE snapshot
  BY <1>2, <1>3 DEF WriteLedger, WriteSnapshot, Shaped, LedgerState, FinalStatus
<1>6. Decided' = Decided /\ Frozen' = Frozen /\ Labels' = Labels
  BY <1>3, <1>5 DEF Decided, Frozen, Labels
<1>7. Unpaid'
  BY <1>1, <1>5, <1>6 DEF Unpaid, FinalStatus
<1>8. Recorded'
  BY <1>3, <1>5, <1>6, <1>7
     DEF Recorded, Unpaid, OneInitialState, ReviewFollowsEvidence, Exists, FinalStatus
<1>9. Starting(p)'
  BY <1>1, <1>2, <1>4, <1>5, <1>7 DEF Starting
<1>10. Working(p)'
  BY <1>4, <1>9 DEF Working, Settled, Creating, Driving, Publishing, Reviewing, Asking
<1>11. QED
  BY <1>3, <1>4, <1>8, <1>10, HolderKeeps

(* _drive_run starts with the slots and the status of a resumable run.       *)
LEMMA DrivingWrites ==
  ASSUME DirectoryInvariant, [Next]_vars, NEW p \in Process, proc[p].phase = "driving",
         proc[p].plan # <<>>, NEW w, w = Head(proc[p].plan), WriteOf(p, w)
  PROVE  DirectoryInvariant'
<1> USE DEF DirectoryInvariant
<1>1. /\ proc[p].plan \in {<<"slots", "running">>, <<"slots">>, <<"running">>}
      /\ Resumable /\ proc[p].frozen = snapshot
  BY DEF Working, Driving
<1>2. /\ w \in {"slots", "running"}
      /\ Tail(proc[p].plan) \in {<<"running">>, <<>>}
  <2>1. Head(<<"slots", "running">>) = "slots" /\ Tail(<<"slots", "running">>) = <<"running">>
    OBVIOUS
  <2>2. Head(<<"slots">>) = "slots" /\ Tail(<<"slots">>) = <<>>
    OBVIOUS
  <2>3. Head(<<"running">>) = "running" /\ Tail(<<"running">>) = <<>>
    OBVIOUS
  <2>4. QED
    BY <1>1, <2>1, <2>2, <2>3
<1>3. WriteLedger(p, w) /\ Advance(p) /\ UNCHANGED <<lock, snapshot, files>>
  BY <1>2 DEF WriteOf, WriteLedger, WriteSnapshot, RecordJudgment, WriteFile, WriteManifest, Base,
     Review, Collections
<1>4. /\ proc'[p].plan = Tail(proc[p].plan) /\ proc'[p].phase = "driving"
      /\ proc'[p].frozen = proc[p].frozen
      /\ \A q \in Process \ {p} : proc'[q] = proc[q]
  BY <1>3, AdvanceEffect
<1>5. /\ ledger'.done = ledger.done /\ ledger'.file = ledger.file
      /\ ledger'.metadata = ledger.metadata /\ ledger'.frozen = ledger.frozen
      /\ ledger'.status \in {ledger.status, "running"}
  BY <1>2, <1>3 DEF WriteLedger, Shaped, LedgerState, FinalStatus
<1>6. Decided' = Decided /\ Frozen' = Frozen /\ Labels' = Labels
  BY <1>3, <1>5 DEF Decided, Frozen, Labels
<1>7. Resumable' /\ ledger'.file
  BY <1>1, <1>3, <1>5, AbsenceAssumption DEF Resumable
<1>8. Recorded'
  BY <1>3, <1>5, <1>6, <1>7 DEF Recorded, OneInitialState, ReviewFollowsEvidence, Exists
<1>9. Working(p)'
  BY <1>1, <1>2, <1>3, <1>4, <1>7
     DEF Working, Settled, Creating, Starting, Driving, Publishing, Reviewing, Asking
<1>10. QED
  BY <1>3, <1>4, <1>8, <1>9, HolderKeeps

(* A published file is what the ledger and the review files give, and stays  *)
(* so while the later files are written.                                     *)
LEMMA BaseWritten ==
  ASSUME Shaped, NEW pending, Published(pending), "manifest" \in pending, NEW w \in Base, NEW q,
         files' = [files EXCEPT ![w] = Content(w, q)], UNCHANGED ledger
  PROVE  /\ Decided' = Decided /\ Frozen' = Frozen /\ Labels' = Labels
         /\ Published(pending \ {w})'
<1>1. DOMAIN files' = DOMAIN files /\ Base \subseteq DOMAIN files
      /\ files'[w] = Content(w, q) /\ \A f \in DOMAIN files \ {w} : files'[f] = files[f]
  BY DEF Shaped
<1>2. Decided' = Decided /\ Frozen' = Frozen /\ Labels' = Labels
  BY <1>1 DEF Decided, Frozen, Labels, Shaped, Base, Collections, Review
<1>3. ASSUME NEW f \in Base PROVE Content(f, IdleProcess)' = Content(f, q) /\ Content(f, IdleProcess) = Content(f, q)
  BY <1>2 DEF Content, Base, Collections
<1>4. \A f \in Base \ (pending \ {w}) : files'[f] = Content(f, IdleProcess)'
  BY <1>1, <1>3 DEF Published
<1>5. "manifest" \in pending \ {w} /\ ledger'.status \in FinalStatus
  BY DEF Base, Collections, Published
<1>6. Published(pending \ {w})'
  BY <1>4, <1>5 DEF Published
<1>7. QED
  BY <1>2, <1>6

LEMMA ManifestWritten ==
  ASSUME Shaped, NEW pending, Published(pending), "manifest" \in pending, NEW content,
         files' = [files EXCEPT !["manifest"] = content], UNCHANGED ledger
  PROVE  /\ Decided' = Decided /\ Frozen' = Frozen /\ Labels' = Labels
         /\ Published(pending \ {"truncate"})'
         /\ content = Bound => Published(pending \ {"manifest"})'
<1>1. DOMAIN files' = DOMAIN files /\ Base \cup Review \subseteq DOMAIN files
      /\ files'["manifest"] = content /\ \A f \in DOMAIN files \ {"manifest"} : files'[f] = files[f]
  BY DEF Shaped
<1>2. "manifest" \notin Base \cup Review /\ "truncate" \notin Base
  BY DEF Base, Collections, Review
<1>3. Decided' = Decided /\ Frozen' = Frozen /\ Labels' = Labels
  BY <1>1, <1>2 DEF Decided, Frozen, Labels, Review
<1>4. \A f \in Base : Content(f, IdleProcess)' = Content(f, IdleProcess) /\ files'[f] = files[f]
  BY <1>1, <1>2, <1>3 DEF Content, Base, Collections
<1>5. Bound' = Bound
  BY <1>1, <1>2 DEF Bound, Exists
<1>6. QED
  BY <1>1, <1>2, <1>3, <1>4, <1>5 DEF Published

(* Review files make the quality report and the manifest out of date only.   *)
LEMMA ReviewWritten ==
  ASSUME Shaped, NEW pending, Published(pending), {"quality", "manifest"} \subseteq pending,
         NEW w \in Review, NEW content, files' = [files EXCEPT ![w] = content], UNCHANGED ledger
  PROVE  Published(pending \ {w})'
<1>1. DOMAIN files' = DOMAIN files /\ Base \subseteq DOMAIN files
      /\ \A f \in DOMAIN files \ {w} : files'[f] = files[f]
  BY DEF Shaped
<1>2. w \notin Base \cup {"manifest"} /\ Decided' = Decided
  BY DEF Base, Collections, Review, Decided
<1>3. \A f \in Base \ {"quality"} :
         Content(f, IdleProcess)' = Content(f, IdleProcess) /\ files'[f] = files[f]
  BY <1>1, <1>2 DEF Content, Base, Collections
<1>4. QED
  BY <1>2, <1>3 DEF Published, Review

(* A new judgment makes the judgments and the quality report out of date.    *)
LEMMA JudgmentWritten ==
  ASSUME Shaped, NEW pending, Published(pending), {"judgments", "quality", "manifest"} \subseteq pending,
         NEW p, NEW w, RecordJudgment(p, w)
  PROVE  /\ Decided' = Decided /\ Frozen' = Frozen /\ Labels' = Labels
         /\ ledger' = [ledger EXCEPT !.judged = ledger'.judged]
         /\ Published(pending)'
<1>1. /\ ledger' = [ledger EXCEPT !.judged = ledger'.judged] /\ UNCHANGED files
      /\ ledger'.done = ledger.done /\ ledger'.status = ledger.status
  BY DEF RecordJudgment, Shaped, LedgerState
<1>2. Decided' = Decided /\ Frozen' = Frozen /\ Labels' = Labels
  BY <1>1 DEF Decided, Frozen, Labels
<1>3. \A f \in Base \ {"judgments", "quality"} : Content(f, IdleProcess)' = Content(f, IdleProcess)
  BY <1>1, <1>2 DEF Content, Base, Collections
<1>4. QED
  BY <1>1, <1>2, <1>3 DEF Published

(* _finalize_run publishes the files in order, the manifest last.            *)
LEMMA PublishingWrites ==
  ASSUME DirectoryInvariant, [Next]_vars, NEW p \in Process, proc[p].phase = "publishing",
         proc[p].plan # <<>>, NEW w, w = Head(proc[p].plan), WriteOf(p, w)
  PROVE  DirectoryInvariant'
<1> USE DEF DirectoryInvariant
<1>0. Publishing(p)
  BY DEF Working
<1>1. Resumable /\ (Announcing(p) \/ (proc[p].plan \in Suffixes(Publication) /\ Published(Pending(p))))
  BY <1>0 DEF Publishing
<1>2. CASE Announcing(p)
  <2>1. PICK status \in FinalStatus :
            /\ proc[p].plan = <<status>> \o Publication
            /\ status = "completed" => Decided \in Sufficient
    BY <1>2 DEF Announcing
  <2>2. w = status /\ Tail(proc[p].plan) = Publication
    BY <2>1, PlansGoOn
  <2>3. WriteLedger(p, w) /\ Advance(p) /\ UNCHANGED <<lock, snapshot, files>>
    BY <2>2 DEF WriteOf, WriteLedger, WriteSnapshot, RecordJudgment, WriteFile, WriteManifest, Base,
       Review, Collections, FinalStatus
  <2>4. /\ proc'[p].plan = Publication /\ proc'[p].phase = "publishing"
        /\ \A q \in Process \ {p} : proc'[q] = proc[q]
    BY <2>2, <2>3, AdvanceEffect
  <2>5. /\ ledger'.done = ledger.done /\ ledger'.file = ledger.file
        /\ ledger'.metadata = ledger.metadata /\ ledger'.frozen = ledger.frozen
        /\ ledger'.status = status
    BY <2>2, <2>3 DEF WriteLedger, Shaped, LedgerState, FinalStatus
  <2>6. Decided' = Decided /\ Frozen' = Frozen /\ Labels' = Labels
    BY <2>3, <2>5 DEF Decided, Frozen, Labels
  <2>7. Resumable' /\ ledger'.file
    BY <1>1, <2>3, <2>5, AbsenceAssumption DEF Resumable
  <2>8. Recorded'
    BY <2>1, <2>3, <2>5, <2>6, <2>7 DEF Recorded, OneInitialState, ReviewFollowsEvidence, Exists
  <2>9. Publication \in Suffixes(Publication) /\ Pending(p)' = Base \cup {"truncate", "manifest"}
    BY <2>4, WholePlans DEF Pending
  <2>10. Published(Pending(p))'
    BY <2>5, <2>9 DEF Published
  <2>11. Working(p)'
    BY <2>4, <2>7, <2>9, <2>10
       DEF Working, Settled, Creating, Starting, Driving, Publishing, Reviewing, Asking
  <2>12. QED
    BY <2>3, <2>4, <2>8, <2>11, HolderKeeps
<1>3. CASE proc[p].plan \in Suffixes(Publication) /\ Published(Pending(p))
  <2>0. PICK old : old = Pending(p) /\ Published(old)
    BY <1>3
  <2>1. /\ Tail(proc[p].plan) \in Suffixes(Publication)
        /\ Range(Tail(proc[p].plan)) = old \ {w}
        /\ w \in Base \cup {"truncate", "manifest"} /\ w \in old
        /\ w # "manifest" => "manifest" \in old \ {w}
        /\ w = "judgments" => "quality" \in old \ {w}
    BY <1>3, <2>0, PublicationPlan DEF Pending
  <2>2. "manifest" \in old
    BY <2>1
  <2>3. ASSUME Advance(p), UNCHANGED <<lock, ledger, snapshot>>,
               \A f \in Review : files'[f] = files[f],
               Published(old \ {w})',
               Decided' = Decided, Frozen' = Frozen, Labels' = Labels
        PROVE  DirectoryInvariant'
    <3>1. /\ proc'[p].plan = Tail(proc[p].plan) /\ proc'[p].phase = "publishing"
          /\ Pending(p)' = old \ {w}
          /\ \A q \in Process \ {p} : proc'[q] = proc[q]
      BY <2>1, <2>3, AdvanceEffect DEF Pending
    <3>2. Resumable' /\ (Unpaid' <=> Unpaid)
      BY <1>1, <2>3 DEF Resumable, Unpaid
    <3>3. Recorded'
      BY <2>3, <3>2 DEF Recorded, OneInitialState, ReviewFollowsEvidence, Exists, Review
    <3>4. Published(Pending(p))'
      BY <2>3, <3>1 DEF Published
    <3>5. Working(p)'
      BY <2>1, <3>1, <3>2, <3>4
         DEF Working, Settled, Creating, Starting, Driving, Publishing, Reviewing, Asking
    <3>6. QED
      BY <2>3, <3>1, <3>3, <3>5, HolderKeeps
  <2>4. CASE WriteFile(p, w)
    <3>1. w \in Base /\ files' = [files EXCEPT ![w] = Content(w, proc[p])]
      BY <2>1, <2>4 DEF WriteFile, Review
    <3>2. \A f \in Review : files'[f] = files[f]
      BY <3>1 DEF Base, Collections, Review, Shaped
    <3>3. QED
      BY <2>0, <2>2, <2>3, <2>4, <3>1, <3>2, BaseWritten DEF WriteFile
  <2>5. CASE RecordJudgment(p, w)
    <3>1. {"judgments", "quality", "manifest"} \subseteq old
      BY <2>1, <2>5 DEF RecordJudgment
    <3>2. /\ Decided' = Decided /\ Frozen' = Frozen /\ Labels' = Labels
          /\ ledger' = [ledger EXCEPT !.judged = ledger'.judged]
          /\ Published(old)'
      BY <2>0, <2>5, <3>1, JudgmentWritten
    <3>3. UNCHANGED <<lock, proc, snapshot, files>>
      BY <2>5 DEF RecordJudgment
    <3>4. /\ ledger'.done = ledger.done /\ ledger'.status = ledger.status
          /\ ledger'.file = ledger.file /\ ledger'.metadata = ledger.metadata
          /\ ledger'.frozen = ledger.frozen /\ ledger'.slots = ledger.slots
      BY <3>2 DEF Shaped, LedgerState
    <3>5. Recorded' /\ Resumable'
      BY <1>1, <3>2, <3>3, <3>4
         DEF Recorded, Unpaid, Resumable, OneInitialState, ReviewFollowsEvidence, Exists
    <3>6. Working(p)'
      <4>1. Pending(p)' = old /\ Published(Pending(p))'
        BY <2>0, <3>2, <3>3 DEF Pending, Published
      <4>2. QED
        BY <1>3, <3>3, <3>5, <4>1
           DEF Working, Settled, Creating, Starting, Driving, Publishing, Reviewing, Asking
    <3>7. QED
      BY <3>3, <3>5, <3>6, HolderKeeps
  <2>6. CASE WriteManifest(p, w)
    <3>1. CASE Leave(p) /\ interrupted' = TRUE /\ UNCHANGED <<source, ledger, snapshot, files, deaths>>
      BY <2>6, <3>1, LeaveKeeps
    <3>2. CASE w = "truncate" /\ files' = [files EXCEPT !["manifest"] = "torn"] /\ Advance(p)
               /\ UNCHANGED <<source, lock, ledger, snapshot, interrupted, deaths>>
      <4>1. \A f \in Review : files'[f] = files[f]
        BY <3>2 DEF Review, Shaped
      <4>2. QED
        BY <2>0, <2>2, <2>3, <3>2, <4>1, ManifestWritten
    <3>3. CASE w = "manifest" /\ files' = [files EXCEPT !["manifest"] = Bound] /\ Advance(p)
               /\ UNCHANGED <<source, lock, ledger, snapshot, interrupted, deaths>>
      <4>1. \A f \in Review : files'[f] = files[f]
        BY <3>3 DEF Review, Shaped
      <4>2. QED
        BY <2>0, <2>2, <2>3, <3>3, <4>1, ManifestWritten
    <3>4. QED
      BY <2>6, <3>1, <3>2, <3>3 DEF WriteManifest
  <2>7. QED
    BY <2>1, <2>4, <2>5, <2>6
       DEF WriteOf, WriteLedger, WriteSnapshot, Base, Collections, FinalStatus
<1>4. QED
  BY <1>1, <1>2, <1>3

(* The review commands write the evidence first, then what is shown of it,   *)
(* then the quality report and the manifest.                                 *)
LEMMA ReviewingWrites ==
  ASSUME DirectoryInvariant, [Next]_vars, NEW p \in Process, proc[p].phase = "reviewing",
         proc[p].plan # <<>>, NEW w, w = Head(proc[p].plan), WriteOf(p, w)
  PROVE  DirectoryInvariant'
<1> USE DEF DirectoryInvariant
<1>1. PICK old : old = Pending(p)
  OBVIOUS
<1>2. Reviewing(p)
  BY DEF Working
<1>3. /\ proc[p].plan \in Suffixes(Freezing) \cup Suffixes(Importing)
      /\ ledger.status = "completed" /\ (~interrupted => Published(old))
      /\ "cohorts" \in old => Frozen \subseteq proc[p].cohorts /\ Disjoint(proc[p].cohorts)
      /\ "queue" \in old => "cohorts" \in old \/ files["cohorts"] = proc[p].cohorts
      /\ "labels" \in old => Labels \subseteq proc[p].labels /\ Covered(proc[p].labels)
      /\ "labelReport" \in old => "labels" \in old \/ files["labels"] = proc[p].labels
  BY <1>1, <1>2 DEF Reviewing
<1>4. /\ Tail(proc[p].plan) \in Suffixes(Freezing) \cup Suffixes(Importing)
      /\ Range(Tail(proc[p].plan)) = old \ {w} /\ w \in old
      /\ w \in Review \cup {"quality", "truncate", "manifest"}
      /\ w # "manifest" => "manifest" \in old \ {w}
      /\ w \in Review => "quality" \in old \ {w}
      /\ w = "queue" => "cohorts" \notin old
      /\ w = "labelReport" => "labels" \notin old
  <2>1. CASE proc[p].plan \in Suffixes(Freezing)
    BY <1>1, <2>1, FreezingPlan DEF Pending, Review
  <2>2. CASE proc[p].plan \in Suffixes(Importing)
    BY <1>1, <2>2, ImportingPlan DEF Pending, Review
  <2>3. QED
    BY <1>3, <2>1, <2>2
<1>5. /\ proc[p].cohorts # None /\ proc[p].labels # None
      /\ ~Unpaid /\ Resumable /\ Decided \in Sufficient /\ Recorded
  BY <1>3, AbsenceAssumption DEF Shaped, ProcessState, Recorded, Unpaid, FinalStatus
<1>6. ASSUME Advance(p), UNCHANGED <<lock, ledger, snapshot, interrupted>>,
             ~interrupted => Published(old \ {w})', ReviewFollowsEvidence',
             Frozen \subseteq Frozen', Frozen' = Frozen \/ Frozen' = proc[p].cohorts,
             Labels' = Labels \/ Labels' = proc[p].labels,
             w \notin Review => files'["cohorts"] = files["cohorts"] /\ files'["labels"] = files["labels"],
             w = "cohorts" => files'["cohorts"] = proc[p].cohorts,
             w # "cohorts" => files'["cohorts"] = files["cohorts"] /\ Frozen' = Frozen,
             w = "labels" => files'["labels"] = proc[p].labels,
             w # "labels" => files'["labels"] = files["labels"] /\ Labels' = Labels
      PROVE  DirectoryInvariant'
  <2>1. /\ proc'[p].plan = Tail(proc[p].plan) /\ proc'[p].phase = "reviewing"
        /\ proc'[p].cohorts = proc[p].cohorts /\ proc'[p].labels = proc[p].labels
        /\ Pending(p)' = old \ {w}
        /\ \A q \in Process \ {p} : proc'[q] = proc[q]
    BY <1>4, <1>6, AdvanceEffect DEF Pending
  <2>2. Decided' = Decided /\ Resumable' /\ ledger'.status = "completed"
    BY <1>3, <1>5, <1>6 DEF Decided, Resumable
  <2>3. Recorded'
    BY <1>5, <1>6, <2>2 DEF Recorded, OneInitialState, Unpaid
  <2>4. /\ "cohorts" \in old \ {w} => Frozen' \subseteq proc[p].cohorts /\ Disjoint(proc[p].cohorts)
        /\ "queue" \in old \ {w} => "cohorts" \in old \ {w} \/ files'["cohorts"] = proc[p].cohorts
    BY <1>3, <1>6
  <2>5. /\ "labels" \in old \ {w} => Labels' \subseteq proc[p].labels /\ Covered(proc[p].labels)'
        /\ "labelReport" \in old \ {w} => "labels" \in old \ {w} \/ files'["labels"] = proc[p].labels
    BY <1>3, <1>6, <2>1 DEF Covered
  <2>6. Reviewing(p)'
    <3>1. ~interrupted' => Published(Pending(p))'
      BY <1>6, <2>1 DEF Published
    <3>2. Disjoint(proc[p].cohorts)' <=> Disjoint(proc[p].cohorts)
      BY <2>1 DEF Disjoint
    <3>3. QED
      BY <1>4, <2>1, <2>2, <2>4, <2>5, <3>1, <3>2 DEF Reviewing
  <2>7. Working(p)'
    BY <2>1, <2>6 DEF Working, Settled, Creating, Starting, Driving, Publishing, Asking
  <2>8. QED
    BY <1>6, <2>1, <2>3, <2>7, HolderKeeps
<1>7. CASE WriteFile(p, w) /\ w \in Review
  <2>1. /\ files' = [files EXCEPT ![w] = Content(w, proc[p])] /\ Advance(p)
        /\ UNCHANGED <<lock, ledger, snapshot, interrupted>>
    BY <1>7 DEF WriteFile
  <2>2. /\ files'[w] = Content(w, proc[p])
        /\ \A f \in Review \ {w} : files'[f] = files[f]
        /\ Decided' = Decided
    BY <1>7, <2>1 DEF Shaped, Decided
  <2>3. ~interrupted => Published(old \ {w})'
    BY <1>3, <1>4, <1>7, <2>1, ReviewWritten
  <2>4. w \in {"cohorts", "queue"} => Content(w, proc[p]) = proc[p].cohorts
    BY DEF Content, Base, Collections
  <2>5. w \in {"labels", "labelReport"} => Content(w, proc[p]) = proc[p].labels
    BY DEF Content, Base, Collections
  <2>6. CASE w = "cohorts"
    <3>1. /\ Frozen' = proc[p].cohorts /\ Labels' = Labels /\ files'["cohorts"] = proc[p].cohorts
          /\ \A f \in {"queue", "labels", "labelReport"} : files'[f] = files[f]
      BY <1>5, <2>2, <2>4, <2>6 DEF Frozen, Labels, Review
    <3>2. ReviewFollowsEvidence'
      BY <1>3, <1>4, <1>5, <2>2, <2>6, <3>1 DEF Recorded, ReviewFollowsEvidence, Disjoint, Exists
    <3>3. QED
      BY <1>3, <1>4, <1>6, <1>7, <2>1, <2>3, <2>6, <3>1, <3>2
  <2>7. CASE w = "queue"
    <3>1. /\ Frozen' = Frozen /\ Labels' = Labels /\ files'["queue"] = proc[p].cohorts
          /\ \A f \in {"cohorts", "labels", "labelReport"} : files'[f] = files[f]
      BY <2>2, <2>4, <2>7 DEF Frozen, Labels, Review
    <3>2. Frozen = proc[p].cohorts
      BY <1>3, <1>4, <1>5, <2>7 DEF Frozen
    <3>3. ReviewFollowsEvidence'
      BY <1>5, <2>2, <3>1, <3>2 DEF Recorded, ReviewFollowsEvidence, Exists
    <3>4. QED
      BY <1>6, <1>7, <2>1, <2>3, <2>7, <3>1, <3>3
  <2>8. CASE w = "labels"
    <3>1. /\ Frozen' = Frozen /\ Labels' = proc[p].labels /\ files'["labels"] = proc[p].labels
          /\ \A f \in {"cohorts", "queue", "labelReport"} : files'[f] = files[f]
      BY <1>5, <2>2, <2>5, <2>8 DEF Frozen, Labels, Review
    <3>2. ReviewFollowsEvidence'
      BY <1>3, <1>4, <1>5, <2>2, <2>8, <3>1 DEF Recorded, ReviewFollowsEvidence, Covered, Exists
    <3>3. QED
      BY <1>6, <1>7, <2>1, <2>3, <2>8, <3>1, <3>2
  <2>9. CASE w = "labelReport"
    <3>1. /\ Frozen' = Frozen /\ Labels' = Labels /\ files'["labelReport"] = proc[p].labels
          /\ \A f \in {"cohorts", "queue", "labels"} : files'[f] = files[f]
      BY <2>2, <2>5, <2>9 DEF Frozen, Labels, Review
    <3>2. Labels = proc[p].labels
      BY <1>3, <1>4, <1>5, <2>9 DEF Labels
    <3>3. ReviewFollowsEvidence'
      BY <1>5, <2>2, <3>1, <3>2 DEF Recorded, ReviewFollowsEvidence, Exists
    <3>4. QED
      BY <1>6, <1>7, <2>1, <2>3, <2>9, <3>1, <3>3
  <2>10. QED
    BY <1>7, <2>6, <2>7, <2>8, <2>9 DEF Review
<1>8. ASSUME Advance(p), UNCHANGED <<lock, ledger, snapshot, interrupted>>, w \notin Review,
             \A f \in Review : files'[f] = files[f],
             ~interrupted => Published(old \ {w})'
      PROVE  DirectoryInvariant'
  <2>1. /\ files'["cohorts"] = files["cohorts"] /\ files'["labels"] = files["labels"]
        /\ Frozen' = Frozen /\ Labels' = Labels /\ Decided' = Decided
    BY <1>8 DEF Frozen, Labels, Decided, Review
  <2>2. ReviewFollowsEvidence'
    BY <1>5, <1>8, <2>1 DEF Recorded, ReviewFollowsEvidence, Exists, Review
  <2>3. w # "cohorts" /\ w # "labels"
    BY <1>8 DEF Review
  <2>4. QED
    BY <1>6, <1>8, <2>1, <2>2, <2>3
<1>9. CASE WriteFile(p, w) /\ w \notin Review
  <2>1. /\ files' = [files EXCEPT ![w] = Content(w, proc[p])] /\ Advance(p) /\ w \in Base
        /\ UNCHANGED <<lock, ledger, snapshot, interrupted>>
    BY <1>9 DEF WriteFile
  <2>2. \A f \in Review : files'[f] = files[f]
    BY <1>9, <2>1 DEF Shaped
  <2>3. w # "manifest"
    BY <2>1 DEF Base, Collections
  <2>4. ~interrupted => Published(old \ {w})'
    BY <1>3, <1>4, <2>1, <2>3, BaseWritten
  <2>5. QED
    BY <1>8, <1>9, <2>1, <2>2, <2>4
<1>10. CASE WriteManifest(p, w)
  <2>1. CASE Leave(p) /\ interrupted' = TRUE /\ UNCHANGED <<source, ledger, snapshot, files, deaths>>
    BY <2>1, LeaveKeeps
  <2>2. CASE w \in {"truncate", "manifest"} /\ Advance(p)
             /\ files' = [files EXCEPT !["manifest"] = IF w = "truncate" THEN "torn" ELSE Bound]
             /\ UNCHANGED <<source, lock, ledger, snapshot, interrupted, deaths>>
    <3>1. PICK content : content = IF w = "truncate" THEN "torn" ELSE Bound
      OBVIOUS
    <3>2. \A f \in Review : files'[f] = files[f]
      BY <2>2 DEF Review, Shaped
    <3>3. "manifest" \in old /\ w \notin Review
      BY <1>4, <2>2 DEF Review
    <3>4. ~interrupted => Published(old \ {w})'
      BY <1>3, <2>2, <3>1, <3>3, ManifestWritten
    <3>5. QED
      BY <1>8, <2>2, <3>2, <3>3, <3>4
  <2>3. QED
    BY <1>10, <2>1, <2>2 DEF WriteManifest
<1>11. QED
  BY <1>4, <1>7, <1>9, <1>10
     DEF WriteOf, WriteLedger, WriteSnapshot, RecordJudgment, Review, FinalStatus

(* What each phase writes next.                                              *)
LEMMA NextWrite ==
  ASSUME DirectoryInvariant, NEW p \in Process, proc[p].plan # <<>>, NEW w, w = Head(proc[p].plan)
  PROVE  /\ w \in Pending(p)
         /\ \/ proc[p].phase = "starting" /\ w \in {"metadata", "frozen", "running", "snapshot"}
            \/ proc[p].phase = "driving" /\ w \in {"slots", "running"}
            \/ proc[p].phase = "publishing" /\ w \in FinalStatus \cup Base \cup {"truncate", "manifest"}
            \/ proc[p].phase = "reviewing" /\ w \in Review \cup {"quality", "truncate", "manifest"}
<1> USE DEF DirectoryInvariant
<1>1. proc[p].phase \in Phase /\ Working(p) /\ proc[p].phase # "idle"
  BY Holder DEF Shaped, ProcessState, OneWriter, IdleProcess
<1>2. proc[p].phase \in {"starting", "driving", "publishing", "reviewing"}
  BY <1>1 DEF Working, Settled, Creating, Phase, Asking
<1>3. w \in Pending(p)
  <2>1. proc[p].plan \in Seq(Durable)
    BY DEF Shaped, ProcessState
  <2>2. Len(proc[p].plan) >= 1 /\ w = proc[p].plan[1] /\ 1 \in DOMAIN proc[p].plan
    BY <2>1
  <2>3. QED
    BY <2>2 DEF Pending, Range
<1>4. CASE proc[p].phase = "starting"
  <2>1. proc[p].plan \in Suffixes(Startup)
    BY <1>1, <1>4 DEF Working, Starting
  <2>2. QED
    BY <1>3, <1>4, <2>1, StartupPlan
<1>5. CASE proc[p].phase = "driving"
  <2>1. proc[p].plan \in {<<"slots", "running">>, <<"slots">>, <<"running">>}
    BY <1>1, <1>5 DEF Working, Driving
  <2>2. /\ Head(<<"slots", "running">>) = "slots" /\ Head(<<"slots">>) = "slots"
        /\ Head(<<"running">>) = "running"
    OBVIOUS
  <2>3. QED
    BY <1>3, <1>5, <2>1, <2>2
<1>6. CASE proc[p].phase = "publishing"
  <2>1. Announcing(p) \/ proc[p].plan \in Suffixes(Publication)
    BY <1>1, <1>6 DEF Working, Publishing
  <2>2. CASE Announcing(p)
    BY <1>3, <1>6, <2>2, PlansGoOn DEF Announcing
  <2>3. CASE proc[p].plan \in Suffixes(Publication)
    BY <1>3, <1>6, <2>3, PublicationPlan
  <2>4. QED
    BY <2>1, <2>2, <2>3
<1>7. CASE proc[p].phase = "reviewing"
  <2>1. proc[p].plan \in Suffixes(Freezing) \cup Suffixes(Importing)
    BY <1>1, <1>7 DEF Working, Reviewing
  <2>2. QED
    BY <1>3, <1>7, <2>1, FreezingPlan, ImportingPlan DEF Review
<1>8. QED
  BY <1>2, <1>4, <1>5, <1>6, <1>7

(* A process that has writes left to do is in one of four phases.            *)
LEMMA WriteKeeps ==
  ASSUME DirectoryInvariant, NEW p \in Process, Write(p)
  PROVE  DirectoryInvariant'
<1>1. [Next]_vars
  BY DEF Next, Command
<1>2. PICK w : w = Head(proc[p].plan) /\ WriteOf(p, w)
  BY DEF Write, WriteOf
<1>3. proc[p].plan # <<>>
  BY DEF Write
<1>4. proc[p].phase \in {"starting", "driving", "publishing", "reviewing"}
  BY <1>2, <1>3, NextWrite
<1>5. QED
  BY <1>1, <1>2, <1>3, <1>4, StartingWrites, DrivingWrites, PublishingWrites, ReviewingWrites

(* Only the source changes, or nothing.                                      *)
LEMMA SurroundingsKeep ==
  ASSUME DirectoryInvariant, UNCHANGED vars \/ EditSource
  PROVE  DirectoryInvariant'
<1>1. UNCHANGED <<lock, proc, ledger, snapshot, files, interrupted>> /\ [Next]_vars
  BY DEF vars, EditSource, Next
<1>2. Shaped' /\ OneWriter' /\ Recorded'
  BY <1>1, StepTyped, StepExclusive, RecordedFrame DEF DirectoryInvariant
<1>3. lock' = None /\ ledger'.file /\ ~interrupted' => Published({})'
  BY <1>1, FilesFrame DEF DirectoryInvariant
<1>4. ASSUME NEW p \in Process PROVE Working(p)'
  <2>1. Working(p)
    BY DEF DirectoryInvariant
  <2>2. /\ (Unpaid' <=> Unpaid) /\ (Resumable' <=> Resumable)
        /\ Decided' = Decided /\ Frozen' = Frozen /\ Labels' = Labels
    BY <1>1, RecordedFrame, FilesFrame DEF DirectoryInvariant
  <2>3. PICK old : old = Pending(p)
    OBVIOUS
  <2>4. Pending(p)' = old
    BY <1>1, <2>3 DEF Pending
  <2>5. /\ (Published({})' <=> Published({}))
        /\ (Published(Pending(p))' <=> Published(Pending(p)))
    <3>1. Published(old)' <=> Published(old)
      BY <1>1, FilesFrame
    <3>2. Published({})' <=> Published({})
      BY <1>1, FilesFrame
    <3>3. QED
      BY <2>3, <2>4, <3>1, <3>2 DEF Published
  <2>6. (Settled(p) => Settled(p)') /\ (Creating(p) => Creating(p)')
    BY <1>1, <2>2, <2>5 DEF Settled, Creating
  <2>7. Starting(p) => Starting(p)'
    BY <1>1, <2>2, <2>3, <2>4 DEF Starting
  <2>8. Driving(p) => Driving(p)'
    BY <1>1, <2>2 DEF Driving
  <2>9. Publishing(p) => Publishing(p)'
    BY <1>1, <2>2, <2>5 DEF Publishing, Announcing
  <2>10. Reviewing(p) => Reviewing(p)'
    BY <1>1, <2>2, <2>3, <2>4, <2>5 DEF Reviewing, Covered, Disjoint
  <2>11. QED
    BY <2>1, <2>6, <2>7, <2>8, <2>9, <2>10 DEF Working
<1>5. QED
  BY <1>2, <1>3, <1>4 DEF DirectoryInvariant

LEMMA InvariantStep ==
  ASSUME DirectoryInvariant, [Next]_vars
  PROVE  DirectoryInvariant'
<1>1. CASE UNCHANGED vars \/ EditSource
  BY <1>1, SurroundingsKeep
<1>2. ASSUME NEW p \in Process, Command(p) PROVE DirectoryInvariant'
  <2>1. ASSUME NEW command \in {"run", "resume", "review", "import"}, TakeLock(p, command)
        PROVE  DirectoryInvariant'
    BY <2>1, TakeLockKeeps DEF Asking
  <2>2. ASSUME NEW e \in Episode, Decide(p, e) PROVE DirectoryInvariant'
    BY <2>2, DecideKeeps
  <2>3. CASE CreateLedger(p) \/ FreezeInitialState(p) \/ Started(p) \/ OpenRun(p)
    BY <2>3, CreateLedgerKeeps, FreezeKeeps, StartedKeeps, OpenRunKeeps
  <2>4. CASE StopDriving(p) \/ OpenReview(p) \/ OpenImport(p)
    BY <2>4, StopDrivingKeeps, OpenReviewKeeps, OpenImportKeeps
  <2>5. CASE Write(p) \/ Return(p)
    BY <2>5, WriteKeeps, ReturnKeeps
  <2>6. QED
    BY <1>2, <2>1, <2>2, <2>3, <2>4, <2>5 DEF Command
<1>3. ASSUME NEW p \in Process, Die(p) PROVE DirectoryInvariant'
  BY <1>3, DieKeeps
<1>4. QED
  BY <1>1, <1>2, <1>3 DEF Next

(* A new directory has no row, no file and no writer.                        *)
LEMMA InitialDirectory == Init => DirectoryInvariant
<1> SUFFICES ASSUME Init PROVE DirectoryInvariant
  OBVIOUS
<1> USE DEF Init
<1>1. IdleProcess \in ProcessState /\ IdleProcess.phase = "idle"
  BY PlansTyped DEF IdleProcess, ProcessState, Phase
<1>2. proc \in [Process -> ProcessState] /\ \A p \in Process : proc[p] = IdleProcess
  BY <1>1
<1>3. ledger \in LedgerState
  BY DEF LedgerState
<1>4. \A f \in Base \cup Review \cup {"manifest"} : files[f] = None
  OBVIOUS
<1>5. Decided = {} /\ Frozen = {} /\ Labels = {}
  BY <1>4 DEF Decided, Frozen, Labels, Review
<1>6. ledger.status = None /\ ~ledger.slots /\ ~ledger.file /\ ledger.judged = {}
  OBVIOUS
<1>7. Shaped
  BY <1>2, <1>3, <1>4, <1>5, <1>6 DEF Shaped, Base, Collections
<1>8. OneWriter
  <2>1. lock = None /\ \A p \in Process : p # None
    BY DirectoryAssumption
  <2>2. QED
    BY <1>2, <2>1 DEF OneWriter
<1>9. Recorded
  <2>1. ReviewFollowsEvidence
    BY <1>4, <1>5 DEF ReviewFollowsEvidence, Exists, Review
  <2>2. Unpaid /\ ledger.status # "completed"
    BY <1>5, <1>6, AbsenceAssumption DEF Unpaid, FinalStatus
  <2>3. OneInitialState
    BY <1>5 DEF OneInitialState
  <2>4. QED
    BY <2>1, <2>2, <2>3 DEF Recorded
<1>10. \A p \in Process : Working(p)
  BY <1>1, <1>2 DEF Working, Settled, Creating, Starting, Driving, Publishing, Reviewing, Asking
<1>11. lock = None /\ ledger.file /\ ~interrupted => Published({})
  BY <1>6
<1>12. QED
  BY <1>7, <1>8, <1>9, <1>10, <1>11 DEF DirectoryInvariant

--------------------------------------------------------------------------------
(* The invariant of the directory: for every set of processes, every source  *)
(* and every Episode, and whenever processes die, the rows and files are     *)
(* those that the lock holder's plan says have been written.                 *)
THEOREM DirectoryKeepsInvariant == Spec => []DirectoryInvariant
<1>1. Init => DirectoryInvariant
  BY InitialDirectory
<1>2. DirectoryInvariant /\ [Next]_vars => DirectoryInvariant'
  BY InvariantStep
<1>3. QED
  BY <1>1, <1>2, PTL DEF Spec

(* The rows, the files and the local variables of run, resume and the review *)
(* commands have the values their writers give them.                         *)
THEOREM DirectoryTypeCorrect == Spec => []TypeOK
<1>1. DirectoryInvariant => TypeOK
  <2> SUFFICES ASSUME DirectoryInvariant PROVE TypeOK
    OBVIOUS
  <2>1. \A p \in Process : /\ proc[p].phase \in Phase /\ proc[p].frozen \in Source \cup {None}
                           /\ proc[p].cohorts \subseteq Cohort /\ proc[p].labels \subseteq Label
    BY DEF DirectoryInvariant, Shaped, ProcessState
  <2>2. /\ ledger.file \in BOOLEAN /\ ledger.metadata \in BOOLEAN /\ ledger.slots \in BOOLEAN
        /\ ledger.frozen \in Source \cup {None}
        /\ ledger.status \in FinalStatus \cup {"running", None}
        /\ ledger.done \in [Episode -> Source \cup {None}]
    BY DEF DirectoryInvariant, Shaped, LedgerState
  <2>3. QED
    BY <2>1, <2>2 DEF DirectoryInvariant, Shaped, OneWriter, TypeOK, Phase
<1>2. QED
  BY <1>1, DirectoryKeepsInvariant, PTL

(* "Before paid work, the Domain admits and freezes local source bytes":     *)
(* whatever dies after the slots exist, resume finds all it needs.           *)
THEOREM PaidWorkAlwaysResumes == Spec => []PaidWorkIsResumable
<1>1. DirectoryInvariant => PaidWorkIsResumable
  BY DEF DirectoryInvariant, Recorded, Unpaid, PaidWorkIsResumable
<1>2. QED
  BY <1>1, DirectoryKeepsInvariant, PTL

(* Every Episode of a run, decided by run or by any resume, started from the *)
(* frozen snapshot, although the source is edited meanwhile.                 *)
THEOREM EpisodesShareTheirStart == Spec => []OneInitialState
<1>1. DirectoryInvariant => OneInitialState
  BY DEF DirectoryInvariant, Recorded
<1>2. QED
  BY <1>1, DirectoryKeepsInvariant, PTL

(* A directory that nobody writes and no writer left early is published: the *)
(* files are what the ledger gives and the manifest binds them.              *)
THEOREM QuietIsPublished == Spec => []PublishedWhenQuiet
<1>1. DirectoryInvariant => PublishedWhenQuiet
  BY DEF DirectoryInvariant, Published, PublishedWhenQuiet
<1>2. QED
  BY <1>1, DirectoryKeepsInvariant, PTL

(* The blind queue, the labels and the import report never get ahead of the  *)
(* frozen cohorts, nor these of a completed run, whenever a command dies.    *)
THEOREM ReviewAlwaysFollows == Spec => []ReviewFollowsEvidence
<1>1. DirectoryInvariant => ReviewFollowsEvidence
  BY DEF DirectoryInvariant, Recorded
<1>2. QED
  BY <1>1, DirectoryKeepsInvariant, PTL

(* Only an open review or import writes the files of evidence, and it writes *)
(* what it has read and more; a run that has cohorts decides nothing.        *)
LEMMA StepKeepsEvidence ==
  ASSUME DirectoryInvariant, [Next]_vars
  PROVE  /\ Frozen \subseteq Frozen' /\ Labels \subseteq Labels'
         /\ Frozen # {} => ledger'.done = ledger.done
<1> USE DEF DirectoryInvariant
<1>1. ASSUME files'["cohorts"] = files["cohorts"], files'["labels"] = files["labels"],
             ledger'.done = ledger.done
      PROVE  /\ Frozen \subseteq Frozen' /\ Labels \subseteq Labels'
             /\ Frozen # {} => ledger'.done = ledger.done
  BY <1>1 DEF Frozen, Labels
<1>2. ASSUME NEW p \in Process, Write(p)
      PROVE  /\ Frozen \subseteq Frozen' /\ Labels \subseteq Labels'
             /\ Frozen # {} => ledger'.done = ledger.done
  <2>1. PICK w : w = Head(proc[p].plan) /\ WriteOf(p, w)
    BY <1>2 DEF Write, WriteOf
  <2>2. CASE ~WriteFile(p, w)
    <3>0. UNCHANGED files \/ \E content : files' = [files EXCEPT !["manifest"] = content]
      BY <2>1, <2>2 DEF WriteOf, WriteLedger, WriteSnapshot, RecordJudgment, WriteManifest
    <3>1. files'["cohorts"] = files["cohorts"] /\ files'["labels"] = files["labels"]
      BY <3>0 DEF Shaped, Review
    <3>2. ledger'.done = ledger.done
      BY <2>1, <2>2 DEF WriteOf, WriteLedger, WriteSnapshot, RecordJudgment, WriteManifest, Shaped,
         LedgerState
    <3>3. QED
      BY <1>1, <3>1, <3>2
  <2>3. CASE WriteFile(p, w)
    <3>1. /\ files' = [files EXCEPT ![w] = Content(w, proc[p])] /\ UNCHANGED ledger
          /\ w \in Base \cup Review /\ proc[p].plan # <<>>
      BY <1>2, <2>3 DEF Write, WriteFile
    <3>2. CASE w \notin {"cohorts", "labels"}
      <4>1. files'["cohorts"] = files["cohorts"] /\ files'["labels"] = files["labels"]
        BY <3>1, <3>2 DEF Shaped, Review
      <4>2. QED
        BY <1>1, <3>1, <4>1
    <3>3. CASE w \in {"cohorts", "labels"}
      <4>1. w \in Pending(p) /\ proc[p].phase = "reviewing"
        BY <2>1, <3>1, <3>3, NextWrite DEF FinalStatus, Base, Collections
      <4>4. /\ w = "cohorts" => Frozen \subseteq proc[p].cohorts
            /\ w = "labels" => Labels \subseteq proc[p].labels
        BY <4>1 DEF Working, Reviewing
      <4>5. proc[p].cohorts # None /\ proc[p].labels # None
        BY AbsenceAssumption DEF Shaped, ProcessState
      <4>6. /\ w = "cohorts" => Content(w, proc[p]) = proc[p].cohorts
            /\ w = "labels" => Content(w, proc[p]) = proc[p].labels
        BY DEF Content, Base, Collections
      <4>7. /\ files'[w] = Content(w, proc[p])
            /\ \A f \in {"cohorts", "labels"} \ {w} : files'[f] = files[f]
        BY <3>1, <3>3 DEF Shaped, Review
      <4>8. Frozen \subseteq Frozen' /\ Labels \subseteq Labels'
        BY <3>3, <4>4, <4>5, <4>6, <4>7 DEF Frozen, Labels
      <4>9. QED
        BY <3>1, <4>8
    <3>4. QED
      BY <3>2, <3>3
  <2>4. QED
    BY <2>2, <2>3
<1>3. ASSUME NEW p \in Process, NEW e \in Episode, Decide(p, e)
      PROVE  /\ Frozen \subseteq Frozen' /\ Labels \subseteq Labels'
             /\ Frozen # {} => ledger'.done = ledger.done
  BY <1>3 DEF Decide, Recorded, ReviewFollowsEvidence, Frozen, Labels
<1>4. CASE UNCHANGED vars \/ EditSource
  BY <1>1, <1>4 DEF vars, EditSource
<1>5. ASSUME NEW p \in Process, NEW command, TakeLock(p, command)
      PROVE  UNCHANGED <<ledger, files>>
  BY <1>5 DEF TakeLock
<1>6. ASSUME NEW p \in Process,
             CreateLedger(p) \/ FreezeInitialState(p) \/ Started(p) \/ OpenRun(p) \/ StopDriving(p)
                \/ OpenReview(p) \/ OpenImport(p) \/ Return(p) \/ Die(p)
      PROVE  UNCHANGED files /\ ledger'.done = ledger.done
  BY <1>6 DEF CreateLedger, FreezeInitialState, Started, OpenRun, StopDriving, OpenReview, OpenImport,
     Return, Die, Refuse, Shaped, LedgerState
<1>7. QED
  BY <1>1, <1>2, <1>3, <1>4, <1>5, <1>6 DEF Next, Command

(* Human evidence is kept: no command, resume or crash takes back a frozen   *)
(* cohort or an imported label, or changes the Episodes under a cohort.      *)
THEOREM EvidenceIsAlwaysKept == Spec => EvidenceIsKept
<1>1. DirectoryInvariant /\ [Next]_vars =>
         [/\ Frozen \subseteq Frozen' /\ Labels \subseteq Labels'
          /\ Frozen # {} => ledger'.done = ledger.done]_vars
  BY StepKeepsEvidence
<1>2. QED
  BY <1>1, DirectoryKeepsInvariant, PTL DEF Spec, EvidenceIsKept

--------------------------------------------------------------------------------
(* DirectoryReplay, with the inductive invariant it needs. A replay has no      *)
(* lock, so its invariant cannot say what the directory is while it reads: it   *)
(* says what the directory was when the ledger was read and which later writes  *)
(* it may have missed. That the snapshot is written once makes the state it     *)
(* replays from the one of the run.                                             *)

(* run writes the frozen state after everything else resume needs. *)
SnapshotPending(p) ==
    proc[p].phase = "created" \/ (proc[p].phase = "starting" /\ "snapshot" \in Pending(p))

Unwritten == (~ledger.file \/ \E p \in Process : SnapshotPending(p)) => snapshot = None

ReplayState ==
    [phase : {"idle", "demonstrations", "negatives", "report"}, frozen : Source \cup {None},
     cases : SUBSET Episode, saved : SUBSET Episode, decided : SUBSET Episode,
     quiet : BOOLEAN, published : BOOLEAN]

(* What a replay has read is still true of the run. *)
TrueOfRun(read) ==
    /\ read.frozen = snapshot /\ snapshot # None
    /\ read.saved \subseteq Decided
    /\ read.decided \cap Compiled \subseteq read.cases
    /\ ~read.published => read.saved \subseteq read.decided

(* Until a collection is written, it holds what was decided when the ledger  *)
(* was read; what was decided while nobody was writing stays in it for good. *)
Collected ==
    /\ replay.decided \subseteq Decided
    /\ ~replay.published => \A f \in Collections : files[f] = None \/ files[f] \subseteq replay.decided
    /\ replay.quiet =>
          /\ \A f \in Collections : replay.decided \subseteq files[f]
          /\ replay.phase = "negatives" => replay.decided \cap Demonstrated \subseteq replay.saved
          /\ replay.phase = "report" => replay.decided \subseteq replay.saved

Reported ==
    LET read == replayReport.replay
    IN  /\ TrueOfRun(read)
        /\ read.quiet => read.decided \subseteq read.saved
        /\ replayReport.results =
              [e \in read.saved |-> IF e \in read.cases THEN "executed" ELSE "not_executed"]

(* A replay, and the report it leaves, are true of the run they were read    *)
(* from, while runs and resumes go on deciding and publishing.               *)
ReplayInvariant ==
    /\ Unwritten
    /\ Decided \cap Compiled \subseteq cases /\ cases \subseteq Episode
    /\ replay \in ReplayState
    /\ replay.phase # "idle" => TrueOfRun(replay) /\ Collected
    /\ replayReport # None => Reported

--------------------------------------------------------------------------------
(* The commands of RunDirectory. *)

(* Decided Episodes stay decided.                                            *)
LEMMA DecidedGrows ==
  ASSUME Shaped, [Next]_vars
  PROVE  Decided \subseteq Decided'
<1> USE DEF Shaped, LedgerState
<1>1. ASSUME ledger'.done = ledger.done PROVE Decided \subseteq Decided'
  BY <1>1 DEF Decided
<1>2. ASSUME NEW p \in Process, NEW e \in Episode, Decide(p, e) PROVE Decided \subseteq Decided'
  BY <1>2 DEF Decide, Decided
<1>3. ASSUME NEW p \in Process, Write(p) PROVE ledger'.done = ledger.done
  BY <1>3 DEF Write, WriteLedger, WriteSnapshot, RecordJudgment, WriteFile, WriteManifest
<1>4. ASSUME NEW p \in Process, NEW command, TakeLock(p, command) PROVE UNCHANGED ledger
  BY <1>4 DEF TakeLock
<1>5. ASSUME NEW p \in Process,
             CreateLedger(p) \/ FreezeInitialState(p) \/ Started(p) \/ OpenRun(p) \/ StopDriving(p)
                \/ OpenReview(p) \/ OpenImport(p) \/ Return(p) \/ Die(p)
      PROVE  ledger'.done = ledger.done
  BY <1>5 DEF CreateLedger, FreezeInitialState, Started, OpenRun, StopDriving, OpenReview, OpenImport,
     Return, Die, Refuse
<1>6. UNCHANGED vars \/ EditSource => UNCHANGED ledger
  BY DEF vars, EditSource
<1>7. QED
  BY <1>1, <1>2, <1>3, <1>4, <1>5, <1>6 DEF Next, Command

(* A collection is written with what is decided, and by nothing else.        *)
LEMMA CollectionsFollow ==
  ASSUME Shaped, [Next]_vars, NEW f \in Collections
  PROVE  files'[f] = files[f] \/ files'[f] = Decided
<1> USE DEF Shaped
<1>1. ASSUME NEW p \in Process, Write(p) PROVE files'[f] = files[f] \/ files'[f] = Decided
  <2>1. PICK w : WriteOf(p, w)
    BY <1>1 DEF Write, WriteOf
  <2>2. CASE WriteFile(p, w)
    <3>1. w \in DOMAIN files /\ files' = [files EXCEPT ![w] = Content(w, proc[p])]
      BY <2>2 DEF WriteFile
    <3>2. CASE f = w
      <4>1. Content(w, proc[p]) = Decided
        BY <3>2 DEF Content, Collections
      <4>2. QED
        BY <3>1, <3>2, <4>1
    <3>3. CASE f # w
      BY <3>1, <3>3
    <3>4. QED
      BY <3>2, <3>3
  <2>3. CASE WriteManifest(p, w)
    <3>1. f # "manifest" /\ f \in DOMAIN files
      BY DEF Collections, Base
    <3>2. QED
      BY <2>3, <3>1 DEF WriteManifest
  <2>4. CASE WriteLedger(p, w) \/ WriteSnapshot(p, w) \/ RecordJudgment(p, w)
    BY <2>4 DEF WriteLedger, WriteSnapshot, RecordJudgment
  <2>5. QED
    BY <2>1, <2>2, <2>3, <2>4 DEF WriteOf
<1>2. ASSUME NEW p \in Process, NEW command, TakeLock(p, command) PROVE UNCHANGED files
  BY <1>2 DEF TakeLock
<1>3. ASSUME NEW p \in Process,
             CreateLedger(p) \/ FreezeInitialState(p) \/ Started(p) \/ OpenRun(p) \/ StopDriving(p)
                \/ OpenReview(p) \/ OpenImport(p) \/ Return(p) \/ Die(p) \/ \E e \in Episode : Decide(p, e)
      PROVE  UNCHANGED files
  BY <1>3 DEF CreateLedger, FreezeInitialState, Started, OpenRun, StopDriving, OpenReview, OpenImport,
     Return, Die, Refuse, Decide
<1>4. UNCHANGED vars \/ EditSource => UNCHANGED files
  BY DEF vars, EditSource
<1>5. QED
  BY <1>1, <1>2, <1>3, <1>4 DEF Next, Command

(* The process that takes a step is the only one whose state it changes.     *)
LEMMA OthersStay ==
  ASSUME DirectoryInvariant, NEW p \in Process, Command(p) \/ Die(p)
  PROVE  \A q \in Process \ {p} : proc'[q] = proc[q]
<1> USE DEF DirectoryInvariant, Shaped
<1>1. ASSUME NEW command, TakeLock(p, command) PROVE \A q \in Process \ {p} : proc'[q] = proc[q]
  BY <1>1 DEF TakeLock
<1>2. ASSUME Write(p) PROVE \A q \in Process \ {p} : proc'[q] = proc[q]
  BY <1>2 DEF Write, WriteLedger, WriteSnapshot, RecordJudgment, WriteFile, WriteManifest, Advance, Leave
<1>3. ASSUME NEW e \in Episode, Decide(p, e) PROVE UNCHANGED proc
  BY <1>3 DEF Decide
<1>4. ASSUME CreateLedger(p) \/ FreezeInitialState(p) \/ Started(p) \/ OpenRun(p) \/ StopDriving(p)
      PROVE  \A q \in Process \ {p} : proc'[q] = proc[q]
  BY <1>4 DEF CreateLedger, FreezeInitialState, Started, OpenRun, StopDriving, Drive, Follow, Refuse, Leave
<1>5. ASSUME OpenReview(p) \/ OpenImport(p) \/ Return(p) \/ Die(p)
      PROVE  \A q \in Process \ {p} : proc'[q] = proc[q]
  BY <1>5 DEF OpenReview, OpenImport, Return, Die, Refuse, Leave
<1>6. QED
  BY <1>1, <1>2, <1>3, <1>4, <1>5 DEF Command

(* Only the last write of a start makes the snapshot, and there is none      *)
(* before: what a replay has read is never replaced.                         *)
LEMMA SnapshotWrittenOnce ==
  ASSUME DirectoryInvariant, Unwritten, [Next]_vars
  PROVE  Unwritten' /\ (snapshot # None => snapshot' = snapshot)
<1> USE DEF DirectoryInvariant
<1>1. CASE UNCHANGED vars \/ EditSource
  <2>1. UNCHANGED <<proc, ledger, snapshot>>
    BY <1>1 DEF vars, EditSource
  <2>2. QED
    BY <2>1 DEF Unwritten, SnapshotPending, Pending
<1>2. ASSUME NEW p \in Process, Command(p) \/ Die(p), UNCHANGED snapshot,
             snapshot # None => ledger'.file /\ ~SnapshotPending(p)'
      PROVE  Unwritten' /\ (snapshot # None => snapshot' = snapshot)
  <2>1. \A q \in Process \ {p} : proc'[q] = proc[q]
    BY <1>2, OthersStay
  <2>2. \A q \in Process \ {p} : SnapshotPending(q)' <=> SnapshotPending(q)
    BY <2>1 DEF SnapshotPending, Pending
  <2>3. QED
    BY <1>2, <2>2 DEF Unwritten
<1>3. ASSUME NEW p \in Process, Write(p)
      PROVE  Unwritten' /\ (snapshot # None => snapshot' = snapshot)
  <2>1. PICK w : w = Head(proc[p].plan) /\ WriteOf(p, w)
    BY <1>3 DEF Write, WriteOf
  <2>2. proc[p].plan # <<>> /\ w \in Pending(p)
    BY <1>3, <2>1, NextWrite DEF Write
  <2>3. CASE WriteSnapshot(p, w)
    <3>1. /\ w = "snapshot" /\ proc[p].phase = "starting" /\ Advance(p)
          /\ UNCHANGED <<lock, ledger>>
      BY <2>1, <2>2, <2>3, NextWrite DEF WriteSnapshot, FinalStatus, Base, Collections, Review
    <3>2. snapshot = None
      BY <2>2, <3>1 DEF Unwritten, SnapshotPending
    <3>3. proc[p].plan \in Suffixes(Startup) /\ ledger.file
      BY <3>1 DEF Working, Starting
    <3>4. /\ proc'[p].plan = Tail(proc[p].plan) /\ proc'[p].phase = "starting"
          /\ \A q \in Process \ {p} : proc'[q] = proc[q]
      BY <3>1, AdvanceEffect
    <3>5. w \notin Range(Tail(proc[p].plan))
      BY <2>1, <2>2, <3>3, StartupPlan
    <3>6. ~SnapshotPending(p)'
      BY <3>1, <3>4, <3>5 DEF SnapshotPending, Pending
    <3>7. \A q \in Process \ {p} : proc'[q] = IdleProcess
      BY <3>1, <3>4, Holder
    <3>8. \A q \in Process \ {p} : ~SnapshotPending(q)'
      BY <3>7 DEF SnapshotPending, IdleProcess
    <3>9. QED
      BY <3>1, <3>2, <3>3, <3>6, <3>8 DEF Unwritten
  <2>4. CASE ~WriteSnapshot(p, w)
    <3>1. UNCHANGED snapshot /\ ledger'.file = ledger.file
      BY <2>1, <2>4 DEF WriteOf, WriteLedger, RecordJudgment, WriteFile, WriteManifest, Shaped, LedgerState
    <3>2. Advance(p) \/ UNCHANGED proc \/ Leave(p)
      BY <2>1, <2>4 DEF WriteOf, WriteLedger, RecordJudgment, WriteFile, WriteManifest
    <3>3. SnapshotPending(p)' => SnapshotPending(p)
      <4>1. CASE UNCHANGED proc
        BY <4>1 DEF SnapshotPending, Pending
      <4>2. CASE Leave(p)
        <5>1. proc'[p].phase = "idle"
          BY <4>2 DEF Leave, IdleProcess, Shaped
        <5>2. QED
          BY <5>1 DEF SnapshotPending
      <4>3. CASE Advance(p)
        <5>1. proc'[p].plan = Tail(proc[p].plan) /\ proc'[p].phase = proc[p].phase
          BY <4>3, AdvanceEffect
        <5>2. ASSUME proc[p].phase = "starting" PROVE Range(Tail(proc[p].plan)) \subseteq Pending(p)
          <6>1. proc[p].plan \in Suffixes(Startup)
            BY <5>2 DEF Working, Starting
          <6>2. QED
            BY <2>2, <6>1, StartupPlan DEF Pending
        <5>3. QED
          BY <5>1, <5>2 DEF SnapshotPending, Pending
      <4>4. QED
        BY <3>2, <4>1, <4>2, <4>3
    <3>4. QED
      BY <1>2, <1>3, <3>1, <3>3 DEF Unwritten, Command
  <2>5. QED
    BY <2>3, <2>4
<1>4. ASSUME NEW p \in Process, NEW command \in {"run", "resume", "review", "import"}, TakeLock(p, command)
      PROVE  Unwritten' /\ (snapshot # None => snapshot' = snapshot)
  <2>1. proc'[p].phase = command /\ UNCHANGED <<ledger, snapshot>>
    BY <1>4 DEF TakeLock, Shaped, ProcessState
  <2>2. QED
    BY <1>2, <1>4, <2>1 DEF Command, Unwritten, SnapshotPending
<1>5. ASSUME NEW p \in Process, CreateLedger(p)
      PROVE  Unwritten' /\ (snapshot # None => snapshot' = snapshot)
  <2>1. CASE ledger.file /\ Refuse(p)
    <3>1. proc'[p].phase = "idle" /\ UNCHANGED <<ledger, snapshot>>
      BY <2>1 DEF Refuse, Leave, IdleProcess, Shaped
    <3>2. QED
      BY <1>2, <1>5, <2>1, <3>1 DEF Command, SnapshotPending
  <2>2. CASE ~ledger.file
    BY <1>5, <2>2 DEF CreateLedger, Refuse, Unwritten
  <2>3. QED
    BY <1>5, <2>1, <2>2 DEF CreateLedger
<1>6. ASSUME NEW p \in Process, FreezeInitialState(p)
      PROVE  Unwritten' /\ (snapshot # None => snapshot' = snapshot)
  BY <1>6 DEF FreezeInitialState, Unwritten, SnapshotPending
<1>7. ASSUME NEW p \in Process, NEW e \in Episode, Decide(p, e)
      PROVE  Unwritten' /\ (snapshot # None => snapshot' = snapshot)
  <2>1. UNCHANGED <<proc, snapshot>> /\ ledger'.file = ledger.file
    BY <1>7 DEF Decide, Shaped, LedgerState
  <2>2. QED
    BY <2>1 DEF Unwritten, SnapshotPending, Pending
<1>8. ASSUME NEW p \in Process,
             Started(p) \/ OpenRun(p) \/ StopDriving(p) \/ OpenReview(p) \/ OpenImport(p)
                \/ Return(p) \/ Die(p)
      PROVE  Unwritten' /\ (snapshot # None => snapshot' = snapshot)
  <2>1. UNCHANGED <<ledger, snapshot>>
    BY <1>8 DEF Started, OpenRun, StopDriving, OpenReview, OpenImport, Return, Die, Refuse
  <2>2. proc'[p].phase \in {"idle", "publishing", "driving", "reviewing"}
    <3>1. CASE Leave(p)
      BY <3>1 DEF Leave, IdleProcess, Shaped
    <3>2. CASE \E frozen, preparation : Drive(p, frozen, preparation)
      BY <3>2 DEF Drive, Shaped, ProcessState
    <3>3. CASE StopDriving(p)
      BY <3>3 DEF StopDriving, Follow, Shaped, ProcessState
    <3>4. CASE (OpenReview(p) \/ OpenImport(p)) /\ ~Leave(p)
      BY <3>4 DEF OpenReview, OpenImport, Refuse, Shaped, ProcessState
    <3>5. QED
      BY <1>8, <3>1, <3>2, <3>3, <3>4 DEF Started, OpenRun, Refuse, Return, Die
  <2>3. QED
    BY <1>2, <1>8, <2>1, <2>2 DEF Command, SnapshotPending, Unwritten
<1>9. QED
  BY <1>1, <1>3, <1>4, <1>5, <1>6, <1>7, <1>8 DEF Next, Command

--------------------------------------------------------------------------------
(* The replay. *)

(* What was read stays true of the run while the commands go on.             *)
LEMMA ReadStaysTrue ==
  ASSUME DirectoryInvariant, Unwritten, [Next]_vars, NEW read, TrueOfRun(read)
  PROVE  TrueOfRun(read)'
<1>1. snapshot' = snapshot /\ Decided \subseteq Decided'
  BY SnapshotWrittenOnce, DecidedGrows DEF TrueOfRun, DirectoryInvariant
<1>2. QED
  BY <1>1 DEF TrueOfRun

LEMMA ReportStays ==
  ASSUME DirectoryInvariant, Unwritten, [Next]_vars, UNCHANGED replayReport, Reported
  PROVE  Reported'
<1>1. PICK read : read = replayReport.replay
  OBVIOUS
<1>2. TrueOfRun(read)'
  BY <1>1, ReadStaysTrue DEF Reported
<1>3. QED
  BY <1>1, <1>2 DEF Reported, TrueOfRun

(* A run, resume or review command takes a step while a replay reads.        *)
LEMMA WritesKeep ==
  ASSUME DirectoryInvariant, ReplayInvariant, Writes
  PROVE  ReplayInvariant'
<1> USE DEF ReplayInvariant
<1>1. [Next]_vars /\ CaseFirst /\ UNCHANGED <<cases, replayReport>>
  BY DEF Writes
<1>2. Unwritten'
  BY <1>1, SnapshotWrittenOnce
<1>3. (Decided \cap Compiled)' \subseteq cases'
  BY <1>1 DEF CaseFirst
<1>4. /\ replay' \in ReplayState
      /\ replay' = [replay EXCEPT !.published = replay'.published]
      /\ ~replay'.published /\ replay.phase # "idle" =>
            ~replay.published /\ \A f \in Collections : files'[f] = files[f]
  BY DEF Writes, ReplayState
<1>5. /\ replay'.phase = replay.phase /\ replay'.frozen = replay.frozen /\ replay'.cases = replay.cases
      /\ replay'.saved = replay.saved /\ replay'.decided = replay.decided /\ replay'.quiet = replay.quiet
  BY <1>4 DEF ReplayState
<1>6. ASSUME replay.phase # "idle" PROVE TrueOfRun(replay)' /\ Collected'
  <2>1. PICK read : read = replay
    OBVIOUS
  <2>2. TrueOfRun(read)'
    BY <1>1, <1>6, <2>1, ReadStaysTrue
  <2>3. TrueOfRun(replay)'
    BY <1>4, <1>5, <1>6, <2>1, <2>2 DEF TrueOfRun
  <2>4. /\ Decided \subseteq Decided'
        /\ \A f \in Collections : files'[f] = files[f] \/ files'[f] = Decided
    BY <1>1, DecidedGrows, CollectionsFollow DEF DirectoryInvariant
  <2>5. Collected'
    <3>1. replay'.decided \subseteq Decided'
      BY <1>5, <1>6, <2>4 DEF Collected
    <3>2. ~replay'.published => \A f \in Collections : files'[f] = None \/ files'[f] \subseteq replay'.decided
      BY <1>4, <1>5, <1>6 DEF Collected
    <3>3. ASSUME replay'.quiet PROVE \A f \in Collections : replay'.decided \subseteq files'[f]
      BY <1>5, <1>6, <2>4, <3>3 DEF Collected
    <3>4. ASSUME replay'.quiet
          PROVE  /\ replay'.phase = "negatives" => replay'.decided \cap Demonstrated \subseteq replay'.saved
                 /\ replay'.phase = "report" => replay'.decided \subseteq replay'.saved
      BY <1>5, <1>6, <3>4 DEF Collected
    <3>5. QED
      BY <3>1, <3>2, <3>3, <3>4 DEF Collected
  <2>6. QED
    BY <2>3, <2>5
<1>7. replayReport' # None => Reported'
  BY <1>1, ReportStays
<1>8. QED
  BY <1>1, <1>2, <1>3, <1>4, <1>5, <1>6, <1>7

(* The rows and files stand still while the replay itself takes a step.      *)
LEMMA StandStill ==
  ASSUME UNCHANGED vars
  PROVE  /\ Decided' = Decided /\ (Unwritten' <=> Unwritten)
         /\ \A read : TrueOfRun(read)' <=> TrueOfRun(read)
         /\ UNCHANGED <<lock, ledger, snapshot, files, interrupted>>
  BY DEF vars, Decided, Unwritten, SnapshotPending, Pending, TrueOfRun

LEMMA RecordCaseKeeps ==
  ASSUME DirectoryInvariant, ReplayInvariant, NEW p \in Process, RecordCase(p)
  PROVE  ReplayInvariant'
<1>1. UNCHANGED <<vars, replay, replayReport>> /\ cases \subseteq cases' /\ cases' \subseteq Episode
  BY ReplayAssumption DEF RecordCase, ReplayInvariant
<1>2. PICK read : read = replay
  OBVIOUS
<1>3. TrueOfRun(read)' <=> TrueOfRun(read)
  BY <1>1, StandStill
<1>4. (TrueOfRun(replay)' <=> TrueOfRun(replay)) /\ (Collected' <=> Collected)
  BY <1>1, <1>2, <1>3, StandStill DEF TrueOfRun, Collected
<1>5. Reported' <=> Reported
  <2>1. PICK old : old = replayReport.replay
    OBVIOUS
  <2>2. TrueOfRun(old)' <=> TrueOfRun(old)
    BY <1>1, StandStill
  <2>3. QED
    BY <1>1, <2>1, <2>2 DEF Reported, TrueOfRun
<1>6. QED
  BY <1>1, <1>4, <1>5, StandStill DEF ReplayInvariant

LEMMA ReadLedgerKeeps ==
  ASSUME DirectoryInvariant, ReplayInvariant, ReadLedger
  PROVE  ReplayInvariant'
<1> USE DEF ReplayInvariant
<1>1. /\ UNCHANGED <<vars, cases, replayReport>> /\ replayReport = None /\ snapshot # None
      /\ replay' = [IdleReplay EXCEPT !.phase = "demonstrations", !.frozen = snapshot, !.cases = cases,
                       !.decided = Decided, !.quiet = (lock = None /\ ~interrupted)]
  BY DEF ReadLedger
<1>2. /\ replay'.phase = "demonstrations" /\ replay'.frozen = snapshot /\ replay'.cases = cases
      /\ replay'.saved = {} /\ replay'.decided = Decided /\ replay'.published = FALSE
      /\ replay'.quiet = (lock = None /\ ~interrupted)
  BY <1>1 DEF IdleReplay
<1>3. snapshot \in Source /\ Decided \subseteq Episode
  BY <1>1 DEF DirectoryInvariant, Shaped, Decided
<1>4. replay' \in ReplayState
  <2>1. PICK quiet \in BOOLEAN : quiet = (lock = None /\ ~interrupted)
    OBVIOUS
  <2>2. replay' = [phase |-> "demonstrations", frozen |-> snapshot, cases |-> cases, saved |-> {},
                   decided |-> Decided, quiet |-> quiet, published |-> FALSE]
    BY <1>1, <2>1 DEF IdleReplay
  <2>3. cases \in SUBSET Episode /\ Decided \in SUBSET Episode /\ snapshot \in Source \cup {None}
    BY <1>3
  <2>4. QED
    BY <2>1, <2>2, <2>3 DEF ReplayState
<1>5. ledger.file
  BY <1>1 DEF Unwritten
<1>6. \A f \in Collections : files[f] = None \/ files[f] \subseteq Decided
  BY DEF DirectoryInvariant, Shaped
<1>7. ASSUME lock = None, ~interrupted PROVE \A f \in Collections : files[f] = Decided
  BY <1>5, <1>7 DEF DirectoryInvariant, Published, Content, Base, Collections, Review
<1>8. TrueOfRun(replay)'
  BY <1>1, <1>2, StandStill DEF TrueOfRun
<1>9. Collected'
  BY <1>1, <1>2, <1>6, <1>7, StandStill DEF Collected
<1>10. QED
  BY <1>1, <1>4, <1>8, <1>9, StandStill

LEMMA ReadCollectionKeeps ==
  ASSUME DirectoryInvariant, ReplayInvariant, NEW f \in Collections, NEW next,
         <<f, next>> \in {<<"demonstrations", "negatives">>, <<"negatives", "report">>},
         ReadCollection(f, next)
  PROVE  ReplayInvariant'
<1> USE DEF ReplayInvariant
<1>1. UNCHANGED <<vars, cases, replayReport>> /\ replay.phase = f /\ TrueOfRun(replay) /\ Collected
  BY DEF ReadCollection, Collections
<1>2. replayReport' # None => Reported'
  <2>1. UNCHANGED replayReport
    BY <1>1
  <2>2. QED
    BY <1>1, <2>1, ReportStays
<1>3. CASE ~Exists(f)
  <2>1. replay' = IdleReplay /\ IdleReplay.phase = "idle" /\ IdleReplay \in ReplayState
    BY <1>3 DEF ReadCollection, IdleReplay, ReplayState
  <2>2. QED
    BY <1>1, <1>2, <2>1, StandStill
<1>4. CASE Exists(f)
  <2>1. replay' = [replay EXCEPT !.phase = next, !.saved = replay.saved \cup (files[f] \cap In(f))]
    BY <1>4 DEF ReadCollection
  <2>2. /\ replay'.phase = next /\ replay'.frozen = replay.frozen /\ replay'.cases = replay.cases
        /\ replay'.saved = replay.saved \cup (files[f] \cap In(f)) /\ replay'.decided = replay.decided
        /\ replay'.quiet = replay.quiet /\ replay'.published = replay.published
    BY <2>1 DEF ReplayState
  <2>3. files[f] \subseteq Decided /\ Decided \subseteq Episode
    BY <1>4 DEF DirectoryInvariant, Shaped, Exists, Decided
  <2>4. replay' \in ReplayState
    BY <2>1, <2>3 DEF ReplayState
  <2>5. ~replay.published => files[f] \subseteq replay.decided
    BY <1>1, <1>4 DEF Collected, Exists
  <2>6. TrueOfRun(replay)'
    BY <1>1, <2>2, <2>3, <2>5, StandStill DEF TrueOfRun
  <2>7. ASSUME replay.quiet
        PROVE  /\ next = "negatives" => replay.decided \cap Demonstrated \subseteq replay'.saved
               /\ next = "report" => replay.decided \subseteq replay'.saved
    <3>1. replay.decided \subseteq files[f] /\ replay.decided \subseteq Episode
      BY <1>1, <2>7 DEF Collected, ReplayState
    <3>2. CASE f = "demonstrations"
      BY <1>1, <2>2, <2>7, <3>1, <3>2 DEF Collected, In
    <3>3. CASE f = "negatives"
      BY <1>1, <2>2, <2>7, <3>1, <3>3, ReplayAssumption DEF Collected, In
    <3>4. QED
      BY <3>2, <3>3 DEF Collections
  <2>8. Collected'
    BY <1>1, <2>2, <2>7, StandStill DEF Collected
  <2>9. QED
    BY <1>1, <1>2, <2>4, <2>6, <2>8, StandStill
<1>5. QED
  BY <1>3, <1>4

LEMMA WriteReportKeeps ==
  ASSUME DirectoryInvariant, ReplayInvariant, WriteReport
  PROVE  ReplayInvariant'
<1> USE DEF ReplayInvariant
<1>1. /\ UNCHANGED <<vars, cases>> /\ replay.phase = "report" /\ replay' = IdleReplay
      /\ TrueOfRun(replay) /\ Collected
  BY DEF WriteReport
<1>2. /\ replayReport'.replay = replay
      /\ replayReport'.results =
            [e \in replay.saved |-> IF e \in replay.cases THEN "executed" ELSE "not_executed"]
  BY DEF WriteReport
<1>3. PICK read : read = replay
  OBVIOUS
<1>4. TrueOfRun(read)'
  BY <1>1, <1>3, StandStill
<1>5. read.quiet => read.decided \subseteq read.saved
  BY <1>1, <1>3 DEF Collected
<1>6. Reported'
  BY <1>2, <1>3, <1>4, <1>5 DEF Reported, TrueOfRun
<1>7. IdleReplay.phase = "idle" /\ IdleReplay \in ReplayState
  BY DEF IdleReplay, ReplayState
<1>8. QED
  BY <1>1, <1>6, <1>7, StandStill

LEMMA ReplayStep ==
  ASSUME DirectoryInvariant, ReplayInvariant, [ReplayNext]_allVars
  PROVE  ReplayInvariant'
<1>1. CASE UNCHANGED allVars
  <2>1. UNCHANGED <<vars, cases, replay, replayReport>>
    BY <1>1 DEF allVars, replayVars
  <2>2. PICK read : read = replay
    OBVIOUS
  <2>3. TrueOfRun(read)' <=> TrueOfRun(read)
    BY <2>1, StandStill
  <2>4. (TrueOfRun(replay)' <=> TrueOfRun(replay)) /\ (Collected' <=> Collected)
    BY <2>1, <2>2, <2>3, StandStill DEF TrueOfRun, Collected
  <2>5. replayReport' # None => Reported'
    <3>1. UNCHANGED replayReport
      BY <2>1
    <3>2. QED
      BY <2>1, <3>1, ReportStays DEF ReplayInvariant
  <2>6. QED
    BY <2>1, <2>4, <2>5, StandStill DEF ReplayInvariant
<1>2. ASSUME NEW p \in Process, RecordCase(p) PROVE ReplayInvariant'
  BY <1>2, RecordCaseKeeps
<1>3. CASE ReadCollection("demonstrations", "negatives") \/ ReadCollection("negatives", "report")
  BY <1>3, ReadCollectionKeeps DEF Collections
<1>4. QED
  BY <1>1, <1>2, <1>3, WritesKeep, ReadLedgerKeeps, WriteReportKeeps DEF ReplayNext

LEMMA InitialReplay == ReplayInit => ReplayInvariant
<1> SUFFICES ASSUME ReplayInit PROVE ReplayInvariant
  OBVIOUS
<1>1. snapshot = None /\ Decided = {}
  BY DEF ReplayInit, Init, Decided
<1>2. IdleReplay.phase = "idle" /\ IdleReplay \in ReplayState
  BY DEF IdleReplay, ReplayState
<1>3. QED
  BY <1>1, <1>2 DEF ReplayInit, ReplayInvariant, Unwritten

--------------------------------------------------------------------------------
(* Beside any replay, run, resume and the review commands do what they do    *)
(* without one: replay takes no lock and writes nothing but its report.      *)
THEOREM ReplayLeavesTheDirectory == ReplaySpec => Spec
<1>1. ReplayInit => Init
  BY DEF ReplayInit
<1>2. [ReplayNext]_allVars => [Next]_vars
  BY DEF ReplayNext, Writes, RecordCase, ReadLedger, ReadCollection, WriteReport, allVars
<1>3. QED
  BY <1>1, <1>2, PTL DEF ReplaySpec, Spec

(* A replay and its report are true of the run they were read from, at every *)
(* step of _load_replay_inputs, the collections and replay_report.json.      *)
THEOREM ReplayKeepsInvariant == ReplaySpec => []ReplayInvariant
<1>1. ReplayInit => ReplayInvariant
  BY InitialReplay
<1>2. DirectoryInvariant /\ ReplayInvariant /\ [ReplayNext]_allVars => ReplayInvariant'
  BY ReplayStep
<1>3. QED
  BY <1>1, <1>2, ReplayLeavesTheDirectory, DirectoryKeepsInvariant, PTL DEF ReplaySpec

(* "Resume and replay use that snapshot": whatever is decided, published or  *)
(* edited while it reads, a replay executes an Episode from the state the    *)
(* Episode started from, calls none with a case "not_executed" that was      *)
(* decided when it read the ledger, and misses none of a quiet directory.    *)
THEOREM ReplaysAreFaithful == ReplaySpec => []ReplayIsFaithful
<1>1. DirectoryInvariant /\ ReplayInvariant => ReplayIsFaithful
  <2> SUFFICES ASSUME DirectoryInvariant, ReplayInvariant, replayReport # None
               PROVE  ReplayIsFaithful
    BY DEF ReplayIsFaithful
  <2> DEFINE read == replayReport.replay
             results == replayReport.results
             executed == {e \in DOMAIN results : results[e] = "executed"}
  <2>1. Reported /\ TrueOfRun(read)
    BY DEF ReplayInvariant, Reported
  <2>2. DOMAIN results = read.saved /\ executed = read.saved \cap read.cases
    BY <2>1 DEF Reported
  <2>3. /\ (DOMAIN results \ executed) \cap Compiled \cap read.decided = {}
        /\ ~read.published => DOMAIN results \subseteq read.decided
    BY <2>1, <2>2 DEF TrueOfRun
  <2>4. read.quiet => read.decided \subseteq DOMAIN results
    BY <2>1, <2>2 DEF Reported
  <2>5. \A e \in executed : ledger.done[e] = read.frozen
    BY <2>1, <2>2 DEF TrueOfRun, DirectoryInvariant, Recorded, OneInitialState
  <2>6. QED
    BY <2>3, <2>4, <2>5 DEF ReplayIsFaithful
<1>2. QED
  BY <1>1, ReplayKeepsInvariant, ReplayLeavesTheDirectory, DirectoryKeepsInvariant, PTL
================================================================================
