------------------------- MODULE RunDirectoryInvariant -------------------------
(***************************************************************************)
(* The inductive invariant of RunDirectory.                                *)
(*                                                                         *)
(* What the directory promises is about its rows and files; why it holds   *)
(* is in the plan of the process that has the lock: which writes are done, *)
(* which are pending, and what the process still remembers for them.  The  *)
(* invariant relates the two, one conjunct for each phase of a process.    *)
(***************************************************************************)
EXTENDS RunDirectory, SequencesExt

Phase == {"idle", "run", "created", "starting", "driving", "publishing",
          "resume", "review", "import", "reviewing"}

(* The process has the lock and has not passed its checks. *)
Asking == {"run", "resume", "review", "import"}

(* The durable writes a plan is made of. *)
Durable ==
    {"metadata", "frozen", "slots", "running", "snapshot", "truncate", "manifest"}
        \cup FinalStatus \cup Base \cup Review

ProcessState == [phase : Phase, plan : Seq(Durable), frozen : Source \cup {None},
                 cohorts : SUBSET Cohort, labels : SUBSET Label]

LedgerState ==
    [file : BOOLEAN, metadata : BOOLEAN, frozen : Source \cup {None},
     status : FinalStatus \cup {"running", None}, slots : BOOLEAN,
     done : [Episode -> Source \cup {None}], judged : SUBSET Episode]

Shaped ==
    /\ source \in Source
    /\ proc \in [Process -> ProcessState]
    /\ ledger \in LedgerState
    /\ snapshot \in Source \cup {None}
    /\ DOMAIN files = Base \cup Review \cup {"manifest"}
    /\ ledger.judged \subseteq Decided
    /\ \A f \in Collections : files[f] = None \/ files[f] \subseteq Decided
    /\ Frozen \subseteq Cohort /\ Labels \subseteq Label

(* The writer lock excludes: only its holder is in a command. *)
OneWriter ==
    /\ lock \in Process \cup {None}
    /\ \A p \in Process : IF lock = p THEN proc[p].phase # "idle" ELSE proc[p] = IdleProcess

--------------------------------------------------------------------------------
(* What rows and files say together, whatever process is where. *)

Disjoint(cohorts) ==
    \A c, d \in cohorts : c # d => c.id # d.id /\ c.members \cap d.members = {}

Covered(labels) == \A l \in labels : \E c \in Frozen : c.id = l[1] /\ l[2] \in c.members

(* Nothing in the directory depends on its frozen state yet. *)
Unpaid == ~ledger.slots /\ Decided = {} /\ ledger.status \notin FinalStatus

Recorded ==
    /\ ~ledger.file => Unpaid
    /\ ~Unpaid => Resumable
    /\ ledger.status = "completed" => Decided \in Sufficient
    /\ OneInitialState
    /\ ReviewFollowsEvidence

(* All but the pending writes of a publication have been done. *)
Published(pending) ==
    /\ ledger.status \in FinalStatus
    /\ \A f \in Base \ pending : files[f] = Content(f, IdleProcess)
    /\ "manifest" \notin pending => files["manifest"] = Bound

--------------------------------------------------------------------------------
(* What the holder of the lock has done and has left to do. *)

Pending(p) == Range(proc[p].plan)

Settled(p) ==
    proc[p].phase \in Asking =>
        /\ proc[p].plan = <<>>
        /\ ledger.file /\ ~interrupted => Published({})

Creating(p) == proc[p].phase = "created" => proc[p].plan = <<>> /\ ledger.file /\ Unpaid

Starting(p) ==
    proc[p].phase = "starting" =>
        /\ proc[p].plan \in Suffixes(Startup)
        /\ ledger.file /\ Unpaid /\ proc[p].frozen \in Source
        /\ "metadata" \notin Pending(p) => ledger.metadata
        /\ "frozen" \notin Pending(p) => ledger.frozen = proc[p].frozen
        /\ "running" \notin Pending(p) => ledger.status = "running"
        /\ "snapshot" \notin Pending(p) => snapshot = proc[p].frozen

Driving(p) ==
    proc[p].phase = "driving" =>
        /\ proc[p].plan \in {<<"slots", "running">>, <<"slots">>, <<"running">>, <<>>}
        /\ Resumable /\ proc[p].frozen = snapshot

Announcing(p) ==
    \E status \in FinalStatus :
        /\ proc[p].plan = <<status>> \o Publication
        /\ status = "completed" => Decided \in Sufficient

Publishing(p) ==
    proc[p].phase = "publishing" =>
        /\ Resumable
        /\ \/ Announcing(p)
           \/ proc[p].plan \in Suffixes(Publication) /\ Published(Pending(p))

Reviewing(p) ==
    proc[p].phase = "reviewing" =>
        /\ proc[p].plan \in Suffixes(Freezing) \cup Suffixes(Importing)
        /\ ledger.status = "completed"
        /\ ~interrupted => Published(Pending(p))
        /\ "cohorts" \in Pending(p) => Frozen \subseteq proc[p].cohorts /\ Disjoint(proc[p].cohorts)
        /\ "queue" \in Pending(p) =>
              "cohorts" \in Pending(p) \/ files["cohorts"] = proc[p].cohorts
        /\ "labels" \in Pending(p) => Labels \subseteq proc[p].labels /\ Covered(proc[p].labels)
        /\ "labelReport" \in Pending(p) =>
              "labels" \in Pending(p) \/ files["labels"] = proc[p].labels

Working(p) ==
    Settled(p) /\ Creating(p) /\ Starting(p) /\ Driving(p) /\ Publishing(p) /\ Reviewing(p)

(* Why the directory keeps its promises: one process at a time is in a      *)
(* command, every write its plan does not hold any more is in the rows and  *)
(* files, and what it remembers for the pending ones still agrees with what *)
(* the run, resume and review commands have read.                           *)
DirectoryInvariant ==
    /\ Shaped
    /\ OneWriter
    /\ Recorded
    /\ lock = None /\ ledger.file /\ ~interrupted => Published({})
    /\ \A p \in Process : Working(p)
================================================================================
