------------------------------ MODULE RunDirectory ------------------------------
(***************************************************************************)
(* One run directory and the processes that write it: run, resume,         *)
(* create_review_queue and import_review_labels of SynthesisEngine, and    *)
(* _finalize_run (src/agent_synthesis/engine.py), with the single-row      *)
(* tables of the ledger, the frozen snapshot and the published files.      *)
(*                                                                         *)
(* The writer lock admits one process at a time.  Once a process has       *)
(* passed its checks it follows a plan: the durable writes it still has to *)
(* do, in the order of the code.  One step is one write, a transaction or  *)
(* an os.replace, and the process may die between any two.  What happens   *)
(* inside _drive_run is RunScheduler's subject: here it decides Episodes.  *)
(***************************************************************************)
EXTENDS Integers, Sequences, FiniteSets

CONSTANTS
    Process,        \* operating system processes
    Source,         \* contents the mutable Domain source can have
    TooSmall,       \* contents whose known task capacity is below accepted_target
    Episode,        \* sequences that can have a terminal outcome
    Sufficient,     \* sets of decided Episodes that complete the run
    CohortId,       \* cohort ids an operator uses
    MaxDeaths,      \* bound on processes that end early
    None            \* no row, no file

ASSUME DirectoryAssumption ==
    /\ None \notin Process \cup Source
    /\ TooSmall \subseteq Source
    /\ MaxDeaths \in Nat
    /\ Episode \in Sufficient /\ Sufficient \subseteq SUBSET Episode

VARIABLES
    source,         \* what the Domain's source holds now
    lock,           \* the process holding .private/writer.lock, or None
    proc,           \* each process: its phase, plan and local variables
    ledger,         \* .private/ledger.sqlite3
    snapshot,       \* .private/frozen_state.json
    files,          \* the public files
    interrupted,    \* history: a writer ended early since the last publication
    deaths          \* processes that died, up to MaxDeaths

vars == <<source, lock, proc, ledger, snapshot, files, interrupted, deaths>>

FinalStatus == {"completed", "partial", "cancelled", "failed"}

(* Published from the ledger by every run and resume. *)
Collections == {"demonstrations", "negatives"}
Base == Collections \cup {"judgments", "usage", "report", "quality"}

(* Written by the review commands only. *)
Review == {"cohorts", "queue", "labels", "labelReport"}

Cohort == [id : CohortId, members : SUBSET Episode]
Label == CohortId \X Episode

(* No row and no file has the value of a missing one. *)
ASSUME AbsenceAssumption ==
    /\ None \notin FinalStatus \cup {"running"}
    /\ \A cohorts \in SUBSET Cohort, labels \in SUBSET Label : None \notin {cohorts, labels}

IdleProcess ==
    [phase |-> "idle", plan |-> <<>>, frozen |-> None, cohorts |-> {}, labels |-> {}]

--------------------------------------------------------------------------------
(* The plans: durable writes in the order of the code. *)

(* writes the snapshot after the run has started *)
FaultyStartup == <<"metadata", "frozen", "running">>
Startup == <<"metadata", "frozen", "running", "snapshot">>

Publication ==
    <<"demonstrations", "negatives", "judgments", "usage", "report", "quality",
      "truncate", "manifest">>

(* leaves the quality report and the manifest as they were *)
FaultyRefresh == <<"quality">>
Refresh == <<"quality", "truncate", "manifest">>

(* replaces the queue before the cohorts it shows are frozen *)
FaultyFreezing == <<"queue", "cohorts">> \o Refresh
Freezing == <<"cohorts", "queue">> \o Refresh
Importing == <<"labels", "labelReport">> \o Refresh

--------------------------------------------------------------------------------
(* What the files are made of. *)

Decided == {e \in Episode : ledger.done[e] # None}

(* A missing file reads as no cohort, no label. *)
Frozen == IF files["cohorts"] = None THEN {} ELSE files["cohorts"]
Labels == IF files["labels"] = None THEN {} ELSE files["labels"]
Exists(f) == files[f] # None

(* What a publication step puts into a file, for the process that writes it. *)
Content(f, p) ==
    CASE f \in Collections \cup {"usage"} -> Decided
      [] f = "judgments" -> ledger.judged
      [] f = "report" -> [status |-> ledger.status, decided |-> Decided]
      [] f = "quality" -> [status |-> ledger.status, decided |-> Decided,
                           judged |-> ledger.judged, cohorts |-> Frozen, labels |-> Labels]
      [] f \in {"cohorts", "queue"} -> p.cohorts
      [] f \in {"labels", "labelReport"} -> p.labels

(* build_manifest hashes every base file and the review files that exist. *)
Bound == [f \in {g \in Base \cup Review : Exists(g)} |-> files[f]]

--------------------------------------------------------------------------------
(* The writer lock. *)

(* does not notice another writer *)
FaultyTakeLock(p, command) ==
    /\ proc[p] = IdleProcess
    /\ lock' = p
    /\ proc' = [proc EXCEPT ![p].phase = command]
    /\ UNCHANGED <<source, ledger, snapshot, files, interrupted, deaths>>

(* _RunDirectoryWriterLock.__enter__; a second process gets RunLockedError. *)
TakeLock(p, command) ==
    /\ proc[p] = IdleProcess
    /\ lock = None
    /\ lock' = p
    /\ proc' = [proc EXCEPT ![p].phase = command]
    /\ UNCHANGED <<source, ledger, snapshot, files, interrupted, deaths>>

(* The process is through with the directory: __exit__, or its death. *)
Leave(p) ==
    /\ lock' = IF lock = p THEN None ELSE lock
    /\ proc' = [proc EXCEPT ![p] = IdleProcess]

Refuse(p) == Leave(p) /\ UNCHANGED <<source, ledger, snapshot, files, interrupted, deaths>>

Follow(p, phase, plan) ==
    proc' = [proc EXCEPT ![p].phase = phase, ![p].plan = plan]

--------------------------------------------------------------------------------
(* run *)

CreateLedger(p) ==
    /\ proc[p].phase = "run"
    /\ \/ /\ ledger.file                \* FileExistsError
          /\ Refuse(p)
       \/ /\ ~ledger.file
          /\ ledger' = [ledger EXCEPT !.file = TRUE]
          /\ Follow(p, "created", <<>>)
          /\ UNCHANGED <<source, lock, snapshot, files, interrupted, deaths>>

(* open_run and freeze_initial_state read the source, once. *)
FreezeInitialState(p) ==
    /\ proc[p].phase = "created"
    /\ proc' = [proc EXCEPT ![p].phase = "starting", ![p].plan = Startup,
                            ![p].frozen = source]
    /\ UNCHANGED <<source, lock, ledger, snapshot, files, interrupted, deaths>>

Drive(p, frozen, preparation) ==
    proc' = [proc EXCEPT
        ![p].frozen = frozen,
        ![p].phase = IF frozen \in TooSmall THEN "publishing" ELSE "driving",
        ![p].plan = IF frozen \in TooSmall THEN <<"failed">> \o Publication ELSE preparation]

Started(p) ==
    /\ proc[p].phase = "starting" /\ proc[p].plan = <<>>
    /\ Drive(p, proc[p].frozen, <<"slots">>)
    /\ UNCHANGED <<source, lock, ledger, snapshot, files, interrupted, deaths>>

--------------------------------------------------------------------------------
(* resume *)

(* run_metadata, _read_frozen_snapshot and run_status all find their rows. *)
Resumable ==
    /\ ledger.file /\ ledger.metadata
    /\ snapshot # None /\ snapshot = ledger.frozen
    /\ ledger.status # None

(* starts from what the source holds now *)
FaultyOpenRun(p) ==
    /\ proc[p].phase = "resume"
    /\ \/ Refuse(p)
       \/ /\ Resumable
          /\ Drive(p, source,
                   IF ledger.status = "running" /\ ~ledger.slots
                   THEN <<"slots", "running">> ELSE <<"running">>)
          /\ UNCHANGED <<source, lock, ledger, snapshot, files, interrupted, deaths>>

(* Refused when a row or the snapshot is missing, the configuration or the   *)
(* Domain version differs, or the source of a Domain that cannot restore a   *)
(* saved state has changed; otherwise the saved state is where it starts.    *)
OpenRun(p) ==
    /\ proc[p].phase = "resume"
    /\ \/ Refuse(p)
       \/ /\ Resumable
          /\ Drive(p, snapshot,
                   IF ledger.status = "running" /\ ~ledger.slots
                   THEN <<"slots", "running">> ELSE <<"running">>)
          /\ UNCHANGED <<source, lock, ledger, snapshot, files, interrupted, deaths>>

--------------------------------------------------------------------------------
(* _drive_run: Episodes are decided from the frozen state until the target   *)
(* is met or no slot is left, or the run stops early and its status says so. *)

Decide(p, e) ==
    /\ proc[p].phase = "driving" /\ proc[p].plan = <<>>
    /\ Decided \notin Sufficient /\ ledger.done[e] = None
    /\ ledger' = [ledger EXCEPT !.done[e] = proc[p].frozen]
    /\ UNCHANGED <<source, lock, proc, snapshot, files, interrupted, deaths>>

StopDriving(p) ==
    /\ proc[p].phase = "driving" /\ proc[p].plan = <<>>
    /\ \E status \in {"completed", "partial", "cancelled"} :
          /\ status = "completed" => Decided \in Sufficient
          /\ Follow(p, "publishing", <<status>> \o Publication)
    /\ UNCHANGED <<source, lock, ledger, snapshot, files, interrupted, deaths>>

--------------------------------------------------------------------------------
(* create_review_queue and import_review_labels *)

OpenReview(p) ==
    /\ proc[p].phase = "review"
    /\ \/ Refuse(p)            \* not completed, cohort id taken, members overlap
       \/ /\ ledger.file /\ ledger.metadata /\ ledger.status = "completed"
          /\ \E id \in CohortId \ {c.id : c \in Frozen},
                members \in SUBSET (Decided \ UNION {c.members : c \in Frozen}) :
                proc' = [proc EXCEPT
                    ![p].phase = "reviewing", ![p].plan = Freezing,
                    ![p].cohorts = Frozen \cup {[id |-> id, members |-> members]}]
          /\ UNCHANGED <<source, lock, ledger, snapshot, files, interrupted, deaths>>

(* Labels of cohort members that have none yet. *)
Missing == {l \in Label : \E c \in Frozen : c.id = l[1] /\ l[2] \in c.members} \ Labels

OpenImport(p) ==
    /\ proc[p].phase = "import"
    /\ \/ Refuse(p)             \* not completed, no cohort, or an invalid label
       \/ /\ ledger.file /\ ledger.metadata /\ ledger.status = "completed"
          /\ Frozen # {}
          /\ \E submitted \in SUBSET Missing :
                proc' = [proc EXCEPT ![p].phase = "reviewing", ![p].plan = Importing,
                                     ![p].labels = Labels \cup submitted]
          /\ UNCHANGED <<source, lock, ledger, snapshot, files, interrupted, deaths>>

--------------------------------------------------------------------------------
(* The writes. *)

Advance(p) == proc' = [proc EXCEPT ![p].plan = Tail(@)]

WriteLedger(p, w) ==
    /\ w \in {"metadata", "frozen", "slots", "running"} \cup FinalStatus
    /\ ledger' = CASE w = "metadata" -> [ledger EXCEPT !.metadata = TRUE]
                   [] w = "frozen" -> [ledger EXCEPT !.frozen = proc[p].frozen]
                   [] w = "slots" -> [ledger EXCEPT !.slots = TRUE]
                   [] OTHER -> [ledger EXCEPT !.status = w]
    /\ Advance(p)
    /\ UNCHANGED <<source, lock, snapshot, files, interrupted, deaths>>

WriteSnapshot(p, w) ==
    /\ w = "snapshot"
    /\ snapshot' = proc[p].frozen
    /\ Advance(p)
    /\ UNCHANGED <<source, lock, ledger, files, interrupted, deaths>>

(* Every decided Episode gets its judgment before the file of judgments. *)
RecordJudgment(p, w) ==
    /\ w = "judgments"
    /\ \E e \in Decided \ ledger.judged :
          ledger' = [ledger EXCEPT !.judged = @ \cup {e}]
    /\ UNCHANGED <<source, lock, proc, snapshot, files, interrupted, deaths>>

WriteFile(p, w) ==
    /\ w \in Base \cup Review
    /\ w = "judgments" => Decided \subseteq ledger.judged
    /\ files' = [files EXCEPT ![w] = Content(w, proc[p])]
    /\ Advance(p)
    /\ UNCHANGED <<source, lock, ledger, snapshot, interrupted, deaths>>

(* write_manifest is a plain write_text: the old contents go first.  Before  *)
(* that, build_manifest opens the base files and fails when one is missing.  *)
WriteManifest(p, w) ==
    \/ /\ w = "truncate" /\ \A f \in Base : Exists(f)
       /\ files' = [files EXCEPT !["manifest"] = "torn"]
       /\ Advance(p)
       /\ UNCHANGED <<source, lock, ledger, snapshot, interrupted, deaths>>
    \/ /\ w = "truncate" /\ \E f \in Base : ~Exists(f)
       /\ Leave(p)
       /\ interrupted' = TRUE
       /\ UNCHANGED <<source, ledger, snapshot, files, deaths>>
    \/ /\ w = "manifest"
       /\ files' = [files EXCEPT !["manifest"] = Bound]
       /\ Advance(p)
       /\ UNCHANGED <<source, lock, ledger, snapshot, interrupted, deaths>>

Write(p) ==
    /\ proc[p].plan # <<>>
    /\ LET w == Head(proc[p].plan)
       IN  \/ WriteLedger(p, w) \/ WriteSnapshot(p, w) \/ RecordJudgment(p, w)
           \/ WriteFile(p, w) \/ WriteManifest(p, w)

Return(p) ==
    /\ proc[p].phase \in {"publishing", "reviewing"} /\ proc[p].plan = <<>>
    /\ interrupted' = IF proc[p].phase = "publishing" THEN FALSE ELSE interrupted
    /\ Leave(p)
    /\ UNCHANGED <<source, ledger, snapshot, files, deaths>>

--------------------------------------------------------------------------------
(* The surroundings. *)

(* The process is killed, or the Domain or a worker raises and the exception *)
(* leaves the command.                                                       *)
Die(p) ==
    /\ proc[p].phase # "idle" /\ deaths < MaxDeaths
    /\ deaths' = deaths + 1
    /\ interrupted' = (interrupted \/ proc[p].phase \in {"created", "driving"}
                                   \/ proc[p].plan # <<>>
                                   \/ proc[p].phase = "starting")
    /\ Leave(p)
    /\ UNCHANGED <<source, ledger, snapshot, files>>

EditSource ==
    /\ source' \in Source \ {source}
    /\ UNCHANGED <<lock, proc, ledger, snapshot, files, interrupted, deaths>>

Init ==
    /\ source \in Source
    /\ lock = None
    /\ proc = [p \in Process |-> IdleProcess]
    /\ ledger = [file |-> FALSE, metadata |-> FALSE, frozen |-> None, status |-> None,
                 slots |-> FALSE, done |-> [e \in Episode |-> None], judged |-> {}]
    /\ snapshot = None
    /\ files = [f \in Base \cup Review \cup {"manifest"} |-> None]
    /\ interrupted = FALSE /\ deaths = 0

Command(p) ==
    \/ \E command \in {"run", "resume", "review", "import"} : TakeLock(p, command)
    \/ CreateLedger(p) \/ FreezeInitialState(p) \/ Started(p)
    \/ OpenRun(p) \/ StopDriving(p) \/ OpenReview(p) \/ OpenImport(p)
    \/ Write(p) \/ Return(p)
    \/ \E e \in Episode : Decide(p, e)

Next == EditSource \/ \E p \in Process : Command(p) \/ Die(p)

Spec == Init /\ [][Next]_vars

--------------------------------------------------------------------------------
(* What the directory promises. *)

(* Rows, files and local variables have the values their writers give them.  *)
TypeOK ==
    /\ source \in Source
    /\ lock \in Process \cup {None}
    /\ \A p \in Process :
          /\ proc[p].phase \in {"idle", "run", "created", "starting", "driving", "publishing",
                                "resume", "review", "import", "reviewing"}
          /\ proc[p].frozen \in Source \cup {None}
          /\ proc[p].cohorts \subseteq Cohort /\ proc[p].labels \subseteq Label
    /\ ledger.file \in BOOLEAN /\ ledger.metadata \in BOOLEAN /\ ledger.slots \in BOOLEAN
    /\ ledger.frozen \in Source \cup {None}
    /\ ledger.status \in FinalStatus \cup {"running", None}
    /\ ledger.done \in [Episode -> Source \cup {None}] /\ ledger.judged \subseteq Decided
    /\ snapshot \in Source \cup {None}
    /\ \A f \in Collections : files[f] = None \/ files[f] \subseteq Decided
    /\ Frozen \subseteq Cohort /\ Labels \subseteq Label

(* "Before paid work, the Domain admits and freezes local source bytes": from *)
(* the moment slots exist, whatever dies, the directory can be resumed from  *)
(* its own frozen state.                                                     *)
PaidWorkIsResumable == ledger.slots \/ Decided # {} => Resumable

(* "Resume and replay use that snapshot, not a mutable source path": every   *)
(* Episode of a run, decided by whichever process, started from one state,   *)
(* although the source is edited meanwhile.                                  *)
OneInitialState == \A e \in Decided : ledger.done[e] = snapshot

(* When no writer is active and none ended early since the last publication, *)
(* the ledger, the published files and the manifest say the same.            *)
PublishedWhenQuiet ==
    lock = None /\ ~interrupted /\ ledger.file =>
        /\ ledger.status \in FinalStatus
        /\ \A f \in Base : files[f] = Content(f, IdleProcess)
        /\ files["manifest"] = Bound

(* Review files never get ahead of what they are about, whenever a process   *)
(* dies: cohorts are disjoint sets of decided Episodes of a finished run,    *)
(* the blind queue shows frozen cohorts only, every label belongs to a       *)
(* frozen cohort, and the import report counts imported labels only.         *)
ReviewFollowsEvidence ==
    /\ Frozen # {} => Decided \in Sufficient
    /\ \A c, d \in Frozen : c # d => c.id # d.id /\ c.members \cap d.members = {}
    /\ Exists("queue") => files["queue"] \subseteq Frozen
    /\ \A l \in Labels : \E c \in Frozen : c.id = l[1] /\ l[2] \in c.members
    /\ Exists("labelReport") => files["labelReport"] \subseteq Labels

(* Frozen cohorts and imported labels are human evidence: no command, resume *)
(* or crash takes one back, or changes the Episodes a cohort was drawn from. *)
EvidenceIsKept ==
    [][/\ Frozen \subseteq Frozen' /\ Labels \subseteq Labels'
       /\ Frozen # {} => ledger'.done = ledger.done]_vars

(* "A crashed process leaves it resumable": a directory some process has     *)
(* worked in can be resumed, or run afresh.                                  *)
CrashedIsResumable == lock = None /\ ledger.file => Resumable
================================================================================
