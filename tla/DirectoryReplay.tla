----------------------------- MODULE DirectoryReplay -----------------------------
(* SynthesisEngine.replay beside the commands of RunDirectory. It takes no      *)
(* writer lock: it reads the ledger and the snapshot, closes the ledger, then   *)
(* reads one collection after the other while a run or resume may be deciding   *)
(* Episodes and publishing them. What replaying one Episode finds is            *)
(* EpisodeReplay's subject; here, which Episodes it replays, and from where.    *)
EXTENDS RunDirectory

CONSTANTS
    Compiled,       \* Episodes whose proposal compiles: they get a task case
    Demonstrated    \* those that end among the demonstrations, if they do

ASSUME ReplayAssumption == Demonstrated \subseteq Compiled /\ Compiled \subseteq Episode

VARIABLES
    cases,          \* ledger: Episodes with a task case
    replay,         \* the replaying process and what it read
    replayReport    \* replay_report.json: [replay, results], or None

replayVars == <<cases, replay, replayReport>>
allVars == <<vars, replayVars>>

(* history: decided and quiet are what the directory was when the ledger was    *)
(* read, published says that a collection was written since.                    *)
IdleReplay ==
    [phase |-> "idle", frozen |-> None, cases |-> {}, saved |-> {},
     decided |-> {}, quiet |-> FALSE, published |-> FALSE]

--------------------------------------------------------------------------------
(* A task case is recorded when its proposal compiles, before the Episode is    *)
(* dispatched and decided.                                                      *)
RecordCase(p) ==
    /\ proc[p].phase = "driving" /\ proc[p].plan = <<>>
    /\ \E e \in Compiled \ cases :
          /\ ledger.done[e] = None
          /\ cases' = cases \cup {e}
    /\ UNCHANGED <<vars, replay, replayReport>>

CaseFirst == (Decided' \ Decided) \cap Compiled \subseteq cases

Writes ==
    /\ Next /\ CaseFirst
    /\ replay' = [replay EXCEPT !.published =
                     @ \/ (replay.phase # "idle" /\ \E f \in Collections : files'[f] # files[f])]
    /\ UNCHANGED <<cases, replayReport>>

(* run_metadata, the snapshot and the task cases; a missing row raises, and so  *)
(* does a snapshot that is not the saved one. Bound: no replay after a report.  *)
ReadLedger ==
    /\ replay.phase = "idle" /\ replayReport = None /\ ledger.metadata
    /\ snapshot # None /\ snapshot = ledger.frozen
    /\ replay' = [IdleReplay EXCEPT !.phase = "demonstrations", !.frozen = snapshot, !.cases = cases,
                     !.decided = Decided, !.quiet = lock = None /\ ~interrupted]
    /\ UNCHANGED <<vars, cases, replayReport>>

(* _read_public_episodes raises FileNotFoundError when a collection is missing. *)
In(f) == IF f = "demonstrations" THEN Demonstrated ELSE Episode \ Demonstrated
FaultyReadCollection(f, next) ==
    /\ replay.phase = f
    /\ replay' = IF Exists(f) THEN [replay EXCEPT !.phase = next, !.saved = files[f] \cap In(f)]
                 ELSE IdleReplay
    /\ UNCHANGED <<vars, cases, replayReport>>
ReadCollection(f, next) ==
    /\ replay.phase = f
    /\ replay' = IF Exists(f) THEN [replay EXCEPT !.phase = next, !.saved = @ \cup (files[f] \cap In(f))]
                 ELSE IdleReplay
    /\ UNCHANGED <<vars, cases, replayReport>>

WriteReport ==
    /\ replay.phase = "report"
    /\ replayReport' = [replay |-> replay,
                        results |-> [e \in replay.saved |->
                                       IF e \in replay.cases THEN "executed" ELSE "not_executed"]]
    /\ replay' = IdleReplay
    /\ UNCHANGED <<vars, cases>>

ReplayInit == Init /\ cases = {} /\ replay = IdleReplay /\ replayReport = None
ReplayNext ==
    \/ Writes \/ \E p \in Process : RecordCase(p)
    \/ ReadLedger
    \/ ReadCollection("demonstrations", "negatives") \/ ReadCollection("negatives", "report")
    \/ WriteReport
ReplaySpec == ReplayInit /\ [][ReplayNext]_allVars

--------------------------------------------------------------------------------
(* Properties. *)

(* What a report says of a run is true of it, whatever is decided, published or *)
(* edited while the replay reads, and after any crash:                          *)
(*  - it says "not_executed", which counts as aligned, of no Episode with a     *)
(*    task case that was decided when it read the ledger; an Episode decided    *)
(*    later gets into it only with a collection that was published meanwhile;   *)
(*  - it misses none that was decided when nobody was writing, even if a run    *)
(*    is resumed and published before the replay ends;                          *)
(*  - "replay use the original environment": an executed Episode starts from    *)
(*    the state it started from in the run (engine.py:671-722).                 *)
ReplayIsFaithful ==
    replayReport # None =>
        LET results == replayReport.results
            read == replayReport.replay
            executed == {e \in DOMAIN results : results[e] = "executed"}
        IN  /\ (DOMAIN results \ executed) \cap Compiled \cap read.decided = {}
            /\ ~read.published => DOMAIN results \subseteq read.decided
            /\ read.quiet => read.decided \subseteq DOMAIN results
            /\ \A e \in executed : ledger.done[e] = read.frozen
=================================================================================
