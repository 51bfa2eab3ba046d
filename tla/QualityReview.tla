------------------------------- MODULE QualityReview -------------------------------
(* The human review of completed runs: create_review_queue freezes cohorts of   *)
(* Episodes, import_review_labels takes what reviewers say of them (engine.py), *)
(* over the selection, the aggregation and the summary of quality.py. Nothing   *)
(* of a completed run changes but its cohorts and labels.                       *)
(*                                                                              *)
(* An Episode is known by its sequence number in its run. Of the five           *)
(* dimensions of a judgment Dimension keeps as many as the checks tell apart; a *)
(* membership hash is modelled by what it binds, the cohort itself.             *)
EXTENDS Integers, Sequences, FiniteSets, SequencesExt, TLC

CONSTANTS
    Run,
    Reviewed,      \* the completed runs a behaviour may start from, as below
    Configurations,\* review queue configurations
    Submissions,   \* sequences of labels a reviewer may submit
    Dimension,
    None

ASSUME ReviewAssumption ==
    /\ \A completed \in Reviewed :
           /\ DOMAIN completed = Run
           /\ \A r \in Run : LET episodes == DOMAIN completed[r].episodes
                           IN  episodes \subseteq Nat /\ IsFiniteSet(episodes)
    /\ \A configuration \in Configurations :
           /\ configuration.limit \in Nat
           /\ configuration.purpose \in {"held-out-evaluation", "diagnostic-development"}
    /\ \A submission \in Submissions : IsFiniteSet(DOMAIN submission)

(* A run is [episodes, ...]; an Episode [domain, admitted, gates, judge,        *)
(* stratum, group]: judge is its verdict or None when there is no judgment,     *)
(* stratum its Domain-owned classification, group its semantic task or None.    *)
VARIABLES
    runs,          \* Run -> completed run
    cohorts,       \* Run -> frozen cohorts, in order
    labels         \* Run -> imported labels [cohort, purpose, episode, dimensions]

reviewVars == <<runs, cohorts, labels>>

--------------------------------------------------------------------------------
(* Dimension -> [verdict, critical]; critical says that critical_safety_failure *)
(* is among the reasons, and only what does not pass has reasons.               *)
WellFormed(dimensions) ==
    /\ DOMAIN dimensions = Dimension
    /\ \A d \in Dimension :
           /\ dimensions[d].verdict \in {"pass", "fail", "uncertain"}
           /\ dimensions[d].critical => dimensions[d].verdict # "pass"

Aggregate(dimensions) ==
    LET verdicts == {dimensions[d].verdict : d \in DOMAIN dimensions}
    IN  IF "fail" \in verdicts THEN "fail"
        ELSE IF "uncertain" \in verdicts THEN "uncertain" ELSE "pass"

(* _human_label_has_critical_safety_failure. *)
CriticalSafetyFailure(dimensions) ==
    dimensions["safety"].verdict = "fail" /\ dimensions["safety"].critical

--------------------------------------------------------------------------------
(* build_review_cohort. *)
EpisodesOf(run) == DOMAIN run.episodes
Admitted(run) == {e \in EpisodesOf(run) : run.episodes[e].admitted}
Doubts(run) == {e \in EpisodesOf(run) : run.episodes[e].judge # "pass"}
Stratum(run, e) == run.episodes[e].stratum

Candidates(run, configuration) ==
    IF configuration.candidates # {} THEN configuration.candidates
    ELSE IF configuration.purpose = "held-out-evaluation" THEN Admitted(run)
    ELSE EpisodesOf(run)

(* _stratified_pass_selection: every stratum gives its first Episode, then      *)
(* every one that has more its second, and so on until limit are taken.         *)
Round(run, passes, e) ==
    Cardinality({f \in passes : f < e /\ Stratum(run, f) = Stratum(run, e)})
Place(run, passes, e) ==
    LET strata == SetToSeq({Stratum(run, f) : f \in passes})
    IN  CHOOSE i \in DOMAIN strata : strata[i] = Stratum(run, e)
Before(run, passes, f, e) ==
    \/ Round(run, passes, f) < Round(run, passes, e)
    \/ /\ Round(run, passes, f) = Round(run, passes, e)
       /\ Place(run, passes, f) < Place(run, passes, e)
Stratified(run, passes, limit) ==
    {e \in passes : Cardinality({f \in passes : Before(run, passes, f, e)}) < limit}

Cohort(configuration, method, candidates, doubts, passes, strata) ==
    [id |-> configuration.id, purpose |-> configuration.purpose, members |-> doubts \cup passes,
     method |-> IF configuration.candidates = {} THEN method ELSE "operator_selected",
     candidate_count |-> Cardinality(candidates), nonpass_count |-> Cardinality(doubts),
     pass_count |-> Cardinality(passes), stratum_count |-> strata,
     campaign |-> configuration.campaign, policy |-> configuration.policy]

HeldOutCohort(run, configuration, candidates) ==
    Cohort(configuration, "held_out_all_deterministically_eligible", candidates, {}, candidates, 0)

FaultyDiagnosticCohort(run, configuration, candidates) ==
    LET passes == Stratified(run, candidates, configuration.limit)
    IN  Cohort(configuration, "diagnostic_all_nonpass_stratified_pass", candidates,
               {}, passes, Cardinality({Stratum(run, e) : e \in passes}))
DiagnosticCohort(run, configuration, candidates) ==
    LET doubts == candidates \cap Doubts(run)
        passes == Stratified(run, candidates \ doubts, configuration.limit)
    IN  Cohort(configuration, "diagnostic_all_nonpass_stratified_pass", candidates,
               doubts, passes, Cardinality({Stratum(run, e) : e \in passes}))

BuildCohort(run, configuration) ==
    LET candidates == Candidates(run, configuration)
    IN  IF configuration.purpose = "held-out-evaluation"
        THEN HeldOutCohort(run, configuration, candidates)
        ELSE DiagnosticCohort(run, configuration, candidates)

(* A held-out queue takes admitted Episodes, a diagnostic one judged Episodes.  *)
Buildable(run, configuration) ==
    LET candidates == Candidates(run, configuration)
    IN  /\ configuration.policy # None => configuration.campaign # None
        /\ candidates \subseteq EpisodesOf(run)
        /\ IF configuration.purpose = "held-out-evaluation" THEN candidates \subseteq Admitted(run)
           ELSE \A e \in candidates : run.episodes[e].judge # None

Overlaps(cohort, frozen) == \E i \in DOMAIN frozen : frozen[i].members \cap cohort.members # {}

--------------------------------------------------------------------------------
CreateReviewQueue ==
    \E r \in Run, configuration \in Configurations :
        LET cohort == BuildCohort(runs[r], configuration)
        IN  /\ \A i \in DOMAIN cohorts[r] : cohorts[r][i].id # configuration.id
            /\ Buildable(runs[r], configuration)
            /\ ~Overlaps(cohort, cohorts[r])
            /\ cohorts' = [cohorts EXCEPT ![r] = Append(@, cohort)]
            /\ UNCHANGED <<runs, labels>>

(* _parse_submitted_human_labels and _validate_submitted_human_labels: all of a *)
(* submission or nothing of it. references says whether the events a label      *)
(* refers to are those of its Episode.                                          *)
SameKey(a, b) == a.cohort = b.cohort /\ a.episode = b.episode
InItsQueue(r, label) ==
    \E i \in DOMAIN cohorts[r] : LET cohort == cohorts[r][i] IN
        /\ cohort.id = label.cohort /\ cohort.purpose = label.purpose
        /\ label.episode \in cohort.members
Acceptable(r, submission) ==
    /\ \A i, j \in DOMAIN submission : SameKey(submission[i], submission[j]) => i = j
    /\ \A i \in DOMAIN submission : LET label == submission[i] IN
        /\ WellFormed(label.dimensions) /\ label.references
        /\ InItsQueue(r, label)
        /\ \A imported \in labels[r] : ~SameKey(imported, label)

Label(submitted) ==
    [cohort |-> submitted.cohort, purpose |-> submitted.purpose, episode |-> submitted.episode,
     dimensions |-> submitted.dimensions]
FaultyImportReviewLabels ==
    \E r \in Run, submission \in Submissions :
        /\ cohorts[r] # <<>> /\ Acceptable(r, submission)
        /\ labels' = [labels EXCEPT ![r] = {Label(submission[i]) : i \in DOMAIN submission}]
        /\ UNCHANGED <<runs, cohorts>>
ImportReviewLabels ==
    \E r \in Run, submission \in Submissions :
        /\ cohorts[r] # <<>> /\ Acceptable(r, submission)
        /\ labels' = [labels EXCEPT ![r] = @ \cup {Label(submission[i]) : i \in DOMAIN submission}]
        /\ UNCHANGED <<runs, cohorts>>

Init ==
    /\ runs \in Reviewed
    /\ cohorts = [r \in Run |-> <<>>] /\ labels = [r \in Run |-> {}]
Next == CreateReviewQueue \/ ImportReviewLabels
Spec == Init /\ [][Next]_reviewVars

(* summarize_human_review. *)
Summary(frozen, imported) ==
    LET expected == UNION {{frozen[i].id} \X frozen[i].members : i \in DOMAIN frozen}
        evaluation == UNION {frozen[i].members :
                          i \in {j \in DOMAIN frozen : frozen[j].purpose = "held-out-evaluation"}}
        reviewed == {l \in imported : l.purpose = "held-out-evaluation" /\ l.episode \in evaluation}
    IN  [complete |-> expected # {} /\ expected \subseteq {<<l.cohort, l.episode>> : l \in imported},
         approved |-> {l.episode : l \in {m \in imported : Aggregate(m.dimensions) = "pass"}},
         denominator |-> Cardinality(evaluation), reviewed_count |-> Cardinality(reviewed),
         pass_count |-> Cardinality({l \in reviewed : Aggregate(l.dimensions) = "pass"}),
         incomplete_count |-> Cardinality(evaluation) - Cardinality(reviewed)]

--------------------------------------------------------------------------------
(* Properties. *)

(* Every Episode the judge did not pass, the unavailable ones included, is in   *)
(* the queue that claims to hold all of them, and the counts frozen with a      *)
(* queue are those of its members (quality.py:679-704).                         *)
DiagnosticsHoldEveryDoubt ==
    \A r \in DOMAIN runs : \A i \in DOMAIN cohorts[r] : LET cohort == cohorts[r][i] IN
        cohort.method = "diagnostic_all_nonpass_stratified_pass" =>
            /\ Doubts(runs[r]) \subseteq cohort.members
            /\ cohort.nonpass_count = Cardinality(cohort.members \cap Doubts(runs[r]))
            /\ cohort.pass_count = Cardinality(cohort.members \ Doubts(runs[r]))

(* Passes are filled in evenly: a stratum is behind another by more than one    *)
(* Episode only when it has none left (_stratified_pass_selection).             *)
PassesAreSpread ==
    \A r \in DOMAIN runs : \A i \in DOMAIN cohorts[r] :
        LET cohort == cohorts[r][i]
            passes == EpisodesOf(runs[r]) \ Doubts(runs[r])
            In(s) == {e \in passes : Stratum(runs[r], e) = s}
            Taken(s) == Cardinality(In(s) \cap cohort.members)
        IN  cohort.method = "diagnostic_all_nonpass_stratified_pass" =>
                \A s, t \in {Stratum(runs[r], e) : e \in passes} :
                    Taken(s) + 1 < Taken(t) => In(s) \subseteq cohort.members

(* The judge has no say in an evaluation: with any other verdicts the same      *)
(* queue would have been frozen (quality.py:663-678).                           *)
EvaluationIgnoresTheJudge ==
    \A r \in DOMAIN runs : \A i \in DOMAIN cohorts[r] :
        cohorts[r][i].method = "held_out_all_deterministically_eligible" =>
            cohorts[r][i].members = Admitted(runs[r])

(* No Episode is reviewed twice, in two queues of a run or by two labels, and a *)
(* label belongs to a queue, of its purpose, that holds its Episode.            *)
ReviewedOnce ==
    \A r \in DOMAIN runs :
        /\ \A i, j \in DOMAIN cohorts[r] :
               cohorts[r][i].members \cap cohorts[r][j].members # {} => i = j
        /\ \A a, b \in labels[r] : a.episode = b.episode => a = b
        /\ \A a \in labels[r] : \E i \in DOMAIN cohorts[r] :
               /\ cohorts[r][i].id = a.cohort /\ cohorts[r][i].purpose = a.purpose
               /\ a.episode \in cohorts[r][i].members

(* The summary tells the truth: it is complete when every queued Episode has a  *)
(* label, what it counts as still open is what has none, and it approves those  *)
(* Episodes only that passed in every dimension.                                *)
SummaryIsTrue ==
    \A r \in DOMAIN runs :
        LET summary == Summary(cohorts[r], labels[r])
            labelled == {l.episode : l \in labels[r]}
            QueuedFor(purposes) ==
                UNION {cohorts[r][i].members : i \in {j \in DOMAIN cohorts[r] : cohorts[r][j].purpose \in purposes}}
            queued == QueuedFor({"held-out-evaluation", "diagnostic-development"})
        IN  /\ summary.complete <=> queued # {} /\ queued \subseteq labelled
            /\ summary.incomplete_count = Cardinality(QueuedFor({"held-out-evaluation"}) \ labelled)
            /\ summary.pass_count <= summary.reviewed_count
            /\ \A l \in labels[r] : l.episode \in summary.approved =>
                   \A d \in Dimension : l.dimensions[d].verdict = "pass"

(* Reviewers are shown what they have to see and their summary says what they   *)
(* said (quality.py:575-734, 766-791).                                          *)
ReviewIsSound ==
    /\ DiagnosticsHoldEveryDoubt /\ PassesAreSpread /\ EvaluationIgnoresTheJudge
    /\ ReviewedOnce /\ SummaryIsTrue

(* What was frozen or imported is never taken back or rewritten.                *)
ReviewOnlyGrows ==
    [][\A r \in DOMAIN runs : IsPrefix(cohorts[r], cohorts'[r]) /\ labels[r] \subseteq labels'[r]]_reviewVars
=================================================================================
