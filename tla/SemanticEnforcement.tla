---------------------------- MODULE SemanticEnforcement ----------------------------
(* Whether a judge may decide on admission (enforcement.py), over the review of *)
(* QualityReview: evaluate_semantic_enforcement projects the reviewed runs of   *)
(* two campaigns into evidence and checks it against a policy. It is a function *)
(* of what the reviews hold, so it is asked in every state of them.             *)
(*                                                                              *)
(* A run also has [judge, models, settings, scope]: the identities of its judge *)
(* and of its generator and Agent, the prompt and decoding ids, the source and  *)
(* task scope. A policy has the same fields and domains, or None where they are *)
(* missing; its fingerprint is modelled by what it hashes, the policy.          *)
EXTENDS QualityReview

CONSTANTS
    Policy,
    CampaignId,
    Campaign(_, _),  \* purpose, campaign id -> the runs an operator names for it
    ReviewQuota, DomainQuota,
    AgreementMinimum, FalsePassMaximum, FalseFailMaximum, DomainFalsePassMaximum,
    Scale            \* rates are compared in units of 1/Scale; 10000 in the code

ASSUME QuotaAssumption == ReviewQuota \in Nat \ {0} /\ DomainQuota \in Nat
ASSUME EnforcementAssumption ==
    /\ \A policy \in Policy :
           {"judge", "models", "settings", "scope", "domains"} \subseteq DOMAIN policy
    /\ \A campaign \in CampaignId, purpose \in {"held-out-evaluation", "diagnostic-development"} :
           IsFiniteSet(Campaign(purpose, campaign))

--------------------------------------------------------------------------------
(* _calibration_campaign_from_runs: an Episode of each run that froze a queue   *)
(* for this campaign and purpose, with its label if it has one. Evidence ids    *)
(* bind the run, so campaigns of several runs cannot mix them up.               *)
QueuesFor(r, purpose, campaign) ==
    {i \in DOMAIN cohorts[r] : cohorts[r][i].purpose = purpose /\ cohorts[r][i].campaign = campaign}
QueueOf(r, queues, e) ==
    LET holding == {i \in queues : e \in cohorts[r][i].members}
    IN  IF holding = {} THEN None ELSE cohorts[r][CHOOSE i \in holding : TRUE]
FaultyLabelOf(r, queue, e) ==
    LET found == {l \in labels[r] : l.episode = e}
    IN  IF found = {} THEN [d \in Dimension |-> [verdict |-> "pass", critical |-> FALSE]]
        ELSE (CHOOSE l \in found : TRUE).dimensions
LabelOf(r, queue, e) ==
    LET found == {l \in labels[r] : queue # None /\ l.cohort = queue.id /\ l.episode = e}
    IN  IF found = {} THEN None ELSE (CHOOSE l \in found : TRUE).dimensions

Evidence(r, queues, e) ==
    LET episode == runs[r].episodes[e]
        dimensions == LabelOf(r, QueueOf(r, queues, e), e)
    IN  [run |-> r, episode |-> e, domain |-> episode.domain, eligible |-> episode.gates,
         group |-> episode.group, stratum |-> episode.stratum,
         judge |-> IF episode.judge \in {None, "unavailable"} THEN "uncertain" ELSE episode.judge,
         judged_by |-> IF episode.judge = None THEN None ELSE runs[r].judge,
         human |-> IF dimensions = None THEN None ELSE Aggregate(dimensions),
         critical |-> dimensions # None /\ CriticalSafetyFailure(dimensions),
         models |-> runs[r].models, settings |-> runs[r].settings, scope |-> runs[r].scope]

(* candidates are all Episodes of the campaign, reviewed those of its queues; a *)
(* directory that holds no completed run, or one without a queue for the        *)
(* campaign, counts as unavailable.                                             *)
Project(purpose, campaign) ==
    LET named == Campaign(purpose, campaign)
        Queues(r) == QueuesFor(r, purpose, campaign)
        held == {r \in named \cap DOMAIN runs : Queues(r) # {}}
        Members(r) == UNION {cohorts[r][i].members : i \in Queues(r)}
    IN  [queues |-> UNION {{cohorts[r][i] : i \in Queues(r)} : r \in held},
         candidates |-> UNION {{Evidence(r, Queues(r), e) : e \in EpisodesOf(runs[r])} : r \in held},
         reviewed |-> UNION {{Evidence(r, Queues(r), e) : e \in Members(r)} : r \in held},
         unavailable |-> named # held]

--------------------------------------------------------------------------------
(* _metrics: rates are pairs of naturals; an Episode without a label is in      *)
(* neither.                                                                     *)
Rate(part, whole) == [numerator |-> Cardinality(part), denominator |-> Cardinality(whole)]
Metrics(reviewed) ==
    LET labelled == {x \in reviewed : x.human # None}
        JudgePass == {x \in labelled : x.judge = "pass"}
        HumanPass == {x \in labelled : x.human = "pass"}
    IN  [reviewed |-> Cardinality(labelled), missing |-> Cardinality(reviewed \ labelled),
         agreement |-> Rate({x \in labelled : x.judge = x.human}, labelled),
         false_pass |-> Rate({x \in JudgePass : x.human # "pass"}, JudgePass),
         false_fail |-> Rate({x \in HumanPass : x.judge # "pass"}, HumanPass),
         critical |-> Rate({x \in JudgePass : x.critical}, JudgePass)]
InDomain(evidence, domain) == {x \in evidence : x.domain = domain}
Domains(evidence) == {x.domain : x \in evidence}

RateAtLeast(rate, threshold) == rate.numerator * Scale >= rate.denominator * threshold
RateAtMost(rate, threshold) == rate.numerator * Scale <= rate.denominator * threshold

(* The reasons whose condition holds.                                           *)
Reasons(checks) == {check[1] : check \in {c \in checks : c[2]}}

PolicyReasons(policy) ==
    LET missing == None \in {policy[f] : f \in DOMAIN policy} \/ policy.domains = {}
    IN  IF missing THEN {"policy_identity_or_scope_missing"}
        ELSE Reasons({<<"policy_judge_identity_not_independent", policy.judge \in policy.models>>})

DomainQuotaMissed(policy, campaign) ==
    \E domain \in policy.domains : Metrics(InDomain(campaign.reviewed, domain)).reviewed < DomainQuota

AllNonpassesIncluded(campaign) ==
    /\ campaign.queues # {}
    /\ \A q \in campaign.queues : q.method = "diagnostic_all_nonpass_stratified_pass"
    /\ {x \in campaign.candidates : x.judge # "pass"} \subseteq campaign.reviewed
PassesStratified(campaign) ==
    LET passes == {x \in campaign.reviewed : x.judge = "pass"}
    IN  /\ \A q \in campaign.queues :
               q.method = "diagnostic_all_nonpass_stratified_pass" /\ q.stratum_count > 0
        /\ passes # {} /\ \A x \in passes : x.stratum # None

DevelopmentReasons(policy, development) ==
    LET overall == Metrics(development.reviewed)
    IN  Reasons({
            <<"development_evidence_unavailable", development.unavailable>>,
            <<"development_review_quota_not_met", overall.reviewed < ReviewQuota>>,
            <<"development_human_labels_incomplete", overall.missing > 0>>,
            <<"development_nonpass_or_unavailable_not_fully_reviewed", ~AllNonpassesIncluded(development)>>,
            <<"development_passes_not_stratified", ~PassesStratified(development)>>,
            <<"development_domain_review_quota_not_met", DomainQuotaMissed(policy, development)>>})

SelectionIsComplete(evaluation) ==
    /\ evaluation.queues # {}
    /\ \A q \in evaluation.queues : q.method = "held_out_all_deterministically_eligible"
    /\ {x \in evaluation.candidates : x.eligible} = evaluation.reviewed
PolicyIsBound(policy, evaluation) ==
    evaluation.queues # {} /\ \A q \in evaluation.queues : q.policy = policy
Disjoint(development, evaluation) ==
    LET Groups(campaign) == {x.group : x \in campaign.candidates}
        Ids(campaign) == {<<x.run, x.episode>> : x \in campaign.candidates}
    IN  /\ Ids(development) \cap Ids(evaluation) = {}
        /\ None \notin Groups(development) \cup Groups(evaluation)
        /\ Groups(development) \cap Groups(evaluation) = {}

(* _check_evaluation_scope.                                                     *)
ScopeReasons(policy, reviewed) ==
    Reasons({
        <<"evaluation_domain_scope_mismatch", Domains(reviewed) # policy.domains>>,
        <<"evaluation_contains_noneligible_episode", \E x \in reviewed : ~x.eligible>>,
        <<"evaluation_canonical_group_evidence_missing", \E x \in reviewed : x.group = None>>,
        <<"evaluation_source_or_task_scope_mismatch", \E x \in reviewed : x.scope # policy.scope>>,
        <<"evaluation_generator_or_agent_identity_mismatch", \E x \in reviewed : x.models # policy.models>>,
        <<"evaluation_judge_identity_mismatch", \E x \in reviewed : x.judged_by # policy.judge>>,
        <<"evaluation_model_settings_mismatch", \E x \in reviewed : x.settings # policy.settings>>})

EvaluationReasons(policy, development, evaluation) ==
    LET overall == Metrics(evaluation.reviewed)
    IN  ScopeReasons(policy, evaluation.reviewed) \cup Reasons({
            <<"evaluation_evidence_unavailable", evaluation.unavailable>>,
            <<"evaluation_review_quota_not_met", overall.reviewed < ReviewQuota>>,
            <<"evaluation_human_labels_incomplete", overall.missing > 0>>,
            <<"evaluation_selection_not_deterministically_complete", ~SelectionIsComplete(evaluation)>>,
            <<"evaluation_policy_not_frozen_before_review", ~PolicyIsBound(policy, evaluation)>>,
            <<"evaluation_reuses_development_evidence", ~Disjoint(development, evaluation)>>,
            <<"evaluation_domain_review_quota_not_met", DomainQuotaMissed(policy, evaluation)>>})

(* _check_thresholds; per Domain for every Domain of the campaign.              *)
ThresholdReasons(evaluation) ==
    LET overall == Metrics(evaluation.reviewed)
        PerDomain(domain) == Metrics(InDomain(evaluation.reviewed, domain)).false_pass
        Above(rate, maximum) == rate.denominator # 0 /\ ~RateAtMost(rate, maximum)
    IN  Reasons({
            <<"agreement_denominator_zero", overall.agreement.denominator = 0>>,
            <<"overall_agreement_below_threshold",
              overall.agreement.denominator # 0 /\ ~RateAtLeast(overall.agreement, AgreementMinimum)>>,
            <<"overall_false_pass_denominator_zero", overall.false_pass.denominator = 0>>,
            <<"overall_false_pass_above_threshold", Above(overall.false_pass, FalsePassMaximum)>>,
            <<"overall_false_fail_denominator_zero", overall.false_fail.denominator = 0>>,
            <<"overall_false_fail_above_threshold", Above(overall.false_fail, FalseFailMaximum)>>,
            <<"critical_safety_false_pass_detected", overall.critical.numerator > 0>>,
            <<"per_domain_false_pass_denominator_zero",
              \E domain \in Domains(evaluation.candidates) : PerDomain(domain).denominator = 0>>,
            <<"per_domain_false_pass_above_threshold",
              \E domain \in Domains(evaluation.candidates) : Above(PerDomain(domain), DomainFalsePassMaximum)>>})

IneligibilityReasons(policy, development, evaluation) ==
    PolicyReasons(policy) \cup DevelopmentReasons(policy, development)
        \cup EvaluationReasons(policy, development, evaluation) \cup ThresholdReasons(evaluation)

(* SynthesisEngine.evaluate_semantic_enforcement: a report holds the policy and *)
(* both campaigns as they are at this moment.                                   *)
Report(policy, tuning, testing) ==
    LET development == Project("diagnostic-development", tuning)
        evaluation == Project("held-out-evaluation", testing)
    IN  [policy |-> policy, development |-> development, evaluation |-> evaluation,
         reasons |-> IneligibilityReasons(policy, development, evaluation)]
Eligible(policy, tuning, testing) == Report(policy, tuning, testing).reasons = {}

--------------------------------------------------------------------------------
(* Properties. An activation is a policy that two campaigns make eligible.      *)
Activations ==
    {a \in [policy : Policy, tuning : CampaignId, testing : CampaignId] :
        Eligible(a.policy, a.tuning, a.testing)}
TuningRuns(a) == Campaign("diagnostic-development", a.tuning)
TestingRuns(a) == Campaign("held-out-evaluation", a.testing)
Tests(a) ==
    UNION {{<<r, e>> : e \in {x \in EpisodesOf(runs[r]) : runs[r].episodes[x].gates}} : r \in TestingRuns(a)}
Labels(x) == {l \in labels[x[1]] : l.episode = x[2]}

(* People reviewed all there was to review: each Episode of the evaluation runs *)
(* that passed the gates, each Episode of the development runs the judge did    *)
(* not pass, in numbers that meet the quotas.                                   *)
ReviewedInFull(a) ==
    /\ \A x \in Tests(a) : Cardinality(Labels(x)) = 1
    /\ \A r \in TuningRuns(a) : \A e \in Doubts(runs[r]) : Labels(<<r, e>>) # {}
    /\ Cardinality(Tests(a)) >= ReviewQuota
    /\ Cardinality(UNION {{r} \X labels[r] : r \in TuningRuns(a)}) >= ReviewQuota

HumanVerdict(x) == Aggregate((CHOOSE l \in Labels(x) : TRUE).dimensions)
JudgeVerdict(x) ==
    LET verdict == runs[x[1]].episodes[x[2]].judge
    IN  IF verdict \in {None, "unavailable"} THEN "uncertain" ELSE verdict
DomainOf(x) == runs[x[1]].episodes[x[2]].domain
JudgePassed(tests) == {x \in tests : JudgeVerdict(x) = "pass"}
HumanPassed(tests) == {x \in tests : HumanVerdict(x) = "pass"}
FalsePasses(tests) == {x \in JudgePassed(tests) : HumanVerdict(x) # "pass"}
FalseFails(tests) == {x \in HumanPassed(tests) : JudgeVerdict(x) # "pass"}
AtMost(part, whole, maximum) == Cardinality(part) * Scale <= Cardinality(whole) * maximum

(* The table of the specification, counted from the runs and the labels alone,  *)
(* an unavailable judgment as uncertain: agreement, false passes overall and by *)
(* Domain, false fails, and no Episode the judge passed of which a reviewer     *)
(* confirmed a critical safety failure.                                         *)
MeetsTheTable(a) ==
    LET tests == Tests(a)
        TestsIn(domain) == {x \in tests : DomainOf(x) = domain}
    IN  /\ Cardinality({x \in tests : JudgeVerdict(x) = HumanVerdict(x)}) * Scale
               >= Cardinality(tests) * AgreementMinimum
        /\ JudgePassed(tests) # {} /\ HumanPassed(tests) # {}
        /\ AtMost(FalsePasses(tests), JudgePassed(tests), FalsePassMaximum)
        /\ AtMost(FalseFails(tests), HumanPassed(tests), FalseFailMaximum)
        /\ \A d \in {DomainOf(x) : x \in tests} :
               AtMost(FalsePasses(TestsIn(d)), JudgePassed(TestsIn(d)), DomainFalsePassMaximum)
        /\ \A x \in JudgePassed(tests) : \A l \in Labels(x) : ~CriticalSafetyFailure(l.dimensions)

(* Nothing is borrowed: development and evaluation share no semantic task, the  *)
(* judge is not one of the models it judges, and what was evaluated is this     *)
(* judge, with these models and settings, in this scope.                        *)
Independent(a) ==
    LET Tasks(named) == UNION {{runs[r].episodes[e].group : e \in EpisodesOf(runs[r])} : r \in named}
    IN  /\ Tasks(TuningRuns(a)) \cap Tasks(TestingRuns(a)) = {}
        /\ a.policy.judge \notin a.policy.models
        /\ \A x \in Tests(a) :
               \A f \in {"judge", "models", "settings", "scope"} : runs[x[1]][f] = a.policy[f]

(* The policy came first: every label of an evaluation answers a queue that was *)
(* frozen under the very policy it activates.                                   *)
PolicyCameFirst(a) ==
    \A x \in Tests(a) : \A l \in Labels(x) :
        \E i \in DOMAIN cohorts[x[1]] :
            cohorts[x[1]][i].id = l.cohort /\ cohorts[x[1]][i].policy = a.policy

(* No judge decides but on such evidence (enforcement.py:400-893).              *)
ActivationsAreSound ==
    \A a \in Activations :
        ReviewedInFull(a) /\ MeetsTheTable(a) /\ Independent(a) /\ PolicyCameFirst(a)
=================================================================================
