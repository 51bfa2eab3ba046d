------------------------------- MODULE EnforcedRun -------------------------------
(* How a judge comes to decide on admission: reviews go on (QualityReview),     *)
(* evaluate_semantic_enforcement freezes a report of two campaigns at some      *)
(* moment of them, and later a run is started in enforced mode with a report    *)
(* and a policy of the operator's choice, which _semantic_enforcement_context   *)
(* accepts or refuses before any provider call. Reports are never withdrawn:    *)
(* queues and labels that come after one may make its campaigns ineligible.     *)
EXTENDS SemanticEnforcement

CONSTANTS
    Request,       \* what runs may ask for: [domain, models, judge, settings, scope]
    Registered,    \* the judges the registry knows
    MaxReports     \* bound: reports a behaviour issues

(* A policy scope and the Domain of an Episode are a Domain with its version.   *)
VARIABLES
    reports,       \* issued reports
    started        \* enforced runs, [request, report]

enforcedVars == <<runs, cohorts, labels, reports, started>>

--------------------------------------------------------------------------------
(* _shadow_judge_context: a judge the registry has and that is not the model it *)
(* would judge.                                                                 *)
ShadowJudge(request) ==
    IF request.judge \in Registered \ request.models THEN request.judge ELSE None

(* _semantic_enforcement_context compares the request with the policy.          *)
FaultyMatches(policy, request) ==
    /\ request.domain \in policy.domains /\ request.models = policy.models
    /\ request.judge = policy.judge /\ ShadowJudge(request) = policy.judge
Matches(policy, request) ==
    /\ None \notin {policy.judge, policy.models} /\ policy.domains # {}
    /\ request.domain \in policy.domains /\ request.models = policy.models
    /\ request.scope = policy.scope /\ request.settings = policy.settings
    /\ request.judge = policy.judge /\ ShadowJudge(request) = policy.judge

(* The report must be eligible, name this policy and be what its own evidence   *)
(* gives. The files it was drawn from are not read again.                       *)
Activates(report, policy) ==
    /\ report.reasons = {} /\ report.policy = policy
    /\ report.reasons = IneligibilityReasons(policy, report.development, report.evaluation)

Review == Next /\ UNCHANGED <<reports, started>>

IssueReport ==
    \E policy \in Policy, tuning, testing \in CampaignId :
        /\ Cardinality(reports) < MaxReports
        /\ reports' = reports \cup {Report(policy, tuning, testing)}
        /\ UNCHANGED <<reviewVars, started>>

StartRun ==
    \E request \in Request, policy \in Policy, report \in reports :
        /\ Activates(report, policy) /\ Matches(policy, request)
        /\ started' = started \cup {[request |-> request, report |-> report]}
        /\ UNCHANGED <<reviewVars, reports>>

EnforcedInit == Init /\ reports = {} /\ started = {}
EnforcedNext == Review \/ IssueReport \/ StartRun
EnforcedSpec == EnforcedInit /\ [][EnforcedNext]_enforcedVars

--------------------------------------------------------------------------------
(* Properties. *)

(* What an enforced run relies on stays on record, whatever is reviewed after   *)
(* its report was issued: each evaluated Episode with the label that was        *)
(* counted, in a queue frozen under the policy (enforcement.py:373-397 and      *)
(* engine.py:376-477 trust the report).                                         *)
EnforcedRunsRestOnTheRecord ==
    \A s \in started : \A x \in s.report.evaluation.reviewed :
        \E i \in DOMAIN cohorts[x.run], l \in labels[x.run] :
            /\ cohorts[x.run][i].policy = s.report.policy
            /\ l.cohort = cohorts[x.run][i].id /\ l.episode = x.episode
            /\ Aggregate(l.dimensions) = x.human

(* The judge that decides is the judge that was evaluated, on Episodes of the   *)
(* same models, settings and scope and of the Domain it now decides on, and it  *)
(* is never the model it judges (engine.py:424-475).                            *)
EnforcedRunsAreWhatWasEvaluated ==
    \A s \in started :
        /\ s.request.judge \notin s.request.models
        /\ \A x \in s.report.evaluation.reviewed :
               /\ runs[x.run].judge = s.request.judge /\ runs[x.run].models = s.request.models
               /\ runs[x.run].settings = s.request.settings /\ runs[x.run].scope = s.request.scope
        /\ \E x \in s.report.evaluation.reviewed :
               runs[x.run].episodes[x.episode].domain = s.request.domain

(* A run whose judge decides relies on what stays on record and on the very     *)
(* judge, models, settings and scope that were evaluated (engine.py:376-477).   *)
EnforcedRunsAreEarned == EnforcedRunsRestOnTheRecord /\ EnforcedRunsAreWhatWasEvaluated
=================================================================================
