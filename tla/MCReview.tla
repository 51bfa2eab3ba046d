--------------------------------- MODULE MCReview ---------------------------------
(* Review, evaluation and enforced runs, each over the reviews that put it to   *)
(* the test: MCQualityReview, MCSemanticEnforcement, MCEnforcedRun.             *)
EXTENDS MCEnforcedRun

VARIABLE question    \* review | evaluation | enforced
allVars == <<enforcedVars, question>>

OfReview == INSTANCE MCQualityReview
OfEvaluation == INSTANCE MCSemanticEnforcement

AllPolicies == MCPolicy \cup OfEvaluation!MCPolicy

AnyInit ==
    \/ question = "review" /\ OfReview!Init /\ reports = {} /\ started = {}
    \/ question = "evaluation" /\ OfEvaluation!Init /\ reports = {} /\ started = {}
    \/ question = "enforced" /\ EnforcedInit
AnyNext ==
    /\ UNCHANGED question
    /\ \/ question = "review" /\ OfReview!Next /\ UNCHANGED <<reports, started>>
       \/ question = "evaluation" /\ OfEvaluation!Next /\ UNCHANGED <<reports, started>>
       \/ question = "enforced" /\ EnforcedNext
AnySpec == AnyInit /\ [][AnyNext]_allVars
==================================================================================
