----------------------------- MODULE MCQualityReview -------------------------------
(* One completed run, judged or not, and every legal or illegal queue and label *)
(* of it.                                                                       *)
EXTENDS Integers, Sequences, FiniteSets, TLC

CONSTANT None
VARIABLES runs, cohorts, labels

MCRun == {"run"}
MCDimension == {"fidelity", "safety"}

Opinion(fidelity, safety, critical) ==
    [d \in MCDimension |-> IF d = "safety" THEN [verdict |-> safety, critical |-> critical]
                         ELSE [verdict |-> fidelity, critical |-> FALSE]]
MCOpinions ==
    {Opinion("pass", "pass", FALSE), Opinion("uncertain", "pass", FALSE), Opinion("fail", "uncertain", FALSE)}

Episode(admitted, judge, stratum) ==
    [domain |-> "contacts", admitted |-> admitted, gates |-> admitted, judge |-> judge,
     stratum |-> stratum, group |-> None]
(* Judged runs whose passes are uneven over two strata, and an unjudged one.    *)
MCEpisodes ==
    {<<Episode(TRUE, "pass", "s"), Episode(FALSE, "fail", "s"), Episode(TRUE, "pass", "s"), Episode(TRUE, "pass", "t")>>,
     <<Episode(TRUE, "pass", "s"), Episode(TRUE, "uncertain", "t"), Episode(FALSE, "unavailable", None)>>,
     <<Episode(TRUE, None, "s"), Episode(FALSE, None, "s")>>}
MCReviewed == [MCRun -> {[episodes |-> episodes] : episodes \in MCEpisodes}]

Configuration(id, purpose, candidates, limit) ==
    [id |-> id, purpose |-> purpose, candidates |-> candidates, limit |-> limit,
     campaign |-> None, policy |-> None]
MCConfigurations ==
    {Configuration(id, purpose, candidates, limit) : id \in {"q1", "q2"},
        purpose \in {"held-out-evaluation", "diagnostic-development"},
        candidates \in {{}, {1}, {2, 3}, {1, 9}}, limit \in {1, 2}}

Submitted(id, purpose, e, dimensions, references) ==
    [cohort |-> id, purpose |-> purpose, episode |-> e, dimensions |-> dimensions, references |-> references]
MCSubmissions ==
    LET singles == {Submitted(id, purpose, e, opinion, TRUE) : id \in {"q1", "q2"}, e \in 1 .. 4,
                       purpose \in {"held-out-evaluation", "diagnostic-development"}, opinion \in MCOpinions}
        pass == {s \in singles : s.dimensions = Opinion("pass", "pass", FALSE) /\ s.episode < 3}
    IN  {<<s>> : s \in singles} \cup {<<[s EXCEPT !.references = FALSE]>> : s \in pass}
            \cup {<<s, t>> : s, t \in pass}

INSTANCE QualityReview WITH
    Run <- MCRun, Dimension <- MCDimension,
    Reviewed <- MCReviewed, Configurations <- MCConfigurations, Submissions <- MCSubmissions
=================================================================================
