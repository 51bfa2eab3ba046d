--------------------------- MODULE MCSemanticEnforcement ---------------------------
(* A development run and an evaluation run, with quotas of two Episodes overall *)
(* and one per Domain and with rates that one false pass out of two just meets. *)
EXTENDS Integers, Sequences, FiniteSets, TLC

CONSTANT None
VARIABLES runs, cohorts, labels

MCRun == {"dev", "test"}
MCDimension == {"fidelity", "safety"}

Opinion(fidelity, safety, critical) ==
    [d \in MCDimension |-> IF d = "safety" THEN [verdict |-> safety, critical |-> critical]
                         ELSE [verdict |-> fidelity, critical |-> FALSE]]
MCPass == Opinion("pass", "pass", FALSE)
MCFail == Opinion("fail", "pass", FALSE)
MCCritical == Opinion("pass", "fail", TRUE)
MCUnsure == Opinion("uncertain", "pass", FALSE)

Episode(domain, admitted, judge, stratum, group) ==
    [domain |-> domain, admitted |-> admitted, gates |-> admitted, judge |-> judge,
     stratum |-> stratum, group |-> group]
(* Generator and Agent of a run are one model.                                  *)
Judged(judge, settings, episodes) ==
    [episodes |-> episodes, judge |-> judge, models |-> {"model"}, settings |-> settings,
     scope |-> "scope"]
(* A judge that is the model it would judge is unavailable; one that decides    *)
(* already may reject what passed the gates. What is unusual of one run meets   *)
(* the plainest of the other.                                                   *)
PlainDevelopment ==
    Judged("judge", "v1", <<Episode("contacts", TRUE, "pass", "s", "g1"), Episode("mail", TRUE, "fail", "s", "g2")>>)
PlainEpisodes == <<Episode("contacts", TRUE, "pass", "s", "g4"), Episode("contacts", TRUE, "pass", "s", "g5")>>
PlainEvaluation == Judged("judge", "v1", PlainEpisodes)
MCDevelopment ==
    {PlainDevelopment} \cup {Judged("judge", "v1", episodes) : episodes \in
        {<<Episode("contacts", TRUE, "pass", "s", "g1"), Episode("contacts", FALSE, "unavailable", "s", "g2"),
           Episode("contacts", TRUE, "pass", "t", "g3")>>,
         <<Episode("contacts", TRUE, "pass", "s", "g4"), Episode("contacts", TRUE, "fail", "s", "g2")>>,
         <<Episode("contacts", TRUE, "pass", "s", "g1"), Episode("contacts", FALSE, "fail", None, None)>>}}
MCEvaluation ==
    {PlainEvaluation, Judged("other", "v1", PlainEpisodes), Judged("judge", "v2", PlainEpisodes),
     Judged("model", "v1", [i \in 1 .. 2 |-> [PlainEpisodes[i] EXCEPT !.judge = "unavailable"]])}
    \cup {Judged("judge", "v1", episodes) : episodes \in
        {<<Episode("contacts", TRUE, "pass", "s", "g4"), Episode("contacts", TRUE, "uncertain", "s", "g5"),
           Episode("contacts", FALSE, "fail", "s", "g6")>>,
         Append(PlainEpisodes, [Episode("contacts", FALSE, "fail", "s", "g6") EXCEPT !.gates = TRUE]),
         <<Episode("contacts", TRUE, "pass", "s", "g4"), Episode("contacts", TRUE, "unavailable", "s", "g5"),
           Episode("contacts", TRUE, "pass", "s", "g6")>>,
         <<Episode("contacts", TRUE, "pass", "s", "g4"), Episode("mail", TRUE, "pass", "s", "g5"),
           Episode("mail", TRUE, "fail", "s", "g6")>>}}
Pair(development, evaluation) == [r \in MCRun |-> IF r = "dev" THEN development ELSE evaluation]
MCReviewed ==
    {Pair(development, PlainEvaluation) : development \in MCDevelopment}
        \cup {Pair(PlainDevelopment, evaluation) : evaluation \in MCEvaluation}

PolicyOf(judge, domains) ==
    [judge |-> judge, models |-> {"model"}, settings |-> "v1", scope |-> "scope",
     domains |-> domains]
MCPolicy ==
    {PolicyOf("judge", {"contacts"}), PolicyOf("judge", {"contacts", "mail"}),
     PolicyOf("model", {"contacts"}), PolicyOf(None, {"contacts"})}
MCCampaign(purpose, campaign) == IF purpose = "held-out-evaluation" THEN {"test"} ELSE {"dev"}

Configuration(id, purpose, candidates, campaign, policy) ==
    [id |-> id, purpose |-> purpose, candidates |-> candidates, limit |-> 2,
     campaign |-> campaign, policy |-> policy]
MCConfigurations ==
    {Configuration("d", "diagnostic-development", candidates, "one", None) : candidates \in {{}, {1}}}
        \cup {Configuration("e", "held-out-evaluation", {}, "one", policy) : policy \in MCPolicy}
        \cup {Configuration("e", "held-out-evaluation", {1, 2}, "one", PolicyOf("judge", {"contacts"}))}

Submitted(id, purpose, e, dimensions) ==
    [cohort |-> id, purpose |-> purpose, episode |-> e, dimensions |-> dimensions, references |-> TRUE]
MCSubmissions ==
    LET Development(chosen) == [i \in DOMAIN chosen |-> Submitted("d", "diagnostic-development", chosen[i], MCPass)]
        One(e, opinion) == <<Submitted("e", "held-out-evaluation", e, opinion)>>
    IN  {Development(chosen) : chosen \in {<<2>>, <<1, 2>>, <<1, 2, 3>>}}
            \cup {One(1, opinion) : opinion \in {MCPass, MCFail, MCCritical}}
            \cup {One(2, opinion) : opinion \in {MCPass, MCUnsure}} \cup {One(3, MCFail)}

INSTANCE QualityReview WITH
    Run <- MCRun, Dimension <- MCDimension,
    Reviewed <- MCReviewed, Configurations <- MCConfigurations, Submissions <- MCSubmissions
=================================================================================
