------------------------------ MODULE MCEnforcedRun ------------------------------
(* One development and one evaluation run, the second with either settings; two *)
(* policies, one report of either, and reviews that go on after it: a label of  *)
(* a rejected Episode and a queue chosen by hand, which spoils the campaign.    *)
EXTENDS EnforcedRun

Opinion(fidelity) ==
    [d \in Dimension |-> [verdict |-> IF d = "safety" THEN "pass" ELSE fidelity, critical |-> FALSE]]
Episode(domain, admitted, judge, group) ==
    [domain |-> domain, admitted |-> admitted, gates |-> admitted, judge |-> judge,
     stratum |-> "s", group |-> group]
Reviewed1(settings, episodes) ==
    [episodes |-> episodes, judge |-> "judge", models |-> {"model"}, settings |-> settings, scope |-> "scope"]
MCReviewed ==
    {[r \in Run |->
        IF r = "dev"
        THEN Reviewed1("v1", <<Episode("contacts", TRUE, "pass", "g1"), Episode("contacts", TRUE, "fail", "g2")>>)
        ELSE Reviewed1(settings, <<Episode("contacts", TRUE, "pass", "g3"), Episode(domain, TRUE, "pass", "g4"),
                                   Episode("contacts", FALSE, "fail", "g5")>>)] :
        settings \in {"v1", "v2"}, domain \in {"contacts", "mail"}}

PolicyOf(settings, domains) ==
    [judge |-> "judge", models |-> {"model"}, settings |-> settings, scope |-> "scope", domains |-> domains]
MCPolicy ==
    {PolicyOf(settings, {"contacts"}) : settings \in {"v1", "v2"}} \cup {PolicyOf("v1", {"contacts", "mail"})}
MCCampaign(purpose, campaign) == IF purpose = "held-out-evaluation" THEN {"test"} ELSE {"dev"}

MCRequest ==
    [domain : {"contacts", "mail"}, models : {{"model"}, {"judge"}}, judge : {"judge", "other"},
     settings : {"v1", "v2"}, scope : {"scope", "elsewhere"}]

Configuration(id, purpose, candidates, policy) ==
    [id |-> id, purpose |-> purpose, candidates |-> candidates, limit |-> 2,
     campaign |-> "one", policy |-> policy]
MCConfigurations ==
    {Configuration("d", "diagnostic-development", {}, None), Configuration("d2", "diagnostic-development", {3}, None)}
        \cup {Configuration("e", "held-out-evaluation", {}, policy) : policy \in MCPolicy}

Submitted(id, purpose, e, dimensions) ==
    [cohort |-> id, purpose |-> purpose, episode |-> e, dimensions |-> dimensions, references |-> TRUE]
MCSubmissions ==
    {<<Submitted("d", "diagnostic-development", 1, Opinion("pass")),
       Submitted("d", "diagnostic-development", 2, Opinion("fail"))>>,
     <<Submitted("d2", "diagnostic-development", 3, Opinion("fail"))>>,
     <<Submitted("e", "held-out-evaluation", 1, Opinion("pass"))>>,
     <<Submitted("e", "held-out-evaluation", 1, Opinion("fail")),
       Submitted("e", "held-out-evaluation", 2, Opinion("pass"))>>}
        \cup {<<Submitted("e", "held-out-evaluation", 2, Opinion(fidelity))>> : fidelity \in {"pass", "fail"}}
=================================================================================
