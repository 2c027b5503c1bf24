------------------------- MODULE MCAlertConditions -------------------------
(* Instances of AlertConditions for TLC.                                    *)
EXTENDS AlertConditions, TLC

CONSTANTS h1, h2, c1, c2

(* c1 runs on h1, any other container on h2.                                *)
MCHostOf == [c \in Containers |-> IF c = c1 THEN h1 ELSE h2]

Rule(m, th, dw, sev, cool) ==
    [metric |-> m, op |-> ">", threshold |-> th, dwell |-> dw, severity |-> sev,
     cooldown |-> cool, target |-> Containers]

Warning  == Rule("cpu", 0, 1, 2, 2)
Critical == Rule("cpu", 1, 1, 3, 1)
RateWarning == Rule("netrx_rate", 0, 1, 2, 2)
SlowWarning == Rule("cpu", 0, 2, 2, 1)

WarningSaved == 1 :> Warning
BothSaved == 1 :> Warning @@ 2 :> Critical
SlowSaved == 1 :> SlowWarning
RateSaved == 1 :> RateWarning

OneRule  == {Warning}
TwoRules == {Warning, Critical}
RateRule == {RateWarning}
SlowRule == {SlowWarning}

CPU  == {"cpu"}
Rate == {"netrx_rate"}

(* A window over everything, and one that covers only criticals.            *)
Everything == Containers \X RuleIds \X Severities
CriticalOnly == Containers \X RuleIds \X {3}
TwoScopes == {Everything, CriticalOnly}
OneScope == {Everything}
NoScopes == {}
Levels2 == 0..1
Levels3 == 0..2
=============================================================================
