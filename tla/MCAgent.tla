------------------------------ MODULE MCAgent -------------------------------
(***************************************************************************)
(* The AgentRuntime run.                                                   *)
(***************************************************************************)
EXTENDS AgentRuntime, ChartLibrary

\* The charts meet the conditions the properties and theorems ask for.
ASSUME SequentialCharts ==
  \A c \in {Goblin, Guard} :
    /\ IsChart(c) /\ UniqueIds(c) /\ SingleBranch(c) /\ DefaultsInside(c)
    /\ TargetsNear(c) /\ TargetsBeside(c)
ASSUME CalmCharts ==
  /\ IsChart(Sentry) /\ UniqueIds(Sentry) /\ SingleBranch(Sentry) /\ DefaultsInside(Sentry)
  /\ TargetsNear(Sentry) /\ TargetsBeside(Sentry) /\ AllCalm(Sentry)
  /\ TimersLeadOut(Sentry) /\ NoneAlike(Sentry)
=============================================================================
