---- MODULE LadderPlan ----
(***************************************************************************)
(* The plan of scripts/run_ladder.py: what it is given, the one command of *)
(* probe_and_hold.py it makes of it, and what it says the plan will cost   *)
(* (nmbench/ladder.py).  Time is in tenths of a second.                    *)
(***************************************************************************)
EXTENDS ProbePlan
LOCAL INSTANCE Functions

CONSTANT MinIdentities   \* nmbench/ladder.py: MIN_IDENTITIES
ASSUME MinIdentitiesAssumption == MinIdentities \in Nat

\* What is not typed.
LadderDefaults ==
  [engines |-> <<"patchright">>, targets |-> <<"google_serp">>, countries |-> <<"any">>,
   entry |-> <<"home">>, warm |-> <<"off", "L1", "N1", "L2", "L3">>, geo |-> <<"off">>,
   humanize |-> <<"off">>, identities |-> 60, series |-> 3, gap |-> <<8, 20>>,
   dwell |-> <<20, 45>>, breaker |-> 12, redraws |-> 2, params |-> << <<>> >>,
   preset |-> "none", headless |-> FALSE]
SupervisorDefaults ==
  [direct_ok |-> FALSE, underpowered_ok |-> FALSE, dry_run |-> FALSE]

\* An axis is the supervisor's to forward and never its own to decide; what it
\* has no flag for is what the program takes by default.
BuildCommand(asked) ==
  Overlay(Defaults, [flag \in DOMAIN LadderDefaults |-> asked[flag]])
----------------------------------------------------------------------------
(* The estimate: the spans of the rungs, times every axis that multiplies  *)
(* the cells.  A rung this table has not caught up with costs the deepest. *)

SPAN_S == [level \in ToSet(LADDER) |->
             CASE level = "L0" -> 153
               [] level \in {"L1", "N1"} -> 1022
               [] level = "L2" -> 1728
               [] level \in {"L3", "N3"} -> 2426]
CELL_AXES == <<"engines", "targets", "countries", "entry", "geo", "humanize", "params">>

SpanOf(text) == IF text \in DOMAIN WARM_LEVELS THEN SPAN_S[WARM_LEVELS[text]] ELSE 2426
Total(values) == FoldFunction(LAMBDA value, sum : value + sum, 0, values)

Estimate(plan) ==
  FoldFunction(LAMBDA axis, time : time * (IF plan[axis] = <<>> THEN 1 ELSE Len(plan[axis])),
               Total([i \in DOMAIN plan.warm |-> SpanOf(plan.warm[i])]) * plan.identities,
               CELL_AXES)

\* What the cells of the command cost at the same spans.
CostOfCells(plan) ==
  LET cells == BuildCells(plan)
  IN  plan.identities * Total([i \in DOMAIN cells |-> SPAN_S[cells[i].level]])
----------------------------------------------------------------------------
\* What the supervisor refuses before it looks at the pool: too few
\* identities to tell anything, or a command the program itself refuses.
LadderRefuses(plan) ==
  \/ plan.identities < MinIdentities /\ ~plan.underpowered_ok
  \/ Preflight(plan) # 0
====
