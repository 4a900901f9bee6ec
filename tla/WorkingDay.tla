------------------------------ MODULE WorkingDay ------------------------------
(***************************************************************************)
(* A notary's working day, near and far: one job with everything a change  *)
(* of its status sets off (JobLifecycle), and all jobs of a day against    *)
(* what CITT and the planner say of them (DayPlan).                        *)
(*                                                                         *)
(* Both work on job rows.  JobLifecycle keeps of a row what its calls      *)
(* decide by, DayPlan the times and places; a behaviour follows one of the *)
(* two.                                                                    *)
(***************************************************************************)
EXTENDS JobLifecycle, Integers, TLC

CONSTANTS MaxJobs, Offers, OtherTimes, Home, Drive, Rate, MinNet, Requests,
          MaxUpsets  \* of DayPlan

\* A signing takes time, and a drive is never shorter than none.
ASSUME DayAssumption ==
  /\ MaxJobs \in Nat /\ MaxUpsets \in Nat /\ Offers # {} /\ OtherTimes \subseteq Nat
  /\ \A o \in Offers : o.at \in Nat /\ o.sign \in Nat \ {0} /\ o.scan \in Nat
  /\ \A o, x \in Offers : Drive[o.place][x.place] \in Nat /\ Drive[Home][o.place] \in Nat

VARIABLES followed,  \* "job" or "day"
          side, rows, answer, plan, routed, misdated, left, upsets

Day == INSTANCE DayPlan WITH job <- rows

dayVars == <<side, rows, answer, plan, routed, misdated, left, upsets>>
allVars == <<followed, vars, dayVars>>

\* What is not followed stays as it begins.
AnyInit ==
  /\ Init /\ Day!Init
  /\ \/ followed = "job" /\ side = "citt"
     \/ followed = "day" /\ job.status = "PENDING" /\ ~job.scanback /\ ~job.timed

AnyNext == /\ \/ followed = "job" /\ Next /\ UNCHANGED dayVars
              \/ followed = "day" /\ Day!Next /\ UNCHANGED vars
           /\ UNCHANGED followed

AnySpec == AnyInit /\ [][AnyNext]_allVars

------------------------------------------------------------------------------
(* Properties: those of JobLifecycle, and those of DayPlan *)

\* Jobs taken on CITT's answers do not get into each other's way.
CheckedDayFits == followed = "day" => Day!CheckedDayFits

\* A plan that reports no conflict has none.
SilentPlanFits == followed = "day" => Day!SilentPlanFits

\* After an optimise that nobody else disturbed every leg is the drive from the job
\* before, and the plan can be driven.
RouteIsDrivable == followed = "day" => Day!RouteIsDrivable
==============================================================================
