------------------------------- MODULE Imports -------------------------------
(***************************************************************************)
(* What comes in from outside: leads out of spreadsheets (MarketingImport) *)
(* and jobs out of forwarded emails and screenshots (JobImport).  Both are *)
(* a row whose status the API and a queue's worker write, each without     *)
(* looking at what the other wrote.                                        *)
(*                                                                         *)
(* The two share nothing: a behaviour follows the job, or a short file     *)
(* that several slots of the worker may run at once, or a long file run by *)
(* one slot.                                                               *)
(***************************************************************************)
EXTENDS MarketingImport

CONSTANTS short, long, TheSlot, MaxShort, MaxLong,
          Emails, JobCalls, JobWorkers, MaxReviews, MaxFaults  \* of JobImport

VARIABLES followed, row, jobs, task, worker, call, reviews, faults, raced, lost

Short == INSTANCE MarketingImport WITH Imports <- {short}, MaxEvents <- MaxShort
Long  == INSTANCE MarketingImport WITH Imports <- {long}, MaxEvents <- MaxLong,
           Workers <- {TheSlot}
Job   == INSTANCE JobImport WITH Imports <- Emails, Calls <- JobCalls, Workers <- JobWorkers

jobVars == <<row, jobs, task, worker, call, reviews, faults, raced, lost>>
allVars == <<followed, vars, jobVars>>

AnyInit == /\ Job!Init
           /\ \/ followed \in {"job", "short"} /\ Short!Init
              \/ followed = "long" /\ Long!Init

Of(part) == followed = part /\ UNCHANGED followed

AnyNext == \/ Of("job") /\ Job!Next /\ UNCHANGED vars
           \/ Of("short") /\ Short!Next /\ UNCHANGED jobVars
           \/ Of("long") /\ Long!Next /\ UNCHANGED jobVars

AnySystemStep == \/ Of("job") /\ Job!SystemStep /\ UNCHANGED vars
                 \/ Of("short") /\ Short!SystemStep /\ UNCHANGED jobVars
                 \/ Of("long") /\ Long!SystemStep /\ UNCHANGED jobVars

\* The system does not stand still while there is something for it to do; which
\* part of it moves does not matter, and no user has to do anything.
AnySpec == AnyInit /\ [][AnyNext]_allVars /\ WF_allVars(AnySystemStep)

------------------------------------------------------------------------------
(* Properties, besides those of MarketingImport *)

\* However often an import is confirmed, declined and parsed, it makes one job,
\* unless a confirmation was raced or cut off half-way.
OneJobPerImport == Job!OneJobPerImport

\* What is confirmed is a parsed import with its job, unless it was raced.
ConfirmedIsParsedJob == Job!ConfirmedIsParsedJob

Unsettled(i) == i \in DOMAIN import /\ import[i].status \in {"QUEUED", "PROCESSING"}

\* Every import comes to an end its user sees, whatever the queue lost, whichever
\* process died and whatever was written over its status; a job's import but for
\* the losses JobImport names, an import of leads always, which is what the
\* maintenance tick is for.
ImportSettles ==
  /\ Job!ImportSettles
  /\ \A i \in {short, long} : Unsettled(i) ~> ~Unsettled(i)
==============================================================================
