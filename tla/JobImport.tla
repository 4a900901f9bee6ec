------------------------------ MODULE JobImport ------------------------------
(***************************************************************************)
(* The import of a job from a forwarded email or a screenshot:             *)
(* JobImportService.handleInbound, handleUpload, confirm and decline, and  *)
(* the worker JobImportProcessor behind the job-import queue.              *)
(*                                                                         *)
(* No write looks at the status it replaces: the worker, a confirmation    *)
(* and a decline all update the row by its id.  A second delivery of the   *)
(* same email fails on the unique resend_message_id and changes nothing.   *)
(***************************************************************************)
EXTENDS Naturals

CONSTANTS Imports,     \* emails and screenshots that can ever be received
          Calls,       \* API calls that can be under way at once
          Workers,     \* slots of the queue's workers
          MaxReviews,  \* confirmations and declines that are started
          MaxFaults    \* crashes, expired locks and errors of a service

VARIABLES row,      \* status of each import, and whether parsed_* are filled
          jobs,     \* number of jobs created from each import
          task,     \* the queue's job of each import
          worker,   \* per slot: next step, import, and whether it has the lock
          call,     \* per call: next step and import
          reviews, faults,
          raced,    \* history, per import: something changed under a
                    \* confirmation, or a confirmation was cut off half-way
          lost      \* history, per import: it was not enqueued, handleError could
                    \* not record its failure, or a run without lock was cut off

vars == <<row, jobs, task, worker, call, reviews, faults, raced, lost>>

AnImport == CHOOSE i \in Imports : TRUE

MaxAttempts == 3
MaxStalls   == 1

IdleWorker == [pc |-> "idle", id |-> AnImport, locked |-> FALSE]
IdleCall   == [pc |-> "idle", id |-> AnImport]

Init ==
  /\ row = [i \in Imports |-> [status |-> "NONE", parsed |-> FALSE]]
  /\ jobs = [i \in Imports |-> 0]
  /\ task = [i \in Imports |-> [state |-> "none", runs |-> 0, throws |-> 0, stalls |-> 0]]
  /\ worker = [w \in Workers |-> IdleWorker]
  /\ call = [c \in Calls |-> IdleCall]
  /\ reviews = 0 /\ faults = 0
  /\ raced = [i \in Imports |-> FALSE] /\ lost = [i \in Imports |-> FALSE]

Fault == faults < MaxFaults /\ faults' = faults + 1

Goto(c, pc)   == call' = [call EXCEPT ![c].pc = pc]
Return(c)     == call' = [call EXCEPT ![c] = IdleCall]
Proceed(w, pc) == worker' = [worker EXCEPT ![w].pc = pc]

SetStatus(i, status) == row' = [row EXCEPT ![i].status = status]

------------------------------------------------------------------------------
(* The queue: three attempts, one stalled rerun *)

\* The handler returned: Bull completes the job if the slot still has its lock.
Finish(w) ==
  /\ task' = [task EXCEPT ![worker[w].id].state = IF worker[w].locked THEN "done" ELSE @]
  /\ worker' = [worker EXCEPT ![w] = IdleWorker]

\* The handler threw: Bull tries again, three times in all.
Rethrow(w) ==
  /\ LET i == worker[w].id  throws == task[i].throws + 1 IN
       task' = IF ~worker[w].locked THEN task
               ELSE [task EXCEPT ![i].throws = throws,
                       ![i].state = IF throws < MaxAttempts THEN "waiting" ELSE "failed"]
  /\ worker' = [worker EXCEPT ![w] = IdleWorker]

Take(w, i) ==
  /\ worker[w].pc = "idle" /\ task[i].state = "waiting"
  /\ worker' = [worker EXCEPT ![w] = [pc |-> "mark", id |-> i, locked |-> TRUE]]
  /\ task' = [task EXCEPT ![i].state = "active", ![i].runs = @ + 1]
  /\ UNCHANGED <<row, jobs, call, reviews, faults>>

Crash(w) ==
  /\ worker[w].pc # "idle"
  /\ Fault
  /\ worker' = [worker EXCEPT ![w] = IdleWorker]
  /\ UNCHANGED <<row, jobs, task, call, reviews>>

\* The lock of an active job is gone, with its worker or under it.
Stalled(i) ==
  /\ task[i].state = "active"
  /\ LET holders == {w \in Workers : worker[w].id = i /\ worker[w].locked} IN
       /\ IF holders = {} THEN UNCHANGED faults ELSE Fault
       /\ worker' = [w \in Workers |-> IF w \in holders THEN [worker[w] EXCEPT !.locked = FALSE]
                                       ELSE worker[w]]
  /\ task' = [task EXCEPT ![i].stalls = @ + 1,
                ![i].state = IF task[i].stalls < MaxStalls THEN "waiting" ELSE "failed"]
  /\ UNCHANGED <<row, jobs, call, reviews>>

------------------------------------------------------------------------------
(* Receiving: the row first, then the queue *)

HandleInbound(c, i) ==
  /\ call[c].pc = "idle"
  /\ row[i].status = "NONE"
  /\ SetStatus(i, "QUEUED")
  /\ call' = [call EXCEPT ![c] = [pc |-> "addEmail", id |-> i]]
  /\ UNCHANGED <<jobs, task, worker, reviews, faults>>

HandleUpload(c, i) ==
  /\ call[c].pc = "idle"
  /\ row[i].status = "NONE"
  /\ SetStatus(i, "QUEUED")
  /\ call' = [call EXCEPT ![c] = [pc |-> "addScreenshot", id |-> i]]
  /\ UNCHANGED <<jobs, task, worker, reviews, faults>>

\* A failed add is logged and the import stays as it is.  The caller waits two
\* seconds for an add; one that lands later is here a call that takes longer.
Enqueue(c) ==
  /\ call[c].pc \in {"addEmail", "addScreenshot"}
  /\ \/ task' = [task EXCEPT ![call[c].id].state = "waiting"] /\ UNCHANGED faults
     \/ Fault /\ UNCHANGED task
  /\ Return(c)
  /\ UNCHANGED <<row, jobs, worker, reviews>>

------------------------------------------------------------------------------
(* The worker: handleParseEmail and handleParseScreenshot *)

\* Outside the handler's try: an error here goes to Bull.
MarkProcessing(w) ==
  /\ worker[w].pc = "mark"
  /\ \/ SetStatus(worker[w].id, "PROCESSING") /\ Proceed(w, "fetch")
        /\ UNCHANGED <<task, faults>>
     \/ Fault /\ Rethrow(w) /\ UNCHANGED row
  /\ UNCHANGED <<jobs, call, reviews>>

\* The body of the email or the screenshot, or an error of Resend or R2.
Fetch(w) ==
  /\ worker[w].pc = "fetch"
  /\ Proceed(w, "extract") \/ Proceed(w, "fail")
  /\ UNCHANGED <<row, jobs, task, call, reviews, faults>>

\* Mutant of Extract: an outcome without details is not an error.
ExtractIgnoresNothing(w) ==
  /\ worker[w].pc = "extract"
  /\ \/ Proceed(w, "complete") /\ UNCHANGED task
     \/ Finish(w)
  /\ UNCHANGED <<row, jobs, call, reviews, faults>>

\* Usable details; or neither an address nor a time, which ends like an error.
Extract(w) ==
  /\ worker[w].pc = "extract"
  /\ Proceed(w, "complete") \/ Proceed(w, "fail")
  /\ UNCHANGED <<row, jobs, task, call, reviews, faults>>

FinishOutcome(w) ==
  /\ worker[w].pc = "complete"
  /\ \/ /\ row' = [row EXCEPT ![worker[w].id] = [status |-> "COMPLETE", parsed |-> TRUE]]
        /\ Proceed(w, "notify")
        /\ UNCHANGED faults
     \/ Fault /\ Proceed(w, "fail") /\ UNCHANGED row
  /\ UNCHANGED <<jobs, task, call, reviews>>

\* Settings are read and the user is told; an error of the mail providers or
\* of the database ends in handleError like one of the extraction.
NotifyUser(w) ==
  /\ worker[w].pc = "notify"
  /\ \/ Finish(w) /\ UNCHANGED faults
     \/ Fault /\ Proceed(w, "fail") /\ UNCHANGED task
  /\ UNCHANGED <<row, jobs, call, reviews>>

\* handleError never throws.
HandleError(w) ==
  /\ worker[w].pc = "fail"
  /\ \/ SetStatus(worker[w].id, "FAILED") /\ UNCHANGED faults
     \/ Fault /\ UNCHANGED row
  /\ Finish(w)
  /\ UNCHANGED <<jobs, call, reviews>>

------------------------------------------------------------------------------
(* Reviewing *)

Begin(c, i, pc) ==
  /\ call[c].pc = "idle" /\ reviews < MaxReviews
  /\ call' = [call EXCEPT ![c] = [pc |-> pc, id |-> i]]
  /\ reviews' = reviews + 1

\* Mutant of Confirmable: an import can be confirmed while it is parsed.
ConfirmableEarly(i) == row[i].status \in {"PROCESSING", "COMPLETE"}

Confirmable(i) == row[i].status = "COMPLETE"

CheckConfirm(c, i) ==
  /\ Confirmable(i)
  /\ Begin(c, i, "create")
  /\ UNCHANGED <<row, jobs, task, worker, faults>>

\* JobsService.create is given the import's id, and no idempotency key.
CreateJob(c) ==
  /\ call[c].pc = "create"
  /\ jobs' = [jobs EXCEPT ![call[c].id] = @ + 1]
  /\ Goto(c, "confirm")
  /\ UNCHANGED <<row, task, worker, reviews, faults>>

\* Mutant of MarkConfirmed: the import stays as it was.
LeaveUnmarked(c) ==
  /\ call[c].pc = "confirm"
  /\ Return(c)
  /\ UNCHANGED <<row, jobs, task, worker, reviews, faults>>

MarkConfirmed(c) ==
  /\ call[c].pc = "confirm"
  /\ SetStatus(call[c].id, "CONFIRMED")
  /\ Return(c)
  /\ UNCHANGED <<jobs, task, worker, reviews, faults>>

\* decline only looks whether the import exists.
CheckDecline(c, i) ==
  /\ row[i].status # "NONE"
  /\ Begin(c, i, "decline")
  /\ UNCHANGED <<row, jobs, task, worker, faults>>

Decline(c) ==
  /\ call[c].pc = "decline"
  /\ SetStatus(call[c].id, "DECLINED")
  /\ Return(c)
  /\ UNCHANGED <<jobs, task, worker, reviews, faults>>

\* The API process dies, or an awaited call of it throws.
Die(c) ==
  /\ call[c].pc # "idle"
  /\ Fault
  /\ Return(c)
  /\ UNCHANGED <<row, jobs, task, worker, reviews>>

------------------------------------------------------------------------------
ReceiveStep(c) == (\E i \in Imports : HandleInbound(c, i) \/ HandleUpload(c, i)) \/ Enqueue(c)
ReviewStep(c)  == \/ \E i \in Imports : CheckConfirm(c, i) \/ CheckDecline(c, i)
                  \/ CreateJob(c) \/ MarkConfirmed(c) \/ Decline(c)
ParseStep(w)   == \/ MarkProcessing(w) \/ Fetch(w) \/ Extract(w)
                  \/ FinishOutcome(w) \/ NotifyUser(w) \/ HandleError(w)

Confirming(c, i) == call[c].pc \in {"create", "confirm"} /\ call[c].id = i

\* The row or the jobs of an import change under a confirmation, or a
\* confirmation ends with its job created and its import unmarked.
Race(i) ==
  \E c \in Calls :
    /\ Confirming(c, i)
    /\ \/ call'[c] = call[c] /\ (row'[i] # row[i] \/ jobs'[i] # jobs[i])
       \/ call[c].pc = "confirm" /\ faults' # faults /\ call'[c] # call[c]

Loss(i) ==
  /\ faults' # faults
  /\ \/ \E c \in Calls : call[c].pc \in {"addEmail", "addScreenshot"} /\ call[c].id = i
                       /\ call'[c] # call[c]
     \/ \E w \in Workers : /\ worker[w].id = i /\ worker'[w].pc = "idle"
                          /\ worker[w].pc \in {"fail"} \cup
                               (IF worker[w].locked THEN {} ELSE {"mark", "fetch", "extract", "complete", "notify"})

Track == /\ raced' = [i \in Imports |-> raced[i] \/ Race(i)]
         /\ lost' = [i \in Imports |-> lost[i] \/ Loss(i)]

Next ==
  /\ \/ \E c \in Calls : ReceiveStep(c) \/ ReviewStep(c) \/ Die(c)
     \/ \E w \in Workers : ParseStep(w) \/ Crash(w) \/ \E i \in Imports : Take(w, i)
     \/ \E i \in Imports : Stalled(i)
  /\ Track

\* What goes on without a user: a reception that has begun, the queue's workers and
\* its check for stalled jobs.
SystemStep ==
  /\ \/ \E c \in Calls : Enqueue(c)
     \/ \E w \in Workers : ParseStep(w) \/ \E i \in Imports : Take(w, i)
     \/ \E i \in Imports : Stalled(i) /\ faults' = faults
  /\ Track

\* The system does not stand still while there is something for it to do; which
\* part of it moves does not matter.
Fairness == WF_vars(SystemStep)

Spec == Init /\ [][Next]_vars /\ Fairness

------------------------------------------------------------------------------
(* Properties *)

Statuses == {"QUEUED", "PROCESSING", "COMPLETE", "FAILED", "CONFIRMED", "DECLINED"}

\* The variables stay within their types, no import is taken up by more runs
\* than the queue allows, and one that is ready has its details.
TypeOK ==
  /\ row \in [Imports -> [status : Statuses \cup {"NONE"}, parsed : BOOLEAN]]
  /\ \A i \in Imports : row[i].status \in {"COMPLETE", "CONFIRMED"} => row[i].parsed
  /\ jobs \in [Imports -> 0..MaxReviews]
  /\ task \in [Imports -> [state : {"none", "waiting", "active", "done", "failed"},
                           runs : 0..(MaxAttempts + MaxStalls), throws : 0..MaxAttempts,
                           stalls : 0..(MaxStalls + 1)]]
  /\ worker \in [Workers -> [pc : {"idle", "mark", "fetch", "extract", "complete", "notify", "fail"},
                             id : Imports, locked : BOOLEAN]]
  /\ call \in [Calls -> [pc : {"idle", "addEmail", "addScreenshot", "create", "confirm", "decline"},
                         id : Imports]]
  /\ reviews \in 0..MaxReviews /\ faults \in 0..MaxFaults
  /\ raced \in [Imports -> BOOLEAN] /\ lost \in [Imports -> BOOLEAN]

\* An import becomes one job: confirming, declining and parsing in any order make
\* no second one, unless a confirmation was overtaken or cut off, or the queue
\* parsed the import again.
OneJobPerImport ==
  \A i \in Imports : ~raced[i] /\ task[i].runs <= 1 => jobs[i] <= 1

\* A job is made only of parsed details, and an import is called confirmed only
\* when its job exists, whatever crashes, reruns and races.
ConfirmedIsParsedJob ==
  \A i \in Imports : /\ jobs[i] > 0 => row[i].parsed
                     /\ row[i].status = "CONFIRMED" => jobs[i] > 0

\* Every import that was received leaves QUEUED and PROCESSING, whatever crashes,
\* throws or stalls on the way, unless it was never enqueued, the queue gave it
\* up, handleError could not record the failure, or a run that nobody will repeat,
\* since a later one is done, died half-way.
ImportSettles ==
  \A i \in Imports :
    row[i].status \in {"QUEUED", "PROCESSING"}
      ~> \/ row[i].status \notin {"QUEUED", "PROCESSING"}
         \/ task[i].state = "failed" \/ lost[i]
==============================================================================
