---------------------------- MODULE EmailSequence -----------------------------
(***************************************************************************)
(* The onboarding emails of one account: the call that starts them         *)
(* (registration: sendNewUserOnboardingSequence; the daily backfill:       *)
(* sendExistingUserSequence), the ten o'clock cron and the queue worker.   *)
(* Accounts share no row and no queue id, so one account is enough.        *)
(*                                                                         *)
(* Only production is modelled: elsewhere the sequence is its first email. *)
(* Time is left out but for its order: a scheduled day falls due after the *)
(* days before it, and the cron may run at any moment, as it does twice a  *)
(* day.  A failed call of the database, the queue or a mail provider and   *)
(* the death of a process each spend one fault.                            *)
(***************************************************************************)
EXTENDS Naturals, FiniteSets

CONSTANTS LastDay,    \* the last day of the sequence: 4 in the code
          MaxFaults   \* bound: number of faults

Days     == 0..LastDay
Attempts == 3

\* Queue ids: "email-seq-<type>-<user>-day<n>" and the same with "-cron".
Ids == [day : Days, cron : BOOLEAN]

VARIABLES
  account,  \* "new" (not registered), "active" or "deleted"
  row,      \* the email_sequences row: none, or its type and the days marked sent
  queue,    \* per id: state in the queue, attempts that failed, times found stalled
  call,     \* the running start call: its next step, type and day
  cron,     \* days the cron run has still to add, or idle
  worker,   \* the worker's next step and the id it works on
  mails,    \* history: emails of each day that left a provider
  faults    \* faults so far, shared with whoever else uses the provider

vars == <<account, row, queue, call, cron, worker, mails, faults>>

NoRow      == [type |-> "none", sent |-> {}]
IdleCall   == [pc |-> "idle", type |-> "none", day |-> 0]
IdleCron   == [pc |-> "idle", todo |-> {}]
IdleWorker == [pc |-> "idle", id |-> [day |-> 0, cron |-> FALSE]]
Absent     == [state |-> "none", throws |-> 0, stalls |-> 0]

\* Every day was sent and marked.
Over == [type |-> "new_user", sent |-> Days]

\* Before registration; or long after it, the sequence never started or over.
Init ==
  /\ account \in {"new", "active"}
  /\ row \in {NoRow, Over}
  /\ account = "new" => row = NoRow
  /\ queue = [i \in Ids |-> Absent]
  /\ call = IdleCall
  /\ cron = IdleCron
  /\ worker = IdleWorker
  /\ mails = [d \in Days |-> 0]
  /\ faults = 0

Fault == faults < MaxFaults /\ faults' = faults + 1

(***************************************************************************)
(* TransactionalEmailService.send: the active provider, then the other one *)
(* if that fails or throws and the other one is configured.  A provider    *)
(* that throws may still have sent the email.                              *)
(***************************************************************************)
Outcomes ==
  {[mails |-> 1, faults |-> 0, ok |-> TRUE]}
    \cup [mails : 1..2, faults : {1}, ok : {TRUE}]    \* the fallback sends it
    \cup [mails : 0..1, faults : {1}, ok : {FALSE}]   \* there is no fallback
    \cup [mails : 0..2, faults : {2}, ok : {FALSE}]   \* both providers throw

Send(d, o) ==
  /\ faults + o.faults <= MaxFaults
  /\ faults' = faults + o.faults
  /\ mails' = [mails EXCEPT ![d] = @ + o.mails]

(***************************************************************************)
(* Queue.add with an id: adding an id the queue still knows does nothing.  *)
(* By the default job options it keeps its last 100 completed and its last *)
(* 200 failed jobs, and forgets older ones.                                *)
(***************************************************************************)
\* Mutant of Add: the id of a job that is over may be used again.
AddAgain(i, state) == queue' = [queue EXCEPT ![i] = [Absent EXCEPT !.state = state]]

Add(i, state) ==
  queue' = [queue EXCEPT ![i] = IF @.state = "none" THEN [@ EXCEPT !.state = state] ELSE @]

------------------------------------------------------------------------------
(* Starting the sequence *)

Register ==
  /\ account = "new"
  /\ account' = "active"
  /\ call' = [pc |-> "ensuring", type |-> "new_user", day |-> 0]
  /\ UNCHANGED <<row, queue, cron, worker, mails, faults>>

\* The daily backfill takes accounts a day old that have no row.
Backfill ==
  /\ account = "active" /\ row = NoRow /\ call = IdleCall
  /\ call' = [pc |-> "ensuring", type |-> "existing_user", day |-> 0]
  /\ UNCHANGED <<account, row, queue, cron, worker, mails, faults>>

\* ensureEmailSequenceRecord: an upsert; an error ends the call.
EnsureRecord ==
  /\ call.pc = "ensuring"
  /\ \/ /\ row' = [row EXCEPT !.type = call.type]
        /\ call' = [call EXCEPT !.pc = "mailing"]
        /\ UNCHANGED faults
     \/ Fault /\ call' = IdleCall /\ UNCHANGED row
  /\ UNCHANGED <<account, queue, cron, worker, mails>>

Scheduling == [call EXCEPT !.pc = "scheduling", !.day = 1]

\* Day 0 is sent at once; an error is logged.  Only a new user's is marked.
MailFirst ==
  /\ call.pc = "mailing"
  /\ \E o \in Outcomes :
       /\ Send(0, o)
       /\ call' = IF o.ok /\ call.type = "new_user"
                  THEN [call EXCEPT !.pc = "marking"] ELSE Scheduling
  /\ UNCHANGED <<account, row, queue, cron, worker>>

MarkFirst ==
  /\ call.pc = "marking"
  /\ \/ row' = [row EXCEPT !.sent = @ \cup {0}] /\ UNCHANGED faults
     \/ Fault /\ UNCHANGED row
  /\ call' = Scheduling
  /\ UNCHANGED <<account, queue, cron, worker, mails>>

\* scheduleSequenceDays: one delayed job a day; an error ends the call.
Schedule ==
  /\ call.pc = "scheduling"
  /\ \/ /\ Add([day |-> call.day, cron |-> FALSE], "delayed")
        /\ call' = IF call.day = LastDay THEN IdleCall ELSE [call EXCEPT !.day = @ + 1]
        /\ UNCHANGED faults
     \/ Fault /\ call' = IdleCall /\ UNCHANGED queue
  /\ UNCHANGED <<account, row, cron, worker, mails>>

\* The delay of a day is over: never before that of an earlier day.
FallDue(d) ==
  /\ queue[[day |-> d, cron |-> FALSE]].state = "delayed"
  /\ \A e \in Days : e < d => queue[[day |-> e, cron |-> FALSE]].state # "delayed"
  /\ queue' = [queue EXCEPT ![[day |-> d, cron |-> FALSE]].state = "waiting"]
  /\ UNCHANGED <<account, row, call, cron, worker, mails, faults>>

------------------------------------------------------------------------------
(* EmailSequenceCronService.checkPendingEmails *)

\* Mutant of Unsent: the cron leaves day 0 to the call that starts the sequence.
UnsentLater == (Days \ {0}) \ row.sent

Unsent == Days \ row.sent

CronFind ==
  /\ cron = IdleCron
  /\ row # NoRow /\ Unsent # {}
  /\ cron' = [pc |-> "adding", todo |-> Unsent]
  /\ UNCHANGED <<account, row, queue, call, worker, mails, faults>>

\* One day after the other; an error is logged and the next day tried.
CronAdd ==
  /\ cron.pc = "adding"
  /\ \E d \in cron.todo :
       /\ \A e \in cron.todo : d <= e
       /\ \/ Add([day |-> d, cron |-> TRUE], "waiting") /\ UNCHANGED faults
          \/ Fault /\ UNCHANGED queue
       /\ cron' = IF cron.todo = {d} THEN IdleCron ELSE [cron EXCEPT !.todo = @ \ {d}]
  /\ UNCHANGED <<account, row, call, worker, mails>>

------------------------------------------------------------------------------
(* EmailSequenceProcessor.handleSendEmail *)

Take ==
  /\ worker = IdleWorker
  /\ \E i \in Ids :
       /\ queue[i].state = "waiting"
       /\ queue' = [queue EXCEPT ![i].state = "active"]
       /\ worker' = [pc |-> "reading", id |-> i]
  /\ UNCHANGED <<account, row, call, cron, mails, faults>>

Finish ==
  /\ queue' = [queue EXCEPT ![worker.id].state = "completed"]
  /\ worker' = IdleWorker

\* The handler throws: the job is tried again until its attempts are used up.
Throw ==
  LET n == queue[worker.id].throws + 1 IN
    /\ queue' = [queue EXCEPT ![worker.id] =
                   [@ EXCEPT !.throws = n, !.state = IF n < Attempts THEN "waiting" ELSE "failed"]]
    /\ worker' = IdleWorker

\* The only check made: whether the day was sent is not looked at again.
ReadUser ==
  /\ worker.pc = "reading"
  /\ \/ /\ account = "deleted" /\ Finish /\ UNCHANGED faults
     \/ /\ account # "deleted" /\ worker' = [worker EXCEPT !.pc = "mailing"]
        /\ UNCHANGED <<queue, faults>>
     \/ Fault /\ Throw
  /\ UNCHANGED <<account, row, call, cron, mails>>

Mail ==
  /\ worker.pc = "mailing"
  /\ \E o \in Outcomes :
       /\ Send(worker.id.day, o)
       /\ IF o.ok THEN worker' = [worker EXCEPT !.pc = "marking"] /\ UNCHANGED queue
                  ELSE Throw
  /\ UNCHANGED <<account, row, call, cron>>

Mark ==
  /\ worker.pc = "marking"
  /\ \/ /\ row' = [row EXCEPT !.sent = @ \cup {worker.id.day}]
        /\ Finish /\ UNCHANGED faults
     \/ Fault /\ Throw /\ UNCHANGED row
  /\ UNCHANGED <<account, call, cron, mails>>

\* The process dies: calls, cron run and worker are gone.  The queue finds the
\* job stalled and puts it back once; found stalled again, it fails.
Crash ==
  /\ Fault
  /\ call # IdleCall \/ cron # IdleCron \/ worker # IdleWorker
  /\ call' = IdleCall /\ cron' = IdleCron /\ worker' = IdleWorker
  /\ queue' = [i \in Ids |->
                 IF queue[i].state # "active" THEN queue[i]
                 ELSE IF queue[i].stalls = 0
                      THEN [queue[i] EXCEPT !.state = "waiting", !.stalls = 1]
                      ELSE [queue[i] EXCEPT !.state = "failed"]]
  /\ UNCHANGED <<account, row, mails>>

\* The queue forgets a job that is over.  At ten jobs a minute a hundred others
\* take longer than a cron run.
Forget ==
  /\ cron = IdleCron
  /\ \E i \in Ids : queue[i].state \in {"completed", "failed"}
                      /\ queue' = [queue EXCEPT ![i] = Absent]
  /\ UNCHANGED <<account, row, call, cron, worker, mails, faults>>

\* An admin suspends the account; once every day is sent, nothing asks for that.
Suspend ==
  /\ account = "active" /\ row.sent # Days
  /\ account' = "deleted"
  /\ UNCHANGED <<row, queue, call, cron, worker, mails, faults>>

------------------------------------------------------------------------------
CallStep   == EnsureRecord \/ MailFirst \/ MarkFirst \/ Schedule
WorkerStep == Take \/ ReadUser \/ Mail \/ Mark

Next == \/ Register \/ Backfill \/ CallStep
        \/ \E d \in Days : FallDue(d)
        \/ CronFind \/ CronAdd \/ WorkerStep
        \/ Crash \/ Forget \/ Suspend

\* What runs keeps running, delays pass and the crons fire.  Nobody has to
\* register or to suspend an account.
Fairness ==
  /\ WF_vars(CallStep) /\ WF_vars(Backfill)
  /\ \A d \in Days : WF_vars(FallDue(d))
  /\ WF_vars(CronFind) /\ WF_vars(CronAdd)
  /\ WF_vars(WorkerStep)

Spec == Init /\ [][Next]_vars /\ Fairness

------------------------------------------------------------------------------
(* Properties *)

TypeOK ==
  /\ account \in {"new", "active", "deleted"}
  /\ row \in [type : {"none", "new_user", "existing_user"}, sent : SUBSET Days]
  /\ queue \in [Ids -> [state : {"none", "delayed", "waiting", "active", "completed", "failed"},
                        throws : 0..Attempts, stalls : 0..1]]
  /\ call \in [pc : {"idle", "ensuring", "mailing", "marking", "scheduling"},
               type : {"none", "new_user", "existing_user"}, day : Days]
  /\ cron \in [pc : {"idle", "adding"}, todo : SUBSET Days]
  /\ worker \in [pc : {"idle", "reading", "mailing", "marking"}, id : Ids]
  /\ mails \in [Days -> Nat] /\ faults \in Nat

\* However the cron, the schedule, retries and crashes meet, an account gets a
\* day's email at most twice, once from each of its two sources, and once more
\* for every fault: the cron, which asks for every unmarked day twice a day, must
\* never queue a day again that it has queued before.
TwicePerDay == \A d \in Days : mails[d] <= 2 + faults

\* A sequence that was started is completed: whichever call, cron run, job or mark
\* is lost, every day's email ends up sent and marked, unless the account is
\* suspended or the cron's own job of that day used up its runs: until the queue
\* forgets that job, no later cron run can try the day again.
EveryDaySent ==
  row # NoRow ~> \/ account = "deleted"
                 \/ \A d \in Days : \/ d \in row.sent
                                    \/ queue[[day |-> d, cron |-> TRUE]].state = "failed"
==============================================================================
