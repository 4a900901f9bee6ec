--------------------------- MODULE InvoiceDelivery ---------------------------
(***************************************************************************)
(* Delivery of one invoice by email: InvoicesService.send (the API), the   *)
(* Bull queue, InvoiceProcessor.handleSendEmail (the workers) and          *)
(* InvoiceRetryCronService.retryPendingEmails.  Invoices share no row and  *)
(* no queue job id, so one invoice is enough.                              *)
(*                                                                         *)
(* Every await is a step boundary: between two steps of one party any step *)
(* of another may run.  Time is one bit of the row, "due": the last        *)
(* attempt is at least fifteen minutes old.  A crash, an expired queue     *)
(* lock, a lost enqueue and a database error outside the handler's try     *)
(* block each spend one unit of MaxFaults.                                 *)
(***************************************************************************)
EXTENDS Naturals, FiniteSets

CONSTANTS Workers,    \* processor slots of the worker processes
          Requests,   \* concurrent calls of send
          MaxCycles,  \* bound: number of sends
          MaxFaults   \* bound: number of faults

ASSUME BoundsAssumption == MaxCycles \in Nat /\ MaxFaults \in Nat
ASSUME FiniteAssumption == IsFiniteSet(Requests)

Attempts == 1..3
Cycles   == 1..MaxCycles

VARIABLES inv,      \* the invoice row, its email_* columns
          queue,    \* queue job "invoice-email-<id>-<attempt>" by attempt
          worker,   \* per processor slot: what handleSendEmail is about to do
          request,  \* per API call: what send is about to do
          cron,     \* attempt the retry cron is about to add, 0 when idle
          faults,   \* faults so far
          cycle,    \* history: how many times send has reset the row
          claims,   \* history: claims[c][a], how often attempt a of c was claimed
          mails     \* history: mails[c][a], emails handed over under that claim

vars == <<inv, queue, worker, request, cron, faults, cycle, claims, mails>>

IdleWorker == [pc |-> "idle", attempt |-> 1, cycle |-> 0, locked |-> FALSE]
IdleCall   == [pc |-> "idle", next |-> 1]

Init ==
  /\ inv = [pending |-> FALSE, attempts |-> 0, error |-> FALSE,
            failed |-> FALSE, sent |-> FALSE, due |-> FALSE]
  /\ queue = [a \in Attempts |-> "none"]
  /\ worker = [w \in Workers |-> IdleWorker]
  /\ request = [r \in Requests |-> IdleCall]
  /\ cron = 0
  /\ faults = 0
  /\ cycle = 0
  /\ claims = [c \in Cycles |-> [a \in Attempts |-> 0]]
  /\ mails = [c \in Cycles |-> [a \in Attempts |-> 0]]

(***************************************************************************)
(* The queue.  A job id that is still present makes add a no-op; a job a   *)
(* worker holds cannot be removed; finished jobs leave no trace, because   *)
(* every add asks for removeOnComplete and removeOnFail.                   *)
(***************************************************************************)
QueueAdd(a)    == queue' = [queue EXCEPT ![a] = IF @ = "none" THEN "waiting" ELSE @]
QueueRemove(a) == queue' = [queue EXCEPT ![a] = IF @ = "waiting" THEN "none" ELSE @]

\* The history f with one more event for attempt a of cycle c.
Counted(f, c, a) == [f EXCEPT ![c][a] = @ + 1]

Fault == faults < MaxFaults /\ faults' = faults + 1

------------------------------------------------------------------------------
(* InvoicesService.send *)

\* Sends already begun that have not reset the row yet.
Unreset == {r \in Requests : request[r].pc \in {"removing", "resetting"}}

BeginSend(r) ==
  /\ request[r].pc = "idle"
  /\ cycle + Cardinality(Unreset) < MaxCycles
  /\ request' = [request EXCEPT ![r] = [pc |-> "removing", next |-> 1]]
  /\ UNCHANGED <<inv, queue, worker, cron, faults, cycle, claims, mails>>

RemoveStale(r) ==
  /\ request[r].pc = "removing"
  /\ QueueRemove(request[r].next)
  /\ request' = [request EXCEPT ![r] =
                   IF @.next = 3 THEN [pc |-> "resetting", next |-> 1]
                                 ELSE [pc |-> "removing", next |-> @.next + 1]]
  /\ UNCHANGED <<inv, worker, cron, faults, cycle, claims, mails>>

\* Mutant of Reset: the attempts of the last cycle are kept.
ResetKeepsAttempts(r) ==
  /\ request[r].pc = "resetting"
  /\ inv' = [pending |-> TRUE, attempts |-> inv.attempts, error |-> FALSE,
             failed |-> FALSE, sent |-> inv.sent, due |-> FALSE]
  /\ cycle' = cycle + 1
  /\ request' = [request EXCEPT ![r].pc = "clearing"]
  /\ UNCHANGED <<queue, worker, cron, faults, claims, mails>>

Reset(r) ==
  /\ request[r].pc = "resetting"
  /\ inv' = [pending |-> TRUE, attempts |-> 0, error |-> FALSE,
             failed |-> FALSE, sent |-> inv.sent, due |-> FALSE]
  /\ cycle' = cycle + 1
  /\ request' = [request EXCEPT ![r].pc = "clearing"]
  /\ UNCHANGED <<queue, worker, cron, faults, claims, mails>>

\* enqueue first removes the job that has the id it is about to use.
ClearPrior(r) ==
  /\ request[r].pc = "clearing"
  /\ QueueRemove(1)
  /\ request' = [request EXCEPT ![r].pc = "adding"]
  /\ UNCHANGED <<inv, worker, cron, faults, cycle, claims, mails>>

EnqueueFirst(r) ==
  /\ request[r].pc = "adding"
  /\ \/ QueueAdd(1) /\ UNCHANGED faults
     \/ Fault /\ UNCHANGED queue
  /\ request' = [request EXCEPT ![r] = IdleCall]
  /\ UNCHANGED <<inv, worker, cron, cycle, claims, mails>>

------------------------------------------------------------------------------
(* InvoiceProcessor.handleSendEmail *)

Take(w) ==
  /\ worker[w].pc = "idle"
  /\ \E a \in Attempts :
       /\ queue[a] = "waiting"
       /\ queue' = [queue EXCEPT ![a] = "active"]
       /\ worker' = [worker EXCEPT ![w] =
            [pc |-> "claiming", attempt |-> a, cycle |-> 0, locked |-> TRUE]]
  /\ UNCHANGED <<inv, request, cron, faults, cycle, claims, mails>>

\* The handler returns or throws: the slot is free, and the job is gone if the
\* slot still owns its lock.
Finish(w) ==
  /\ worker' = [worker EXCEPT ![w] = IdleWorker]
  /\ queue' = IF worker[w].locked
              THEN [queue EXCEPT ![worker[w].attempt] = "none"] ELSE queue

\* Mutants of Claimable: part of the compare-and-set, a looser comparison.
ClaimablePending(a) == inv.pending
ClaimableBelow(a)   == inv.pending /\ inv.attempts < a

\* The row's state is the one this attempt was enqueued for.
Claimable(a) == inv.pending /\ inv.attempts = a - 1

Claim(w) ==
  /\ worker[w].pc = "claiming"
  /\ Claimable(worker[w].attempt)
  /\ LET a == worker[w].attempt IN
       /\ inv' = [pending |-> TRUE, attempts |-> a, error |-> inv.error,
                  failed |-> inv.failed, sent |-> inv.sent, due |-> FALSE]
       /\ claims' = Counted(claims, cycle, a)
  /\ worker' = [worker EXCEPT ![w] = [pc |-> "mailing", attempt |-> @.attempt,
                                     cycle |-> cycle, locked |-> @.locked]]
  /\ UNCHANGED <<queue, request, cron, faults, cycle, mails>>

ClaimRefused(w) ==
  /\ worker[w].pc = "claiming"
  /\ ~Claimable(worker[w].attempt)
  /\ Finish(w)
  /\ UNCHANGED <<inv, request, cron, faults, cycle, claims, mails>>

\* The row once its delivery is over without error: mailed, or opted out of.
Closed(sent) ==
  [pending |-> FALSE, attempts |-> inv.attempts, error |-> FALSE,
   failed |-> FALSE, sent |-> sent, due |-> inv.due]

\* The notary has switched client invoice emails off.
OptedOut(w) ==
  /\ worker[w].pc = "mailing"
  /\ inv' = Closed(inv.sent)
  /\ Finish(w)
  /\ UNCHANGED <<request, cron, faults, cycle, claims, mails>>

\* sendEmail: the provider takes the email, or the call throws.
Mail(w) ==
  /\ worker[w].pc = "mailing"
  /\ \/ /\ mails' = Counted(mails, worker[w].cycle, worker[w].attempt)
        /\ worker' = [worker EXCEPT ![w].pc = "recording"]
     \/ /\ worker' = [worker EXCEPT ![w].pc = "failing"]
        /\ UNCHANGED mails
  /\ UNCHANGED <<inv, queue, request, cron, faults, cycle, claims>>

RecordSuccess(w) ==
  /\ worker[w].pc = "recording"
  /\ inv' = Closed(TRUE)
  /\ Finish(w)
  /\ UNCHANGED <<request, cron, faults, cycle, claims, mails>>

\* The success update is inside the try block: its error is a failed attempt.
RecordThrows(w) ==
  /\ worker[w].pc = "recording"
  /\ Fault
  /\ worker' = [worker EXCEPT ![w].pc = "failing"]
  /\ UNCHANGED <<inv, queue, request, cron, cycle, claims, mails>>

RecordFailure(w) ==
  /\ worker[w].pc = "failing"
  /\ inv' = [pending |-> worker[w].attempt < 3, attempts |-> inv.attempts,
             error |-> TRUE, failed |-> worker[w].attempt = 3,
             sent |-> inv.sent, due |-> inv.due]
  /\ Finish(w)
  /\ UNCHANGED <<request, cron, faults, cycle, claims, mails>>

\* A database error outside the try block: the handler throws, the row stays.
HandlerThrows(w) ==
  /\ worker[w].pc \in {"claiming", "mailing", "failing"}
  /\ Fault
  /\ Finish(w)
  /\ UNCHANGED <<inv, request, cron, cycle, claims, mails>>

\* The worker process dies; its job stays active until the queue finds it stalled.
Crash(w) ==
  /\ worker[w].pc # "idle"
  /\ Fault
  /\ worker' = [worker EXCEPT ![w] = IdleWorker]
  /\ UNCHANGED <<inv, queue, request, cron, cycle, claims, mails>>

\* A slot that misses its lock renewal keeps running without the lock.
LoseLock(w) ==
  /\ worker[w].locked
  /\ Fault
  /\ worker' = [worker EXCEPT ![w].locked = FALSE]
  /\ UNCHANGED <<inv, queue, request, cron, cycle, claims, mails>>

\* The queue's stalled check puts an active job nobody has locked back.
Stalled(a) ==
  /\ queue[a] = "active"
  /\ \A w \in Workers : ~(worker[w].locked /\ worker[w].attempt = a)
  /\ queue' = [queue EXCEPT ![a] = "waiting"]
  /\ UNCHANGED <<inv, worker, request, cron, faults, cycle, claims, mails>>

------------------------------------------------------------------------------
(* InvoiceRetryCronService.retryPendingEmails *)

\* Mutant of Retryable: a bound one too low.
RetryableOnce == inv.pending /\ inv.attempts = 1 /\ inv.error /\ inv.due

Retryable == inv.pending /\ inv.attempts \in {1, 2} /\ inv.error /\ inv.due

CronSelect ==
  /\ cron = 0
  /\ Retryable
  /\ cron' = inv.attempts + 1
  /\ UNCHANGED <<inv, queue, worker, request, faults, cycle, claims, mails>>

CronAdd ==
  /\ cron # 0
  /\ \/ QueueAdd(cron) /\ UNCHANGED faults
     \/ Fault /\ UNCHANGED queue
  /\ cron' = 0
  /\ UNCHANGED <<inv, worker, request, cycle, claims, mails>>

\* Fifteen minutes go by since the last attempt.
Tick ==
  /\ inv.attempts > 0 /\ ~inv.due
  /\ inv' = [inv EXCEPT !.due = TRUE]
  /\ UNCHANGED <<queue, worker, request, cron, faults, cycle, claims, mails>>

------------------------------------------------------------------------------
SendStep(r) == \/ BeginSend(r) \/ RemoveStale(r) \/ Reset(r)
               \/ ClearPrior(r) \/ EnqueueFirst(r)

HandlerStep(w) == \/ Claim(w) \/ ClaimRefused(w) \/ OptedOut(w) \/ Mail(w)
                  \/ RecordSuccess(w) \/ RecordFailure(w)

FaultStep(w) == RecordThrows(w) \/ HandlerThrows(w) \/ Crash(w) \/ LoseLock(w)

Next == \/ \E r \in Requests : SendStep(r)
        \/ \E w \in Workers : Take(w) \/ HandlerStep(w) \/ FaultStep(w)
        \/ \E a \in Attempts : Stalled(a)
        \/ CronSelect \/ CronAdd \/ Tick

Spec == Init /\ [][Next]_vars

\* What is running keeps running: begun calls, workers, the cron and the clock.
\* Nobody has to call send.
Fairness ==
  /\ \A r \in Requests : WF_vars(SendStep(r) /\ request[r].pc # "idle")
  /\ \A w \in Workers : WF_vars(Take(w)) /\ WF_vars(HandlerStep(w))
  /\ \A a \in Attempts : WF_vars(Stalled(a))
  /\ WF_vars(CronSelect) /\ WF_vars(CronAdd) /\ WF_vars(Tick)

FairSpec == Spec /\ Fairness

------------------------------------------------------------------------------
(* Properties *)

RowType == [pending : BOOLEAN, attempts : 0..3, error : BOOLEAN,
            failed : BOOLEAN, sent : BOOLEAN, due : BOOLEAN]
WorkerType ==
  [pc : {"idle", "claiming", "mailing", "recording", "failing"},
   attempt : Attempts, cycle : 0..MaxCycles, locked : BOOLEAN]
CallType ==
  [pc : {"idle", "removing", "resetting", "clearing", "adding"}, next : Attempts]

\* The variables stay within their types.
TypeOK ==
  /\ inv \in RowType
  /\ queue \in [Attempts -> {"none", "waiting", "active"}]
  /\ worker \in [Workers -> WorkerType]
  /\ request \in [Requests -> CallType]
  /\ cron \in {0, 2, 3}
  /\ faults \in 0..MaxFaults
  /\ cycle \in 0..MaxCycles
  /\ claims \in [Cycles -> [Attempts -> Nat]]
  /\ mails \in [Cycles -> [Attempts -> Nat]]

\* However sends, retries, stalled reruns and crashes interleave, each attempt
\* of a delivery cycle hands at most one email to the provider, so a cycle
\* emails the client at most three times.  It rests on the compare-and-set of
\* handleSendEmail.
OneMailPerAttempt == \A c \in Cycles, a \in Attempts : mails[c][a] <= 1

\* The attempts of a cycle are claimed in order: attempt a only after a - 1 of
\* the same cycle, never one left over from before the last send.
AttemptsInOrder ==
  \A c \in Cycles, a \in 2..3 : claims[c][a] > 0 => claims[c][a - 1] > 0

\* Why both hold.  The sends in flight never outnumber the cycles left; the row's
\* counter says exactly which attempts of the current cycle were claimed; a slot
\* that mails, records or fails owns its claim alone; and a claim that is still
\* to be mailed was not mailed before.
Holds(w) == worker[w].pc \in {"mailing", "recording", "failing"}

SendsFit == cycle + Cardinality(Unreset) <= MaxCycles

CounterInv ==
  /\ inv.pending => cycle > 0
  /\ \A c \in Cycles, a \in Attempts :
       /\ claims[c][a] <= 1
       /\ mails[c][a] <= claims[c][a]
       /\ claims[c][a] > 0 => c < cycle \/ (c = cycle /\ a <= inv.attempts)
       /\ c = cycle /\ a <= inv.attempts => claims[c][a] > 0

OwnerInv ==
  \A w \in Workers : Holds(w) =>
    /\ worker[w].cycle \in Cycles /\ worker[w].cycle <= cycle
    /\ claims[worker[w].cycle][worker[w].attempt] = 1
    /\ worker[w].pc = "mailing" => mails[worker[w].cycle][worker[w].attempt] = 0
    /\ \A v \in Workers : v # w /\ Holds(v) =>
         worker[v].cycle # worker[w].cycle \/ worker[v].attempt # worker[w].attempt

IInv == TypeOK /\ SendsFit /\ CounterInv /\ OwnerInv /\ AttemptsInOrder

\* "Manual Send/Resend starts a fresh three-attempt delivery cycle": the cycle a
\* send opens gets its first attempt, unless a later send replaces it or a
\* fault strikes.
SendStartsCycle ==
  \A c \in Cycles : cycle = c ~> (claims[c][1] > 0 \/ cycle > c \/ faults > 0)

\* A pending delivery does not stay pending for ever: it is delivered, opted
\* out of, given up after the third attempt, or replaced by a later send; only a
\* fault can leave it pending.
PendingSettles ==
  \A c \in Cycles :
    (cycle = c /\ inv.pending) ~> (~inv.pending \/ cycle > c \/ faults > 0)
==============================================================================
