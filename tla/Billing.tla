------------------------------- MODULE Billing -------------------------------
(***************************************************************************)
(* The plan of one user: BillingWebhookController and BillingService       *)
(* .persistWebhookEvent, the billing-webhook queue, its processor with the *)
(* handlers of subscription events, the cron that ends trials, and what a  *)
(* deletion of the account or an admin writes over the plan.               *)
(*                                                                         *)
(* Lemon Squeezy is the environment.  Nothing but answers reaches it, so   *)
(* the lives of the subscriptions come first and their events are          *)
(* delivered after: each until it is delivery, and first tried in order.   *)
(* The user opens a subscription while no other one renews.                *)
(***************************************************************************)
EXTENDS Naturals

CONSTANTS MaxSubs,    \* subscriptions the user ever opens
          Plans,      \* plans that are paid for
          TrialPlan,  \* the plan of a trial
          Calls,      \* webhook requests that can be under way at once
          Workers,    \* slots of the queue's workers
          MaxEvents,  \* events that Lemon Squeezy emits
          MaxFaults,  \* failed calls, crashes, expired locks, needless deliveries
          MaxOverrides \* plans written by a deletion or by hand

ASSUME BoundsAssumption == /\ MaxSubs \in Nat /\ MaxEvents \in Nat
                           /\ MaxFaults \in Nat /\ MaxOverrides \in Nat
ASSUME PlansAssumption == TrialPlan \in Plans /\ "FREE" \notin Plans

VARIABLES sub,       \* at Lemon Squeezy: the state and the plan of each subscription
          latest,    \* at Lemon Squeezy: the number of the subscription opened last
          event,     \* the events emitted so far, by number
          delivery,  \* of each event: not tried yet, tried, or answered
          row,       \* lemonsqueezy_events: the state of each event
          task,      \* the queue's job of each event
          call,      \* per request: next step and event
          worker,    \* per slot: next step, event, and whether it has the lock
          user,      \* plan, lemon_squeezy_subscription_id, plan_expires_at and
                     \* deleted_at; and, as history, whether the plan was last
                     \* written by the system or by hand
          cron,      \* whether expireTrials has the user in hand
          faults, overrides,
          raced      \* history: events were not handled one after the other, or
                     \* the user changed in the cron's hand

vars == <<sub, latest, event, delivery, row, task, call, worker, user, cron, faults, overrides,
          raced>>

Subs   == 1..MaxSubs
Events == 1..MaxEvents

MaxAttempts == 3
MaxStalls   == 1

NoEvent    == [kind |-> "none", sub |-> 0, plan |-> "FREE", status |-> "stopped"]
IdleCall   == [pc |-> "idle", event |-> 0]
IdleWorker == [pc |-> "idle", event |-> 0, locked |-> FALSE]

NewUser(plan, expires) ==
  [plan |-> plan, sub |-> 0, expires |-> expires, state |-> "live", by |-> "system"]

\* The user has just registered, on a trial if trials are enabled.
Init ==
  /\ sub = [s \in Subs |-> [state |-> "none", plan |-> TrialPlan]]
  /\ latest = 0
  /\ event = [k \in Events |-> NoEvent]
  /\ delivery = [k \in Events |-> "none"]
  /\ row = [k \in Events |-> "absent"]
  /\ task = [k \in Events |-> [state |-> "none", throws |-> 0, stalls |-> 0]]
  /\ call = [c \in Calls |-> IdleCall]
  /\ worker = [w \in Workers |-> IdleWorker]
  /\ user \in {NewUser("FREE", "none"), NewUser(TrialPlan, "trial")}
  /\ cron = FALSE
  /\ faults = 0 /\ overrides = 0 /\ raced = FALSE

Fault == faults < MaxFaults /\ faults' = faults + 1

Emitted == {k \in Events : event[k] # NoEvent}

Proceed(w, pc) == worker' = [worker EXCEPT ![w].pc = pc]
Answer(c) == delivery' = [delivery EXCEPT ![call[c].event] = "answered"]
Return(c) == call' = [call EXCEPT ![c] = IdleCall]

------------------------------------------------------------------------------
(* Lemon Squeezy *)

\* An event names the status of the subscription, which runs while it is active or
\* trialing, and the plan; a plan named while it does not is not read, and left out.
Emit(kind, s, plan, status) ==
  \E k \in Events \ Emitted :
    /\ \A j \in 1..(k - 1) : j \in Emitted
    /\ delivery[1] = "none"
    /\ event' = [event EXCEPT ![k] = [kind |-> kind, sub |-> s, plan |-> plan, status |-> status]]

Subscribe(s, plan) ==
  /\ s = latest + 1 /\ \A t \in Subs : sub[t].state # "active"
  /\ sub' = [sub EXCEPT ![s] = [state |-> "active", plan |-> plan]]
  /\ latest' = s
  /\ Emit("created", s, plan, "runs")
  /\ UNCHANGED <<delivery, row, task, call, worker, user, cron, faults>>

\* A change of plan, a renewal, or a cancellation taken back.
Update(s, plan) ==
  /\ \/ sub[s].state = "active"
     \/ sub[s].state = "cancelled" /\ s = latest
  /\ sub' = [sub EXCEPT ![s] = [state |-> "active", plan |-> plan]]
  /\ Emit("updated", s, plan, "runs")
  /\ UNCHANGED <<latest, delivery, row, task, call, worker, user, cron, faults>>

\* An update with any other status: past due, unpaid, paused or cancelled.
UpdateStopped(s) ==
  /\ sub[s].state \in {"active", "cancelled"}
  /\ Emit("updated", s, sub[s].plan, "stopped")
  /\ UNCHANGED <<sub, latest, delivery, row, task, call, worker, user, cron, faults>>

PaymentFails(s) ==
  /\ sub[s].state = "active"
  /\ Emit("payment_failed", s, sub[s].plan, "stopped")
  /\ UNCHANGED <<sub, latest, delivery, row, task, call, worker, user, cron, faults>>

CancelAtPeriodEnd(s) ==
  /\ sub[s].state = "active"
  /\ sub' = [sub EXCEPT ![s].state = "cancelled"]
  /\ Emit("cancelled", s, sub[s].plan, "stopped")
  /\ UNCHANGED <<latest, delivery, row, task, call, worker, user, cron, faults>>

Expire(s) ==
  /\ sub[s].state \in {"active", "cancelled"}
  /\ sub' = [sub EXCEPT ![s].state = "expired"]
  /\ Emit("expired", s, sub[s].plan, "stopped")
  /\ UNCHANGED <<latest, delivery, row, task, call, worker, user, cron, faults>>

------------------------------------------------------------------------------
(* handleWebhook: the row first, then the queue *)

\* An event that was answered comes again when the answer was lost.
Deliver(c, k) ==
  /\ call[c].pc = "idle" /\ k \in Emitted
  /\ \A j \in 1..(k - 1) : delivery[j] # "none"
  /\ \/ /\ delivery[k] # "answered" /\ delivery' = [delivery EXCEPT ![k] = "tried"]
        /\ UNCHANGED faults
     \/ delivery[k] = "answered" /\ Fault /\ UNCHANGED delivery
  /\ call' = [call EXCEPT ![c] = [pc |-> "persist", event |-> k]]
  /\ UNCHANGED <<sub, latest, event, row, task, worker, user, cron>>

IsNew(k) == row[k] = "absent"

PersistWebhookEvent(c) ==
  /\ call[c].pc = "persist"
  /\ \/ /\ IsNew(call[c].event)
        /\ row' = [row EXCEPT ![call[c].event] = "new"]
        /\ call' = [call EXCEPT ![c].pc = "enqueue"]
        /\ UNCHANGED delivery
     \/ ~IsNew(call[c].event) /\ Answer(c) /\ Return(c) /\ UNCHANGED row
  /\ UNCHANGED <<sub, latest, event, task, worker, user, cron, faults>>

\* The queue keeps a job of the same id, so that adding it again does nothing.
Enqueue(c) ==
  /\ call[c].pc = "enqueue"
  /\ task' = [task EXCEPT ![call[c].event].state = IF @ = "none" THEN "waiting" ELSE @]
  /\ Answer(c) /\ Return(c)
  /\ UNCHANGED <<sub, latest, event, row, worker, user, cron, faults>>

\* A failed call, or the death of the process: there is no answer.
WebhookThrows(c) ==
  /\ call[c].pc # "idle"
  /\ Fault
  /\ Return(c)
  /\ UNCHANGED <<sub, latest, event, delivery, row, task, worker, user, cron>>

------------------------------------------------------------------------------
(* The queue: three attempts, one stalled rerun *)

Take(w, k) ==
  /\ worker[w].pc = "idle" /\ task[k].state = "waiting"
  /\ task' = [task EXCEPT ![k].state = "active"]
  /\ worker' = [worker EXCEPT ![w] = [pc |-> "findEvent", event |-> k, locked |-> TRUE]]
  /\ UNCHANGED <<sub, latest, event, delivery, row, call, user, cron, faults>>

Finish(w) ==
  /\ task' = [task EXCEPT ![worker[w].event].state = IF worker[w].locked THEN "done" ELSE @]
  /\ worker' = [worker EXCEPT ![w] = IdleWorker]

Rethrow(w) ==
  /\ LET k == worker[w].event  throws == task[k].throws + 1 IN
       task' = IF ~worker[w].locked THEN task
               ELSE [task EXCEPT ![k].throws = throws,
                       ![k].state = IF throws < MaxAttempts THEN "waiting" ELSE "failed"]
  /\ worker' = [worker EXCEPT ![w] = IdleWorker]

Crash(w) ==
  /\ worker[w].pc # "idle"
  /\ Fault
  /\ worker' = [worker EXCEPT ![w] = IdleWorker]
  /\ UNCHANGED <<sub, latest, event, delivery, row, task, call, user, cron>>

\* The lock of an active job is gone, with its worker or under it.
Stalled(k) ==
  /\ task[k].state = "active"
  /\ LET holders == {w \in Workers : worker[w].event = k /\ worker[w].locked} IN
       /\ IF holders = {} THEN UNCHANGED faults ELSE Fault
       /\ worker' = [w \in Workers |-> IF w \in holders THEN [worker[w] EXCEPT !.locked = FALSE]
                                       ELSE worker[w]]
  /\ task' = [task EXCEPT ![k].stalls = @ + 1,
                ![k].state = IF task[k].stalls < MaxStalls THEN "waiting" ELSE "failed"]
  /\ UNCHANGED <<sub, latest, event, delivery, row, call, user, cron>>

------------------------------------------------------------------------------
(* handleEvent *)

\* A row that is done ends the run; an error of the database goes to Bull.
FindEvent(w) ==
  /\ worker[w].pc = "findEvent"
  /\ \/ row[worker[w].event] = "processed" /\ Finish(w) /\ UNCHANGED faults
     \/ /\ row[worker[w].event] # "processed" /\ Proceed(w, "findUser")
        /\ UNCHANGED <<task, faults>>
     \/ Fault /\ Rethrow(w)
  /\ UNCHANGED <<sub, latest, event, delivery, row, call, user, cron>>

\* Mutant of Addressed: an event finds the user whatever its subscription.
AddressedAny(e) == e.kind # "none"

\* created names the user, the other events are looked up by subscription.
Addressed(e) == e.kind = "created" \/ user.sub = e.sub

FindUser(w) ==
  /\ worker[w].pc = "findUser"
  /\ \/ Addressed(event[worker[w].event]) /\ Proceed(w, "write") /\ UNCHANGED faults
     \/ ~Addressed(event[worker[w].event]) /\ Proceed(w, "record") /\ UNCHANGED faults
     \/ Fault /\ Proceed(w, "record")
  /\ UNCHANGED <<sub, latest, event, delivery, row, task, call, user, cron>>

After(u, e) ==
  CASE e.kind = "created" -> [u EXCEPT !.plan = e.plan, !.sub = e.sub, !.by = "system"]
    [] e.kind = "updated" /\ e.status = "runs" ->
         [u EXCEPT !.plan = e.plan, !.expires = "renews", !.by = "system"]
    [] e.kind = "cancelled" -> [u EXCEPT !.expires = "ends"]
    [] e.kind = "expired" ->
         [u EXCEPT !.plan = "FREE", !.sub = 0, !.expires = "none", !.by = "system"]
    [] OTHER -> u

\* The user is updated by id; a failed payment is only told, and a subscription that
\* neither runs nor is on trial changes nothing by an update.
HandleSubscription(w) ==
  /\ worker[w].pc = "write"
  /\ \/ user' = After(user, event[worker[w].event]) /\ Proceed(w, "mark") /\ UNCHANGED faults
     \/ Fault /\ Proceed(w, "record") /\ UNCHANGED user
  /\ UNCHANGED <<sub, latest, event, delivery, row, task, call, cron>>

UpdateEvent(w) ==
  /\ worker[w].pc = "mark"
  /\ \/ row' = [row EXCEPT ![worker[w].event] = "processed"] /\ Finish(w) /\ UNCHANGED faults
     \/ Fault /\ Proceed(w, "record") /\ UNCHANGED <<row, task>>
  /\ UNCHANGED <<sub, latest, event, delivery, call, user, cron>>

RecordEventError(w) ==
  /\ worker[w].pc = "record"
  /\ \/ row' = [row EXCEPT ![worker[w].event] = "error"] /\ UNCHANGED faults
     \/ Fault /\ UNCHANGED row
  /\ Rethrow(w)
  /\ UNCHANGED <<sub, latest, event, delivery, call, user, cron>>

------------------------------------------------------------------------------
(* expireTrials *)

\* Mutant of OnTrial: subscribers are not told apart.
OnTrialAny == user.plan \in Plans /\ user.expires = "trial" /\ user.state = "live"

OnTrial == user.plan \in Plans /\ user.expires = "trial" /\ user.sub = 0 /\ user.state = "live"

\* The trial may be over at any time; the dates of a subscription lie ahead.
FindTrial ==
  /\ ~cron /\ OnTrial
  /\ cron' = TRUE
  /\ UNCHANGED <<sub, latest, event, delivery, row, task, call, worker, user, faults>>

\* Mutant of EndTrial: the plan is left to the next login.
EndTrialDateOnly ==
  /\ cron /\ cron' = FALSE
  /\ user' = [user EXCEPT !.expires = "none"]
  /\ UNCHANGED <<sub, latest, event, delivery, row, task, call, worker, faults>>

\* A failed update is logged; the next day finds the user again.
EndTrial ==
  /\ cron /\ cron' = FALSE
  /\ \/ user' = [user EXCEPT !.plan = "FREE", !.expires = "none"] /\ UNCHANGED faults
     \/ Fault /\ UNCHANGED user
  /\ UNCHANGED <<sub, latest, event, delivery, row, task, call, worker>>

------------------------------------------------------------------------------
(* The other writers of the plan: each looks at the row and writes it by id *)

\* softDeleteAccount, or an admin's suspendUser: the subscription stays with the user.
CloseAccount ==
  /\ overrides < MaxOverrides /\ overrides' = overrides + 1
  /\ user' = [user EXCEPT !.state = "deleted", !.plan = "FREE", !.expires = "none",
                          !.by = "hand"]
  /\ UNCHANGED <<sub, latest, event, delivery, row, task, call, worker, cron, faults>>

\* restoreUser: the plan stays as the deletion left it.
ReopenAccount ==
  /\ user.state = "deleted"
  /\ user' = [user EXCEPT !.state = "live"]
  /\ UNCHANGED overrides
  /\ UNCHANGED <<sub, latest, event, delivery, row, task, call, worker, cron, faults>>

\* updateUserPlan, with a date it ends on or without.
SetPlan(plan, expires) ==
  /\ overrides < MaxOverrides /\ overrides' = overrides + 1
  /\ user' = [user EXCEPT !.plan = plan, !.expires = expires, !.by = "hand"]
  /\ UNCHANGED <<sub, latest, event, delivery, row, task, call, worker, cron, faults>>
------------------------------------------------------------------------------
SellerStep    == \E s \in Subs :
                   \/ \E p \in Plans : Subscribe(s, p) \/ Update(s, p)
                   \/ UpdateStopped(s) \/ PaymentFails(s) \/ CancelAtPeriodEnd(s) \/ Expire(s)
WebhookStep(c) == \/ \E k \in Events : Deliver(c, k)
                  \/ PersistWebhookEvent(c) \/ Enqueue(c) \/ WebhookThrows(c)
HandlerStep(w) == \/ FindEvent(w) \/ FindUser(w) \/ HandleSubscription(w)
                  \/ UpdateEvent(w) \/ RecordEventError(w)

AdminStep     == \/ CloseAccount \/ ReopenAccount
                 \/ \E p \in Plans \cup {"FREE"}, e \in {"none", "trial"} : SetPlan(p, e)

\* An event is taken up before an earlier one is settled or beside another run, or
\* the user changes between the cron's look and its write.
Race ==
  \/ \E w \in Workers :
       /\ worker[w].pc = "idle" /\ worker'[w].pc # "idle"
       /\ \/ \E v \in Workers \ {w} : worker[v].pc # "idle"
          \/ \E j \in 1..(worker'[w].event - 1) : task[j].state \notin {"done", "failed"}
  \/ cron /\ cron' /\ user' # user

EventStep ==
  \/ SellerStep
  \/ \E c \in Calls : WebhookStep(c)
  \/ \E w \in Workers : HandlerStep(w) \/ Crash(w) \/ \E k \in Events : Take(w, k)
  \/ \E k \in Events : Stalled(k)

CronStep == FindTrial \/ EndTrial

Next ==
  /\ \/ (EventStep \/ CronStep) /\ UNCHANGED overrides
     \/ AdminStep
  /\ raced' = (raced \/ Race)

\* The cron runs every day, and every trial is over some day.
Fairness == WF_vars(CronStep /\ UNCHANGED overrides /\ raced' = (raced \/ Race))

Spec == Init /\ [][Next]_vars /\ Fairness

------------------------------------------------------------------------------
(* Properties *)

Kinds == {"created", "updated", "payment_failed", "cancelled", "expired"}

\* The variables stay within their types, and an event is persisted before it is
\* enqueued.
TypeOK ==
  /\ sub \in [Subs -> [state : {"none", "active", "cancelled", "expired"}, plan : Plans]]
  /\ latest \in Subs \cup {0}
  /\ event \in [Events -> [kind : Kinds \cup {"none"}, sub : Subs \cup {0},
                            plan : Plans \cup {"FREE"}, status : {"runs", "stopped"}]]
  /\ delivery \in [Events -> {"none", "tried", "answered"}]
  /\ row \in [Events -> {"absent", "new", "processed", "error"}]
  /\ task \in [Events -> [state : {"none", "waiting", "active", "done", "failed"},
                          throws : 0..MaxAttempts, stalls : 0..(MaxStalls + 1)]]
  /\ call \in [Calls -> [pc : {"idle", "persist", "enqueue"}, event : 0..MaxEvents]]
  /\ worker \in [Workers -> [pc : {"idle", "findEvent", "findUser", "write", "mark", "record"},
                             event : 0..MaxEvents, locked : BOOLEAN]]
  /\ user \in [plan : Plans \cup {"FREE"}, sub : Subs \cup {0},
               expires : {"none", "trial", "renews", "ends"},
               state : {"live", "deleted"}, by : {"system", "hand"}]
  /\ cron \in BOOLEAN /\ raced \in BOOLEAN
  /\ faults \in 0..MaxFaults /\ overrides \in 0..MaxOverrides
  /\ \A k \in Events : task[k].state # "none" => row[k] # "absent"

\* "Trial users have no Lemon Squeezy subscription, so they are never touched by
\* webhook lifecycles": nor does the end of a trial touch a subscriber.  A user with
\* a subscription has a paid plan, unless the cron's look and write were parted or
\* the account was deleted, suspended or given a plan since an event last wrote it:
\* restoring an account does not bring the plan back.
SubscriberKeepsPlan == ~raced /\ user.by = "system" /\ user.sub # 0 => user.plan \in Plans

\* Every event was handled, or was given up and belonged to an older subscription.
Settled ==
  \A k \in Emitted : \/ task[k].state = "done"
                     \/ task[k].state = "failed" /\ event[k].sub # latest

\* When everything Lemon Squeezy emitted is handled, the user has the subscription
\* opened last as long as it lives and none when it has expired, whatever was
\* delivered, retried or run twice, and although the events of an older subscription
\* arrive after it; unless events overtook one another.  The plan is the one it last
\* ran with, unless the account was deleted, suspended or given a plan since an
\* event wrote it; a restored account gets the plan back by the next event only.
PlanFollowsSubscription ==
  Settled /\ ~raced /\ latest # 0 =>
    IF sub[latest].state = "expired" THEN user.sub = 0 /\ (user.by = "hand" \/ user.plan = "FREE")
    ELSE user.sub = latest /\ (user.by = "hand" \/ user.plan = sub[latest].plan)

\* A trial ends in the free plan, whatever fails, unless the user subscribed or got a
\* plan by hand.
TrialIsEnded ==
  user.expires = "trial" ~> user.plan = "FREE" \/ user.sub # 0 \/ user.by = "hand"
==============================================================================
