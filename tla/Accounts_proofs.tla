--------------------------- MODULE Accounts_proofs ---------------------------
(***************************************************************************)
(* Proofs about Billing, for any number of subscriptions, events, requests *)
(* and workers, any plans and any bound on faults; and about Account and   *)
(* Session as Accounts composes them, for any number of users, signing     *)
(* types, tokens, servers and requests and any bounds.                     *)
(***************************************************************************)
EXTENDS Accounts, TLAPS

EventType == [kind : Kinds \cup {"none"}, sub : Subs \cup {0}, plan : Plans \cup {"FREE"},
              status : {"runs", "stopped"}]
UserType  == [plan : Plans \cup {"FREE"}, sub : Subs \cup {0},
              expires : {"none", "trial", "renews", "ends"},
              state : {"live", "deleted"}, by : {"system", "hand"}]

\* An event that was emitted is of a subscription and names a paid plan.
EventInv == \A k \in Emitted : event[k].kind \in Kinds /\ event[k].sub \in Subs /\ event[k].plan \in Plans

\* Only emitted events are delivered, persisted and queued, in this order.
OrderInv ==
  /\ \A c \in Calls : call[c].pc # "idle" => call[c].event \in Emitted
  /\ \A c \in Calls : call[c].pc = "enqueue" => row[call[c].event] # "absent"
  /\ \A k \in Events : task[k].state # "none" => k \in Emitted
  /\ \A w \in Workers : worker[w].pc # "idle" => /\ worker[w].event \in Emitted
                                                 /\ task[worker[w].event].state # "none"

\* The queue counts: one lock per active job, and attempts left while it runs.
LockInv ==
  /\ \A k \in Events : task[k].state \in {"none", "waiting", "active"} =>
       task[k].throws < MaxAttempts /\ task[k].stalls <= MaxStalls
  /\ \A w \in Workers : worker[w].locked =>
       worker[w].pc # "idle" /\ task[worker[w].event].state = "active"
  /\ \A v, w \in Workers : v # w /\ worker[v].locked /\ worker[w].locked =>
       worker[v].event # worker[w].event

TypeInv == TypeOK /\ EventInv /\ OrderInv /\ LockInv

\* An event that writes no plan.
Quiet(e) == e.kind \in {"cancelled", "payment_failed"} \/ (e.kind = "updated" /\ e.status # "runs")

\* The cron holds a user without a subscription, and a subscriber has a plan, if an
\* event wrote it last.
PlanInv == ~raced => /\ user.sub # 0 => user.plan \in Plans \/ user.by = "hand"
                     /\ cron => user.sub = 0

------------------------------------------------------------------------------
\* At first every variable has its type.
LEMMA TypeInit == Init => TypeInv
<1> SUFFICES ASSUME Init PROVE TypeInv
  OBVIOUS
<1>1. sub \in [Subs -> [state : {"none", "active", "cancelled", "expired"}, plan : Plans]]
  BY PlansAssumption DEF Init
<1>2. user \in UserType
  BY PlansAssumption DEF Init, NewUser, UserType
<1>3. /\ event \in [Events -> EventType]
      /\ task \in [Events -> [state : {"none", "waiting", "active", "done", "failed"},
                              throws : 0..MaxAttempts, stalls : 0..(MaxStalls + 1)]]
  BY DEF Init, NoEvent, MaxAttempts, MaxStalls, EventType
<1>4. /\ call \in [Calls -> [pc : {"idle", "persist", "enqueue"}, event : 0..MaxEvents]]
      /\ worker \in [Workers -> [pc : {"idle", "findEvent", "findUser", "write", "mark", "record"},
                                 event : 0..MaxEvents, locked : BOOLEAN]]
  BY BoundsAssumption DEF Init, IdleCall, IdleWorker
<1>5. /\ latest \in Subs \cup {0} /\ delivery \in [Events -> {"none", "tried", "answered"}]
      /\ row \in [Events -> {"absent", "new", "processed", "error"}]
      /\ faults \in 0..MaxFaults /\ overrides \in 0..MaxOverrides
  BY BoundsAssumption DEF Init
<1>6. \A k \in Events : task[k].state = "none"
  BY DEF Init
<1>7. cron = FALSE /\ raced = FALSE
  BY DEF Init
<1>8. TypeOK
  BY <1>1, <1>2, <1>3, <1>4, <1>5, <1>6, <1>7 DEF TypeOK, UserType, EventType
<1>9. Emitted = {}
  BY DEF Init, Emitted
<1>10. EventInv /\ OrderInv /\ LockInv
  BY <1>9 DEF Init, EventInv, OrderInv, LockInv, IdleCall, IdleWorker, MaxAttempts, MaxStalls
<1> QED BY <1>8, <1>10 DEF TypeInv

\* Emitting keeps the types: a new event is of a subscription, and nothing refers
\* to it yet.
LEMMA EmitStep ==
  ASSUME TypeInv, NEW kind \in Kinds, NEW s \in Subs, NEW p \in Plans,
         NEW st \in {"runs", "stopped"}, Emit(kind, s, p, st),
         UNCHANGED <<delivery, row, task, call, worker, user, cron, faults>>
  PROVE  /\ event' \in [Events -> EventType]
         /\ EventInv' /\ OrderInv' /\ LockInv'
<1>1. PICK k \in Events \ Emitted : event' = [event EXCEPT ![k] = [kind |-> kind, sub |-> s, plan |-> p, status |-> st]]
  BY DEF Emit
<1>2. event' \in [Events -> EventType]
  BY <1>1 DEF TypeInv, TypeOK, EventType
<1>3. event'[k] = [kind |-> kind, sub |-> s, plan |-> p, status |-> st] /\ \A j \in Events \ {k} : event'[j] = event[j]
  BY <1>1 DEF TypeInv, TypeOK
<1>4. Emitted' = Emitted \cup {k}
  BY <1>3 DEF Emitted, NoEvent, Kinds
<1>5. EventInv'
  BY <1>3, <1>4 DEF TypeInv, EventInv, Emitted
<1>6. OrderInv' /\ LockInv'
  BY <1>4 DEF TypeInv, OrderInv, LockInv
<1> QED BY <1>2, <1>5, <1>6

\* The steps of Lemon Squeezy.
LEMMA SellerTyped ==
  ASSUME TypeInv, raced' \in BOOLEAN, UNCHANGED overrides, SellerStep
  PROVE  TypeInv'
<1>1. PICK s \in Subs : \/ \E p \in Plans : Subscribe(s, p) \/ Update(s, p)
                        \/ UpdateStopped(s) \/ PaymentFails(s) \/ CancelAtPeriodEnd(s) \/ Expire(s)
  BY DEF SellerStep
<1>2. sub[s].plan \in Plans /\ UNCHANGED <<delivery, row, task, call, worker, user, cron, faults>>
  BY <1>1 DEF TypeInv, TypeOK, Subscribe, Update, UpdateStopped, PaymentFails, CancelAtPeriodEnd, Expire
<1>3. /\ sub' \in [Subs -> [state : {"none", "active", "cancelled", "expired"}, plan : Plans]]
      /\ latest' \in Subs \cup {0}
  BY <1>1 DEF TypeInv, TypeOK, Subscribe, Update, UpdateStopped, PaymentFails, CancelAtPeriodEnd, Expire
<1>4. \E kind \in Kinds, p \in Plans, st \in {"runs", "stopped"} : Emit(kind, s, p, st)
  BY <1>1, <1>2 DEF Subscribe, Update, UpdateStopped, PaymentFails, CancelAtPeriodEnd, Expire, Kinds
<1>5. /\ event' \in [Events -> EventType]
      /\ EventInv' /\ OrderInv' /\ LockInv'
  BY <1>2, <1>4, EmitStep
<1> QED BY <1>2, <1>3, <1>5 DEF TypeInv, TypeOK, EventType

\* A request writes the row of its event, then its job, then the answer.
LEMMA WebhookTyped ==
  ASSUME TypeInv, raced' \in BOOLEAN, UNCHANGED overrides, NEW c \in Calls, WebhookStep(c)
  PROVE  TypeInv'
<1> USE DEF TypeInv
<1>1. /\ Emitted' = Emitted /\ Emitted \subseteq Events
      /\ UNCHANGED <<sub, latest, event, worker, user, cron>>
  BY DEF WebhookStep, Deliver, PersistWebhookEvent, Enqueue, WebhookThrows, Emitted
<1>2. EventInv'
  BY <1>1 DEF EventInv
<1>3. ASSUME NEW k \in Events, Deliver(c, k) PROVE TypeInv'
  <2>1. /\ UNCHANGED <<row, task>> /\ call' = [call EXCEPT ![c] = [pc |-> "persist", event |-> k]]
        /\ k \in Emitted /\ faults' \in 0..MaxFaults
    BY <1>3, BoundsAssumption DEF Deliver, TypeOK, Fault
  <2>2. TypeOK'
    <3>1. call' \in [Calls -> [pc : {"idle", "persist", "enqueue"}, event : 0..MaxEvents]]
      BY <1>1, <2>1, BoundsAssumption DEF TypeOK, Events
    <3>2. delivery' \in [Events -> {"none", "tried", "answered"}]
      BY <1>3 DEF Deliver, TypeOK
    <3> QED BY <1>1, <2>1, <3>1, <3>2 DEF TypeOK
  <2>3. OrderInv' /\ LockInv'
    BY <1>1, <2>1 DEF OrderInv, LockInv, TypeOK
  <2> QED BY <1>2, <2>2, <2>3
<1>4. CASE PersistWebhookEvent(c)
  <2>1. /\ UNCHANGED <<task, faults>> /\ call[c].event \in Emitted
        /\ call[c] \in [pc : {"idle", "persist", "enqueue"}, event : 0..MaxEvents]
    BY <1>4 DEF PersistWebhookEvent, OrderInv, TypeOK
  <2>2. CASE /\ row' = [row EXCEPT ![call[c].event] = "new"] /\ UNCHANGED delivery
             /\ call' = [call EXCEPT ![c].pc = "enqueue"]
    <3>1. call' \in [Calls -> [pc : {"idle", "persist", "enqueue"}, event : 0..MaxEvents]]
      BY <2>1, <2>2 DEF TypeOK
    <3>2. row' \in [Events -> {"absent", "new", "processed", "error"}]
      BY <2>2 DEF TypeOK
    <3>3. row'[call[c].event] = "new" /\ \A k \in Events : row[k] # "absent" => row'[k] # "absent"
      BY <1>1, <2>1, <2>2 DEF TypeOK
    <3>4. TypeOK'
      BY <1>1, <2>1, <2>2, <3>1, <3>2, <3>3 DEF TypeOK
    <3>5. /\ call'[c].event = call[c].event /\ \A d \in Calls \ {c} : call'[d] = call[d]
      BY <2>2 DEF TypeOK
    <3>6. OrderInv' /\ LockInv'
      BY <1>1, <2>1, <3>3, <3>5 DEF OrderInv, LockInv
    <3> QED BY <1>2, <3>4, <3>6
  <2>3. CASE /\ row' = row /\ delivery' = [delivery EXCEPT ![call[c].event] = "answered"]
             /\ call' = [call EXCEPT ![c] = IdleCall]
    <3>1. call' \in [Calls -> [pc : {"idle", "persist", "enqueue"}, event : 0..MaxEvents]]
      BY <2>3, BoundsAssumption DEF TypeOK, IdleCall
    <3>2. delivery' \in [Events -> {"none", "tried", "answered"}]
      BY <2>3 DEF TypeOK
    <3>3. TypeOK'
      BY <1>1, <2>1, <2>3, <3>1, <3>2 DEF TypeOK
    <3>4. OrderInv' /\ LockInv'
      BY <1>1, <2>1, <2>3 DEF OrderInv, LockInv, TypeOK, IdleCall
    <3> QED BY <1>2, <3>3, <3>4
  <2> QED BY <1>4, <2>2, <2>3 DEF PersistWebhookEvent, Return, Answer
<1>5. CASE Enqueue(c)
  <2>1. /\ UNCHANGED <<row, faults>> /\ call[c].event \in Emitted /\ row[call[c].event] # "absent"
        /\ task' = [task EXCEPT ![call[c].event].state = IF @ = "none" THEN "waiting" ELSE @]
        /\ call' = [call EXCEPT ![c] = IdleCall]
    BY <1>5 DEF Enqueue, OrderInv, Return
  <2>2. TypeOK'
    <3>1. call' \in [Calls -> [pc : {"idle", "persist", "enqueue"}, event : 0..MaxEvents]]
      BY <2>1, BoundsAssumption DEF TypeOK, IdleCall
    <3>2. delivery' \in [Events -> {"none", "tried", "answered"}]
      BY <1>5 DEF Enqueue, Answer, TypeOK
    <3>3. task' \in [Events -> [state : {"none", "waiting", "active", "done", "failed"},
                               throws : 0..MaxAttempts, stalls : 0..(MaxStalls + 1)]]
      BY <1>1, <2>1 DEF TypeOK
    <3>4. \A k \in Events : task'[k].state # "none" => row'[k] # "absent"
      BY <1>1, <2>1 DEF TypeOK
    <3> QED BY <1>1, <2>1, <3>1, <3>2, <3>3, <3>4 DEF TypeOK
  <2>3. OrderInv' /\ LockInv'
    BY <1>1, <2>1 DEF OrderInv, LockInv, TypeOK, IdleCall
  <2> QED BY <1>2, <2>2, <2>3
<1>6. CASE WebhookThrows(c)
  <2>1. /\ UNCHANGED <<delivery, row, task>> /\ faults' \in 0..MaxFaults
        /\ call' = [call EXCEPT ![c] = IdleCall]
    BY <1>6, BoundsAssumption DEF WebhookThrows, Return, Fault, TypeOK
  <2>2. TypeOK'
    BY <1>1, <2>1, BoundsAssumption DEF TypeOK, IdleCall
  <2>3. OrderInv' /\ LockInv'
    BY <1>1, <2>1 DEF OrderInv, LockInv, TypeOK, IdleCall
  <2> QED BY <1>2, <2>2, <2>3
<1> QED BY <1>3, <1>4, <1>5, <1>6 DEF WebhookStep
------------------------------------------------------------------------------
TaskType   == [state : {"none", "waiting", "active", "done", "failed"},
               throws : 0..MaxAttempts, stalls : 0..(MaxStalls + 1)]
WorkerType == [pc : {"idle", "findEvent", "findUser", "write", "mark", "record"},
               event : 0..MaxEvents, locked : BOOLEAN]

\* What a step of a worker or of the queue keeps: an event once queued stays so.
QueueKept ==
  /\ task' \in [Events -> TaskType] /\ worker' \in [Workers -> WorkerType]
  /\ \A k \in Events : task'[k].state # "none" <=> task[k].state # "none"
  /\ \A w \in Workers : worker'[w].pc # "idle" =>
       worker'[w].event \in Emitted /\ task'[worker'[w].event].state # "none"
  /\ LockInv'

\* If the queue is kept, and rows stay, so are the invariants.
LEMMA QueueSuffices ==
  ASSUME TypeInv, raced' \in BOOLEAN, UNCHANGED overrides, QueueKept, UNCHANGED <<sub, latest, event, delivery, call>>,
         faults' \in 0..MaxFaults, cron' \in BOOLEAN,
         row' \in [Events -> {"absent", "new", "processed", "error"}],
         \A k \in Events : row[k] # "absent" => row'[k] # "absent",
         user' \in UserType
  PROVE  TypeInv'
<1>1. Emitted' = Emitted /\ Emitted \subseteq Events
  BY DEF Emitted
<1>2. TypeOK'
  BY DEF TypeInv, TypeOK, QueueKept, TaskType, WorkerType, UserType
<1>3. EventInv'
  BY <1>1 DEF TypeInv, EventInv
<1>4. OrderInv' /\ LockInv'
  BY <1>1 DEF TypeInv, OrderInv, QueueKept
<1> QED BY <1>2, <1>3, <1>4 DEF TypeInv

\* A run goes on to its next call.
LEMMA ProceedKept ==
  ASSUME TypeInv, NEW w \in Workers, worker[w].pc # "idle",
         NEW pc \in {"findUser", "write", "mark", "record"}, Proceed(w, pc), UNCHANGED task
  PROVE  QueueKept
<1>1. task \in [Events -> TaskType] /\ worker \in [Workers -> WorkerType]
  BY DEF TypeInv, TypeOK, TaskType, WorkerType
<1>2. worker' = [worker EXCEPT ![w].pc = pc]
  BY DEF Proceed
<1>3. worker' \in [Workers -> WorkerType]
  BY <1>1, <1>2 DEF WorkerType
<1>4. \A v \in Workers : /\ worker'[v].event = worker[v].event
                         /\ worker'[v].locked = worker[v].locked
                         /\ worker'[v].pc # "idle" <=> worker[v].pc # "idle"
  BY <1>1, <1>2 DEF WorkerType
<1>5. LockInv'
  BY <1>1, <1>4 DEF TypeInv, LockInv, TaskType
<1>6. \A v \in Workers : worker[v].pc # "idle" =>
        worker[v].event \in Emitted /\ task[worker[v].event].state # "none"
  BY DEF TypeInv, OrderInv
<1> QED BY <1>1, <1>3, <1>4, <1>5, <1>6 DEF QueueKept

\* A run ends: its job counts the end only if the worker still has the lock.
LEMMA EndKept ==
  ASSUME TypeInv, NEW w \in Workers, worker[w].pc # "idle", Finish(w) \/ Rethrow(w)
  PROVE  QueueKept
<1> DEFINE k == worker[w].event
<1>1. task \in [Events -> TaskType] /\ worker \in [Workers -> WorkerType]
  BY DEF TypeInv, TypeOK, TaskType, WorkerType
<1>2. worker' = [worker EXCEPT ![w] = IdleWorker]
  BY DEF Finish, Rethrow
<1>3. k \in Emitted /\ k \in Events /\ task[k].state # "none"
  BY DEF TypeInv, OrderInv, Emitted
<1>4. worker' \in [Workers -> WorkerType]
  BY <1>1, <1>2, BoundsAssumption DEF WorkerType, IdleWorker
<1>5. \A j \in Events \ {k} : task'[j] = task[j]
  BY <1>1, <1>3 DEF Finish, Rethrow
<1>6. CASE ~worker[w].locked
  <2>1. task' = task
    BY <1>1, <1>3, <1>6 DEF Finish, Rethrow, TaskType
  <2>2. LockInv'
    BY <1>1, <1>2, <2>1 DEF TypeInv, LockInv, WorkerType, IdleWorker
  <2>3. \A v \in Workers : worker'[v].pc # "idle" =>
          worker'[v].event \in Emitted /\ task[worker'[v].event].state # "none"
    BY <1>1, <1>2 DEF TypeInv, OrderInv, IdleWorker
  <2> QED BY <1>1, <1>4, <2>1, <2>2, <2>3 DEF QueueKept
<1>7. CASE worker[w].locked
  <2>1. task[k].throws < MaxAttempts /\ task[k].stalls <= MaxStalls /\ task[k].state = "active"
    BY <1>3, <1>7 DEF TypeInv, LockInv
  <2>2. /\ task'[k] \in TaskType /\ task'[k].state \in {"waiting", "done", "failed"}
        /\ task'[k].state = "waiting" => task'[k].throws < MaxAttempts
        /\ task'[k].stalls = task[k].stalls
    <3>1. CASE Finish(w)
      BY <1>1, <1>3, <1>7, <2>1, <3>1 DEF Finish, TaskType, MaxAttempts
    <3>2. CASE Rethrow(w)
      BY <1>1, <1>3, <1>7, <2>1, <3>2 DEF Rethrow, TaskType, MaxAttempts
    <3> QED BY <3>1, <3>2
  <2>3. task' \in [Events -> TaskType]
    <3>1. task' = [task EXCEPT ![k] = task'[k]]
      BY <1>1, <1>3, <1>7 DEF Finish, Rethrow
    <3> QED BY <1>1, <2>2, <3>1
  <2>4. \A v \in Workers \ {w} : worker'[v] = worker[v] /\ (worker[v].locked => worker[v].event # k)
    BY <1>1, <1>2, <1>7 DEF TypeInv, LockInv
  <2>5. worker'[w].pc = "idle" /\ worker'[w].locked = FALSE
    BY <1>1, <1>2 DEF IdleWorker
  <2>6. \A v \in Workers : worker'[v].locked => v # w
    BY <2>5
  <2>7. LockInv'
    <3>1. \A j \in Events : task'[j].state \in {"none", "waiting", "active"} =>
             task'[j].throws < MaxAttempts /\ task'[j].stalls <= MaxStalls
      BY <1>5, <2>1, <2>2 DEF TypeInv, LockInv
    <3>2. \A v \in Workers : worker'[v].locked =>
             worker'[v].pc # "idle" /\ task'[worker'[v].event].state = "active"
      <4> SUFFICES ASSUME NEW v \in Workers, worker'[v].locked
                   PROVE  worker'[v].pc # "idle" /\ task'[worker'[v].event].state = "active"
        OBVIOUS
      <4>1. worker'[v] = worker[v] /\ worker[v].event # k /\ worker[v].pc # "idle"
            /\ task[worker[v].event].state = "active"
        BY <2>4, <2>6 DEF TypeInv, LockInv
      <4>2. worker[v].event \in Events
        BY <4>1 DEF TypeInv, OrderInv, Emitted
      <4> QED BY <1>5, <4>1, <4>2
    <3>3. \A u, v \in Workers : u # v /\ worker'[u].locked /\ worker'[v].locked =>
             worker'[u].event # worker'[v].event
      BY <2>4, <2>6 DEF TypeInv, LockInv
    <3> QED BY <3>1, <3>2, <3>3 DEF LockInv
  <2>8. \A j \in Events : task'[j].state # "none" <=> task[j].state # "none"
    BY <1>3, <1>5, <2>2
  <2>9. \A v \in Workers : worker'[v].pc # "idle" =>
          worker'[v].event \in Emitted /\ task'[worker'[v].event].state # "none"
    BY <2>4, <2>5, <2>8 DEF TypeInv, OrderInv, Emitted
  <2> QED BY <1>4, <2>3, <2>7, <2>8, <2>9 DEF QueueKept
<1> QED BY <1>6, <1>7
\* The handler of an event: it never takes a row back to absent.
LEMMA HandlerTyped ==
  ASSUME TypeInv, raced' \in BOOLEAN, UNCHANGED overrides, NEW w \in Workers, HandlerStep(w)
  PROVE  TypeInv'
<1>1. worker[w].pc # "idle" /\ UNCHANGED <<sub, latest, event, delivery, call, cron>>
  BY DEF HandlerStep, FindEvent, FindUser, HandleSubscription, UpdateEvent, RecordEventError
<1>2. faults' \in 0..MaxFaults
  BY BoundsAssumption DEF HandlerStep, FindEvent, FindUser, HandleSubscription, UpdateEvent,
     RecordEventError, Fault, TypeInv, TypeOK
<1>3. cron' \in BOOLEAN
  BY <1>1 DEF TypeInv, TypeOK
<1>4. worker[w].event \in Emitted /\ worker[w].event \in Events
  BY <1>1 DEF TypeInv, OrderInv, Emitted
<1>5. /\ row' \in [Events -> {"absent", "new", "processed", "error"}]
      /\ \A k \in Events : row[k] # "absent" => row'[k] # "absent"
  BY DEF HandlerStep, FindEvent, FindUser, HandleSubscription, UpdateEvent,
     RecordEventError, TypeInv, TypeOK
<1>6. user' \in UserType
  <2>1. CASE user' = user
    BY <2>1 DEF TypeInv, TypeOK, UserType
  <2>2. CASE user' = After(user, event[worker[w].event])
    <3> DEFINE e == event[worker[w].event]
    <3>1. e.kind \in Kinds /\ e.sub \in Subs /\ e.plan \in Plans
      BY <1>4 DEF TypeInv, EventInv
    <3>2. user \in UserType
      BY DEF TypeInv, TypeOK, UserType
    <3> HIDE DEF e
    <3> QED BY <2>2, <3>1, <3>2 DEF After, UserType, e
  <2> QED BY <2>1, <2>2 DEF HandlerStep, FindEvent, FindUser, HandleSubscription, UpdateEvent,
             RecordEventError
<1>7. \/ \E pc \in {"findUser", "write", "mark", "record"} : Proceed(w, pc) /\ UNCHANGED task
      \/ Finish(w) \/ Rethrow(w)
  BY DEF HandlerStep, FindEvent, FindUser, HandleSubscription, UpdateEvent, RecordEventError
<1>8. QueueKept
  BY <1>1, <1>7, ProceedKept, EndKept
<1> QED BY <1>1, <1>2, <1>3, <1>5, <1>6, <1>8, QueueSuffices

\* A worker takes a waiting job, which nobody else has.
LEMMA TakeTyped ==
  ASSUME TypeInv, raced' \in BOOLEAN, UNCHANGED overrides, NEW w \in Workers, NEW k \in Events, Take(w, k)
  PROVE  TypeInv'
<1>1. task \in [Events -> TaskType] /\ worker \in [Workers -> WorkerType]
  BY DEF TypeInv, TypeOK, TaskType, WorkerType
<1>2. /\ worker[w].pc = "idle" /\ task[k].state = "waiting" /\ k \in Emitted
      /\ task' = [task EXCEPT ![k].state = "active"]
      /\ worker' = [worker EXCEPT ![w] = [pc |-> "findEvent", event |-> k, locked |-> TRUE]]
  BY DEF Take, TypeInv, OrderInv
<1>3. task' \in [Events -> TaskType]
  BY <1>1, <1>2 DEF TaskType
<1>4. worker' \in [Workers -> WorkerType]
  <2>1. k \in 0..MaxEvents
    BY BoundsAssumption DEF Events
  <2> QED BY <1>1, <1>2, <2>1 DEF WorkerType
<1>5. /\ \A j \in Events : /\ task'[j].throws = task[j].throws
                           /\ task'[j].stalls = task[j].stalls
      /\ \A j \in Events \ {k} : task'[j] = task[j]
      /\ task'[k].state = "active"
  BY <1>1, <1>2 DEF TaskType
<1>6. \A v \in Workers \ {w} : worker'[v] = worker[v] /\ (worker[v].locked => worker[v].event # k)
  BY <1>1, <1>2 DEF TypeInv, LockInv
<1>7. worker'[w].pc = "findEvent" /\ worker'[w].event = k
  BY <1>1, <1>2
<1>8. \A v \in Workers : v # w /\ worker[v].pc # "idle" => worker[v].event \in Events
  BY DEF TypeInv, OrderInv, Emitted
<1>9. LockInv'
  BY <1>2, <1>5, <1>6, <1>7, <1>8 DEF TypeInv, LockInv
<1>10. \A j \in Events : task'[j].state # "none" <=> task[j].state # "none"
  BY <1>2, <1>5
<1>11. \A v \in Workers : worker'[v].pc # "idle" =>
         worker'[v].event \in Emitted /\ task'[worker'[v].event].state # "none"
  BY <1>2, <1>5, <1>6, <1>7, <1>8, <1>10 DEF TypeInv, OrderInv
<1>12. QueueKept
  BY <1>3, <1>4, <1>9, <1>10, <1>11 DEF QueueKept
<1> QED BY <1>12, QueueSuffices DEF Take, TypeInv, TypeOK, UserType

\* A worker dies; its job stays active until it is found to be stalled.
LEMMA CrashTyped ==
  ASSUME TypeInv, raced' \in BOOLEAN, UNCHANGED overrides, NEW w \in Workers, Crash(w)
  PROVE  TypeInv'
<1>1. task \in [Events -> TaskType] /\ worker \in [Workers -> WorkerType]
  BY DEF TypeInv, TypeOK, TaskType, WorkerType
<1>2. UNCHANGED task /\ worker' = [worker EXCEPT ![w] = IdleWorker] /\ faults' \in 0..MaxFaults
  BY BoundsAssumption DEF Crash, Fault, TypeInv, TypeOK
<1>3. worker' \in [Workers -> WorkerType]
  BY <1>1, <1>2, BoundsAssumption DEF WorkerType, IdleWorker
<1>4. LockInv'
  BY <1>1, <1>2 DEF TypeInv, LockInv, IdleWorker
<1>5. \A v \in Workers : worker'[v].pc # "idle" =>
        worker'[v].event \in Emitted /\ task[worker'[v].event].state # "none"
  BY <1>1, <1>2 DEF TypeInv, OrderInv, IdleWorker
<1>6. QueueKept
  BY <1>1, <1>2, <1>3, <1>4, <1>5 DEF QueueKept
<1> QED BY <1>2, <1>6, QueueSuffices DEF Crash, TypeInv, TypeOK, UserType

\* A stalled job is queued once more, or given up; who held it has no lock.
LEMMA StalledTyped ==
  ASSUME TypeInv, raced' \in BOOLEAN, UNCHANGED overrides, NEW k \in Events, Stalled(k)
  PROVE  TypeInv'
<1> DEFINE holders == {w \in Workers : worker[w].event = k /\ worker[w].locked}
<1>1. task \in [Events -> TaskType] /\ worker \in [Workers -> WorkerType]
  BY DEF TypeInv, TypeOK, TaskType, WorkerType
<1>2. /\ task[k].state = "active" /\ faults' \in 0..MaxFaults
      /\ worker' = [w \in Workers |-> IF w \in holders THEN [worker[w] EXCEPT !.locked = FALSE]
                                      ELSE worker[w]]
      /\ task' = [task EXCEPT ![k].stalls = @ + 1,
                    ![k].state = IF task[k].stalls < MaxStalls THEN "waiting" ELSE "failed"]
  BY BoundsAssumption DEF Stalled, Fault, TypeInv, TypeOK
<1>3. task[k].stalls \in 0..MaxStalls /\ task[k].throws < MaxAttempts
  BY <1>1, <1>2 DEF TypeInv, LockInv, TaskType, MaxStalls
<1>4. /\ \A j \in Events \ {k} : task'[j] = task[j]
      /\ task'[k] = [state |-> IF task[k].stalls < MaxStalls THEN "waiting" ELSE "failed",
                     throws |-> task[k].throws, stalls |-> task[k].stalls + 1]
  BY <1>1, <1>2 DEF TaskType
<1>5. task' \in [Events -> TaskType]
  BY <1>1, <1>2, <1>3 DEF TaskType, MaxStalls
<1>6. \A w \in Workers : /\ worker'[w].pc = worker[w].pc /\ worker'[w].event = worker[w].event
                         /\ worker'[w].locked => worker[w].locked /\ worker[w].event # k
  BY <1>1, <1>2 DEF WorkerType
<1>7. worker' \in [Workers -> WorkerType]
  BY <1>1, <1>2 DEF WorkerType
<1>8. LockInv'
  <2>1. \A j \in Events : task'[j].state \in {"none", "waiting", "active"} =>
          task'[j].throws < MaxAttempts /\ task'[j].stalls <= MaxStalls
    <3>1. task'[k].state = "waiting" => task'[k].stalls <= MaxStalls
      BY <1>3, <1>4 DEF MaxStalls
    <3>2. task'[k].state \in {"waiting", "failed"} /\ task'[k].throws < MaxAttempts
      BY <1>3, <1>4
    <3> QED BY <1>4, <3>1, <3>2 DEF TypeInv, LockInv
  <2>2. \A w \in Workers : worker'[w].locked =>
          worker'[w].pc # "idle" /\ task'[worker'[w].event].state = "active"
    <3> SUFFICES ASSUME NEW w \in Workers, worker'[w].locked
                 PROVE  worker'[w].pc # "idle" /\ task'[worker'[w].event].state = "active"
      OBVIOUS
    <3>1. worker[w].event # k /\ worker[w].pc # "idle" /\ task[worker[w].event].state = "active"
      BY <1>6 DEF TypeInv, LockInv
    <3>2. worker[w].event \in Events
      BY <3>1 DEF TypeInv, OrderInv, Emitted
    <3> QED BY <1>4, <1>6, <3>1, <3>2
  <2>3. \A v, w \in Workers : v # w /\ worker'[v].locked /\ worker'[w].locked =>
          worker'[v].event # worker'[w].event
    BY <1>6 DEF TypeInv, LockInv
  <2> QED BY <2>1, <2>2, <2>3 DEF LockInv
<1>9. \A j \in Events : task'[j].state # "none" <=> task[j].state # "none"
  <2>1. task'[k].state \in {"waiting", "failed"}
    BY <1>4
  <2> QED BY <1>2, <1>4, <2>1
<1>10. \A w \in Workers : worker'[w].pc # "idle" =>
         worker'[w].event \in Emitted /\ task'[worker'[w].event].state # "none"
  BY <1>6, <1>9 DEF TypeInv, OrderInv, Emitted
<1>11. QueueKept
  BY <1>5, <1>7, <1>8, <1>9, <1>10 DEF QueueKept
<1> QED BY <1>2, <1>11, QueueSuffices DEF Stalled, TypeInv, TypeOK, UserType

\* The cron writes the plan and the date only.
LEMMA CronTyped ==
  ASSUME TypeInv, raced' \in BOOLEAN, UNCHANGED overrides, FindTrial \/ EndTrial
  PROVE  TypeInv'
<1>1. UNCHANGED <<sub, latest, event, delivery, row, task, call, worker>>
  BY DEF FindTrial, EndTrial
<1>2. cron' \in BOOLEAN
  BY DEF FindTrial, EndTrial
<1>3. faults' \in 0..MaxFaults
  BY BoundsAssumption DEF FindTrial, EndTrial, Fault, TypeInv, TypeOK
<1>4. user' \in UserType
  <2>1. user \in UserType
    BY DEF TypeInv, TypeOK, UserType
  <2>2. user' = user \/ user' = [user EXCEPT !.plan = "FREE", !.expires = "none"]
    BY DEF FindTrial, EndTrial
  <2> QED BY <2>1, <2>2 DEF UserType
<1>5. task \in [Events -> TaskType] /\ worker \in [Workers -> WorkerType]
  BY DEF TypeInv, TypeOK, TaskType, WorkerType
<1>6. QueueKept
  BY <1>1, <1>5 DEF QueueKept, TypeInv, OrderInv, LockInv
<1> QED BY <1>1, <1>4, <1>6, <1>2, <1>3, QueueSuffices DEF TypeInv, TypeOK

\* A deletion and an admin write the user only.
LEMMA AdminTyped ==
  ASSUME TypeInv, raced' \in BOOLEAN, AdminStep
  PROVE  TypeInv'
<1>1. /\ UNCHANGED <<sub, latest, event, delivery, row, task, call, worker, cron, faults>>
      /\ overrides' \in 0..MaxOverrides
  <2>1. overrides \in Nat /\ overrides <= MaxOverrides /\ MaxOverrides \in Nat
    BY BoundsAssumption DEF TypeInv, TypeOK
  <2>2. CASE CloseAccount
    BY <2>1, <2>2 DEF CloseAccount
  <2>3. CASE ReopenAccount
    BY <2>1, <2>3 DEF ReopenAccount
  <2>4. ASSUME NEW p, NEW e, SetPlan(p, e)
        PROVE  /\ UNCHANGED <<sub, latest, event, delivery, row, task, call, worker, cron, faults>>
               /\ overrides' \in 0..MaxOverrides
    BY <2>1, <2>4 DEF SetPlan
  <2> QED BY <2>2, <2>3, <2>4 DEF AdminStep
<1>2. user' \in UserType
  <2>1. user \in UserType
    BY DEF TypeInv, TypeOK, UserType
  <2>2. CASE CloseAccount
    BY <2>1, <2>2 DEF CloseAccount, UserType
  <2>3. CASE ReopenAccount
    BY <2>1, <2>3 DEF ReopenAccount, UserType
  <2>4. ASSUME NEW p \in Plans \cup {"FREE"}, NEW e \in {"none", "trial"}, SetPlan(p, e)
        PROVE  user' \in UserType
    BY <2>1, <2>4 DEF SetPlan, UserType
  <2> QED BY <2>2, <2>3, <2>4 DEF AdminStep
<1>3. TypeOK'
  BY <1>1, <1>2 DEF TypeInv, TypeOK, UserType
<1>4. EventInv' /\ OrderInv' /\ LockInv'
  BY <1>1 DEF TypeInv, EventInv, OrderInv, LockInv, Emitted
<1> QED BY <1>3, <1>4 DEF TypeInv

\* Doing nothing keeps everything.
LEMMA StutterTyped == ASSUME TypeInv, UNCHANGED vars PROVE TypeInv'
BY DEF vars, TypeInv, TypeOK, EventInv, OrderInv, LockInv, Emitted

\* Every step keeps the types.
LEMMA TypeStep == TypeInv /\ [Next]_vars => TypeInv'
<1> SUFFICES ASSUME TypeInv, [Next]_vars PROVE TypeInv'
  OBVIOUS
<1>1. CASE UNCHANGED vars
  BY <1>1, StutterTyped
<1>2. CASE Next
  <2>1. raced' \in BOOLEAN
    BY <1>2, ZenonT(60) DEF Next
  <2>2. CASE AdminStep
    BY <2>1, <2>2, AdminTyped
  <2>3. CASE (EventStep \/ CronStep) /\ UNCHANGED overrides
    BY <2>1, <2>3, SellerTyped, WebhookTyped, HandlerTyped, CrashTyped, TakeTyped,
       StalledTyped, CronTyped DEF EventStep, CronStep
  <2> QED BY <1>2, <2>2, <2>3 DEF Next
<1> QED BY <1>1, <1>2

\* In every reachable state the variables have their types, and an event is
\* persisted before it is enqueued.
THEOREM TypeCorrect == Spec => []TypeOK
<1>1. TypeInv => TypeOK
  BY DEF TypeInv
<1> QED BY <1>1, TypeInit, TypeStep, PTL DEF Spec
------------------------------------------------------------------------------
\* Only the handler and the cron write the user, and a race is remembered.
LEMMA PlanStep == TypeInv /\ PlanInv /\ [Next]_vars => PlanInv'
<1> SUFFICES ASSUME TypeInv, PlanInv, [Next]_vars, ~raced'
             PROVE  /\ user'.sub # 0 => user'.plan \in Plans \/ user'.by = "hand"
                    /\ cron' => user'.sub = 0
  BY DEF PlanInv
<1>1. CASE UNCHANGED vars
  BY <1>1 DEF vars, PlanInv
<1>2. CASE Next
  <2>1. ~raced /\ ~Race
    BY <1>2 DEF Next
  <2>2. /\ user.sub # 0 => user.plan \in Plans \/ user.by = "hand"
        /\ cron => user.sub = 0
    BY <2>1 DEF PlanInv
  <2>3. cron /\ cron' => user' = user
    BY <2>1 DEF Race
  <2>4. CASE UNCHANGED <<user, cron>>
    BY <2>2, <2>4
  <2>5. user \in UserType
    BY DEF TypeInv, TypeOK, UserType
  <2>6. CASE FindTrial \/ EndTrial
    <3>1. CASE FindTrial
      BY <2>2, <3>1 DEF FindTrial, OnTrial
    <3>2. CASE EndTrial
      <4>1. user.sub = 0 /\ ~cron'
        BY <2>2, <3>2 DEF EndTrial
      <4>2. user'.sub = user.sub
        BY <2>5, <3>2 DEF EndTrial, UserType
      <4> QED BY <4>1, <4>2
    <3> QED BY <2>6, <3>1, <3>2
  <2>7. ASSUME NEW w \in Workers, HandleSubscription(w) PROVE user'.sub # 0 => user'.plan \in Plans \/ user'.by = "hand"
    <3> DEFINE e == event[worker[w].event]
    <3>1. e.kind \in Kinds /\ e.sub \in Subs /\ e.plan \in Plans
      BY <2>7 DEF HandleSubscription, TypeInv, OrderInv, EventInv
    <3>2. user' = user \/ user' = After(user, e)
      BY <2>7 DEF HandleSubscription
    <3> HIDE DEF e
    <3>3. CASE user' = user
      BY <2>2, <3>3
    <3>4. CASE user' = After(user, e)
                 /\ (e.kind = "created" \/ (e.kind = "updated" /\ e.status = "runs"))
      <4>1. After(user, e).plan = e.plan
        BY <2>5, <3>4 DEF After, UserType
      <4> QED BY <3>1, <3>4, <4>1
    <3>5. CASE user' = After(user, e) /\ Quiet(e)
      <4>1. After(user, e).plan = user.plan /\ After(user, e).sub = user.sub
            /\ After(user, e).by = user.by
        BY <2>5, <3>5 DEF After, Quiet, UserType
      <4> QED BY <2>2, <3>5, <4>1
    <3>6. CASE user' = After(user, e) /\ e.kind = "expired"
      <4>1. After(user, e).sub = 0
        BY <2>5, <3>6 DEF After, UserType
      <4> QED BY <3>6, <4>1
    <3> QED BY <3>1, <3>2, <3>3, <3>4, <3>5, <3>6 DEF Kinds, Quiet
  <2>8. ASSUME NEW w \in Workers, HandleSubscription(w) PROVE cron' = cron
    BY <2>8 DEF HandleSubscription
  <2>10. CASE AdminStep
    <3>1. user'.sub = user.sub /\ (user'.by = "hand" \/ (user'.plan = user.plan /\ user'.by = user.by))
      <4>1. CASE CloseAccount
        BY <2>5, <4>1 DEF CloseAccount, UserType
      <4>2. CASE ReopenAccount
        BY <2>5, <4>2 DEF ReopenAccount, UserType
      <4>3. ASSUME NEW p, NEW e, SetPlan(p, e)
            PROVE  user'.sub = user.sub /\ user'.by = "hand"
        BY <2>5, <4>3 DEF SetPlan, UserType
      <4> QED BY <2>10, <4>1, <4>2, <4>3 DEF AdminStep
    <3>2. cron' = cron
      BY <2>10 DEF AdminStep, CloseAccount, ReopenAccount, SetPlan
    <3> QED BY <2>2, <3>1, <3>2
  <2>9. \/ UNCHANGED <<user, cron>> \/ FindTrial \/ EndTrial \/ AdminStep
        \/ \E w \in Workers : HandleSubscription(w)
    BY <1>2 DEF Next, EventStep, CronStep, SellerStep, Subscribe, Update, UpdateStopped, PaymentFails, CancelAtPeriodEnd, Expire,
       WebhookStep, Deliver, PersistWebhookEvent, Enqueue, WebhookThrows, HandlerStep,
       FindEvent, FindUser, UpdateEvent, RecordEventError, Take, Crash, Stalled
  <2> QED BY <2>2, <2>3, <2>4, <2>6, <2>7, <2>8, <2>9, <2>10
<1> QED BY <1>1, <1>2

\* A user with a subscription has a paid plan, unless a deletion or an admin wrote it
\* last: the cron that ends trials takes nothing from a subscriber, unless its look and
\* its write were parted.
THEOREM SubscriberKeeps == Spec => []SubscriberKeepsPlan
<1>1. Init => PlanInv
  BY DEF Init, NewUser, PlanInv
<1>2. PlanInv => SubscriberKeepsPlan
  BY DEF PlanInv, SubscriberKeepsPlan
<1> QED BY <1>1, <1>2, TypeInit, TypeStep, PlanStep, PTL DEF Spec
------------------------------------------------------------------------------
(* The plan follows the subscription *)

\* The events of the subscription opened last.
Own == {k \in Emitted : event[k].sub = latest}

\* The user stands as Lemon Squeezy had it after an event of that subscription, or with
\* the plan that was written by hand.
Reflects(k) ==
  IF event[k].kind = "expired" THEN user.sub = 0 /\ (user.by = "hand" \/ user.plan = "FREE")
  ELSE user.sub = latest /\ (user.by = "hand" \/ user.plan = event[k].plan)

\* A worker has taken the event.
Started(k) ==
  \/ task[k].state \in {"active", "done", "failed"}
  \/ task[k].throws > 0 \/ task[k].stalls > 0

Busy(w) == worker[w].pc # "idle"

Over(k) == task[k].state \in {"done", "failed"}

\* Lemon Squeezy's state is that of its last event; an expiry is the last event of a
\* subscription, and only a creation or an update brings another plan.
First(c) == /\ event[c].kind = "created" /\ \A k \in Own : c <= k
            /\ \A k \in Emitted : k > c => event[k].kind # "created"

Final(n) == /\ \A k \in Own : k <= n
            /\ sub[latest].plan = event[n].plan
            /\ sub[latest].state = "expired" <=> event[n].kind = "expired"

ChainInv == \A i, j \in Own : i < j =>
              /\ event[i].kind # "expired"
              /\ Quiet(event[j])
                   /\ (\A m \in Own : ~(i < m /\ m < j)) => event[j].plan = event[i].plan

SellerInv == /\ \A s \in Subs : sub[s].state # "none" => s <= latest
             /\ \A k \in Emitted : event[k].sub <= latest
             /\ \A k \in Emitted : \A j \in 1..(k - 1) : j \in Emitted
             /\ latest # 0 => (\E c \in Own : First(c)) /\ (\E n \in Own : Final(n))
             /\ ChainInv

\* Nothing happens to any event before the first one is delivered.
QuietInv ==
  /\ 1 \in Events /\ delivery[1] = "none" =>
       /\ \A c \in Calls : call[c].pc = "idle"
       /\ \A k \in Events : task[k].state = "none"
  /\ \A k \in Events : task[k].state = "none" => ~Started(k)

\* Events are handled one after the other: who handles one has the last that was
\* ever taken, and those before it are over.
TurnInv ==
  /\ \A v, w \in Workers : Busy(v) /\ Busy(w) => v = w
  /\ \A k \in Events : Started(k) => \A j \in 1..(k - 1) : Over(j)
  /\ \A w \in Workers : Busy(w) =>
       /\ Started(worker[w].event) /\ task[worker[w].event].state # "done"
       /\ \A j \in Events : j > worker[w].event => ~Started(j)
  /\ \A k \in Events : /\ task[k].state = "done" => row[k] = "processed"
                       /\ row[k] = "processed" => Started(k)

\* The next event of the subscription opened last, all those before it processed.
Due(j) == /\ \A i \in Own : i < j => row[i] = "processed"
          /\ \A i \in Own : i > j => ~Started(i)

\* What is processed or written shows; what is under way has been written or not; and
\* nobody writes to a user who has another subscription.
UserInv ==
  /\ \A j \in Own : Due(j) =>
       /\ row[j] = "processed" => Reflects(j)
       /\ \A w \in Workers : worker[w].pc = "mark" /\ worker[w].event = j => Reflects(j)
       /\ event[j].kind = "created" \/ Reflects(j)
            \/ \E i \in Own : /\ i < j /\ \A m \in Own : ~(i < m /\ m < j)
                              /\ Reflects(i)
  /\ \A w \in Workers : worker[w].pc = "write" => Addressed(event[worker[w].event])

FollowInv == SellerInv /\ QuietInv /\ (~raced => TurnInv /\ UserInv)

\* The trial's user has no subscription, nothing was emitted.
LEMMA FollowInit == Init => FollowInv
<1> SUFFICES ASSUME Init PROVE FollowInv
  OBVIOUS
<1>1. Emitted = {} /\ Own = {}
  BY DEF Init, Emitted, Own
<1>2. \A k \in Events : task[k].state = "none" /\ ~Started(k) /\ row[k] = "absent"
  BY DEF Init, Started
<1>3. \A w \in Workers : worker[w].pc = "idle"
  BY DEF Init, IdleWorker
<1>4. \A c \in Calls : call[c].pc = "idle"
  BY DEF Init, IdleCall
<1>5. SellerInv
  BY <1>1 DEF Init, SellerInv, ChainInv
<1>6. QuietInv
  BY <1>2, <1>4 DEF QuietInv
<1>7. TurnInv
  BY <1>2, <1>3 DEF TurnInv, Busy
<1>8. UserInv
  BY <1>1, <1>3 DEF UserInv
<1> QED BY <1>5, <1>6, <1>7, <1>8 DEF FollowInv

\* Emitting an event about a subscription: the new event is the last one.
LEMMA EmittedLast ==
  ASSUME TypeInv, SellerInv, NEW kind \in Kinds, NEW s, NEW p, NEW st, Emit(kind, s, p, st)
  PROVE  \E k \in Events :
           /\ Emitted' = Emitted \cup {k}
           /\ event'[k] = [kind |-> kind, sub |-> s, plan |-> p, status |-> st]
           /\ \A j \in Emitted : j < k /\ event'[j] = event[j]
           /\ \A j \in 1..(k - 1) : j \in Emitted
<1>1. PICK k \in Events \ Emitted : /\ \A j \in 1..(k - 1) : j \in Emitted
                                    /\ event' = [event EXCEPT ![k] = [kind |-> kind, sub |-> s, plan |-> p, status |-> st]]
  BY DEF Emit
<1>2. event'[k] = [kind |-> kind, sub |-> s, plan |-> p, status |-> st] /\ \A j \in Events \ {k} : event'[j] = event[j]
  BY <1>1 DEF TypeInv, TypeOK
<1>3. Emitted' = Emitted \cup {k}
  BY <1>2 DEF Emitted, NoEvent, Kinds
<1>4. \A j \in Emitted : j < k
  BY <1>1, BoundsAssumption DEF SellerInv, Emitted, Events
<1> QED BY <1>1, <1>2, <1>3, <1>4 DEF Emitted

\* Lemon Squeezy's state stays that of its last event.
LEMMA SellerChain ==
  ASSUME TypeInv, SellerInv, SellerStep
  PROVE  SellerInv'
<1>1. PICK s \in Subs : \/ \E p \in Plans : Subscribe(s, p) \/ Update(s, p)
                        \/ UpdateStopped(s) \/ PaymentFails(s) \/ CancelAtPeriodEnd(s) \/ Expire(s)
  BY DEF SellerStep
<1>2. latest \in Nat /\ sub[s].plan \in Plans /\ Own \subseteq Emitted /\ Emitted \subseteq Events
      /\ Events \subseteq Nat /\ s \in Nat /\ s # 0
  BY BoundsAssumption DEF TypeInv, TypeOK, Subs, Own, Emitted, Events
<1>3. ASSUME NEW p \in Plans, Subscribe(s, p) PROVE SellerInv'
  <2>1. s = latest + 1 /\ latest' = s /\ Emit("created", s, p, "runs")
        /\ sub'[s] = [state |-> "active", plan |-> p]
    BY <1>3 DEF Subscribe, TypeInv, TypeOK
  <2>2. PICK k \in Events :
          /\ Emitted' = Emitted \cup {k}
          /\ event'[k] = [kind |-> "created", sub |-> s, plan |-> p, status |-> "runs"]
          /\ \A j \in Emitted : j < k /\ event'[j] = event[j]
          /\ \A j \in 1..(k - 1) : j \in Emitted
    BY <2>1, EmittedLast DEF Kinds
  <2>3. \A j \in Emitted : event'[j].sub <= s /\ event'[j].sub # s
    <3>1. \A j \in Emitted : event[j].sub \in Nat /\ event[j].sub <= latest
      BY BoundsAssumption DEF SellerInv, TypeInv, EventInv, Subs
    <3>2. \A j \in Emitted : event[j].sub <= s /\ event[j].sub # s
      BY <1>2, <2>1, <3>1
    <3> QED BY <2>2, <3>2
  <2>10. event'[k].sub = s /\ event'[k].kind = "created" /\ event'[k].plan = p
    BY <2>2
  <2>4. Own' = {k}
    BY <2>1, <2>2, <2>3, <2>10 DEF Own
  <2>5. First(k)' /\ Final(k)'
    <3>1. k \in Nat /\ \A j \in Own' : k <= j /\ j <= k
      BY <1>2, <2>4
    <3>2. \A j \in Emitted' : ~(j > k)
      <4>1. k \in Nat /\ \A j \in Emitted : j \in Nat /\ j < k
        BY <1>2, <2>2
      <4>2. \A j \in Emitted' : j \in Emitted \/ j = k
        BY <2>2
      <4> QED BY <4>1, <4>2
    <3>3. First(k)'
      BY <2>10, <3>1, <3>2 DEF First
    <3>4. sub'[latest'].plan = event'[k].plan
      BY <2>1, <2>10
    <3>5. sub'[latest'].state # "expired" /\ event'[k].kind # "expired"
      BY <2>1, <2>10
    <3> QED BY <3>1, <3>3, <3>4, <3>5 DEF Final
  <2>6. ChainInv'
    <3>1. \A i, j \in Own' : ~(i < j)
      BY <1>2, <2>4
    <3> QED BY <3>1 DEF ChainInv
  <2>7. \A j \in Emitted' : event'[j].sub <= latest'
    BY <1>2, <2>1, <2>2, <2>3, <2>10
  <2>8. \A i \in Emitted' : \A j \in 1..(i - 1) : j \in Emitted'
    BY <2>2 DEF SellerInv
  <2>9. \A t \in Subs : sub'[t].state # "none" => t <= latest'
    <3>1. \A t \in Subs \ {s} : sub'[t] = sub[t]
      BY <1>3 DEF Subscribe, TypeInv, TypeOK
    <3> QED BY <1>2, <2>1, <3>1, BoundsAssumption DEF SellerInv, Subs
  <2> QED BY <2>4, <2>5, <2>6, <2>7, <2>8, <2>9 DEF SellerInv
<1>4. ASSUME ~\E p \in Plans : Subscribe(s, p) PROVE SellerInv'
  <2>1. PICK kind \in Kinds \ {"created"}, p \in Plans, st \in {"runs", "stopped"} :
          /\ Emit(kind, s, p, st) /\ latest' = latest
          /\ sub'[s].plan = p
          /\ sub'[s].state = "expired" <=> kind = "expired"
          /\ sub[s].state \in {"active", "cancelled"}
          /\ kind # "updated" \/ st # "runs" => p = sub[s].plan
          /\ \A t \in Subs \ {s} : sub'[t] = sub[t]
    <3>1. CASE \E p \in Plans : Update(s, p)
      <4>1. PICK p \in Plans : Update(s, p)
        BY <3>1
      <4>2. Emit("updated", s, p, "runs") /\ sub[s].state \in {"active", "cancelled"} /\ latest' = latest
            /\ sub' = [sub EXCEPT ![s] = [state |-> "active", plan |-> p]]
        BY <4>1 DEF Update
      <4>3. sub'[s] = [state |-> "active", plan |-> p] /\ \A t \in Subs \ {s} : sub'[t] = sub[t]
        BY <4>2 DEF TypeInv, TypeOK
      <4> QED BY <4>2, <4>3 DEF Kinds
    <3>2. CASE PaymentFails(s)
      <4>1. /\ Emit("payment_failed", s, sub[s].plan, "stopped") /\ sub[s].state = "active"
            /\ latest' = latest /\ sub' = sub
        BY <3>2 DEF PaymentFails
      <4> QED BY <1>2, <4>1 DEF Kinds
    <3>3. CASE CancelAtPeriodEnd(s)
      <4>1. /\ Emit("cancelled", s, sub[s].plan, "stopped") /\ sub[s].state = "active"
            /\ latest' = latest /\ sub' = [sub EXCEPT ![s].state = "cancelled"]
        BY <3>3 DEF CancelAtPeriodEnd
      <4>2. /\ sub'[s].state = "cancelled" /\ sub'[s].plan = sub[s].plan
            /\ \A t \in Subs \ {s} : sub'[t] = sub[t]
        BY <4>1 DEF TypeInv, TypeOK
      <4> QED BY <1>2, <4>1, <4>2 DEF Kinds
    <3>4. CASE Expire(s)
      <4>1. /\ Emit("expired", s, sub[s].plan, "stopped") /\ sub[s].state \in {"active", "cancelled"}
            /\ latest' = latest /\ sub' = [sub EXCEPT ![s].state = "expired"]
        BY <3>4 DEF Expire
      <4>2. /\ sub'[s].state = "expired" /\ sub'[s].plan = sub[s].plan
            /\ \A t \in Subs \ {s} : sub'[t] = sub[t]
        BY <4>1 DEF TypeInv, TypeOK
      <4> QED BY <1>2, <4>1, <4>2 DEF Kinds
    <3>5. CASE UpdateStopped(s)
      <4>1. /\ Emit("updated", s, sub[s].plan, "stopped") /\ sub[s].state \in {"active", "cancelled"}
            /\ latest' = latest /\ sub' = sub
        BY <3>5 DEF UpdateStopped
      <4> QED BY <1>2, <4>1 DEF Kinds
    <3> QED BY <1>1, <1>4, <3>1, <3>2, <3>3, <3>4, <3>5
  <2>2. PICK k \in Events :
          /\ Emitted' = Emitted \cup {k}
          /\ event'[k] = [kind |-> kind, sub |-> s, plan |-> p, status |-> st]
          /\ \A j \in Emitted : j < k /\ event'[j] = event[j]
          /\ \A j \in 1..(k - 1) : j \in Emitted
    <3>1. kind \in Kinds
      BY <2>1
    <3>2. Emit(kind, s, p, st)
      BY <2>1
    <3> QED BY <3>1, <3>2, EmittedLast
  <2>3. k \in Nat /\ k \notin Emitted
    BY <1>2, <2>2
  <2>4. s <= latest
    BY <2>1 DEF SellerInv
  <2>5. /\ \A t \in Subs : sub'[t].state # "none" => t <= latest'
        /\ \A j \in Emitted' : event'[j].sub <= latest'
        /\ \A i \in Emitted' : \A j \in 1..(i - 1) : j \in Emitted'
    BY <2>1, <2>2, <2>4 DEF SellerInv
  <2>6. latest # 0
    BY <1>2, <2>4
  <2>7. PICK c \in Own : First(c)
    BY <2>6 DEF SellerInv
  <2>8. PICK n \in Own : Final(n)
    BY <2>6 DEF SellerInv
  <2>9. Own \subseteq Own' /\ \A j \in Own : event'[j] = event[j] /\ j < k
    BY <1>2, <2>1, <2>2 DEF Own
  <2>10. Own' \subseteq Own \cup {k}
    BY <1>2, <2>1, <2>2 DEF Own
  <2>11. First(c)'
    <3>1. event'[c].kind = "created"
      BY <2>7, <2>9 DEF First
    <3>2. \A j \in Own' : c <= j
      <4>1. c \in Nat /\ k \in Nat /\ c < k /\ \A j \in Own : c <= j
        BY <1>2, <2>3, <2>7, <2>9 DEF First
      <4>2. \A j \in Own' : j \in Own \/ j = k
        BY <2>10
      <4>3. c <= k
        BY <4>1
      <4> QED BY <4>1, <4>2, <4>3
    <3>3. \A j \in Emitted' : j > c => event'[j].kind # "created"
      BY <2>1, <2>2, <2>7 DEF First
    <3> QED BY <3>1, <3>2, <3>3 DEF First
  <2>12. CASE s # latest
    <3>1. Own' = Own
      BY <1>2, <2>1, <2>2, <2>9, <2>10, <2>12 DEF Own
    <3>2. sub'[latest] = sub[latest]
      BY <1>2, <2>1, <2>6, <2>12 DEF TypeInv, TypeOK
    <3>3. Final(n)'
      BY <2>1, <2>8, <2>9, <3>1, <3>2 DEF Final
    <3>4. ChainInv'
      BY <2>9, <3>1 DEF SellerInv, ChainInv, Quiet
    <3> QED BY <2>5, <2>7, <2>8, <2>9, <2>11, <3>3, <3>4 DEF SellerInv
  <2>13. CASE s = latest
    <3>1. Own' = Own \cup {k}
      BY <2>1, <2>2, <2>9, <2>10, <2>13 DEF Own
    <3>2. Final(k)'
      <4>1. event'[k].kind = kind /\ event'[k].plan = p
        BY <2>2
      <4>2. \A j \in Own' : j <= k
        <5>1. k \in Nat /\ Own \subseteq Nat /\ \A j \in Own : j < k
          BY <1>2, <2>3, <2>9
        <5> QED BY <3>1, <5>1
      <4>3. sub'[latest'].plan = p /\ (sub'[latest'].state = "expired" <=> kind = "expired")
        BY <2>1, <2>13
      <4> QED BY <4>1, <4>2, <4>3 DEF Final
    <3>3. event[n].kind # "expired" /\ event[n].plan = sub[s].plan
      BY <2>1, <2>8, <2>13 DEF Final
    <3>4. ASSUME NEW i \in Own', NEW j \in Own', i < j
          PROVE  /\ event'[i].kind # "expired"
                 /\ Quiet(event[j])'
                      /\ (\A m \in Own' : ~(i < m /\ m < j)) => event'[j].plan = event'[i].plan
      <4>1. i \in Own
        BY <1>2, <2>3, <2>9, <3>1, <3>4
      <4>2. CASE j \in Own
        BY <2>9, <3>1, <3>4, <4>1, <4>2 DEF SellerInv, ChainInv, Quiet
      <4>3. CASE j = k
        <5>1. i <= n
          BY <2>8, <4>1 DEF Final
        <5>2. i < n => event[i].kind # "expired"
          BY <2>8, <4>1 DEF SellerInv, ChainInv
        <5>3. i = n \/ i < n
          BY <1>2, <4>1, <5>1
        <5>4. event'[i].kind # "expired"
          BY <2>9, <3>3, <4>1, <5>2, <5>3
        <5>5. i < n => ~(\A m \in Own' : ~(i < m /\ m < j))
          BY <2>9, <3>1, <4>3
        <5>6. Quiet(event[j])' => event'[j].plan = sub[s].plan
          BY <2>1, <2>2, <4>3 DEF Quiet
        <5> QED BY <2>9, <3>3, <4>1, <5>3, <5>4, <5>5, <5>6
      <4> QED BY <3>1, <4>2, <4>3
    <3>5. ChainInv'
      BY <3>4 DEF ChainInv
    <3> QED BY <2>5, <2>7, <2>9, <2>11, <3>1, <3>2, <3>5 DEF SellerInv
  <2> QED BY <2>12, <2>13
<1> QED BY <1>3, <1>4

\* While Lemon Squeezy emits, nothing is handled.
LEMMA SellerFollow ==
  ASSUME TypeInv, FollowInv, SellerStep, UNCHANGED overrides, raced' = (raced \/ Race)
  PROVE  FollowInv'
<1>1. SellerInv'
  BY SellerChain DEF FollowInv
<1>2. 1 \in Events /\ delivery[1] = "none"
      /\ UNCHANGED <<delivery, row, task, call, worker, user, cron, faults>>
  BY BoundsAssumption DEF SellerStep, Subscribe, Update, UpdateStopped, PaymentFails, CancelAtPeriodEnd, Expire, Emit, Events
<1>3. \A k \in Events : task[k].state = "none" /\ ~Started(k)
  BY <1>2 DEF FollowInv, QuietInv
<1>4. QuietInv'
  BY <1>2, <1>3 DEF FollowInv, QuietInv, Started
<1>5. \A w \in Workers : worker[w].pc = "idle"
  BY <1>3 DEF TypeInv, OrderInv, Emitted
<1>6. ~raced' => ~raced
  OBVIOUS
<1>7. ~raced => TurnInv'
  BY <1>2, <1>3, <1>5 DEF FollowInv, TurnInv, Busy, Started, Over
<1>8. ~raced => UserInv'
  <2> SUFFICES ASSUME ~raced PROVE UserInv'
    OBVIOUS
  <2>1. \A k \in Events : row[k] # "processed"
    BY <1>3 DEF FollowInv, TurnInv
  <2>2. ASSUME NEW j \in Own' PROVE event'[j].kind = "created" \/ ~Due(j)'
    <3>1. event'[j].sub = latest' /\ j \in Emitted'
      BY DEF Own
    <3>2. TypeInv'
      <4>1. raced' \in BOOLEAN
        BY ZenonT(30)
      <4> QED BY <4>1, SellerTyped
    <3>3. latest' # 0
      BY <3>1, <3>2, BoundsAssumption DEF TypeInv, EventInv, Subs
    <3>4. PICK c \in Own' : First(c)'
      BY <1>1, <3>3 DEF SellerInv
    <3>5. c <= j /\ c \in Events /\ j \in Events
      BY <3>4 DEF First, Own, Emitted
    <3>6. c = j \/ c < j
      BY <3>5, BoundsAssumption DEF Events
    <3>7. c < j => ~Due(j)'
      BY <1>2, <2>1, <3>4, <3>5 DEF Due
    <3> QED BY <3>4, <3>6, <3>7 DEF First
  <2>3. Own' \subseteq Events
    BY DEF Own, Emitted
  <2> QED BY <1>2, <1>5, <2>1, <2>2, <2>3 DEF UserInv
<1> QED BY <1>1, <1>4, <1>6, <1>7, <1>8 DEF FollowInv
\* Lemon Squeezy's invariant only speaks of Lemon Squeezy.
LEMMA ChainKept ==
  ASSUME SellerInv, UNCHANGED <<sub, latest, event>>
  PROVE  SellerInv'
BY DEF SellerInv, ChainInv, First, Final, Own, Emitted, Quiet

\* A step that marks nothing as processed, loses no trace of a taken event, and does
\* not take from the user what showed, keeps the handlers' invariant.
LEMMA UserKept ==
  ASSUME TypeInv, UserInv, UNCHANGED <<latest, event>>, user'.sub = user.sub,
         \A k \in Own : Reflects(k) => Reflects(k)',
         \A k \in Own : row'[k] = "processed" => row[k] = "processed",
         \A k \in Own : Started(k) => Started(k)',
         \A w \in Workers : worker'[w].pc = "mark" =>
            worker[w].pc = "mark" /\ worker'[w].event = worker[w].event,
         \A w \in Workers : worker'[w].pc = "write" => Addressed(event[worker'[w].event])
  PROVE  UserInv'
<1>1. Own' = Own
  BY DEF Own, Emitted
<1>2. \A j \in Own : Due(j)' => Due(j)
  BY <1>1 DEF Due
<1>3. ASSUME NEW j \in Own, Due(j)'
      PROVE  /\ row'[j] = "processed" => Reflects(j)'
             /\ \A w \in Workers : worker'[w].pc = "mark" /\ worker'[w].event = j => Reflects(j)'
             /\ event'[j].kind = "created" \/ Reflects(j)'
                  \/ \E i \in Own' : /\ i < j /\ \A m \in Own' : ~(i < m /\ m < j)
                                     /\ Reflects(i)'
  <2>1. Due(j)
    BY <1>2, <1>3
  <2> QED BY <1>1, <2>1 DEF UserInv
<1>4. \A w \in Workers : worker'[w].pc = "write" => Addressed(event[worker[w].event])'
  BY DEF Addressed
<1> QED BY <1>1, <1>3, <1>4 DEF UserInv

\* A request changes nothing for the handlers.
LEMMA WebhookFollow ==
  ASSUME TypeInv, FollowInv, NEW c \in Calls, WebhookStep(c), raced' = (raced \/ Race)
  PROVE  FollowInv'
<1>1. UNCHANGED <<sub, latest, event, worker, user, cron>>
  BY DEF WebhookStep, Deliver, PersistWebhookEvent, Enqueue, WebhookThrows
<1>2. SellerInv'
  BY <1>1, ChainKept DEF FollowInv
<1>3. \A k \in Events : /\ task'[k].throws = task[k].throws /\ task'[k].stalls = task[k].stalls
                        /\ \/ task'[k].state = task[k].state
                           \/ task[k].state = "none" /\ task'[k].state = "waiting"
  <2>1. task \in [Events -> TaskType]
    BY DEF TypeInv, TypeOK, TaskType
  <2>2. task' = task \/ task' = [task EXCEPT ![call[c].event].state = IF @ = "none" THEN "waiting" ELSE @]
    BY DEF WebhookStep, Deliver, PersistWebhookEvent, Enqueue, WebhookThrows
  <2> QED BY <2>1, <2>2 DEF TaskType
<1>4. \A k \in Events : Started(k)' <=> Started(k)
  BY <1>3 DEF Started
<1>5. \A k \in Events : row'[k] = row[k] \/ (row[k] = "absent" /\ row'[k] = "new")
  <2>1. CASE row' = row
    BY <2>1
  <2>2. CASE PersistWebhookEvent(c)
    BY <2>2 DEF PersistWebhookEvent, IsNew, TypeInv, TypeOK
  <2> QED BY <2>1, <2>2 DEF WebhookStep, Deliver, Enqueue, WebhookThrows
<1>6. QuietInv'
  <2>1. \A k \in Events : task'[k].state = "none" => ~Started(k)'
    BY <1>3, <1>4 DEF FollowInv, QuietInv
  <2>2. ASSUME 1 \in Events, delivery'[1] = "none"
        PROVE  /\ \A d \in Calls : call'[d].pc = "idle"
               /\ \A k \in Events : task'[k].state = "none"
    <3>1. delivery[1] = "none"
      BY <2>2 DEF WebhookStep, Deliver, PersistWebhookEvent, Enqueue, WebhookThrows, Answer, TypeInv, TypeOK
    <3>2. /\ \A d \in Calls : call[d].pc = "idle"
          /\ \A k \in Events : task[k].state = "none"
      BY <2>2, <3>1 DEF FollowInv, QuietInv
    <3>3. PICK k \in Events : Deliver(c, k)
      BY <3>2 DEF WebhookStep, PersistWebhookEvent, Enqueue, WebhookThrows
    <3>4. k = 1
      <4>1. 1 \notin 1..(k - 1)
        BY <3>1, <3>3 DEF Deliver
      <4> QED BY <4>1, BoundsAssumption DEF Events
    <3>5. delivery'[1] # "none"
      BY <2>2, <3>1, <3>3, <3>4 DEF Deliver, TypeInv, TypeOK
    <3> QED BY <2>2, <3>5
  <2> QED BY <2>1, <2>2 DEF QuietInv
<1>7. TurnInv => TurnInv'
  <2> SUFFICES ASSUME TurnInv PROVE TurnInv'
    OBVIOUS
  <2>1. \A k \in Events : Over(k)' <=> Over(k)
    BY <1>3 DEF Over
  <2>2. \A w \in Workers : Busy(w)' <=> Busy(w)
    BY <1>1 DEF Busy
  <2>3. \A k \in Events : Started(k)' => \A j \in 1..(k - 1) : Over(j)'
    <3>1. \A k \in Events : \A j \in 1..(k - 1) : j \in Events
      BY BoundsAssumption DEF Events
    <3> QED BY <1>4, <2>1, <3>1 DEF TurnInv
  <2>4. \A w \in Workers : Busy(w) => worker[w].event \in Events
    BY DEF Busy, TypeInv, OrderInv, Emitted
  <2>5. \A w \in Workers : Busy(w)' =>
          /\ Started(worker[w].event)' /\ task'[worker[w].event].state # "done"
          /\ \A j \in Events : j > worker[w].event => ~Started(j)'
    <3> SUFFICES ASSUME NEW w \in Workers, Busy(w)
                 PROVE  /\ Started(worker[w].event)' /\ task'[worker[w].event].state # "done"
                        /\ \A j \in Events : j > worker[w].event => ~Started(j)'
      BY <2>2
    <3> DEFINE e == worker[w].event
    <3>1. worker'[w].event = e /\ e \in Events
      BY <1>1, <2>4
    <3>2. Started(e) /\ task[e].state # "done" /\ \A j \in Events : j > e => ~Started(j)
      BY DEF TurnInv
    <3>3. Started(e)'
      BY <1>3, <3>1, <3>2 DEF Started
    <3> QED BY <1>1, <1>3, <1>4, <3>1, <3>2, <3>3
  <2>6. \A k \in Events : /\ task'[k].state = "done" => row'[k] = "processed"
                          /\ row'[k] = "processed" => Started(k)'
    BY <1>3, <1>4, <1>5 DEF TurnInv
  <2> QED BY <1>1, <2>2, <2>3, <2>5, <2>6 DEF TurnInv
<1>8. UserInv => UserInv'
  <2>1. Own \subseteq Events
    BY DEF Own, Emitted
  <2>2. user' = user /\ \A k \in Own : Reflects(k) => Reflects(k)'
    BY <1>1 DEF Reflects
  <2>3. \A k \in Own : row'[k] = "processed" => row[k] = "processed"
    BY <1>5, <2>1
  <2>4. \A k \in Own : Started(k) => Started(k)'
    BY <1>4, <2>1
  <2>5. UserInv => \A w \in Workers : worker'[w].pc = "write" => Addressed(event[worker'[w].event])
    BY <1>1 DEF UserInv
  <2> QED BY <1>1, <2>2, <2>3, <2>4, <2>5, UserKept
<1> QED BY <1>2, <1>6, <1>7, <1>8 DEF FollowInv
------------------------------------------------------------------------------
\* The event in a worker's hands.
LEMMA InHand ==
  ASSUME TypeInv, NEW w \in Workers, Busy(w)
  PROVE  worker[w].event \in Events /\ worker[w].event \in Emitted
BY DEF Busy, TypeInv, OrderInv, Emitted

\* A step of the queue that leaves every queued event queued keeps the quiet: nothing
\* was queued before the first delivery.
LEMMA QuietKept ==
  ASSUME QuietInv, UNCHANGED <<delivery, call>>,
         \A k \in Events : task[k].state = "none" => task'[k] = task[k],
         \A k \in Events : task'[k].state = "none" => task[k].state = "none"
  PROVE  QuietInv'
<1>1. \A k \in Events : task'[k].state = "none" => ~Started(k)'
  BY DEF QuietInv, Started
<1> QED BY <1>1 DEF QuietInv

\* A handler that goes on to its next step keeps the turns.
LEMMA ProceedTurn ==
  ASSUME TypeInv, TurnInv, NEW w \in Workers, Busy(w), NEW pc, Proceed(w, pc),
         UNCHANGED <<task, row>>
  PROVE  TurnInv'
<1>1. /\ \A v \in Workers : worker'[v].event = worker[v].event
      /\ \A v \in Workers \ {w} : worker'[v] = worker[v]
  BY DEF Proceed, TypeInv, TypeOK
<1>2. \A k \in Events : (Started(k)' <=> Started(k)) /\ (Over(k)' <=> Over(k))
  BY DEF Started, Over
<1>3. \A v \in Workers : Busy(v)' => Busy(v)
  BY <1>1 DEF Busy
<1>4. \A v \in Workers : Busy(v)' =>
        /\ Started(worker[v].event) /\ task[worker[v].event].state # "done"
        /\ \A j \in Events : j > worker[v].event => ~Started(j)
  BY <1>3 DEF TurnInv
<1>5. \A v \in Workers : Busy(v)' =>
        /\ Started(worker[v].event)' /\ task'[worker'[v].event].state # "done"
        /\ \A j \in Events : j > worker'[v].event => ~Started(j)'
  <2>1. \A v \in Workers : Started(worker[v].event) => Started(worker[v].event)'
    BY <1>1 DEF Started
  <2> QED BY <1>1, <1>2, <1>4, <2>1
<1>6. \A k \in Events : Started(k)' => \A j \in 1..(k - 1) : Over(j)'
  <2>1. \A k \in Events : \A j \in 1..(k - 1) : j \in Events
    BY BoundsAssumption DEF Events
  <2> QED BY <1>2, <2>1 DEF TurnInv
<1> QED BY <1>2, <1>3, <1>5, <1>6 DEF TurnInv

\* A handler that ends leaves no worker busy; its event counts as taken for good, and
\* as done only when it is processed.
LEMMA EndTurn ==
  ASSUME TypeInv, TurnInv, NEW w \in Workers, Busy(w), NEW k \in Events, k = worker[w].event,
         (Finish(w) /\ row'[k] = "processed") \/ Rethrow(w),
         \A j \in Events : row'[j] = "processed" => row[j] = "processed" \/ j = k,
         \A j \in Events \ {k} : row'[j] = row[j]
  PROVE  /\ TurnInv' /\ \A v \in Workers : worker'[v].pc = "idle"
         /\ \A j \in Events : Started(j)' <=> Started(j)
<1>1. task \in [Events -> TaskType] /\ worker \in [Workers -> WorkerType]
  BY DEF TypeInv, TypeOK, TaskType, WorkerType
<1>2. worker' = [worker EXCEPT ![w] = IdleWorker]
  BY DEF Finish, Rethrow
<1>3. \A v \in Workers : worker'[v].pc = "idle"
  BY <1>1, <1>2 DEF TurnInv, Busy, IdleWorker
<1>4. Started(k) /\ task[k].state \notin {"none", "done"}
  BY DEF TurnInv, TypeInv, OrderInv, Busy
<1>5. \A j \in Events \ {k} : task'[j] = task[j]
  BY <1>1 DEF Finish, Rethrow
<1>6. \/ task' = task /\ ~worker[w].locked
      \/ worker[w].locked /\ Finish(w) /\ task'[k].state = "done"
      \/ worker[w].locked /\ Rethrow(w) /\ task'[k].throws > 0 /\ task'[k].state \in {"waiting", "failed"}
  <2>1. CASE ~worker[w].locked
    BY <1>1, <2>1 DEF Finish, Rethrow, TaskType
  <2>2. CASE worker[w].locked /\ Finish(w)
    BY <1>1, <2>2 DEF Finish, TaskType
  <2>3. CASE worker[w].locked /\ Rethrow(w)
    BY <1>1, <2>3 DEF Rethrow, TaskType, MaxAttempts
  <2> QED BY <2>1, <2>2, <2>3
<1>7. Started(k)'
  BY <1>4, <1>6 DEF Started
<1>8. \A j \in Events : Started(j)' <=> Started(j)
  BY <1>4, <1>5, <1>7 DEF Started
<1>9. worker[w].locked => task[k].state = "active"
  BY DEF TypeInv, LockInv
<1>10. Over(k) => Over(k)'
  <2> SUFFICES ASSUME Over(k) PROVE Over(k)'
    OBVIOUS
  <2>1. task[k].state = "failed" /\ ~worker[w].locked
    BY <1>4, <1>9 DEF Over
  <2> QED BY <1>6, <2>1 DEF Over
<1>11. \A j \in Events : Over(j) => Over(j)'
  BY <1>5, <1>10 DEF Over
<1>12. \A i \in Events : Started(i)' => \A j \in 1..(i - 1) : Over(j)'
  <2>1. \A i \in Events : \A j \in 1..(i - 1) : j \in Events
    BY BoundsAssumption DEF Events
  <2> QED BY <1>8, <1>11, <2>1 DEF TurnInv
<1>13. \A j \in Events : /\ task'[j].state = "done" => row'[j] = "processed"
                         /\ row'[j] = "processed" => Started(j)'
  <2>1. task'[k].state = "done" => row'[k] = "processed"
    <3>1. CASE Rethrow(w)
      <4>1. worker[w].locked => task'[k].state \in {"waiting", "failed"}
        BY <1>1, <3>1 DEF Rethrow, TaskType, MaxAttempts
      <4> QED BY <1>4, <1>6, <4>1
    <3> QED BY <3>1
  <2>2. \A j \in Events \ {k} : task'[j].state = "done" => row'[j] = "processed"
    BY <1>5 DEF TurnInv
  <2>3. \A j \in Events : row'[j] = "processed" => Started(j)
    BY <1>4 DEF TurnInv
  <2> QED BY <1>8, <2>1, <2>2, <2>3
<1>14. \A v \in Workers : ~Busy(v)'
  BY <1>3 DEF Busy
<1>15. TurnInv'
  BY <1>12, <1>13, <1>14 DEF TurnInv
<1> QED BY <1>3, <1>8, <1>15

\* A worker that takes an event, with no race, takes the next one.
LEMMA TakeFollow ==
  ASSUME TypeInv, FollowInv, NEW w \in Workers, NEW k \in Events, Take(w, k),
         raced' = (raced \/ Race)
  PROVE  FollowInv'
<1>1. UNCHANGED <<sub, latest, event, delivery, row, call, user, cron>>
      /\ worker[w].pc = "idle" /\ task[k].state = "waiting"
  BY DEF Take
<1>2. SellerInv'
  BY <1>1, ChainKept DEF FollowInv
<1>3. /\ worker'[w].pc = "findEvent" /\ worker'[w].event = k
      /\ \A v \in Workers \ {w} : worker'[v] = worker[v]
  BY DEF Take, TypeInv, TypeOK
<1>4. /\ \A j \in Events \ {k} : task'[j] = task[j]
      /\ task'[k].state = "active"
  BY DEF Take, TypeInv, TypeOK
<1>5. QuietInv'
  BY <1>1, <1>4, QuietKept DEF FollowInv
<1>6. CASE raced'
  BY <1>2, <1>5, <1>6 DEF FollowInv
<1>7. CASE ~raced'
  <2>1. ~raced /\ ~Race
    BY <1>7
  <2>2. /\ TurnInv /\ UserInv
        /\ \A v \in Workers \ {w} : worker[v].pc = "idle"
        /\ \A j \in 1..(k - 1) : Over(j)
    BY <1>1, <1>3, <2>1 DEF FollowInv, Race, Over
  <2>3. Started(k)' /\ \A j \in Events \ {k} : (Started(j)' <=> Started(j)) /\ (Over(j)' <=> Over(j))
    BY <1>4 DEF Started, Over
  <2>4. ~Over(k)
    BY <1>1 DEF Over
  <2>5. \A j \in Events : j > k => ~Started(j)
    <3>1. \A j \in Events : j > k => k \in 1..(j - 1)
      BY BoundsAssumption DEF Events
    <3> QED BY <2>2, <2>4, <3>1 DEF TurnInv
  <2>6. \A v \in Workers : Busy(v)' => v = w
    BY <1>3, <2>2 DEF Busy
  <2>7. \A i \in Events : Started(i)' => \A j \in 1..(i - 1) : Over(j)'
    <3>1. \A i \in Events : \A j \in 1..(i - 1) : j \in Events /\ i > j
      BY BoundsAssumption DEF Events
    <3>2. \A i \in Events : Started(i) => \A j \in 1..(i - 1) : Over(j) /\ j # k
      BY <2>2, <2>4 DEF TurnInv
    <3>3. k \notin 1..(k - 1)
      BY BoundsAssumption DEF Events
    <3> QED BY <2>2, <2>3, <3>1, <3>2, <3>3
  <2>8. \A j \in Events : j > k => ~Started(j)'
    <3>1. ~(k > k)
      BY BoundsAssumption DEF Events
    <3> QED BY <2>3, <2>5, <3>1
  <2>9. \A v \in Workers : Busy(v)' =>
          /\ Started(worker[v].event)' /\ task'[worker'[v].event].state # "done"
          /\ \A j \in Events : j > worker'[v].event => ~Started(j)'
    <3>1. Started(worker[w].event)'
      BY <1>3, <1>4 DEF Started
    <3> QED BY <1>3, <1>4, <2>6, <2>8, <3>1
  <2>10. \A j \in Events : /\ task'[j].state = "done" => row'[j] = "processed"
                           /\ row'[j] = "processed" => Started(j)'
    BY <1>1, <1>4, <2>2, <2>3 DEF TurnInv
  <2>11. TurnInv'
    BY <2>6, <2>7, <2>9, <2>10 DEF TurnInv
  <2>12. /\ \A j \in Own : Reflects(j) => Reflects(j)'
         /\ \A j \in Own : Started(j) => Started(j)'
    BY <1>1, <2>3 DEF Reflects, Own, Emitted
  <2>13. \A v \in Workers : worker'[v].pc \notin {"mark", "write"}
    BY <1>3, <2>2
  <2>14. UserInv'
    BY <1>1, <2>2, <2>12, <2>13, UserKept
  <2> QED BY <1>2, <1>5, <2>11, <2>14 DEF FollowInv
<1> QED BY <1>6, <1>7

\* A worker that dies leaves its event taken.
LEMMA CrashFollow ==
  ASSUME TypeInv, FollowInv, NEW w \in Workers, Crash(w), raced' = (raced \/ Race)
  PROVE  FollowInv'
<1>1. UNCHANGED <<sub, latest, event, delivery, row, task, call, user, cron>>
      /\ worker' = [worker EXCEPT ![w] = IdleWorker]
  BY DEF Crash
<1>2. SellerInv' /\ QuietInv'
  BY <1>1, ChainKept, QuietKept DEF FollowInv
<1>3. worker'[w].pc = "idle" /\ \A v \in Workers \ {w} : worker'[v] = worker[v]
  BY <1>1 DEF TypeInv, TypeOK, IdleWorker
<1>4. \A k \in Events : (Started(k)' <=> Started(k)) /\ (Over(k)' <=> Over(k))
  BY <1>1 DEF Started, Over
<1>5. TurnInv => TurnInv'
  <2> SUFFICES ASSUME TurnInv PROVE TurnInv'
    OBVIOUS
  <2>1. \A v \in Workers : Busy(v)' => Busy(v) /\ worker'[v] = worker[v]
    BY <1>3 DEF Busy
  <2>2. \A v \in Workers : Busy(v)' =>
          /\ Started(worker[v].event)' /\ task'[worker'[v].event].state # "done"
          /\ \A j \in Events : j > worker'[v].event => ~Started(j)'
    <3>1. \A v \in Workers : Busy(v)' => Started(worker[v].event)'
      BY <1>1, <2>1 DEF Started, TurnInv
    <3> QED BY <1>1, <1>4, <2>1, <3>1 DEF TurnInv
  <2>3. \A k \in Events : Started(k)' => \A j \in 1..(k - 1) : Over(j)'
    <3>1. \A k \in Events : \A j \in 1..(k - 1) : j \in Events
      BY BoundsAssumption DEF Events
    <3> QED BY <1>4, <3>1 DEF TurnInv
  <2> QED BY <1>1, <1>4, <2>1, <2>2, <2>3 DEF TurnInv
<1>6. UserInv => UserInv'
  <2>1. /\ \A j \in Own : Reflects(j) => Reflects(j)'
        /\ \A j \in Own : Started(j) => Started(j)'
    BY <1>1, <1>4 DEF Reflects, Own, Emitted
  <2>2. \A v \in Workers : worker'[v].pc # "idle" => worker'[v] = worker[v]
    BY <1>3
  <2>3. UserInv => \A v \in Workers : worker'[v].pc = "write" => Addressed(event[worker'[v].event])
    BY <2>2 DEF UserInv
  <2> QED BY <1>1, <2>1, <2>2, <2>3, UserKept
<1> QED BY <1>2, <1>5, <1>6 DEF FollowInv

\* A stalled event was taken, and is not over before its last rerun.
LEMMA StalledFollow ==
  ASSUME TypeInv, FollowInv, NEW k \in Events, Stalled(k), raced' = (raced \/ Race)
  PROVE  FollowInv'
<1>1. UNCHANGED <<sub, latest, event, delivery, row, call, user, cron>> /\ task[k].state = "active"
  BY DEF Stalled
<1>2. /\ \A j \in Events \ {k} : task'[j] = task[j]
      /\ task'[k].stalls = task[k].stalls + 1 /\ task'[k].state \in {"waiting", "failed"}
  BY DEF Stalled, TypeInv, TypeOK
<1>3. \A w \in Workers : worker'[w].pc = worker[w].pc /\ worker'[w].event = worker[w].event
  BY DEF Stalled, TypeInv, TypeOK
<1>4. SellerInv' /\ QuietInv'
  BY <1>1, <1>2, ChainKept, QuietKept DEF FollowInv
<1>5. task[k].stalls \in Nat
  BY DEF TypeInv, TypeOK
<1>6. Started(k) /\ Started(k)' /\ ~Over(k)
  BY <1>1, <1>2, <1>5 DEF Started, Over
<1>7. \A j \in Events : (Started(j)' <=> Started(j)) /\ (Over(j) => Over(j)')
  BY <1>2, <1>6 DEF Started, Over
<1>8. TurnInv => TurnInv'
  <2> SUFFICES ASSUME TurnInv PROVE TurnInv'
    OBVIOUS
  <2>1. \A v \in Workers : (Busy(v)' <=> Busy(v)) /\ (Busy(v) => worker[v].event \in Events)
    BY <1>3, InHand DEF Busy
  <2>2. ASSUME NEW v \in Workers, Busy(v)'
        PROVE  /\ Started(worker[v].event)' /\ task'[worker'[v].event].state # "done"
               /\ \A j \in Events : j > worker'[v].event => ~Started(j)'
    <3>1. PICK e \in Events : e = worker[v].event
      BY <2>1, <2>2
    <3>2. Started(e) /\ task[e].state # "done" /\ \A j \in Events : j > e => ~Started(j)
      BY <2>1, <2>2, <3>1 DEF TurnInv, Started
    <3>3. worker'[v].event = e
      BY <1>3, <3>1
    <3>4. Started(e)'
      BY <1>7, <3>2
    <3>5. Started(worker[v].event)'
      BY <3>3, <3>4 DEF Started
    <3> QED BY <1>2, <1>7, <3>2, <3>3, <3>5
  <2>3. \A i \in Events : Started(i)' => \A j \in 1..(i - 1) : Over(j)'
    <3>1. \A i \in Events : \A j \in 1..(i - 1) : j \in Events
      BY BoundsAssumption DEF Events
    <3> QED BY <1>7, <3>1 DEF TurnInv
  <2>4. \A j \in Events : /\ task'[j].state = "done" => row'[j] = "processed"
                          /\ row'[j] = "processed" => Started(j)'
    BY <1>1, <1>2, <1>7 DEF TurnInv
  <2> QED BY <2>1, <2>2, <2>3, <2>4 DEF TurnInv
<1>9. UserInv => UserInv'
  <2>1. /\ \A j \in Own : Reflects(j) => Reflects(j)'
        /\ \A j \in Own : Started(j) => Started(j)'
    BY <1>1, <1>7 DEF Reflects, Own, Emitted
  <2>2. UserInv => \A v \in Workers : worker'[v].pc = "write" => Addressed(event[worker'[v].event])
    BY <1>3 DEF UserInv
  <2> QED BY <1>1, <1>3, <2>1, <2>2, UserKept
<1> QED BY <1>4, <1>8, <1>9 DEF FollowInv

\* The cron takes the plan only from who has no subscription.
LEMMA CronFollow ==
  ASSUME TypeInv, PlanInv, FollowInv, FindTrial \/ EndTrial, raced' = (raced \/ Race)
  PROVE  FollowInv'
<1>1. UNCHANGED <<sub, latest, event, delivery, row, task, call, worker>>
  BY DEF FindTrial, EndTrial
<1>2. SellerInv' /\ QuietInv'
  BY <1>1, ChainKept, QuietKept DEF FollowInv
<1>3. \A k \in Events : (Started(k)' <=> Started(k)) /\ (Over(k)' <=> Over(k))
  BY <1>1 DEF Started, Over
<1>4. TurnInv => TurnInv'
  BY <1>1 DEF TurnInv, Busy, Started, Over
<1>5. ~raced /\ UserInv => UserInv'
  <2> SUFFICES ASSUME ~raced, UserInv PROVE UserInv'
    OBVIOUS
  <2>1. /\ user'.sub = user.sub /\ user'.by = user.by
        /\ user' = user \/ (user.sub = 0 /\ user'.plan = "FREE")
    BY DEF FindTrial, EndTrial, PlanInv, TypeInv, TypeOK
  <2>2. \A j \in Own : event[j].sub = latest /\ latest # 0
    BY BoundsAssumption DEF Own, TypeInv, EventInv, Subs
  <2>3. \A j \in Own : Reflects(j) => Reflects(j)'
    BY <1>1, <2>1, <2>2 DEF Reflects
  <2>4. \A j \in Own : Started(j) => Started(j)'
    BY <1>3 DEF Own, Emitted
  <2>5. \A v \in Workers : worker'[v].pc = "write" => Addressed(event[worker'[v].event])
    BY <1>1 DEF UserInv
  <2> QED BY <1>1, <2>1, <2>3, <2>4, <2>5, UserKept
<1> QED BY <1>2, <1>4, <1>5 DEF FollowInv

\* What a deletion or an admin writes leaves the subscription with the user.
LEMMA AdminFollow ==
  ASSUME TypeInv, FollowInv, AdminStep, raced' = (raced \/ Race)
  PROVE  FollowInv'
<1>1. UNCHANGED <<sub, latest, event, delivery, row, task, call, worker, cron>>
  BY DEF AdminStep, CloseAccount, ReopenAccount, SetPlan
<1>2. SellerInv' /\ QuietInv'
  BY <1>1, ChainKept, QuietKept DEF FollowInv
<1>3. \A k \in Events : (Started(k)' <=> Started(k)) /\ (Over(k)' <=> Over(k))
  BY <1>1 DEF Started, Over
<1>4. TurnInv => TurnInv'
  BY <1>1 DEF TurnInv, Busy, Started, Over
<1>5. UserInv => UserInv'
  <2> SUFFICES ASSUME UserInv PROVE UserInv'
    OBVIOUS
  <2>1. user'.sub = user.sub /\ (user'.by = "hand" \/ (user'.plan = user.plan /\ user'.by = user.by))
    <3>1. user \in UserType
      BY DEF TypeInv, TypeOK, UserType
    <3> QED BY <3>1 DEF AdminStep, CloseAccount, ReopenAccount, SetPlan, UserType
  <2>2. \A j \in Own : Reflects(j) => Reflects(j)'
    BY <1>1, <2>1 DEF Reflects
  <2>3. \A j \in Own : Started(j) => Started(j)'
    BY <1>3 DEF Own, Emitted
  <2>4. \A v \in Workers : worker'[v].pc = "write" => Addressed(event[worker'[v].event])
    BY <1>1 DEF UserInv
  <2> QED BY <1>1, <2>1, <2>2, <2>3, <2>4, UserKept
<1> QED BY <1>2, <1>4, <1>5 DEF FollowInv

\* Once the first event of the subscription opened last is processed, whose state shows
\* belongs to that subscription or to none: an older one's event finds nobody.
LEMMA OlderFindNobody ==
  ASSUME TypeInv, SellerInv, TurnInv, NEW w \in Workers, Busy(w),
         worker[w].event \notin Own, Addressed(event[worker[w].event]),
         NEW j \in Own, Due(j), row[j] = "processed" \/ event[j].kind # "created",
         NEW i \in Own, Reflects(i)
  PROVE  FALSE
<1>1. PICK k \in Events : k = worker[w].event /\ k \in Emitted
  BY InHand
<1>2. event[j].sub = latest /\ latest \in Nat /\ latest # 0 /\ Own \subseteq Events /\ Own \subseteq Emitted
  BY BoundsAssumption DEF Own, Emitted, TypeInv, EventInv, Subs
<1>3. PICK c \in Own : First(c)
  BY <1>2 DEF SellerInv
<1>4. c \in Nat /\ j \in Nat /\ k \in Nat
  <2>1. c \in Events /\ j \in Events
    BY <1>2
  <2>2. MaxEvents \in Nat
    BY BoundsAssumption
  <2> QED BY <2>1, <2>2 DEF Events
<1>5. row[c] = "processed"
  <2>1. c = j \/ c < j
    BY <1>3, <1>4 DEF First
  <2>2. c < j => row[c] = "processed"
    BY DEF Due
  <2>3. c = j => row[c] = "processed"
    BY <1>3 DEF First
  <2> QED BY <2>1, <2>2, <2>3
<1>6. Started(c)
  BY <1>2, <1>5 DEF TurnInv
<1>7. ~(c > k)
  BY <1>1, <1>2, <1>6 DEF TurnInv
<1>8. k > c
  BY <1>1, <1>4, <1>7
<1>9. event[k].kind # "created"
  BY <1>1, <1>3, <1>8 DEF First
<1>10. user.sub = event[k].sub
  BY <1>1, <1>9 DEF Addressed
<1>11. event[k].sub # 0 /\ event[k].sub # latest
  BY <1>1, BoundsAssumption DEF Own, TypeInv, EventInv, Subs
<1>12. user.sub = 0 \/ user.sub = latest
  BY DEF Reflects
<1> QED BY <1>10, <1>11, <1>12

\* Between two events of the subscription opened last that are under way and next,
\* there is none: it would have been taken after the one under way.
LEMMA NoneBetween ==
  ASSUME TypeInv, TurnInv, NEW w \in Workers, Busy(w), NEW k \in Own, k = worker[w].event,
         NEW j \in Own, \A m \in Own : k < m /\ m < j => row[m] = "processed"
  PROVE  \A m \in Own : ~(k < m /\ m < j)
<1>1. Own \subseteq Events /\ Events \subseteq Nat
  BY BoundsAssumption DEF Own, Emitted, Events
<1>2. \A m \in Own : row[m] = "processed" => Started(m)
  BY <1>1 DEF TurnInv
<1>3. \A m \in Own : m > k => ~Started(m)
  BY <1>1 DEF TurnInv
<1> QED BY <1>1, <1>2, <1>3

\* What is written shows: the event under way, when those before it are processed.
LEMMA WriteShows ==
  ASSUME TypeInv, SellerInv, TurnInv, UserInv, NEW w \in Workers, Busy(w), NEW k \in Own,
         k = worker[w].event, user' = After(user, event[k]), UNCHANGED <<latest, event>>,
         \A i \in Own : i < k => row[i] = "processed"
  PROVE  Reflects(k)'
<1> DEFINE e == event[k]
<1>1. Own \subseteq Events /\ Own \subseteq Emitted /\ k \in Events /\ k \in Emitted
  BY DEF Own, Emitted
<1>2. e.kind \in Kinds /\ e.sub = latest
  BY <1>1 DEF Own, TypeInv, EventInv
<1>3. user \in UserType
  BY DEF TypeInv, TypeOK, UserType
<1>4. Due(k)
  BY <1>1 DEF Due, TurnInv
<1>5. event'[k] = e /\ latest' = latest
  OBVIOUS
<1>6. e.kind = "created" \/ Reflects(k)
        \/ \E i \in Own : /\ i < k /\ \A m \in Own : ~(i < m /\ m < k)
                          /\ Reflects(i)
  BY <1>4 DEF UserInv
<1>7. e.kind # "created" /\ e.kind # "expired" =>
        user.sub = latest /\ (~Quiet(e) \/ user.by = "hand" \/ user.plan = e.plan)
  <2> SUFFICES ASSUME e.kind # "created", e.kind # "expired"
               PROVE  user.sub = latest /\ (~Quiet(e) \/ user.by = "hand" \/ user.plan = e.plan)
    OBVIOUS
  <2>1. CASE Reflects(k)
    BY <2>1 DEF Reflects
  <2>2. ASSUME NEW i \in Own, i < k, \A m \in Own : ~(i < m /\ m < k), Reflects(i)
        PROVE  user.sub = latest /\ (~Quiet(e) \/ user.by = "hand" \/ user.plan = e.plan)
    <3>1. event[i].kind # "expired"
      BY <2>2 DEF SellerInv, ChainInv
    <3>2. user.sub = latest /\ (user.by = "hand" \/ user.plan = event[i].plan)
      BY <2>2, <3>1 DEF Reflects
    <3>3. Quiet(e) => e.plan = event[i].plan
      BY <2>2 DEF SellerInv, ChainInv
    <3> QED BY <3>2, <3>3
  <2> QED BY <1>6, <2>1, <2>2
<1> HIDE DEF e
<1>8. user' = After(user, e)
  BY DEF e
<1>9. CASE e.kind = "created"
  BY <1>2, <1>3, <1>5, <1>8, <1>9 DEF After, Reflects, UserType
<1>10. CASE e.kind = "updated" /\ e.status = "runs"
  BY <1>2, <1>3, <1>5, <1>7, <1>8, <1>10 DEF After, Reflects, UserType
<1>11. CASE Quiet(e)
  <2>1. user'.sub = user.sub /\ user'.plan = user.plan /\ user'.by = user.by
    BY <1>3, <1>8, <1>11 DEF After, Quiet, UserType
  <2>2. e.kind # "created" /\ e.kind # "expired"
    BY <1>11 DEF Quiet
  <2> QED BY <1>5, <1>7, <1>11, <2>1, <2>2 DEF Reflects
<1>12. CASE e.kind = "expired"
  BY <1>3, <1>5, <1>8, <1>12 DEF After, Reflects, UserType
<1> QED BY <1>2, <1>9, <1>10, <1>11, <1>12 DEF Kinds, Quiet

\* The handler writes the user.
LEMMA WriteFollow ==
  ASSUME TypeInv, SellerInv, TurnInv, UserInv, NEW w \in Workers,
         worker[w].pc = "write", user' = After(user, event[worker[w].event]), Proceed(w, "mark"),
         UNCHANGED <<sub, latest, event, delivery, row, task, call, cron>>
  PROVE  UserInv'
<1>1. PICK k \in Events : k = worker[w].event /\ k \in Emitted
  BY InHand DEF Busy
<1>2. /\ worker'[w].pc = "mark" /\ worker'[w].event = k
      /\ \A v \in Workers \ {w} : worker'[v] = worker[v]
  BY <1>1 DEF Proceed, TypeInv, TypeOK
<1>3. Busy(w) /\ \A v \in Workers \ {w} : worker'[v].pc = "idle"
  BY <1>2 DEF TurnInv, Busy
<1>4. Own' = Own /\ Own \subseteq Events /\ Events \subseteq Nat
  BY BoundsAssumption DEF Own, Emitted, Events
<1>5. \A j \in Own : Due(j)' => Due(j)
  BY <1>4 DEF Due, Started
<1>6. \A j \in Events : row[j] = "processed" => Started(j)
  BY DEF TurnInv
<1>7. Started(k) /\ \A j \in Events : j > k => ~Started(j)
  BY <1>1, <1>3 DEF TurnInv
<1>8. ASSUME NEW j \in Own, Due(j)
      PROVE  /\ row[j] = "processed" => Reflects(j)'
             /\ k = j => Reflects(j)'
             /\ event[j].kind = "created" \/ Reflects(j)'
                  \/ \E i \in Own : /\ i < j /\ \A m \in Own : ~(i < m /\ m < j)
                                    /\ Reflects(i)'
  <2>1. CASE k \in Own
    <3>1. ~(k > j)
      BY <1>7, <1>8, <2>1 DEF Due
    <3>2. k = j \/ k < j
      BY <1>1, <1>4, <3>1
    <3>3. \A i \in Own : i < k => row[i] = "processed"
      <4>1. \A i \in Own : i < k => i < j
        BY <1>1, <1>4, <3>2
      <4> QED BY <1>8, <4>1 DEF Due
    <3>4. Reflects(k)'
      BY <1>1, <1>3, <2>1, <3>3, WriteShows
    <3>5. CASE k = j
      BY <3>4, <3>5
    <3>6. CASE k < j
      <4>1. row[j] # "processed" /\ k # j
        BY <1>1, <1>4, <1>6, <1>7, <3>6
      <4>2. \A m \in Own : ~(k < m /\ m < j)
        BY <1>1, <1>3, <1>8, <2>1, NoneBetween DEF Due
      <4> QED BY <2>1, <3>4, <3>6, <4>1, <4>2
    <3> QED BY <3>2, <3>5, <3>6
  <2>2. CASE k \notin Own
    <3>1. Addressed(event[k])
      BY <1>1 DEF UserInv
    <3>2. row[j] = "processed" \/ event[j].kind # "created" =>
            ~(\E i \in Own : Reflects(i))
      BY <1>1, <1>3, <1>8, <2>2, <3>1, OlderFindNobody
    <3>3. row[j] # "processed" /\ event[j].kind = "created"
      BY <1>8, <3>2 DEF UserInv
    <3> QED BY <2>2, <3>3
  <2> QED BY <2>1, <2>2
<1>9. \A v \in Workers : worker'[v].pc = "mark" => worker'[v].event = k
  BY <1>2, <1>3
<1>10. \A v \in Workers : worker'[v].pc # "write"
  BY <1>2, <1>3
<1> QED BY <1>4, <1>5, <1>8, <1>9, <1>10 DEF UserInv

\* The handler marks the event as processed.
LEMMA MarkFollow ==
  ASSUME TypeInv, SellerInv, TurnInv, UserInv, NEW w \in Workers, NEW k \in Events,
         k = worker[w].event, worker[w].pc = "mark", row' = [row EXCEPT ![k] = "processed"],
         \A v \in Workers : worker'[v].pc = "idle",
         \A j \in Events : Started(j)' <=> Started(j),
         UNCHANGED <<latest, event, user>>
  PROVE  UserInv'
<1>1. Own' = Own /\ Own \subseteq Events /\ Events \subseteq Nat
  BY BoundsAssumption DEF Own, Emitted, Events
<1>2. Busy(w)
  BY DEF Busy
<1>3. row'[k] = "processed" /\ \A j \in Events \ {k} : row'[j] = row[j]
  BY DEF TypeInv, TypeOK
<1>4. \A j \in Own : Reflects(j)' <=> Reflects(j)
  BY DEF Reflects
<1>5. CASE k \notin Own
  <2>1. \A j \in Own : row'[j] = row[j]
    BY <1>1, <1>3, <1>5
  <2> QED BY <1>1, <1>4, <2>1, UserKept
<1>6. CASE k \in Own
  <2>1. \A j \in Events : row[j] = "processed" => Started(j)
    BY DEF TurnInv
  <2>2. Started(k) /\ \A j \in Events : j > k => ~Started(j)
    BY <1>2 DEF TurnInv
  <2>3. ASSUME NEW j \in Own, Due(j)'
        PROVE  /\ row'[j] = "processed" => Reflects(j)
               /\ event[j].kind = "created" \/ Reflects(j)
                    \/ \E i \in Own : /\ i < j /\ \A m \in Own : ~(i < m /\ m < j)
                                      /\ Reflects(i)
    <3>1. /\ \A i \in Own : i < j => row'[i] = "processed"
          /\ \A i \in Own : i > j => ~Started(i)
      BY <1>1, <2>3 DEF Due
    <3>2. k = j \/ k < j
      BY <1>1, <1>6, <2>2, <3>1
    <3>3. \A i \in Own : i < k => row[i] = "processed"
      <4>1. \A i \in Own : i < k => i < j /\ i # k
        BY <1>1, <1>6, <3>2
      <4> QED BY <1>1, <1>3, <3>1, <4>1
    <3>4. Due(k)
      BY <1>1, <2>2, <3>3 DEF Due
    <3>5. Reflects(k)
      BY <1>6, <3>4 DEF UserInv
    <3>6. CASE k = j
      BY <3>5, <3>6
    <3>7. CASE k < j
      <4>1. row'[j] # "processed"
        BY <1>1, <1>3, <1>6, <2>1, <2>2, <3>7
      <4>2. \A m \in Own : k < m /\ m < j => row[m] = "processed"
        BY <1>1, <1>3, <1>6, <3>1
      <4>3. \A m \in Own : ~(k < m /\ m < j)
        BY <1>2, <1>6, <4>2, NoneBetween
      <4> QED BY <1>6, <3>5, <3>7, <4>1, <4>3
    <3> QED BY <3>2, <3>6, <3>7
  <2> QED BY <1>1, <1>4, <2>3 DEF UserInv
<1> QED BY <1>5, <1>6

\* The end of a handler leaves every other event as it was, and its own queued.
LEMMA EndQueued ==
  ASSUME TypeInv, NEW w \in Workers, Busy(w), Finish(w) \/ Rethrow(w)
  PROVE  /\ \A j \in Events : task[j].state = "none" => task'[j] = task[j]
         /\ \A j \in Events : task'[j].state = "none" => task[j].state = "none"
<1>1. PICK k \in Events : k = worker[w].event
  BY InHand
<1>2. task[k].state # "none" /\ task \in [Events -> TaskType]
  BY <1>1 DEF TypeInv, TypeOK, OrderInv, Busy, TaskType
<1>3. \A j \in Events \ {k} : task'[j] = task[j]
  BY <1>1, <1>2 DEF Finish, Rethrow
<1>4. QueueKept
  BY EndKept DEF Busy
<1>5. task'[k].state # "none"
  BY <1>1, <1>2, <1>4 DEF QueueKept
<1> QED BY <1>2, <1>3, <1>5

\* A handler that goes on without a write.
LEMMA ProceedFollow ==
  ASSUME TypeInv, FollowInv, NEW w \in Workers, Busy(w), NEW pc, Proceed(w, pc),
         pc # "mark", pc = "write" => Addressed(event[worker[w].event]),
         UNCHANGED <<sub, latest, event, delivery, row, task, call, user, cron>>,
         raced' = (raced \/ Race)
  PROVE  FollowInv'
<1>1. SellerInv' /\ QuietInv'
  BY ChainKept, QuietKept DEF FollowInv
<1>2. TurnInv => TurnInv'
  BY ProceedTurn
<1>3. UserInv => UserInv'
  <2> SUFFICES ASSUME UserInv PROVE UserInv'
    OBVIOUS
  <2>1. /\ worker'[w].pc = pc /\ worker'[w].event = worker[w].event
        /\ \A v \in Workers \ {w} : worker'[v] = worker[v]
    BY DEF Proceed, TypeInv, TypeOK
  <2>2. /\ \A j \in Own : Reflects(j) => Reflects(j)'
        /\ \A j \in Own : Started(j) => Started(j)'
    BY DEF Reflects, Started
  <2>3. \A v \in Workers : worker'[v].pc = "mark" =>
          worker[v].pc = "mark" /\ worker'[v].event = worker[v].event
    BY <2>1
  <2>4. \A v \in Workers : worker'[v].pc = "write" => Addressed(event[worker'[v].event])
    BY <2>1 DEF UserInv
  <2> QED BY <2>2, <2>3, <2>4, UserKept
<1> QED BY <1>1, <1>2, <1>3 DEF FollowInv

\* A handler that ends without having processed anything new.
LEMMA EndFollow ==
  ASSUME TypeInv, FollowInv, NEW w \in Workers, Busy(w), NEW k \in Events, k = worker[w].event,
         (Finish(w) /\ row[k] = "processed" /\ row' = row)
           \/ (Rethrow(w) /\ (row' = row \/ row' = [row EXCEPT ![k] = "error"])),
         UNCHANGED <<sub, latest, event, delivery, call, user, cron>>,
         raced' = (raced \/ Race)
  PROVE  FollowInv'
<1>1. /\ \A j \in Events : row'[j] = "processed" => row[j] = "processed"
      /\ \A j \in Events \ {k} : row'[j] = row[j]
      /\ (Finish(w) /\ row'[k] = "processed") \/ Rethrow(w)
  <2>1. CASE row' = row
    BY <2>1
  <2>2. CASE Rethrow(w) /\ row' = [row EXCEPT ![k] = "error"]
    <3>1. row'[k] = "error" /\ \A j \in Events \ {k} : row'[j] = row[j]
      BY <2>2 DEF TypeInv, TypeOK
    <3> QED BY <2>2, <3>1
  <2> QED BY <2>1, <2>2
<1>2. SellerInv'
  BY ChainKept DEF FollowInv
<1>3. QuietInv'
  BY EndQueued, QuietKept DEF FollowInv
<1>4. ASSUME TurnInv, UserInv PROVE TurnInv' /\ UserInv'
  <2>1. /\ TurnInv' /\ \A v \in Workers : worker'[v].pc = "idle"
        /\ \A j \in Events : Started(j)' <=> Started(j)
    BY <1>1, <1>4, EndTurn
  <2>2. Own \subseteq Events /\ \A j \in Own : Reflects(j) => Reflects(j)'
    BY DEF Reflects, Own, Emitted
  <2>3. /\ \A j \in Own : row'[j] = "processed" => row[j] = "processed"
        /\ \A j \in Own : Started(j) => Started(j)'
    BY <1>1, <2>1, <2>2
  <2>4. UserInv'
    BY <1>4, <2>1, <2>2, <2>3, UserKept
  <2> QED BY <2>1, <2>4
<1> QED BY <1>2, <1>3, <1>4 DEF FollowInv

\* The steps of the handler.
LEMMA HandlerFollow ==
  ASSUME TypeInv, FollowInv, NEW w \in Workers, HandlerStep(w), raced' = (raced \/ Race)
  PROVE  FollowInv'
<1>1. Busy(w) /\ UNCHANGED <<sub, latest, event, delivery, call, cron>>
  BY DEF Busy, HandlerStep, FindEvent, FindUser, HandleSubscription, UpdateEvent, RecordEventError
<1>2. PICK k \in Events : k = worker[w].event
  BY <1>1, InHand
<1>3. CASE FindEvent(w)
  <2>1. UNCHANGED <<row, user>>
    BY <1>3 DEF FindEvent
  <2>2. CASE Proceed(w, "findUser") /\ UNCHANGED task
    BY <1>1, <2>1, <2>2, ProceedFollow
  <2>3. CASE (Finish(w) /\ row[k] = "processed") \/ Rethrow(w)
    BY <1>1, <1>2, <2>1, <2>3, EndFollow
  <2> QED BY <1>2, <1>3, <2>2, <2>3 DEF FindEvent
<1>4. CASE FindUser(w)
  <2>1. UNCHANGED <<row, task, user>>
    BY <1>4 DEF FindUser
  <2>2. CASE Proceed(w, "write") /\ Addressed(event[worker[w].event])
    BY <1>1, <2>1, <2>2, ProceedFollow
  <2>3. CASE Proceed(w, "record")
    BY <1>1, <2>1, <2>3, ProceedFollow
  <2> QED BY <1>4, <2>2, <2>3 DEF FindUser
<1>5. CASE HandleSubscription(w)
  <2>1. UNCHANGED <<row, task>> /\ worker[w].pc = "write"
    BY <1>5 DEF HandleSubscription
  <2>2. CASE Proceed(w, "record") /\ UNCHANGED user
    BY <1>1, <2>1, <2>2, ProceedFollow
  <2>3. CASE Proceed(w, "mark") /\ user' = After(user, event[worker[w].event])
    <3>1. SellerInv' /\ QuietInv'
      BY <1>1, <2>1, ChainKept, QuietKept DEF FollowInv
    <3>2. TurnInv => TurnInv'
      BY <1>1, <2>1, <2>3, ProceedTurn
    <3>3. TurnInv /\ UserInv => UserInv'
      BY <1>1, <2>1, <2>3, WriteFollow DEF FollowInv
    <3> QED BY <3>1, <3>2, <3>3 DEF FollowInv
  <2> QED BY <1>5, <2>2, <2>3 DEF HandleSubscription
<1>6. CASE UpdateEvent(w)
  <2>1. UNCHANGED user /\ worker[w].pc = "mark"
    BY <1>6 DEF UpdateEvent
  <2>2. CASE Proceed(w, "record") /\ UNCHANGED <<row, task>>
    BY <1>1, <2>1, <2>2, ProceedFollow
  <2>3. CASE row' = [row EXCEPT ![k] = "processed"] /\ Finish(w)
    <3>1. row'[k] = "processed" /\ \A j \in Events \ {k} : row'[j] = row[j]
      BY <2>3 DEF TypeInv, TypeOK
    <3>2. SellerInv'
      BY <1>1, ChainKept DEF FollowInv
    <3>3. QuietInv'
      BY <1>1, <2>3, EndQueued, QuietKept DEF FollowInv
    <3>4. ASSUME TurnInv, UserInv PROVE TurnInv' /\ UserInv'
      <4>1. /\ TurnInv' /\ \A v \in Workers : worker'[v].pc = "idle"
            /\ \A j \in Events : Started(j)' <=> Started(j)
        BY <1>1, <1>2, <2>3, <3>1, <3>4, EndTurn
      <4>2. UserInv'
        BY <1>1, <1>2, <2>1, <2>3, <3>4, <4>1, MarkFollow DEF FollowInv
      <4> QED BY <4>1, <4>2
    <3> QED BY <3>2, <3>3, <3>4 DEF FollowInv
  <2> QED BY <1>2, <1>6, <2>2, <2>3 DEF UpdateEvent
<1>7. CASE RecordEventError(w)
  <2>1. UNCHANGED user /\ Rethrow(w) /\ (row' = row \/ row' = [row EXCEPT ![k] = "error"])
    BY <1>2, <1>7 DEF RecordEventError
  <2> QED BY <1>1, <1>2, <2>1, EndFollow
<1> QED BY <1>3, <1>4, <1>5, <1>6, <1>7 DEF HandlerStep

\* Every step keeps the invariant.
LEMMA FollowStep == TypeInv /\ PlanInv /\ FollowInv /\ [Next]_vars => FollowInv'
<1> SUFFICES ASSUME TypeInv, PlanInv, FollowInv, [Next]_vars PROVE FollowInv'
  OBVIOUS
<1>1. CASE UNCHANGED vars
  <2>1. SellerInv' /\ QuietInv'
    BY <1>1, ChainKept, QuietKept DEF FollowInv, vars
  <2>2. TurnInv => TurnInv'
    BY <1>1 DEF vars, TurnInv, Busy, Started, Over
  <2>3. UserInv => UserInv'
    BY <1>1 DEF vars, UserInv, Own, Emitted, Due, Started, Reflects, Addressed
  <2>4. raced' = raced
    BY <1>1 DEF vars
  <2> QED BY <2>1, <2>2, <2>3, <2>4 DEF FollowInv
<1>2. CASE Next
  <2>1. raced' = (raced \/ Race)
    BY <1>2 DEF Next
  <2>2. CASE AdminStep
    BY <2>1, <2>2, AdminFollow
  <2>3. CASE (EventStep \/ CronStep) /\ UNCHANGED overrides
    BY <2>1, <2>3, SellerFollow, WebhookFollow, HandlerFollow, CrashFollow, TakeFollow,
       StalledFollow, CronFollow DEF EventStep, CronStep
  <2> QED BY <1>2, <2>2, <2>3 DEF Next
<1> QED BY <1>1, <1>2

\* When everything is settled, the last event of the subscription opened last is due
\* and processed: the user stands as it says.
LEMMA FollowShows == TypeInv /\ FollowInv => PlanFollowsSubscription
<1> SUFFICES ASSUME TypeInv, FollowInv, Settled, ~raced, latest # 0
             PROVE  IF sub[latest].state = "expired"
                    THEN user.sub = 0 /\ (user.by = "hand" \/ user.plan = "FREE")
                    ELSE user.sub = latest /\ (user.by = "hand" \/ user.plan = sub[latest].plan)
  BY DEF PlanFollowsSubscription
<1>1. TurnInv /\ UserInv /\ SellerInv
  BY DEF FollowInv
<1>2. PICK n \in Own : Final(n)
  BY <1>1 DEF SellerInv
<1>3. \A k \in Own : k \in Events /\ row[k] = "processed"
  BY <1>1 DEF Settled, Own, Emitted, TurnInv
<1>4. \A k \in Own : ~(k > n)
  BY <1>2, <1>3, BoundsAssumption DEF Final, Events
<1>5. Due(n)
  BY <1>3, <1>4 DEF Due
<1>6. Reflects(n)
  BY <1>1, <1>3, <1>5 DEF UserInv
<1> QED BY <1>2, <1>6 DEF Final, Reflects

\* A user whose events are all handled has the plan of the subscription opened last as
\* long as it lives, and none once it has expired, whatever was delivered twice, failed,
\* retried or run again, unless events overtook one another.
THEOREM PlanFollows == Spec => []PlanFollowsSubscription
<1>1. Init => PlanInv
  BY DEF Init, NewUser, PlanInv
<1> QED BY <1>1, TypeInit, TypeStep, PlanStep, FollowInit, FollowStep, FollowShows, PTL DEF Spec

------------------------------------------------------------------------------
(* Account *)

(* What a request of a user has in hand *)

Requested == [pc : {"idle", "create", "seed", "upsert", "deleteTypes", "password", "consume"},
          user : Users, types : SUBSET Types, token : Tokens \cup {Registry!AToken}]

AccountTyped == /\ account \in [Users -> {"none", "live", "deleted", "due"}]
                /\ defaults \in [Users -> SUBSET Types] /\ chosen \in [Users -> SUBSET Types]
                /\ token \in [Tokens -> [state : {"none", "open", "used", "gone"}, user : Users]]
                /\ form \in [Forms -> Requested] /\ uses \in [Tokens -> Nat]

\* A request of the user is under way, or about this token.
OnUser(c, u)    == form[c].pc # "idle" /\ form[c].user = u
About(c, t) == form[c].pc \in {"password", "consume"} /\ form[c].token = t

\* Who is not there has no defaults.
AbsentOK(u) == account[u] = "none" => defaults[u] = {} /\ chosen[u] = {}

\* A token that can be found is that of a user who is there, a request about a token
\* is its user's, and what was never issued was never used.
TokenOK(t) ==
  /\ token[t].state = "open" => account[token[t].user] # "none"
  /\ token[t].state = "none" => uses[t] = 0
  /\ \A c \in Forms : About(c, t) => token[t].state # "none" /\ token[t].user = form[c].user

\* The requests of a user do not overlap.
AloneOK(u) == \A c, d \in Forms : OnUser(c, u) /\ OnUser(d, u) => c = d

\* The defaults are those last asked for, or the request under way will make them so.
DefaultsOK(u) ==
  /\ ~Registry!Busy(u) => defaults[u] = chosen[u]
  /\ \A c \in Forms : OnUser(c, u) =>
       /\ form[c].pc \in {"create", "password", "consume"} => defaults[u] = chosen[u]
       /\ form[c].pc = "create" => form[c].types = Types
       /\ form[c].pc = "deleteTypes" => account[u] = "none" \/ chosen[u] = form[c].types
       /\ form[c].pc \in {"seed", "upsert"} =>
            account[u] = "none" \/ chosen[u] = defaults[u] \cup form[c].types

\* A token that set a password is about to be marked, and one about to set it set none.
UsesOK(u) ==
  \A t \in Tokens : token[t].user = u =>
    /\ uses[t] <= 1
    /\ uses[t] = 1 /\ token[t].state = "open" =>
         \E c \in Forms : About(c, t) /\ form[c].pc = "consume"
    /\ \A c \in Forms : About(c, t) /\ form[c].pc = "password" => uses[t] = 0

UnracedOK(u) == u \notin overlapped => AloneOK(u) /\ DefaultsOK(u) /\ UsesOK(u)

AccountInv ==
  /\ AccountTyped
  /\ \A u \in Users : AbsentOK(u) /\ UnracedOK(u)
  /\ \A t \in Tokens : TokenOK(t)

\* Without users there is nothing to show.
RegistryInv == Users # {} => AccountInv

------------------------------------------------------------------------------
LEMMA RegistryBegins == Registry!Init => RegistryInv
<1> SUFFICES ASSUME Registry!Init, Users # {} PROVE AccountInv
  BY DEF RegistryInv
<1>1. Registry!AUser \in Users
  BY DEF Registry!AUser
<1>2. /\ account \in [Users -> {"none", "live"}] /\ form = [c \in Forms |-> Registry!IdleCall]
      /\ token = [t \in Tokens |-> Registry!NoToken] /\ uses = [t \in Tokens |-> 0] /\ chosen = defaults
  BY DEF Registry!Init
<1>3. \A u \in Users : defaults[u] \in SUBSET Types /\ (account[u] = "none" => defaults[u] = {})
  BY <1>2 DEF Registry!Init
<1>4. defaults \in [Users -> SUBSET Types]
  BY <1>3 DEF Registry!Init
<1>5. AccountTyped
  <2>1. Registry!IdleCall \in Requested
    BY <1>1 DEF Registry!IdleCall, Requested
  <2>2. Registry!NoToken \in [state : {"none", "open", "used", "gone"}, user : Users]
    BY <1>1 DEF Registry!NoToken
  <2>3. account \in [Users -> {"none", "live", "deleted", "due"}]
    BY <1>2
  <2> QED BY <1>2, <1>4, <2>1, <2>2, <2>3 DEF AccountTyped
<1>6. \A c \in Forms : form[c].pc = "idle"
  BY <1>2 DEF Registry!IdleCall
<1>7. \A u \in Users : AbsentOK(u) /\ AloneOK(u) /\ DefaultsOK(u)
  BY <1>2, <1>3, <1>6 DEF AbsentOK, AloneOK, DefaultsOK, OnUser
<1>8. \A t \in Tokens : token[t].state = "none" /\ uses[t] = 0
  BY <1>2 DEF Registry!NoToken
<1>9. (\A u \in Users : UsesOK(u)) /\ \A t \in Tokens : TokenOK(t)
  BY <1>6, <1>8 DEF UsesOK, TokenOK, About
<1> QED BY <1>5, <1>7, <1>9 DEF AccountInv, UnracedOK

------------------------------------------------------------------------------
(* A request moves *)

\* What a request leaves of the defaults of its user.
Leaves(f, u) ==
  /\ f.pc \in {"idle", "create", "password", "consume"} => defaults[u] = chosen[u]
  /\ f.pc = "create" => f.types = Types
  /\ f.pc = "deleteTypes" => account[u] = "none" \/ chosen[u] = f.types
  /\ f.pc \in {"seed", "upsert"} => account[u] = "none" \/ chosen[u] = defaults[u] \cup f.types

\* A request finds what it left: it has its user alone.
LEMMA RequestFinds ==
  ASSUME NEW c \in Forms, NEW u \in Users, OnUser(c, u), u \notin overlapped, AccountInv
  PROVE  Leaves(form[c], u) /\ AloneOK(u) /\ DefaultsOK(u) /\ UsesOK(u)
<1>1. AloneOK(u) /\ DefaultsOK(u) /\ UsesOK(u)
  BY DEF AccountInv, UnracedOK
<1> QED BY <1>1 DEF Leaves, DefaultsOK, OnUser

\* The users whose request it is not see nothing of it, and its own user what it leaves.
LEMMA RequestMoves ==
  ASSUME AccountInv, NEW c \in Forms, NEW k \in Users, NEW f \in Requested,
         form' = [form EXCEPT ![c] = f], f.pc # "idle" => f.user = k,
         OnUser(c, k) \/ form[c].pc = "idle", overlapped \subseteq overlapped',
         k \notin overlapped' => OnUser(c, k) \/ ~Registry!Busy(k),
         \A u \in Users \ {k} : /\ account'[u] = account[u]
                                /\ defaults'[u] = defaults[u] /\ chosen'[u] = chosen[u],
         \A t \in Tokens : /\ token'[t].user = token[t].user /\ TokenOK(t)'
                           /\ token[t].user # k => token'[t] = token[t] /\ uses'[t] = uses[t],
         k \notin overlapped' => Leaves(f, k)' /\ UsesOK(k)'
  PROVE  \A u \in Users : UnracedOK(u)'
<1>1. form'[c] = f /\ \A d \in Forms \ {c} : form'[d] = form[d]
  BY DEF AccountInv, AccountTyped
<1>2. ASSUME NEW u \in Users \ {k} PROVE UnracedOK(u)'
  <2>1. ~OnUser(c, u) /\ ~OnUser(c, u)'
    BY <1>1, <1>2 DEF OnUser
  <2>2. \A d \in Forms : /\ OnUser(d, u)' <=> OnUser(d, u)
                         /\ OnUser(d, u) => form'[d] = form[d]
    BY <1>1, <2>1 DEF OnUser
  <2>3. SUFFICES ASSUME u \notin overlapped' PROVE AloneOK(u)' /\ DefaultsOK(u)' /\ UsesOK(u)'
    BY DEF UnracedOK
  <2>4. AloneOK(u) /\ DefaultsOK(u) /\ UsesOK(u)
    BY <2>3 DEF AccountInv, UnracedOK
  <2>5. AloneOK(u)'
    BY <2>2, <2>4 DEF AloneOK
  <2>6. DefaultsOK(u)'
    <3>1. Registry!Busy(u)' <=> Registry!Busy(u)
      BY <2>2 DEF Registry!Busy, OnUser
    <3> QED BY <1>2, <2>2, <2>4, <3>1 DEF DefaultsOK
  <2>7. UsesOK(u)'
    <3>1. SUFFICES ASSUME NEW t \in Tokens, token'[t].user = u
                   PROVE  /\ uses'[t] <= 1
                          /\ uses'[t] = 1 /\ token'[t].state = "open" =>
                               \E d \in Forms : About(d, t)' /\ form'[d].pc = "consume"
                          /\ \A d \in Forms : About(d, t)' /\ form'[d].pc = "password" => uses'[t] = 0
      BY DEF UsesOK
    <3>2. token'[t] = token[t] /\ uses'[t] = uses[t] /\ token[t].user = u
      BY <1>2, <3>1
    <3>3. \A d \in Forms : About(d, t)' => OnUser(d, u)'
      BY <3>1 DEF TokenOK, About, OnUser
    <3>4. \A d \in Forms : About(d, t) => OnUser(d, u)
      BY <3>2 DEF AccountInv, TokenOK, About, OnUser
    <3>5. \A d \in Forms : (About(d, t)' <=> About(d, t)) /\ (About(d, t) => form'[d] = form[d])
      BY <2>2, <3>3, <3>4 DEF About
    <3> QED BY <2>4, <3>2, <3>5 DEF UsesOK
  <2> QED BY <2>5, <2>6, <2>7
<1>3. UnracedOK(k)'
  <2>1. SUFFICES ASSUME k \notin overlapped' PROVE AloneOK(k)' /\ DefaultsOK(k)' /\ UsesOK(k)'
    BY DEF UnracedOK
  <2>2. \A d \in Forms \ {c} : ~OnUser(d, k)'
    <3>1. CASE OnUser(c, k)
      <4>1. AloneOK(k)
        BY <2>1 DEF AccountInv, UnracedOK
      <4> QED BY <1>1, <3>1, <4>1 DEF AloneOK, OnUser
    <3>2. CASE ~Registry!Busy(k)
      BY <1>1, <3>2 DEF Registry!Busy, OnUser
    <3> QED BY <2>1, <3>1, <3>2
  <2>3. AloneOK(k)'
    BY <2>2 DEF AloneOK
  <2>4. Registry!Busy(k)' <=> f.pc # "idle"
    BY <1>1, <2>2 DEF Registry!Busy, OnUser
  <2>5. DefaultsOK(k)'
    BY <1>1, <2>1, <2>2, <2>4 DEF DefaultsOK, Leaves, OnUser
  <2> QED BY <2>1, <2>3, <2>5
<1> QED BY <1>2, <1>3

\* A request that has to do with no token.
LEMMA TokensAlone ==
  ASSUME AccountInv, NEW c \in Forms, NEW f \in Requested, form' = [form EXCEPT ![c] = f],
         form[c].pc \notin {"password", "consume"}, f.pc \notin {"password", "consume"},
         UNCHANGED <<token, uses>>,
         \A u \in Users : account'[u] = "none" => account[u] = "none"
  PROVE  /\ \A t \in Tokens : TokenOK(t)'
         /\ \A u \in Users : UsesOK(u) => UsesOK(u)'
<1>1. form'[c] = f /\ \A d \in Forms \ {c} : form'[d] = form[d]
  BY DEF AccountInv, AccountTyped
<1>2. \A d \in Forms, t \in Tokens :
        (About(d, t)' <=> About(d, t)) /\ (About(d, t) => form'[d] = form[d])
  BY <1>1 DEF About
<1>3. \A t \in Tokens : token[t].user \in Users
  BY DEF AccountInv, AccountTyped
<1>4. \A t \in Tokens : TokenOK(t)'
  BY <1>2, <1>3 DEF AccountInv, TokenOK
<1>5. \A u \in Users : UsesOK(u) => UsesOK(u)'
  BY <1>2 DEF UsesOK
<1> QED BY <1>4, <1>5
------------------------------------------------------------------------------
(* registration and signing defaults *)

\* A request about the defaults, in each of its steps.
LEMMA DefaultsKeep ==
  ASSUME AccountInv, Users # {}, NEW c \in Forms,
         \/ Registry!BeginRegister(c) \/ Registry!CreateUser(c)
         \/ Registry!UpsertSigningDefault(c) \/ Registry!UpsertsDone(c)
         \/ Registry!StartSequence(c) \/ Registry!BeginSync(c) \/ Registry!DeleteTypes(c)
  PROVE  AccountInv'
<1>1. /\ account \in [Users -> {"none", "live", "deleted", "due"}]
      /\ defaults \in [Users -> SUBSET Types] /\ chosen \in [Users -> SUBSET Types]
      /\ form \in [Forms -> Requested] /\ AccountTyped
  BY DEF AccountInv, AccountTyped
<1>2. Registry!IdleCall \in Requested /\ Registry!IdleCall.pc = "idle"
  <2>1. Registry!AUser \in Users
    BY DEF Registry!AUser
  <2> QED BY <2>1 DEF Registry!IdleCall, Requested
<1>3. UNCHANGED <<token, uses>>
  BY DEF Registry!BeginRegister, Registry!CreateUser, Registry!UpsertSigningDefault,
     Registry!UpsertsDone, Registry!StartSequence, Registry!BeginSync,
     Registry!DeleteTypes
<1>4. ASSUME NEW k \in Users, NEW f \in Requested, form' = [form EXCEPT ![c] = f],
             form[c].pc \notin {"password", "consume"}, f.pc \notin {"password", "consume"},
             f.pc # "idle" => f.user = k, OnUser(c, k) \/ form[c].pc = "idle",
             overlapped \subseteq overlapped',
             k \notin overlapped' => OnUser(c, k) \/ ~Registry!Busy(k),
             account' \in [Users -> {"none", "live", "deleted", "due"}],
             defaults' \in [Users -> SUBSET Types], chosen' \in [Users -> SUBSET Types],
             \A u \in Users \ {k} : /\ account'[u] = account[u]
                                    /\ defaults'[u] = defaults[u] /\ chosen'[u] = chosen[u],
             AbsentOK(k)', account'[k] = "none" => account[k] = "none",
             k \notin overlapped' => Leaves(f, k)'
      PROVE  AccountInv'
  <2>1. AccountTyped'
    BY <1>1, <1>3, <1>4 DEF AccountTyped
  <2>3. \A u \in Users : account'[u] = "none" => account[u] = "none"
    BY <1>4
  <2>4. \A u \in Users : AbsentOK(u)'
    BY <1>4 DEF AccountInv, AbsentOK
  <2>5. (\A t \in Tokens : TokenOK(t)') /\ \A u \in Users : UsesOK(u) => UsesOK(u)'
    BY <1>3, <1>4, <2>3, TokensAlone
  <2>6. k \notin overlapped' => UsesOK(k)'
    BY <1>4, <2>5 DEF AccountInv, UnracedOK
  <2>7. \A u \in Users : UnracedOK(u)'
    BY <1>3, <1>4, <2>5, <2>6, RequestMoves
  <2> QED BY <2>1, <2>4, <2>5, <2>7 DEF AccountInv
<1>5. \A u \in Users : AbsentOK(u)
  BY DEF AccountInv
<1>6. form[c] \in Requested /\ form[c].user \in Users
  BY <1>1 DEF Requested
<1>7. CASE Registry!BeginRegister(c)
  <2>1. PICK k \in Users : /\ account[k] = "none"
          /\ Registry!Begin(c, [Registry!IdleCall EXCEPT !.pc = "create", !.user = k, !.types = Types])
    BY <1>7 DEF Registry!BeginRegister
  <2> DEFINE f == [Registry!IdleCall EXCEPT !.pc = "create", !.user = k, !.types = Types]
  <2>2. f \in Requested /\ f.pc = "create" /\ f.user = k /\ f.types = Types
    BY <1>2 DEF Registry!IdleCall, Requested
  <2>3. /\ form[c].pc = "idle" /\ form' = [form EXCEPT ![c] = f] /\ overlapped \subseteq overlapped'
        /\ k \notin overlapped' => ~Registry!Busy(k)
    BY <2>1, <2>2 DEF Registry!Begin
  <2>4. UNCHANGED <<account, defaults, chosen>>
    BY <1>7 DEF Registry!BeginRegister
  <2>5. Leaves(f, k)'
    BY <1>5, <2>1, <2>2, <2>4 DEF Leaves, AbsentOK
  <2>6. AbsentOK(k)'
    BY <1>5, <2>4 DEF AbsentOK
  <2> HIDE DEF f
  <2> QED BY <1>1, <1>4, <2>2, <2>3, <2>4, <2>5, <2>6
<1>8. CASE Registry!BeginSync(c)
  <2>1. PICK k \in Users, S \in SUBSET Types :
          /\ account[k] = "live"
          /\ Registry!Begin(c, [Registry!IdleCall EXCEPT !.pc = "deleteTypes", !.user = k, !.types = S])
          /\ chosen' = [chosen EXCEPT ![k] = S]
    BY <1>8 DEF Registry!BeginSync
  <2> DEFINE f == [Registry!IdleCall EXCEPT !.pc = "deleteTypes", !.user = k, !.types = S]
  <2>2. f \in Requested /\ f.pc = "deleteTypes" /\ f.user = k /\ f.types = S
    BY <1>2 DEF Registry!IdleCall, Requested
  <2>3. /\ form[c].pc = "idle" /\ form' = [form EXCEPT ![c] = f] /\ overlapped \subseteq overlapped'
        /\ k \notin overlapped' => ~Registry!Busy(k)
    BY <2>1, <2>2 DEF Registry!Begin
  <2>4. UNCHANGED <<account, defaults>>
    BY <1>8 DEF Registry!BeginSync
  <2>5. Leaves(f, k)'
    BY <1>1, <2>1, <2>2 DEF Leaves
  <2> HIDE DEF f
  <2>6. /\ chosen' \in [Users -> SUBSET Types]
        /\ \A u \in Users \ {k} : chosen'[u] = chosen[u]
    BY <1>1, <2>1
  <2>7. AbsentOK(k)'
    BY <2>1, <2>4 DEF AbsentOK
  <2> QED BY <1>1, <1>4, <2>2, <2>3, <2>4, <2>5, <2>6, <2>7
<1>9. PICK k \in Users : k = form[c].user
  BY <1>6
<1>10. CASE Registry!CreateUser(c)
  <2>1. /\ form[c].pc = "create" /\ UNCHANGED <<defaults, overlapped>> /\ OnUser(c, k)
    BY <1>9, <1>10 DEF Registry!CreateUser, OnUser
  <2>2. k \notin overlapped => Leaves(form[c], k)
    BY <2>1, RequestFinds
  <2>3. CASE account[k] # "none"
    <3>1. form' = [form EXCEPT ![c] = Registry!IdleCall] /\ UNCHANGED <<account, chosen>>
      BY <1>9, <1>10, <2>3 DEF Registry!CreateUser, Registry!Return
    <3>2. k \notin overlapped' => Leaves(Registry!IdleCall, k)'
      BY <1>2, <2>1, <2>2, <3>1 DEF Leaves
    <3>3. AbsentOK(k)'
      BY <2>3, <3>1 DEF AbsentOK
    <3> QED BY <1>1, <1>2, <1>4, <2>1, <3>1, <3>2, <3>3
  <2>4. CASE account[k] = "none"
    <3>0. PICK f \in Requested : f = [form[c] EXCEPT !.pc = "seed"]
      BY <1>6 DEF Requested
    <3>1. /\ account' = [account EXCEPT ![k] = "live"] /\ chosen' = [chosen EXCEPT ![k] = Types]
          /\ form' = [form EXCEPT ![c] = f]
      BY <1>1, <1>9, <1>10, <2>4, <3>0 DEF Registry!CreateUser, Registry!Goto
    <3>2. f.pc = "seed" /\ f.user = k /\ f.types = form[c].types
      BY <1>6, <1>9, <3>0 DEF Requested
    <3>3. defaults[k] = {} /\ account'[k] = "live" /\ chosen'[k] = Types
      BY <1>1, <1>5, <2>4, <3>1 DEF AbsentOK
    <3>4. k \notin overlapped' => Leaves(f, k)'
      <4>1. k \notin overlapped' => f.types = Types
        BY <2>1, <2>2, <3>2 DEF Leaves
      <4>2. defaults'[k] = {}
        BY <2>1, <3>3
      <4> QED BY <3>2, <3>3, <4>1, <4>2 DEF Leaves
    <3>5. /\ account' \in [Users -> {"none", "live", "deleted", "due"}]
          /\ chosen' \in [Users -> SUBSET Types]
          /\ \A u \in Users \ {k} : account'[u] = account[u] /\ chosen'[u] = chosen[u]
      BY <1>1, <3>1
    <3>6. AbsentOK(k)'
      BY <3>3 DEF AbsentOK
    <3>7. (k \notin overlapped' => OnUser(c, k) \/ ~Registry!Busy(k)) /\ overlapped \subseteq overlapped'
      BY <2>1
    <3> QED BY <1>1, <1>4, <2>1, <3>1, <3>2, <3>3, <3>4, <3>5, <3>6, <3>7
  <2> QED BY <2>3, <2>4
<1>11. CASE Registry!UpsertSigningDefault(c)
  <2>1. PICK t \in form[c].types :
          /\ account[k] # "none" /\ defaults' = [defaults EXCEPT ![k] = @ \cup {t}]
          /\ form' = [form EXCEPT ![c].types = @ \ {t}]
    BY <1>9, <1>11 DEF Registry!UpsertSigningDefault
  <2>2. /\ form[c].pc \in {"seed", "upsert"} /\ OnUser(c, k)
        /\ UNCHANGED <<account, chosen, overlapped>>
    BY <1>9, <1>11 DEF Registry!UpsertSigningDefault, OnUser
  <2>0. PICK f \in Requested : f = [form[c] EXCEPT !.types = @ \ {t}]
    BY <1>6 DEF Requested
  <2>3. f.pc = form[c].pc /\ f.user = k /\ f.types = form[c].types \ {t}
    BY <1>6, <1>9, <2>0 DEF Requested
  <2>4. form' = [form EXCEPT ![c] = f]
    BY <1>1, <2>0, <2>1
  <2>5. defaults' = [defaults EXCEPT ![k] = defaults[k] \cup {t}] /\ t \in Types
    BY <1>1, <1>6, <2>1 DEF Requested
  <2>6. k \notin overlapped' => Leaves(f, k)'
    <3>1. k \notin overlapped => Leaves(form[c], k)
      BY <2>2, RequestFinds
    <3>2. defaults'[k] = defaults[k] \cup {t}
      BY <1>1, <2>5
    <3> QED BY <2>1, <2>2, <2>3, <3>1, <3>2 DEF Leaves
  <2>7. defaults[k] \cup {t} \in SUBSET Types
    BY <1>1, <2>5
  <2>8. /\ defaults' \in [Users -> SUBSET Types]
        /\ \A u \in Users \ {k} : defaults'[u] = defaults[u]
    BY <1>1, <2>5, <2>7
  <2>9. AbsentOK(k)'
    <3>1. account[k] # "none" /\ account' = account
      BY <2>1, <2>2
    <3> QED BY <3>1 DEF AbsentOK
  <2>10. (k \notin overlapped' => OnUser(c, k) \/ ~Registry!Busy(k)) /\ overlapped \subseteq overlapped'
    BY <2>2
  <2> QED BY <1>1, <1>4, <2>2, <2>3, <2>4, <2>6, <2>8, <2>9, <2>10
<1>12. CASE Registry!UpsertsDone(c) \/ Registry!StartSequence(c)
  <2>1. /\ form[c].pc \in {"seed", "upsert"} /\ form[c].types = {} /\ OnUser(c, k)
        /\ UNCHANGED <<account, defaults, chosen, overlapped>>
        /\ form' = [form EXCEPT ![c] = Registry!IdleCall]
    BY <1>9, <1>12 DEF Registry!UpsertsDone, Registry!StartSequence, OnUser, Registry!Return
  <2>2. k \notin overlapped' => Leaves(Registry!IdleCall, k)'
    <3>1. k \notin overlapped => Leaves(form[c], k)
      BY <2>1, RequestFinds
    <3> QED BY <1>2, <1>5, <2>1, <3>1 DEF Leaves, AbsentOK
  <2>3. AbsentOK(k)'
    BY <1>5, <2>1 DEF AbsentOK
  <2> QED BY <1>1, <1>2, <1>4, <2>1, <2>2, <2>3
<1>13. CASE Registry!DeleteTypes(c)
  <2> DEFINE D == defaults[k] \ (defaults[k] \ form[c].types)
  <2>0. PICK f \in Requested : f = [form[c] EXCEPT !.pc = "upsert"]
    BY <1>6 DEF Requested
  <2>1. /\ form[c].pc = "deleteTypes" /\ OnUser(c, k) /\ UNCHANGED <<account, chosen, overlapped>>
        /\ form' = [form EXCEPT ![c] = f]
    BY <1>1, <1>9, <1>13, <2>0 DEF Registry!DeleteTypes, OnUser, Registry!Goto
  <2>2. f.pc = "upsert" /\ f.user = k /\ f.types = form[c].types
    BY <1>6, <1>9, <2>0 DEF Requested
  <2>3. defaults' = [defaults EXCEPT ![k] = D] /\ D \in SUBSET Types
    BY <1>1, <1>5, <1>9, <1>13 DEF Registry!DeleteTypes, Registry!Deselected
  <2>4. k \notin overlapped' => Leaves(f, k)'
    <3>1. k \notin overlapped => Leaves(form[c], k)
      BY <2>1, RequestFinds
    <3>2. defaults'[k] = D
      BY <1>1, <2>3
    <3> QED BY <2>1, <2>2, <3>1, <3>2 DEF Leaves
  <2>5. account[k] = "none" => D = {} /\ chosen[k] = {}
    BY <1>5 DEF AbsentOK
  <2>6. /\ defaults' \in [Users -> SUBSET Types] /\ defaults'[k] = D
        /\ \A u \in Users \ {k} : defaults'[u] = defaults[u]
    BY <1>1, <2>3
  <2>7. AbsentOK(k)'
    BY <2>1, <2>5, <2>6 DEF AbsentOK
  <2>8. (k \notin overlapped' => OnUser(c, k) \/ ~Registry!Busy(k)) /\ overlapped \subseteq overlapped'
    BY <2>1
  <2> HIDE DEF D
  <2> QED BY <1>1, <1>4, <2>1, <2>2, <2>4, <2>6, <2>7, <2>8
<1> QED BY <1>7, <1>8, <1>10, <1>11, <1>12, <1>13

------------------------------------------------------------------------------
(* Passwords, and requests that fail *)

\* A request about a token, or one that is cut off or fails: accounts and defaults stay.
LEMMA TokensKeep ==
  ASSUME AccountInv, Users # {}, NEW c \in Forms,
         \/ Registry!ValidateToken(c) \/ Registry!UpdatePassword(c)
         \/ Registry!ConsumeToken(c) \/ Registry!Gone(c) \/ Registry!Cut(c)
  PROVE  AccountInv'
<1>1. /\ form \in [Forms -> Requested] /\ uses \in [Tokens -> Nat] /\ AccountTyped
      /\ token \in [Tokens -> [state : {"none", "open", "used", "gone"}, user : Users]]
  BY DEF AccountInv, AccountTyped
<1>2. Registry!IdleCall \in Requested /\ Registry!IdleCall.pc = "idle"
  <2>1. Registry!AUser \in Users
    BY DEF Registry!AUser
  <2> QED BY <2>1 DEF Registry!IdleCall, Requested
<1>3. UNCHANGED <<account, defaults, chosen>>
  BY DEF Registry!ValidateToken, Registry!UpdatePassword, Registry!ConsumeToken,
     Registry!Gone, Registry!Cut
<1>4. \A t \in Tokens : token[t].user \in Users /\ TokenOK(t)
  BY <1>1 DEF AccountInv
<1>5. \A u \in Users : AbsentOK(u) /\ AbsentOK(u)'
  BY <1>3 DEF AccountInv, AbsentOK
<1>6. ASSUME NEW k \in Users, NEW f \in Requested, form' = [form EXCEPT ![c] = f],
             f.pc # "idle" => f.user = k, OnUser(c, k) \/ form[c].pc = "idle",
             overlapped \subseteq overlapped',
             k \notin overlapped' => OnUser(c, k) \/ ~Registry!Busy(k),
             AccountTyped', \A t \in Tokens : /\ token'[t].user = token[t].user /\ TokenOK(t)'
                                              /\ token[t].user # k => token'[t] = token[t] /\ uses'[t] = uses[t],
                    k \notin overlapped' => Leaves(f, k)' /\ UsesOK(k)'
             PROVE  AccountInv'
  <2>1. \A u \in Users : UnracedOK(u)'
    BY <1>3, <1>6, RequestMoves
  <2> QED BY <1>5, <1>6, <2>1 DEF AccountInv
<1>7. form[c] \in Requested /\ form[c].user \in Users
  BY <1>1 DEF Requested
<1>8. CASE Registry!ValidateToken(c)
  <2>1. PICK t \in Tokens : /\ token[t].state = "open"
          /\ Registry!Begin(c, [Registry!IdleCall EXCEPT !.pc = "password", !.user = token[t].user, !.token = t])
    BY <1>8 DEF Registry!ValidateToken, Registry!Valid
  <2>2. PICK k \in Users : k = token[t].user
    BY <1>4
  <2>3. PICK f \in Requested : f = [Registry!IdleCall EXCEPT !.pc = "password", !.user = k, !.token = t]
    BY <1>2 DEF Registry!IdleCall, Requested
  <2>4. f.pc = "password" /\ f.user = k /\ f.token = t
    BY <2>3 DEF Registry!IdleCall
  <2>5. /\ form[c].pc = "idle" /\ form' = [form EXCEPT ![c] = f] /\ overlapped \subseteq overlapped'
        /\ k \notin overlapped' => ~Registry!Busy(k) /\ k \notin overlapped
    BY <2>1, <2>2, <2>3, <2>4 DEF Registry!Begin
  <2>6. UNCHANGED <<token, uses>>
    BY <1>8 DEF Registry!ValidateToken
  <2>7. form'[c] = f /\ \A d \in Forms \ {c} : form'[d] = form[d]
    BY <1>1, <2>5
  <2>8. AccountTyped'
    BY <1>1, <1>3, <2>5, <2>6 DEF AccountTyped
  <2>9. \A s \in Tokens, d \in Forms : About(d, s)' => About(d, s) \/ (d = c /\ s = t)
    BY <2>4, <2>7 DEF About
  <2>10. ASSUME NEW s \in Tokens PROVE TokenOK(s)'
    BY <1>3, <1>4, <2>1, <2>2, <2>4, <2>6, <2>7, <2>9 DEF TokenOK, About
  <2>11. ASSUME k \notin overlapped' PROVE Leaves(f, k)' /\ UsesOK(k)'
    <3>1. DefaultsOK(k) /\ UsesOK(k) /\ ~Registry!Busy(k)
      BY <2>5, <2>11 DEF AccountInv, UnracedOK
    <3>2. defaults[k] = chosen[k]
      BY <3>1 DEF DefaultsOK
    <3>3. Leaves(f, k)'
      BY <1>3, <2>4, <3>2 DEF Leaves
    <3>4. \A s \in Tokens, d \in Forms : token[s].user = k => ~About(d, s)
      BY <1>4, <3>1 DEF TokenOK, About, Registry!Busy
    <3>5. uses[t] = 0
      BY <1>1, <2>1, <2>2, <3>1, <3>4 DEF UsesOK
    <3>6. UsesOK(k)'
      BY <2>4, <2>6, <2>7, <2>9, <3>1, <3>4, <3>5 DEF UsesOK
    <3> QED BY <3>3, <3>6
  <2> QED BY <1>6, <2>4, <2>5, <2>6, <2>8, <2>10, <2>11
<1>9. PICK k \in Users : k = form[c].user
  BY <1>7
<1>10. CASE Registry!UpdatePassword(c)
  <2>0. PICK f \in Requested : f = [form[c] EXCEPT !.pc = "consume"]
    BY <1>7 DEF Requested
  <2>1. /\ form[c].pc = "password" /\ OnUser(c, k) /\ UNCHANGED <<token, overlapped>>
        /\ form' = [form EXCEPT ![c] = f]
    BY <1>1, <1>9, <1>10, <2>0 DEF Registry!UpdatePassword, OnUser, Registry!Goto
  <2>2. f.pc = "consume" /\ f.user = k /\ f.token = form[c].token
    BY <1>7, <1>9, <2>0 DEF Requested
  <2>3. form'[c] = f /\ \A d \in Forms \ {c} : form'[d] = form[d]
    BY <1>1, <2>1
  <2>4. \A s \in Tokens, d \in Forms : About(d, s)' <=> About(d, s)
    BY <2>1, <2>2, <2>3 DEF About
  <2>5. /\ uses' \in [Tokens -> Nat]
        /\ \A s \in Tokens : uses'[s] = IF s = form[c].token THEN uses[s] + 1 ELSE uses[s]
    <3>1. PICK q : q = form[c].token
      OBVIOUS
    <3>2. uses \in [Tokens -> Nat] /\ uses' = [uses EXCEPT ![q] = uses[q] + 1]
      BY <1>1, <1>10, <3>1 DEF Registry!UpdatePassword
    <3>3. \A s \in Tokens : uses'[s] = IF s = q THEN uses[s] + 1 ELSE uses[s]
      BY <3>2
    <3>4. /\ uses' = [s \in Tokens |-> IF s = q THEN uses[q] + 1 ELSE uses[s]]
          /\ \A s \in Tokens : uses[s] \in Nat
      BY <3>2
    <3> QED BY <3>1, <3>3, <3>4
  <2>6. AccountTyped'
    BY <1>1, <1>3, <2>1, <2>5 DEF AccountTyped
  <2>7. \A s \in Tokens : s = form[c].token => /\ About(c, s) /\ token[s].user = k
                                               /\ token[s].state # "none"
    BY <1>4, <1>9, <2>1 DEF About, TokenOK
  <2>8. ASSUME NEW s \in Tokens PROVE TokenOK(s)'
    <3>1. token'[s].state = "open" => account'[token'[s].user] # "none"
      BY <1>3, <1>4, <2>1 DEF TokenOK
    <3>2. token'[s].state = "none" => uses'[s] = 0
      BY <1>4, <2>1, <2>5, <2>7 DEF TokenOK
    <3>3. \A d \in Forms : form'[d].user = form[d].user
      BY <1>9, <2>2, <2>3
    <3>4. \A d \in Forms : About(d, s)' => token'[s].state # "none" /\ token'[s].user = form'[d].user
      BY <1>4, <2>1, <2>4, <3>3 DEF TokenOK
    <3> QED BY <3>1, <3>2, <3>4 DEF TokenOK
  <2>9. ASSUME k \notin overlapped' PROVE Leaves(f, k)' /\ UsesOK(k)'
    <3>1. k \notin overlapped
      BY <2>1, <2>9
    <3>2. Leaves(form[c], k) /\ AloneOK(k) /\ UsesOK(k)
      BY <2>1, <3>1, RequestFinds
    <3>3. Leaves(f, k)'
      BY <1>3, <2>1, <2>2, <3>2 DEF Leaves
    <3>4. ASSUME NEW s \in Tokens, token[s].user = k
          PROVE  /\ uses'[s] <= 1
                 /\ uses'[s] = 1 /\ token[s].state = "open" =>
                      \E d \in Forms : About(d, s)' /\ form'[d].pc = "consume"
                 /\ \A d \in Forms : About(d, s)' /\ form'[d].pc = "password" => uses'[s] = 0
      <4>1. CASE s = form[c].token
        <5>1. uses[s] = 0 /\ uses'[s] = 1
          BY <2>1, <2>5, <2>7, <3>2, <3>4, <4>1 DEF UsesOK
        <5>2. About(c, s)' /\ form'[c].pc = "consume"
          BY <2>2, <2>3, <2>4, <2>7, <4>1
        <5>3. \A d \in Forms : About(d, s)' => d = c
          <6>1. \A d \in Forms : About(d, s) => OnUser(d, k)
            BY <1>4, <3>4 DEF TokenOK, About, OnUser
          <6> QED BY <2>1, <2>4, <3>2, <6>1 DEF AloneOK
        <5> QED BY <5>1, <5>2, <5>3
      <4>2. CASE s # form[c].token
        <5>1. uses'[s] = uses[s] /\ ~About(c, s)
          BY <2>5, <4>2 DEF About
        <5>2. \A d \in Forms : About(d, s) => form'[d] = form[d]
          BY <2>3, <5>1
        <5> QED BY <2>4, <3>2, <3>4, <5>1, <5>2 DEF UsesOK
      <4> QED BY <4>1, <4>2
    <3>5. UsesOK(k)'
      BY <2>1, <3>4 DEF UsesOK
    <3> QED BY <3>3, <3>5
  <2>10. \A s \in Tokens : token[s].user # k => uses'[s] = uses[s]
    BY <2>5, <2>7
  <2>11. (k \notin overlapped' => OnUser(c, k)) /\ overlapped \subseteq overlapped'
    BY <2>1
  <2> QED BY <1>6, <2>1, <2>2, <2>6, <2>8, <2>9, <2>10, <2>11
<1>11. CASE Registry!ConsumeToken(c) \/ Registry!Gone(c) \/ Registry!Cut(c)
  <2>1. /\ form[c].pc # "idle" /\ OnUser(c, k) /\ form' = [form EXCEPT ![c] = Registry!IdleCall]
        /\ UNCHANGED uses
    BY <1>9, <1>11 DEF Registry!ConsumeToken, Registry!Gone, Registry!Cut, OnUser,
       Registry!Return
  <2>2. form'[c].pc = "idle" /\ \A d \in Forms \ {c} : form'[d] = form[d]
    BY <1>1, <1>2, <2>1
  <2>3. overlapped' = overlapped \/ (Registry!Cut(c) /\ overlapped' = overlapped \cup {k})
    BY <1>9, <1>11 DEF Registry!ConsumeToken, Registry!Gone, Registry!Cut
  <2>4. \A s \in Tokens, d \in Forms : About(d, s)' => About(d, s) /\ d # c /\ form'[d] = form[d]
    BY <2>2 DEF About
  <2>5. /\ token' \in [Tokens -> [state : {"none", "open", "used", "gone"}, user : Users]]
        /\ \A s \in Tokens : \/ token'[s] = token[s]
                             \/ /\ Registry!ConsumeToken(c) /\ s = form[c].token
                                /\ token'[s].user = token[s].user /\ token'[s].state = "used"
                                /\ token[s].state # "none"
    <3>1. CASE token' = token
      BY <1>1, <3>1
    <3>2. CASE Registry!ConsumeToken(c)
      <4>1. /\ token' = [token EXCEPT ![form[c].token].state = "used"]
            /\ token[form[c].token].state \in {"open", "used"}
        BY <3>2 DEF Registry!ConsumeToken, Registry!Issued
      <4> QED BY <1>1, <3>2, <4>1
    <3> QED BY <1>11, <3>1, <3>2 DEF Registry!Gone, Registry!Cut
  <2>6. AccountTyped'
    BY <1>1, <1>2, <1>3, <2>1, <2>5 DEF AccountTyped
  <2>7. ASSUME NEW s \in Tokens PROVE TokenOK(s)'
    BY <1>3, <1>4, <2>1, <2>4, <2>5 DEF TokenOK
  <2>8. ASSUME k \notin overlapped' PROVE Leaves(Registry!IdleCall, k)' /\ UsesOK(k)'
    <3>1. k \notin overlapped /\ ~Registry!Cut(c) /\ (Registry!ConsumeToken(c) \/ Registry!Gone(c))
      <4>1. Registry!Cut(c) => overlapped' = overlapped \cup {k}
        BY <1>9 DEF Registry!Cut
      <4> QED BY <1>11, <2>3, <2>8, <4>1
    <3>2. Leaves(form[c], k) /\ AloneOK(k) /\ UsesOK(k)
      BY <2>1, <3>1, RequestFinds
    <3>3. Leaves(Registry!IdleCall, k)'
      <4>1. CASE account[k] = "none"
        BY <1>2, <1>3, <1>5, <4>1 DEF Leaves, AbsentOK
      <4>2. CASE form[c].pc = "consume"
        BY <1>2, <1>3, <3>2, <4>2 DEF Leaves
      <4> QED BY <1>9, <3>1, <4>1, <4>2 DEF Registry!ConsumeToken, Registry!Gone
    <3>4. ASSUME NEW s \in Tokens, token[s].user = k, token'[s].state = "open"
          PROVE  ~(About(c, s) /\ form[c].pc = "consume")
      <4>1. token[s].state = "open" /\ account[k] # "none"
        BY <1>4, <2>5, <3>4 DEF TokenOK
      <4>2. CASE Registry!ConsumeToken(c)
        <5>1. s = form[c].token => token'[s].state = "used"
          BY <1>1, <4>2 DEF Registry!ConsumeToken
        <5> QED BY <3>4, <5>1 DEF About
      <4>3. CASE Registry!Gone(c)
        BY <1>9, <4>1, <4>3 DEF Registry!Gone, About, Registry!Issued
      <4> QED BY <3>1, <4>2, <4>3
    <3>5. UsesOK(k)'
      <4>1. SUFFICES ASSUME NEW s \in Tokens, token'[s].user = k
                     PROVE  /\ uses'[s] <= 1
                            /\ uses'[s] = 1 /\ token'[s].state = "open" =>
                                 \E d \in Forms : About(d, s)' /\ form'[d].pc = "consume"
                            /\ \A d \in Forms : About(d, s)' /\ form'[d].pc = "password" => uses'[s] = 0
        BY DEF UsesOK
      <4>2. token[s].user = k /\ uses'[s] = uses[s]
        BY <2>1, <2>5, <4>1
      <4>3. uses'[s] <= 1 /\ \A d \in Forms : About(d, s)' /\ form'[d].pc = "password" => uses'[s] = 0
        BY <2>4, <3>2, <4>2 DEF UsesOK
      <4>4. ASSUME uses'[s] = 1, token'[s].state = "open"
            PROVE  \E d \in Forms : About(d, s)' /\ form'[d].pc = "consume"
        <5>1. PICK d \in Forms : About(d, s) /\ form[d].pc = "consume"
          BY <2>5, <3>2, <4>2, <4>4 DEF UsesOK
        <5>2. d # c
          BY <3>4, <4>2, <4>4, <5>1
        <5> QED BY <2>2, <5>1, <5>2 DEF About
      <4> QED BY <4>3, <4>4
    <3> QED BY <3>3, <3>5
  <2>9. \A s \in Tokens : token[s].user # k => token'[s] = token[s]
    <3>1. \A s \in Tokens : Registry!ConsumeToken(c) /\ s = form[c].token => token[s].user = k
      BY <1>4, <1>9 DEF TokenOK, About, Registry!ConsumeToken
    <3> QED BY <2>5, <3>1
  <2>10. \A s \in Tokens : token'[s].user = token[s].user
    BY <2>5
  <2>11. (k \notin overlapped' => OnUser(c, k)) /\ overlapped \subseteq overlapped'
    BY <2>1, <2>3
  <2> QED BY <1>2, <1>6, <2>1, <2>6, <2>7, <2>8, <2>9, <2>10, <2>11
<1> QED BY <1>8, <1>10, <1>11

------------------------------------------------------------------------------
(* Rows, the purge, and the whole *)

\* What touches neither requests, defaults nor tokens, and neither makes an account
\* nor removes one.
LEMMA RowsKeep ==
  ASSUME AccountInv, UNCHANGED <<defaults, token, form, chosen, uses, overlapped>>,
         account' \in [Users -> {"none", "live", "deleted", "due"}],
         \A u \in Users : account'[u] = "none" <=> account[u] = "none"
  PROVE  AccountInv'
<1>1. AccountTyped'
  BY DEF AccountInv, AccountTyped
<1>2. \A t \in Tokens : token[t].user \in Users
  BY DEF AccountInv, AccountTyped
<1>3. \A t \in Tokens : TokenOK(t)'
  BY <1>2 DEF AccountInv, TokenOK, About
<1>4. ASSUME NEW u \in Users PROVE AbsentOK(u)' /\ UnracedOK(u)'
  <2>1. AbsentOK(u)'
    BY DEF AccountInv, AbsentOK
  <2>2. ASSUME u \notin overlapped' PROVE AloneOK(u)' /\ DefaultsOK(u)' /\ UsesOK(u)'
    <3>1. AloneOK(u) /\ DefaultsOK(u) /\ UsesOK(u)
      BY <2>2 DEF AccountInv, UnracedOK
    <3> QED BY <3>1 DEF AloneOK, DefaultsOK, UsesOK, OnUser, About, Registry!Busy
  <2> QED BY <2>1, <2>2 DEF UnracedOK
<1> QED BY <1>1, <1>3, <1>4 DEF AccountInv

\* A new token has been used by nobody.
LEMMA IssueKeeps ==
  ASSUME AccountInv, NEW t \in Tokens, Registry!ForgotPassword(t)
  PROVE  AccountInv'
<1>1. PICK k \in Users : /\ account[k] # "none"
                         /\ token' = [token EXCEPT ![t] = [state |-> "open", user |-> k]]
  BY DEF Registry!ForgotPassword
<1>2. token[t].state = "none" /\ UNCHANGED <<account, defaults, form, chosen, uses, overlapped>>
  BY DEF Registry!ForgotPassword
<1>3. /\ token \in [Tokens -> [state : {"none", "open", "used", "gone"}, user : Users]]
      /\ [state |-> "open", user |-> k] \in [state : {"none", "open", "used", "gone"}, user : Users]
  BY DEF AccountInv, AccountTyped
<1>4. /\ token' \in [Tokens -> [state : {"none", "open", "used", "gone"}, user : Users]]
      /\ token'[t] = [state |-> "open", user |-> k] /\ \A s \in Tokens \ {t} : token'[s] = token[s]
  BY <1>1, <1>3
<1>5. token'[t].state = "open" /\ token'[t].user = k
  BY <1>4
<1>6. uses[t] = 0 /\ \A c \in Forms : ~About(c, t)
  BY <1>2 DEF AccountInv, TokenOK
<1>7. AccountTyped'
  BY <1>2, <1>4 DEF AccountInv, AccountTyped
<1>8. ASSUME NEW s \in Tokens PROVE TokenOK(s)'
  BY <1>1, <1>2, <1>4, <1>5, <1>6 DEF AccountInv, TokenOK, About
<1>9. ASSUME NEW u \in Users PROVE AbsentOK(u)' /\ UnracedOK(u)'
  <2>1. AbsentOK(u)'
    BY <1>2 DEF AccountInv, AbsentOK
  <2>2. ASSUME u \notin overlapped' PROVE AloneOK(u)' /\ DefaultsOK(u)' /\ UsesOK(u)'
    <3>1. AloneOK(u) /\ DefaultsOK(u) /\ UsesOK(u)
      BY <1>2, <2>2 DEF AccountInv, UnracedOK
    <3>2. AloneOK(u)' /\ DefaultsOK(u)'
      BY <1>2, <3>1 DEF AloneOK, DefaultsOK, OnUser, Registry!Busy
    <3>3. UsesOK(u)'
      BY <1>2, <1>4, <1>6, <3>1 DEF UsesOK, About
    <3> QED BY <3>1, <3>2, <3>3
  <2> QED BY <2>1, <2>2 DEF UnracedOK
<1> QED BY <1>7, <1>8, <1>9 DEF AccountInv

\* The users who are due go, with their defaults and their tokens.
LEMMA PurgeKeeps ==
  ASSUME AccountInv, Registry!PurgeUsers
  PROVE  AccountInv'
<1>1. CASE UNCHANGED <<account, defaults, chosen, owned, token>>
  <2>1. UNCHANGED <<defaults, token, form, chosen, uses, overlapped, account>>
    BY <1>1 DEF Registry!PurgeUsers
  <2>2. account \in [Users -> {"none", "live", "deleted", "due"}]
    BY DEF AccountInv, AccountTyped
  <2> QED BY <2>1, <2>2, RowsKeep
<1>2. CASE ~UNCHANGED <<account, defaults, chosen, owned, token>>
  <2>1. /\ account' = [u \in Users |-> IF u \in Registry!Due THEN "none" ELSE account[u]]
        /\ defaults' = [u \in Users |-> IF u \in Registry!Due THEN {} ELSE defaults[u]]
        /\ chosen' = [u \in Users |-> IF u \in Registry!Due THEN {} ELSE chosen[u]]
        /\ token' = [t \in Tokens |-> IF Registry!Issued(t) /\ token[t].user \in Registry!Due
                                      THEN [token[t] EXCEPT !.state = "gone"] ELSE token[t]]
    BY <1>2 DEF Registry!PurgeUsers
  <2>2. UNCHANGED <<form, uses, overlapped>>
    BY DEF Registry!PurgeUsers
  <2>3. AccountTyped
    BY DEF AccountInv
  <2>4. ASSUME NEW t \in Tokens
        PROVE  /\ token'[t] \in [state : {"none", "open", "used", "gone"}, user : Users]
               /\ token'[t].user = token[t].user
               /\ token'[t].state = IF Registry!Issued(t) /\ token[t].user \in Registry!Due
                                   THEN "gone" ELSE token[t].state
    BY <2>1, <2>3 DEF AccountTyped
  <2>5. token' \in [Tokens -> [state : {"none", "open", "used", "gone"}, user : Users]]
    BY <2>1, <2>4
  <2>6. ASSUME NEW u \in Users
        PROVE  /\ account'[u] \in {"none", "live", "deleted", "due"}
               /\ defaults'[u] \in SUBSET Types /\ chosen'[u] \in SUBSET Types
               /\ u \in Registry!Due => account'[u] = "none" /\ defaults'[u] = {} /\ chosen'[u] = {}
               /\ u \notin Registry!Due => /\ account'[u] = account[u] /\ defaults'[u] = defaults[u]
                                           /\ chosen'[u] = chosen[u]
    BY <2>1, <2>3 DEF AccountTyped
  <2>7. /\ account' \in [Users -> {"none", "live", "deleted", "due"}]
        /\ defaults' \in [Users -> SUBSET Types] /\ chosen' \in [Users -> SUBSET Types]
    BY <2>1, <2>6
  <2>8. AccountTyped'
    BY <2>2, <2>3, <2>5, <2>7 DEF AccountTyped
  <2>9. ASSUME NEW t \in Tokens PROVE TokenOK(t)'
    <3>1. token[t].user \in Users /\ TokenOK(t)
      BY <2>3 DEF AccountInv, AccountTyped
    <3>2. token'[t].state = "open" => account'[token'[t].user] # "none"
      BY <2>4, <2>6, <3>1 DEF TokenOK, Registry!Issued
    <3>3. token'[t].state = "none" => token[t].state = "none"
      BY <2>4
    <3>4. token[t].state # "none" => token'[t].state # "none"
      BY <2>4
    <3> QED BY <2>2, <2>4, <3>1, <3>2, <3>3, <3>4 DEF TokenOK, About
  <2>10. ASSUME NEW u \in Users PROVE AbsentOK(u)' /\ UnracedOK(u)'
    <3>1. AbsentOK(u)'
      BY <2>6 DEF AccountInv, AbsentOK
    <3>2. ASSUME u \notin overlapped' PROVE AloneOK(u)' /\ DefaultsOK(u)' /\ UsesOK(u)'
      <4>1. AloneOK(u) /\ DefaultsOK(u) /\ UsesOK(u)
        BY <2>2, <3>2 DEF AccountInv, UnracedOK
      <4>2. AloneOK(u)'
        BY <2>2, <4>1 DEF AloneOK, OnUser
      <4>3. \A c \in Forms : (OnUser(c, u)' <=> OnUser(c, u)) /\ form'[c] = form[c]
        BY <2>2 DEF OnUser
      <4>4. Registry!Busy(u)' <=> Registry!Busy(u)
        BY <2>2 DEF Registry!Busy
      <4>5. DefaultsOK(u)'
        BY <2>6, <4>1, <4>3, <4>4 DEF DefaultsOK
      <4>6. UsesOK(u)'
        <5>1. \A t \in Tokens : token'[t].state = "open" => token[t].state = "open"
          BY <2>4
        <5> QED BY <2>2, <2>4, <4>1, <5>1 DEF UsesOK, About
      <4> QED BY <4>2, <4>5, <4>6
    <3> QED BY <3>1, <3>2 DEF UnracedOK
  <2> QED BY <2>8, <2>9, <2>10 DEF AccountInv
<1> QED BY <1>1, <1>2

\* Every step keeps the invariant.
LEMMA RegistryGoesOn == RegistryInv /\ [Registry!Next]_accountVars => RegistryInv'
<1> SUFFICES ASSUME AccountInv, Users # {}, [Registry!Next]_accountVars PROVE AccountInv'
  BY DEF RegistryInv
<1>1. account \in [Users -> {"none", "live", "deleted", "due"}]
  BY DEF AccountInv, AccountTyped
<1>2. CASE UNCHANGED accountVars
  <2>1. UNCHANGED <<defaults, token, form, chosen, uses, overlapped, account>>
    BY <1>2 DEF accountVars
  <2> QED BY <1>1, <2>1, RowsKeep
<1>3. ASSUME NEW c \in Forms, Registry!CallStep(c) PROVE AccountInv'
  BY <1>3, DefaultsKeep, TokensKeep DEF Registry!CallStep
<1>4. CASE Registry!RowStep
  <2>1. ASSUME NEW u \in Users, Registry!DeleteAccount(u) \/ Registry!RestoreUser(u) PROVE AccountInv'
    <3>1. /\ UNCHANGED <<defaults, token, form, chosen, uses, overlapped>> /\ account[u] # "none"
          /\ \E a \in {"live", "deleted"} : account' = [account EXCEPT ![u] = a]
      BY <2>1 DEF Registry!DeleteAccount, Registry!RestoreUser
    <3>2. /\ account' \in [Users -> {"none", "live", "deleted", "due"}]
          /\ \A v \in Users : account'[v] = "none" <=> account[v] = "none"
      BY <1>1, <3>1
    <3> QED BY <3>1, <3>2, RowsKeep
  <2>2. ASSUME NEW u \in Users, NEW k \in {"job", "note"}, Registry!RemoveRow(u, k) PROVE AccountInv'
    <3>1. UNCHANGED <<defaults, token, form, chosen, uses, overlapped, account>>
      BY <2>2 DEF Registry!RemoveRow
    <3> QED BY <1>1, <3>1, RowsKeep
  <2>3. CASE Registry!RetentionPasses
    <3>1. /\ UNCHANGED <<defaults, token, form, chosen, uses, overlapped>>
          /\ account' = [u \in Users |-> Registry!Later(account[u])]
      BY <2>3 DEF Registry!RetentionPasses
    <3>2. /\ account' \in [Users -> {"none", "live", "deleted", "due"}]
          /\ \A v \in Users : account'[v] = "none" <=> account[v] = "none"
      BY <1>1, <3>1 DEF Registry!Later
    <3> QED BY <3>1, <3>2, RowsKeep
  <2> QED BY <1>4, <2>1, <2>2, <2>3, IssueKeeps DEF Registry!RowStep
<1>5. CASE Registry!PurgeStep
  <2>1. CASE \/ Registry!BeginPurge \/ Registry!PurgeJobs
            \/ Registry!PurgeBookings \/ Registry!PurgeNotes
    <3>1. UNCHANGED <<defaults, token, form, chosen, uses, overlapped, account>>
      BY <2>1 DEF Registry!BeginPurge, Registry!PurgeJobs, Registry!PurgeBookings,
         Registry!PurgeNotes
    <3> QED BY <1>1, <3>1, RowsKeep
  <2> QED BY <1>5, <2>1, PurgeKeeps DEF Registry!PurgeStep
<1> QED BY <1>2, <1>3, <1>4, <1>5 DEF Registry!Next

------------------------------------------------------------------------------
(* What is purged *)

RowKinds == {"job", "invoice", "booking", "note"}
Owned == [job : {"none", "live", "deleted", "due"}, invoice : {"none", "live", "deleted", "due"},
          booking : {"none", "live", "deleted", "due"}, note : {"none", "live", "deleted", "due"}]

OwnedOK == owned \in [Users -> Owned]

LEMMA OwnedInit == Registry!Init => OwnedOK
<1> SUFFICES ASSUME Registry!Init PROVE OwnedOK
  OBVIOUS
<1>1. Registry!Nothing \in Owned
  BY DEF Registry!Nothing, Owned
<1>2. [k \in DOMAIN Registry!Nothing |-> "live"] \in Owned
  <2>1. DOMAIN Registry!Nothing = RowKinds
    BY DEF Registry!Nothing, RowKinds
  <2>2. [k \in RowKinds |-> "live"] =
          [job |-> "live", invoice |-> "live", booking |-> "live", note |-> "live"]
    BY DEF RowKinds
  <2> QED BY <2>1, <2>2 DEF Owned
<1> QED BY <1>1, <1>2 DEF Registry!Init, OwnedOK

\* What a step may take from a user who is not due, and what of the tables it leaves.
TakenFrom(u) ==
  /\ \A k \in {"job", "booking", "note"} :
       owned[u][k] # "none" /\ owned'[u][k] = "none" => owned[u][k] = "due"
  /\ owned[u].invoice # "none" /\ owned'[u].invoice = "none" => owned[u].job = "due"

\* The rows of every user stay rows, and each goes only when it is due.
LEMMA OwnedStep ==
  ASSUME OwnedOK, [Registry!Next]_accountVars
  PROVE  OwnedOK' /\ \A u \in Users : account[u] # "due" => TakenFrom(u)
<1>1. owned \in [Users -> Owned]
  BY DEF OwnedOK
<1>2. ASSUME NEW s \in {"none", "live", "deleted", "due"}
      PROVE  /\ Registry!Later(s) \in {"none", "live", "deleted", "due"}
             /\ Registry!Later(s) = "none" => s = "none"
  BY <1>2 DEF Registry!Later
<1>3. CASE owned' = owned
  BY <1>1, <1>3 DEF OwnedOK, TakenFrom
<1>4. ASSUME NEW v \in Users, NEW k \in {"job", "note"}, Registry!RemoveRow(v, k)
      PROVE  OwnedOK' /\ \A u \in Users : account[u] # "due" => TakenFrom(u)
  <2>1. owned' = [owned EXCEPT ![v][k] = "deleted"]
    BY <1>4 DEF Registry!RemoveRow
  <2>2. [owned[v] EXCEPT ![k] = "deleted"] \in Owned
    BY <1>1 DEF Owned
  <2>3. owned' \in [Users -> Owned]
    BY <1>1, <2>1, <2>2
  <2>4. \A u \in Users : \A f \in RowKinds : owned'[u][f] = owned[u][f] \/ owned'[u][f] = "deleted"
    BY <1>1, <2>1 DEF Owned, RowKinds
  <2> QED BY <2>3, <2>4 DEF OwnedOK, TakenFrom, RowKinds
<1>5. CASE Registry!RetentionPasses
  <2>1. owned' = [u \in Users |-> [k \in DOMAIN owned[u] |-> Registry!Later(owned[u][k])]]
    BY <1>5 DEF Registry!RetentionPasses
  <2>2. ASSUME NEW u \in Users
        PROVE  /\ owned'[u] \in Owned
               /\ \A k \in RowKinds : owned'[u][k] = "none" => owned[u][k] = "none"
    <3>1. DOMAIN owned[u] = RowKinds
      BY <1>1 DEF Owned, RowKinds
    <3>2. owned'[u] = [k \in RowKinds |-> Registry!Later(owned[u][k])]
      BY <2>1, <3>1
    <3>3. \A k \in RowKinds : owned[u][k] \in {"none", "live", "deleted", "due"}
      BY <1>1 DEF Owned, RowKinds
    <3>4. owned'[u] = [job |-> Registry!Later(owned[u].job), invoice |-> Registry!Later(owned[u].invoice),
                       booking |-> Registry!Later(owned[u].booking), note |-> Registry!Later(owned[u].note)]
      BY <3>2 DEF RowKinds
    <3> QED BY <1>2, <3>2, <3>3, <3>4 DEF Owned, RowKinds
  <2>3. owned' \in [Users -> Owned]
    BY <2>1, <2>2
  <2> QED BY <2>2, <2>3 DEF OwnedOK, TakenFrom, RowKinds
<1>6. CASE Registry!PurgeJobs /\ owned' # owned
  <2>1. owned' = [u \in Users |->
          IF owned[u].job = "due" THEN [owned[u] EXCEPT !.job = "none", !.invoice = "none"]
          ELSE owned[u]]
    BY <1>6 DEF Registry!PurgeJobs, Registry!Statement
  <2>2. ASSUME NEW u \in Users PROVE owned'[u] \in Owned /\ TakenFrom(u)
    BY <1>1, <2>1 DEF Owned, TakenFrom
  <2> QED BY <2>1, <2>2 DEF OwnedOK
<1>7. CASE Registry!PurgeBookings /\ owned' # owned
  <2>1. owned' = [u \in Users |->
          IF Registry!BookingIsDue(owned[u]) THEN [owned[u] EXCEPT !.booking = "none"] ELSE owned[u]]
    BY <1>7 DEF Registry!PurgeBookings, Registry!Statement
  <2>2. ASSUME NEW u \in Users PROVE owned'[u] \in Owned /\ TakenFrom(u)
    BY <1>1, <2>1 DEF Owned, TakenFrom, Registry!BookingIsDue
  <2> QED BY <2>1, <2>2 DEF OwnedOK
<1>8. CASE Registry!PurgeNotes /\ owned' # owned
  <2>1. owned' = [u \in Users |->
          IF owned[u].note = "due" THEN [owned[u] EXCEPT !.note = "none"] ELSE owned[u]]
    BY <1>8 DEF Registry!PurgeNotes, Registry!Statement
  <2>2. ASSUME NEW u \in Users PROVE owned'[u] \in Owned /\ TakenFrom(u)
    BY <1>1, <2>1 DEF Owned, TakenFrom
  <2> QED BY <2>1, <2>2 DEF OwnedOK
<1>9. CASE Registry!PurgeUsers /\ owned' # owned
  <2>1. owned' = [u \in Users |-> IF u \in Registry!Due THEN Registry!Nothing ELSE owned[u]]
    BY <1>9 DEF Registry!PurgeUsers
  <2>2. ASSUME NEW u \in Users PROVE owned'[u] \in Owned /\ (account[u] # "due" => TakenFrom(u))
    BY <1>1, <2>1 DEF Owned, TakenFrom, Registry!Due, Registry!Nothing
  <2> QED BY <2>1, <2>2 DEF OwnedOK
<1>10. \/ owned' = owned \/ Registry!RetentionPasses \/ Registry!PurgeJobs
       \/ Registry!PurgeBookings \/ Registry!PurgeNotes \/ Registry!PurgeUsers
       \/ \E u \in Users, k \in {"job", "note"} : Registry!RemoveRow(u, k)
  <2>1. ASSUME NEW c \in Forms, Registry!CallStep(c) PROVE owned' = owned
    BY <2>1 DEF Registry!CallStep, Registry!BeginRegister, Registry!CreateUser,
       Registry!UpsertSigningDefault, Registry!UpsertsDone,
       Registry!StartSequence, Registry!BeginSync, Registry!DeleteTypes,
       Registry!ValidateToken, Registry!UpdatePassword, Registry!ConsumeToken,
       Registry!Gone, Registry!Cut
  <2>2. CASE Registry!RowStep
    BY <2>2 DEF Registry!RowStep, Registry!ForgotPassword, Registry!DeleteAccount,
       Registry!RestoreUser
  <2> QED BY <2>1, <2>2 DEF Registry!Next, accountVars, Registry!PurgeStep,
     Registry!BeginPurge
<1> QED BY <1>3, <1>4, <1>5, <1>6, <1>7, <1>8, <1>9, <1>10

\* No account and no token goes that is not due, or its user's.
LEMMA RowsStay ==
  ASSUME AccountInv, [Registry!Next]_accountVars, NEW u \in Users, account[u] # "due"
  PROVE  /\ account[u] # "none" => account'[u] # "none"
         /\ \A t \in Tokens : Registry!Issued(t) /\ token[t].user = u => Registry!Issued(t)'
<1>1. /\ account \in [Users -> {"none", "live", "deleted", "due"}]
      /\ token \in [Tokens -> [state : {"none", "open", "used", "gone"}, user : Users]]
  BY DEF AccountInv, AccountTyped
<1>2. ASSUME NEW c \in Forms, Registry!CallStep(c)
      PROVE  /\ account' = account \/ \E v \in Users : account' = [account EXCEPT ![v] = "live"]
             /\ token' = token \/ \E t \in Tokens : token' = [token EXCEPT ![t].state = "used"]
  <2>1. CASE Registry!ConsumeToken(c)
    <3>1. account' = account /\ token' = [token EXCEPT ![form[c].token].state = "used"]
      BY <2>1 DEF Registry!ConsumeToken
    <3>2. form[c].token \notin Tokens => token' = token
      BY <1>1, <3>1
    <3> QED BY <3>1, <3>2
  <2>2. CASE Registry!CreateUser(c)
    <3>1. form[c].user \in Users
      BY DEF AccountInv, AccountTyped, Requested
    <3> QED BY <2>2, <3>1 DEF Registry!CreateUser
  <2> QED BY <1>2, <2>1, <2>2 DEF Registry!CallStep, Registry!BeginRegister,
     Registry!UpsertSigningDefault, Registry!UpsertsDone,
        Registry!StartSequence, Registry!BeginSync, Registry!DeleteTypes,
        Registry!ValidateToken, Registry!UpdatePassword, Registry!Gone, Registry!Cut
<1>3. ASSUME NEW c \in Forms, Registry!CallStep(c)
      PROVE  /\ account[u] # "none" => account'[u] # "none"
             /\ \A t \in Tokens : Registry!Issued(t) => Registry!Issued(t)'
  BY <1>1, <1>2, <1>3 DEF Registry!Issued
<1>4. CASE Registry!RowStep
  <2>1. account[u] # "none" => account'[u] # "none"
    BY <1>1, <1>4 DEF Registry!RowStep, Registry!ForgotPassword, Registry!DeleteAccount,
       Registry!RestoreUser, Registry!RemoveRow,
       Registry!RetentionPasses, Registry!Later
  <2>2. token' = token \/ \E t \in Tokens : Registry!ForgotPassword(t)
    BY <1>4 DEF Registry!RowStep, Registry!DeleteAccount, Registry!RestoreUser,
       Registry!RemoveRow, Registry!RetentionPasses
  <2>3. ASSUME NEW t \in Tokens, Registry!ForgotPassword(t)
        PROVE  \A s \in Tokens : Registry!Issued(s) => Registry!Issued(s)'
    <3>1. PICK k \in Users : token' = [token EXCEPT ![t] = [state |-> "open", user |-> k]]
      BY <2>3 DEF Registry!ForgotPassword
    <3> QED BY <1>1, <3>1 DEF Registry!Issued
  <2> QED BY <2>1, <2>2, <2>3 DEF Registry!Issued
<1>5. CASE Registry!PurgeStep
  <2>1. CASE Registry!PurgeUsers
    <3>1. /\ \/ account' = account
             \/ account' = [v \in Users |-> IF v \in Registry!Due THEN "none" ELSE account[v]]
          /\ \/ token' = token
             \/ token' = [t \in Tokens |-> IF Registry!Issued(t) /\ token[t].user \in Registry!Due
                                           THEN [token[t] EXCEPT !.state = "gone"] ELSE token[t]]
      BY <2>1 DEF Registry!PurgeUsers
    <3>2. u \notin Registry!Due
      BY DEF Registry!Due
    <3> QED BY <1>1, <3>1, <3>2 DEF Registry!Issued
  <2>2. CASE \/ Registry!BeginPurge \/ Registry!PurgeJobs
            \/ Registry!PurgeBookings \/ Registry!PurgeNotes
    BY <2>2 DEF Registry!BeginPurge, Registry!PurgeJobs, Registry!PurgeBookings,
       Registry!PurgeNotes, Registry!Issued
  <2> QED BY <1>5, <2>1, <2>2 DEF Registry!PurgeStep
<1>6. CASE UNCHANGED accountVars
  BY <1>6 DEF accountVars, Registry!Issued
<1> QED BY <1>3, <1>4, <1>5, <1>6 DEF Registry!Next

------------------------------------------------------------------------------
(* Session *)

\* A request under way is at a server.
Visits == [pc : {"idle", "guard", "lookUp", "remember", "revoke", "answer"},
         server : Servers \cup {Login!AServer}, kind : {"page", "logout"}, seen : BOOLEAN]

SessionTyped ==
  /\ revoked \in BOOLEAN
  /\ cache \in [Servers -> {"absent", "ok", "revoked"}]
  /\ request \in [Requests -> Visits]
  /\ \A r \in Requests : request[r].pc # "idle" => request[r].server \in Servers
  /\ loggedOut \subseteq Servers

\* Who answers a logout has revoked the token.
RevokedFirst ==
  loggedOut # {} \/ (\E r \in Requests : request[r].pc = "answer") => revoked

\* A server that has answered has neither remembered the token for good nor read so.
Forgotten(s) == cache[s] # "ok" /\ ~Login!LookupBehind(s)

SessionInv == SessionTyped /\ RevokedFirst /\ \A s \in loggedOut \ late : Forgotten(s)

LEMMA SessionInit == Login!Init => SessionInv
<1> SUFFICES ASSUME Login!Init PROVE SessionInv
  OBVIOUS
<1>1. Login!Idle \in Visits /\ Login!Idle.pc = "idle"
  BY DEF Login!Idle, Visits
<1> QED BY <1>1 DEF Login!Init, SessionInv, SessionTyped, RevokedFirst

\* A request is in a step of its own: the others stay where they are.
LEMMA VisitMoves ==
  ASSUME SessionInv, NEW r \in Requests, NEW f \in Visits, f.pc # "idle" => f.server \in Servers,
         request' = [request EXCEPT ![r] = f]
  PROVE  /\ request' \in [Requests -> Visits] /\ request'[r] = f
         /\ \A q \in Requests \ {r} : request'[q] = request[q]
         /\ \A q \in Requests : request'[q].pc # "idle" => request'[q].server \in Servers
BY DEF SessionInv, SessionTyped

\* What reads or decides, and answers no logout.
LEMMA ReadKeeps ==
  ASSUME SessionInv, NEW r \in Requests,
         Login!Arrive(r) \/ Login!Guard(r) \/ Login!LookUp(r) \/ Login!Remember(r) \/ Login!Revoke(r)
  PROVE  SessionInv'
<1>1. /\ request \in [Requests -> Visits] /\ cache \in [Servers -> {"absent", "ok", "revoked"}]
      /\ UNCHANGED <<loggedOut, late>>
  BY DEF SessionInv, SessionTyped, Login!Arrive, Login!Guard, Login!LookUp, Login!Remember,
     Login!Revoke
<1>2. Login!Idle \in Visits /\ Login!Idle.pc = "idle"
  BY DEF Login!Idle, Visits
<1>3. (revoked => revoked') /\ revoked' \in BOOLEAN
  <2>1. CASE revoked' = revoked
    BY <2>1 DEF SessionInv, SessionTyped
  <2>2. CASE revoked' = TRUE
    BY <2>2, Zenon
  <2> QED BY <2>1, <2>2 DEF Login!Arrive, Login!Guard, Login!LookUp, Login!Remember,
     Login!Revoke
<1>4. \A s \in loggedOut : revoked
  BY DEF SessionInv, RevokedFirst
\* It suffices that the request goes on at its server, a verdict it brings along is true
\* or was brought along before, and only such a verdict is remembered.
<1>5. ASSUME NEW f \in Visits, f.pc # "idle" => f.server \in Servers,
             request' = [request EXCEPT ![r] = f],
             f.pc = "answer" => revoked',
             f.pc = "remember" /\ ~f.seen => ~revoked,
             cache' \in [Servers -> {"absent", "ok", "revoked"}],
             \A s \in Servers : cache'[s] = "ok" => cache[s] = "ok" \/ Login!LookupBehind(s)
      PROVE  SessionInv'
  <2>1. /\ request' \in [Requests -> Visits] /\ request'[r] = f
        /\ \A q \in Requests \ {r} : request'[q] = request[q]
        /\ \A q \in Requests : request'[q].pc # "idle" => request'[q].server \in Servers
    BY <1>5, VisitMoves
  <2>2. SessionTyped'
    BY <1>1, <1>3, <1>5, <2>1 DEF SessionInv, SessionTyped
  <2>3. RevokedFirst'
    <3>1. ASSUME NEW q \in Requests, request'[q].pc = "answer" PROVE revoked'
      BY <1>3, <1>5, <2>1, <3>1 DEF SessionInv, RevokedFirst
    <3>2. loggedOut' # {} => revoked'
      BY <1>1, <1>3 DEF SessionInv, RevokedFirst
    <3> QED BY <3>1, <3>2 DEF RevokedFirst
  <2>4. ASSUME NEW s \in loggedOut \ late PROVE Forgotten(s)'
    <3>1. Forgotten(s) /\ revoked
      BY <1>4 DEF SessionInv
    <3>2. ~Login!LookupBehind(s)'
      <4>1. ASSUME NEW q \in Requests, request'[q].pc = "remember", request'[q].server = s,
                   ~request'[q].seen
            PROVE  FALSE
        BY <1>5, <2>1, <3>1, <4>1 DEF Forgotten, Login!LookupBehind
      <4> QED BY <4>1 DEF Login!LookupBehind
    <3>3. cache'[s] # "ok"
      BY <1>5, <3>1 DEF Forgotten, SessionInv, SessionTyped
    <3> QED BY <3>2, <3>3 DEF Forgotten
  <2> QED BY <1>1, <2>2, <2>3, <2>4 DEF SessionInv
<1>6. ASSUME NEW pc \in {"guard", "lookUp", "remember", "revoke", "answer"},
             request[r].pc # "idle"
      PROVE  /\ [request[r] EXCEPT !.pc = pc] \in Visits
             /\ [request[r] EXCEPT !.pc = pc].pc = pc
             /\ [request[r] EXCEPT !.pc = pc].server = request[r].server
             /\ [request[r] EXCEPT !.pc = pc].server \in Servers
  BY <1>1, <1>6 DEF Visits, SessionInv, SessionTyped
<1>7. ASSUME request[r].pc # "idle", UNCHANGED cache,
             Login!Return(r) \/ Login!Goto(r, "lookUp") \/ Login!Goto(r, "revoke")
      PROVE  SessionInv'
  <2>1. CASE Login!Return(r)
    BY <1>1, <1>2, <1>5, <1>7, <2>1 DEF Login!Return
  <2>2. ASSUME NEW pc \in {"lookUp", "revoke"}, Login!Goto(r, pc) PROVE SessionInv'
    <3>1. request' = [request EXCEPT ![r] = [request[r] EXCEPT !.pc = pc]]
      BY <1>1, <2>2 DEF Login!Goto
    <3> QED BY <1>1, <1>5, <1>6, <1>7, <2>2, <3>1
  <2> QED BY <1>7, <2>1, <2>2
<1>8. CASE Login!Arrive(r)
  <2>1. PICK s \in Servers, k \in {"page", "logout"} :
          request' = [request EXCEPT ![r] = [pc |-> "guard", server |-> s, kind |-> k, seen |-> FALSE]]
    BY <1>8 DEF Login!Arrive
  <2>2. [pc |-> "guard", server |-> s, kind |-> k, seen |-> FALSE] \in Visits
    BY DEF Visits
  <2>3. UNCHANGED cache
    BY <1>8 DEF Login!Arrive
  <2> QED BY <1>1, <1>5, <2>1, <2>2, <2>3
<1>9. CASE Login!Guard(r)
  <2>1. request[r].pc = "guard" /\ UNCHANGED cache
    BY <1>9 DEF Login!Guard
  <2>2. Login!Goto(r, "lookUp") \/ Login!Goto(r, "revoke") \/ Login!Return(r)
    BY <1>9 DEF Login!Guard, Login!Decide
  <2> QED BY <1>7, <2>1, <2>2
<1>10. CASE Login!LookUp(r)
  <2>1. request[r].pc = "lookUp" /\ UNCHANGED <<cache, revoked>>
    BY <1>10 DEF Login!LookUp
  <2>2. CASE Login!Decide(r, FALSE)
    BY <1>7, <2>1, <2>2 DEF Login!Decide
  <2>3. CASE request' = [request EXCEPT ![r].pc = "remember", ![r].seen = revoked]
    <3>1. PICK v \in BOOLEAN : v = revoked
      BY DEF SessionInv, SessionTyped
    <3> DEFINE g == [request[r] EXCEPT !.pc = "remember"]
               f == [g EXCEPT !.seen = v]
    <3>2. /\ g \in Visits /\ g.pc = "remember"
          /\ g.server = request[r].server /\ g.server \in Servers
      BY <1>1, <2>1 DEF Visits, SessionInv, SessionTyped
    <3>3. request' = [request EXCEPT ![r] = f]
      BY <1>1, <2>3, <3>1
    <3> HIDE DEF g
    <3>4. f \in Visits /\ f.pc = "remember" /\ f.server \in Servers
      BY <3>2 DEF Visits
    <3>5. f.seen = v
      BY <3>2, Zenon DEF Visits
    <3>6. ~f.seen => ~revoked
      BY <3>1, <3>5, Zenon
    <3> HIDE DEF f
    <3> QED BY <1>1, <1>5, <2>1, <3>3, <3>4, <3>6
  <2> QED BY <1>10, <2>2, <2>3 DEF Login!LookUp
<1>11. CASE Login!Remember(r)
  <2>1. /\ request[r].pc = "remember" /\ request[r].server \in Servers
        /\ cache' = [cache EXCEPT ![request[r].server] = IF request[r].seen THEN "revoked" ELSE "ok"]
    BY <1>11 DEF Login!Remember, SessionInv, SessionTyped
  <2>2. cache' \in [Servers -> {"absent", "ok", "revoked"}]
    BY <1>1, <2>1
  <2>3. \A s \in Servers : cache'[s] = "ok" => cache[s] = "ok" \/ Login!LookupBehind(s)
    BY <1>1, <2>1 DEF Login!LookupBehind
  <2>4. CASE Login!Return(r)
    BY <1>2, <1>5, <2>2, <2>3, <2>4 DEF Login!Return
  <2>5. CASE Login!Goto(r, "revoke")
    <3>1. request' = [request EXCEPT ![r] = [request[r] EXCEPT !.pc = "revoke"]]
      BY <1>1, <2>5 DEF Login!Goto
    <3> QED BY <1>5, <1>6, <2>1, <2>2, <2>3, <3>1
  <2> QED BY <1>11, <2>4, <2>5 DEF Login!Remember, Login!Decide
<1>12. CASE Login!Revoke(r)
  <2>1. request[r].pc = "revoke" /\ UNCHANGED cache
    BY <1>12 DEF Login!Revoke
  <2>2. CASE Login!Return(r)
    BY <1>7, <2>1, <2>2
  <2>3. CASE Login!Goto(r, "answer") /\ revoked'
    <3>1. request' = [request EXCEPT ![r] = [request[r] EXCEPT !.pc = "answer"]]
      BY <1>1, <2>3 DEF Login!Goto
    <3> QED BY <1>1, <1>5, <1>6, <2>1, <2>3, <3>1
  <2> QED BY <1>12, <2>2, <2>3 DEF Login!Revoke
<1> QED BY <1>8, <1>9, <1>10, <1>11, <1>12

\* A server that answers a logout forgets its verdict.
LEMMA AnswerKeeps ==
  ASSUME SessionInv, NEW r \in Requests, Login!Answer(r)
  PROVE  SessionInv'
<1>1. PICK s \in Servers : s = request[r].server
  BY DEF Login!Answer, SessionInv, SessionTyped
<1>2. /\ request[r].pc = "answer" /\ request' = [request EXCEPT ![r] = Login!Idle]
      /\ cache' = [cache EXCEPT ![s] = "absent"] /\ loggedOut' = loggedOut \cup {s}
      /\ late' = IF Login!LookupBehind(s) THEN late \cup {s} ELSE late
  BY <1>1 DEF Login!Answer, Login!Answered, Login!Return
<1>3. revoked' = revoked /\ revoked /\ revoked' \in BOOLEAN
  BY <1>2 DEF Login!Answer, SessionInv, SessionTyped, RevokedFirst
<1>4. Login!Idle \in Visits /\ Login!Idle.pc = "idle"
  BY DEF Login!Idle, Visits
<1>5. /\ request' \in [Requests -> Visits] /\ request'[r].pc = "idle"
      /\ \A q \in Requests \ {r} : request'[q] = request[q]
      /\ \A q \in Requests : request'[q].pc # "idle" => request'[q].server \in Servers
  BY <1>2, <1>4, VisitMoves
<1>6. cache' \in [Servers -> {"absent", "ok", "revoked"}] /\ cache'[s] = "absent"
      /\ \A q \in Servers \ {s} : cache'[q] = cache[q]
  BY <1>2 DEF SessionInv, SessionTyped
<1>7. SessionTyped'
  BY <1>2, <1>3, <1>5, <1>6 DEF SessionInv, SessionTyped
<1>8. ASSUME NEW q \in loggedOut' \ late' PROVE Forgotten(q)'
  <2>1. Login!LookupBehind(q)' => Login!LookupBehind(q)
    BY <1>2, <1>5 DEF Login!LookupBehind
  <2>2. CASE q = s
    BY <1>2, <1>6, <1>8, <2>1, <2>2 DEF Forgotten
  <2>3. CASE q # s
    <3>1. q \in loggedOut \ late /\ q \in Servers
      BY <1>2, <1>8, <2>3 DEF SessionInv, SessionTyped
    <3>2. Forgotten(q)
      BY <3>1 DEF SessionInv
    <3> QED BY <1>6, <2>1, <2>3, <3>1, <3>2 DEF Forgotten
  <2> QED BY <2>2, <2>3
<1>9. RevokedFirst'
  BY <1>3, Zenon DEF RevokedFirst
<1> QED BY <1>7, <1>8, <1>9 DEF SessionInv

LEMMA SessionStep == SessionInv /\ [Login!Next]_sessionVars => SessionInv'
<1> SUFFICES ASSUME SessionInv, [Login!Next]_sessionVars PROVE SessionInv'
  OBVIOUS
<1>1. CASE UNCHANGED sessionVars
  <2>1. UNCHANGED <<cache, request, loggedOut, late>> /\ UNCHANGED revoked
    BY <1>1 DEF sessionVars
  <2>2. SessionTyped' /\ \A s \in (loggedOut \ late)' : Forgotten(s)'
    BY <2>1 DEF SessionInv, SessionTyped, Forgotten, Login!LookupBehind
  <2>3. RevokedFirst'
    BY <2>1 DEF SessionInv, RevokedFirst
  <2> QED BY <2>2, <2>3 DEF SessionInv
<1>2. ASSUME NEW s \in Servers, Login!Forget(s) PROVE SessionInv'
  <2>1. cache' = [cache EXCEPT ![s] = "absent"] /\ UNCHANGED <<request, loggedOut, late>>
        /\ UNCHANGED revoked
    BY <1>2 DEF Login!Forget
  <2>2. cache' \in [Servers -> {"absent", "ok", "revoked"}]
        /\ \A q \in Servers : cache'[q] = "ok" => cache[q] = "ok"
    BY <2>1 DEF SessionInv, SessionTyped
  <2>3. SessionTyped' /\ \A q \in (loggedOut \ late)' : Forgotten(q)'
    BY <2>1, <2>2 DEF SessionInv, SessionTyped, Forgotten, Login!LookupBehind
  <2>4. RevokedFirst'
    BY <2>1 DEF SessionInv, RevokedFirst
  <2> QED BY <2>3, <2>4 DEF SessionInv
<1> QED BY <1>1, <1>2, ReadKeeps, AnswerKeeps DEF Login!Next, Login!Step

------------------------------------------------------------------------------
(* The composition *)

\* What Accounts follows, it follows by the steps of Account and of Session.
LEMMA StandingFollowed ==
  /\ AccountsInit => RegistryInv /\ OwnedOK /\ SessionInv
  /\ [AccountsNext]_standing => [Registry!Next]_accountVars /\ [Login!Next]_sessionVars
<1>1. AccountsInit => RegistryInv /\ OwnedOK /\ SessionInv
  BY RegistryBegins, OwnedInit, SessionInit DEF AccountsInit
<1>2. [AccountsNext]_standing => [Registry!Next]_accountVars
  BY DEF AccountsNext, standing
<1>3. [AccountsNext]_standing => [Login!Next]_sessionVars
  BY DEF AccountsNext, standing
<1> QED BY <1>1, <1>2, <1>3

\* Requests have their effect, unless they overlapped or were cut off: the signing
\* defaults of a user who waits for nothing are those last asked for, a reset token sets
\* one password, and a server that answered a logout holds the token for good no more,
\* unless one of its lookups was under way then.
THEOREM RequestsHaveEffect == AccountsSpec => []RequestsTakeEffect
<1>1. RegistryInv => Registry!RequestsTakeEffect
  <2> SUFFICES ASSUME RegistryInv, NEW u \in Users, u \notin overlapped
               PROVE  /\ ~Registry!Busy(u) => defaults[u] = chosen[u]
                      /\ \A t \in Tokens : token[t].user = u => uses[t] <= 1
    BY DEF Registry!RequestsTakeEffect
  <2> QED BY DEF RegistryInv, AccountInv, UnracedOK, DefaultsOK, UsesOK
<1>2. SessionInv => Login!LogoutHolds
  BY DEF SessionInv, Forgotten, Login!LogoutHolds
<1>3. RegistryInv /\ SessionInv => RequestsTakeEffect
  BY <1>1, <1>2 DEF RequestsTakeEffect
<1> QED BY <1>3, StandingFollowed, RegistryGoesOn, SessionStep, PTL DEF AccountsSpec

\* Only what was deleted itself and is due is ever purged, with what belongs to it.
THEOREM PurgesTheDeleted == AccountsSpec => PurgeTakesTheDeleted
<1>1. OwnedOK /\ [Registry!Next]_accountVars => OwnedOK'
  BY OwnedStep
<1>2. RegistryInv /\ OwnedOK /\ [Registry!Next]_accountVars =>
        [\A u \in Users :
           account[u] # "due" =>
             /\ account[u] # "none" => account'[u] # "none"
             /\ \A k \in {"job", "booking", "note"} :
                  owned[u][k] # "none" /\ owned'[u][k] = "none" => owned[u][k] = "due"
             /\ owned[u].invoice # "none" /\ owned'[u].invoice = "none" => owned[u].job = "due"
             /\ \A t \in Tokens :
                  Registry!Issued(t) /\ token[t].user = u => Registry!Issued(t)']_(Registry!vars)
  <2> SUFFICES ASSUME RegistryInv, OwnedOK, [Registry!Next]_accountVars, NEW u \in Users,
                      account[u] # "due"
               PROVE  /\ account[u] # "none" => account'[u] # "none"
                      /\ TakenFrom(u)
                      /\ \A t \in Tokens :
                           Registry!Issued(t) /\ token[t].user = u => Registry!Issued(t)'
    BY DEF TakenFrom
  <2>1. AccountInv
    BY DEF RegistryInv
  <2> QED BY <2>1, OwnedStep, RowsStay
<1> QED BY <1>1, <1>2, StandingFollowed, RegistryGoesOn, PTL
     DEF AccountsSpec, PurgeTakesTheDeleted, Registry!PurgeTakesTheDeleted
==============================================================================
