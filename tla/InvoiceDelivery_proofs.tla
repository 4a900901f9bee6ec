----------------------- MODULE InvoiceDelivery_proofs ------------------------
(***************************************************************************)
(* Proofs about InvoiceDelivery, for any set of workers, any finite set of *)
(* callers and any bounds.  IInv is inductive; it implies the two safety   *)
(* invariants.                                                             *)
(***************************************************************************)
EXTENDS InvoiceDelivery, FiniteSetTheorems, TLAPS

------------------------------------------------------------------------------
(* Updates of one field and of one count *)

\* Changing the program counter of a slot or of a call keeps its type.
LEMMA PcUpdate ==
  /\ \A s \in WorkerType, pc \in {"mailing", "recording", "failing"} :
       [s EXCEPT !.pc = pc] \in WorkerType
  /\ \A s \in WorkerType : [s EXCEPT !.locked = FALSE] \in WorkerType
  /\ \A q \in CallType, pc \in {"clearing", "adding"} :
       [q EXCEPT !.pc = pc] \in CallType
BY DEF WorkerType, CallType

\* What counting one more claim or mail of attempt a of cycle c does.
LEMMA CountUp ==
  ASSUME NEW f \in [Cycles -> [Attempts -> Nat]], NEW c, NEW a \in Attempts
  PROVE  /\ Counted(f, c, a) \in [Cycles -> [Attempts -> Nat]]
         /\ \A d \in Cycles, b \in Attempts :
              Counted(f, c, a)[d][b] = IF d = c /\ b = a THEN f[d][b] + 1 ELSE f[d][b]
<1>1. CASE c \in Cycles
  <2>1. [f[c] EXCEPT ![a] = f[c][a] + 1] \in [Attempts -> Nat]
    BY <1>1
  <2>2. Counted(f, c, a) = [f EXCEPT ![c] = [f[c] EXCEPT ![a] = f[c][a] + 1]]
    BY DEF Counted
  <2> QED BY <1>1, <2>1, <2>2
<1>2. CASE c \notin Cycles
  <2>1. Counted(f, c, a) = f
    BY <1>2 DEF Counted
  <2> QED BY <1>2, <2>1
<1> QED BY <1>1, <1>2

------------------------------------------------------------------------------
(* Types *)

\* The unreset sends are finitely many.
LEMMA UnresetFinite ==
  IsFiniteSet(Unreset) /\ Cardinality(Unreset) \in Nat
BY FiniteAssumption, FS_Subset, FS_CardinalityType DEF Unreset

\* A step of send keeps its variables' types; the other variables are untouched
\* or, for the queue and the faults, typed by their own update.
LEMMA RequestType ==
  ASSUME TypeOK, NEW r \in Requests, SendStep(r)
  PROVE  request' \in [Requests -> CallType]
<1> USE DEF TypeOK, CallType, Attempts
<1>1. request \in [Requests -> CallType] /\ request[r] \in CallType
  OBVIOUS
<1>2. CASE BeginSend(r)
  <2>1. [pc |-> "removing", next |-> 1] \in CallType
    OBVIOUS
  <2> QED BY <1>1, <1>2, <2>1 DEF BeginSend
<1>3. CASE RemoveStale(r)
  <2>1. request[r].next # 3 => request[r].next + 1 \in 1..3
    BY <1>1
  <2> QED BY <1>1, <1>3, <2>1 DEF RemoveStale
<1>4. CASE Reset(r) \/ ClearPrior(r)
  <2>1. PICK pc \in {"clearing", "adding"} :
          request' = [request EXCEPT ![r] = [request[r] EXCEPT !.pc = pc]]
    BY <1>4 DEF Reset, ClearPrior
  <2>2. [request[r] EXCEPT !.pc = pc] \in CallType
    BY <1>1, PcUpdate
  <2> HIDE DEF CallType
  <2> QED BY <1>1, <2>1, <2>2
<1>5. CASE EnqueueFirst(r)
  BY <1>1, <1>5 DEF EnqueueFirst, IdleCall
<1> QED BY <1>2, <1>3, <1>4, <1>5 DEF SendStep

\* Adding to and removing from the queue keep its type.
LEMMA QueueType ==
  ASSUME NEW a \in Attempts, queue \in [Attempts -> {"none", "waiting", "active"}],
         QueueAdd(a) \/ QueueRemove(a)
  PROVE  queue' \in [Attempts -> {"none", "waiting", "active"}]
BY DEF QueueAdd, QueueRemove

\* A slot that finishes is idle, and the queue keeps its type.
LEMMA FinishType ==
  ASSUME TypeOK, NEW w \in Workers, Finish(w)
  PROVE  /\ worker' \in [Workers -> WorkerType]
         /\ queue' \in [Attempts -> {"none", "waiting", "active"}]
<1>1. IdleWorker \in WorkerType
  BY BoundsAssumption DEF IdleWorker, WorkerType, Attempts
<1> QED BY <1>1 DEF TypeOK, Finish

\* A fault stays within its bound.
LEMMA FaultType ==
  ASSUME faults \in 0..MaxFaults, Fault
  PROVE  faults' \in 0..MaxFaults
BY BoundsAssumption DEF Fault

\* Every step of send keeps the types, given that the sends in flight fit.
LEMMA SendType ==
  ASSUME TypeOK, SendsFit, NEW r \in Requests, SendStep(r)
  PROVE  TypeOK'
<1>1. request' \in [Requests -> CallType]
  BY RequestType
<1>2. CASE BeginSend(r)
  BY <1>1, <1>2 DEF BeginSend, TypeOK
<1>3. CASE RemoveStale(r)
  <2>1. request[r].next \in Attempts
    BY DEF TypeOK, CallType
  <2>2. queue' \in [Attempts -> {"none", "waiting", "active"}]
    BY <1>3, <2>1, QueueType DEF RemoveStale, TypeOK
  <2> QED BY <1>1, <1>3, <2>2 DEF RemoveStale, TypeOK
<1>4. CASE Reset(r)
  <2>1. inv' \in RowType
    <3>1. inv.sent \in BOOLEAN
      BY DEF TypeOK, RowType
    <3> QED BY <1>4, <3>1 DEF Reset, RowType
  <2>2. r \in Unreset
    BY <1>4 DEF Reset, Unreset
  <2>3. Cardinality(Unreset) # 0
    BY <2>2, UnresetFinite, FS_EmptySet
  <2>4. cycle' = cycle + 1 /\ cycle \in 0..MaxCycles
    BY <1>4 DEF Reset, TypeOK
  <2>5. cycle' \in 0..MaxCycles
    BY <2>3, <2>4, UnresetFinite, BoundsAssumption DEF SendsFit
  <2> QED BY <1>1, <1>4, <2>1, <2>5 DEF Reset, TypeOK
<1>5. CASE ClearPrior(r)
  <2>1. queue' \in [Attempts -> {"none", "waiting", "active"}]
    BY <1>5, QueueType DEF ClearPrior, TypeOK, Attempts
  <2> QED BY <1>1, <1>5, <2>1 DEF ClearPrior, TypeOK
<1>6. CASE EnqueueFirst(r)
  <2>1. queue' \in [Attempts -> {"none", "waiting", "active"}]
    BY <1>6, QueueType DEF EnqueueFirst, TypeOK, Attempts
  <2>2. faults' \in 0..MaxFaults
    BY <1>6, FaultType DEF EnqueueFirst, TypeOK
  <2> QED BY <1>1, <1>6, <2>1, <2>2 DEF EnqueueFirst, TypeOK
<1> QED BY <1>2, <1>3, <1>4, <1>5, <1>6 DEF SendStep

\* Every step of a worker keeps the types.
LEMMA WorkerStepType ==
  ASSUME TypeOK, NEW w \in Workers, Take(w) \/ HandlerStep(w) \/ FaultStep(w)
  PROVE  TypeOK'
<1>r. /\ inv \in RowType /\ inv.sent \in BOOLEAN /\ inv.error \in BOOLEAN
      /\ inv.failed \in BOOLEAN /\ inv.due \in BOOLEAN /\ inv.attempts \in 0..3
  BY DEF TypeOK, RowType
<1>w. /\ worker[w] \in WorkerType /\ worker[w].attempt \in Attempts
      /\ worker[w].cycle \in 0..MaxCycles /\ worker[w].locked \in BOOLEAN
  BY DEF TypeOK, WorkerType
<1>1. CASE Take(w)
  <2>1. PICK a \in Attempts :
          /\ queue' = [queue EXCEPT ![a] = "active"]
          /\ worker' = [worker EXCEPT ![w] =
               [pc |-> "claiming", attempt |-> a, cycle |-> 0, locked |-> TRUE]]
    BY <1>1 DEF Take
  <2>2. [pc |-> "claiming", attempt |-> a, cycle |-> 0, locked |-> TRUE] \in WorkerType
    BY BoundsAssumption DEF WorkerType
  <2>3. worker' \in [Workers -> WorkerType]
    BY <2>1, <2>2 DEF TypeOK
  <2>4. queue' \in [Attempts -> {"none", "waiting", "active"}]
    BY <2>1 DEF TypeOK
  <2> QED BY <1>1, <2>3, <2>4 DEF Take, TypeOK
<1>2. CASE Claim(w)
  <2>1. inv' \in RowType
    BY <1>2, <1>r, <1>w DEF Claim, RowType, Attempts
  <2>2. worker' \in [Workers -> WorkerType]
    <3>1. [pc |-> "mailing", attempt |-> worker[w].attempt, cycle |-> cycle,
           locked |-> worker[w].locked] \in WorkerType
      BY <1>w DEF WorkerType, TypeOK
    <3> QED BY <1>2, <3>1 DEF Claim, TypeOK
  <2>3. claims' \in [Cycles -> [Attempts -> Nat]]
    BY <1>2, <1>w, CountUp DEF Claim, TypeOK
  <2> QED BY <1>2, <2>1, <2>2, <2>3 DEF Claim, TypeOK
<1>3. CASE ClaimRefused(w)
  BY <1>3, FinishType DEF ClaimRefused, TypeOK
<1>4. CASE OptedOut(w)
  <2>1. inv' \in RowType
    BY <1>4, <1>r DEF OptedOut, Closed, RowType
  <2> QED BY <1>4, <2>1, FinishType DEF OptedOut, TypeOK
<1>5. CASE Mail(w)
  <2>1. worker' \in [Workers -> WorkerType]
    <3>1. PICK pc \in {"recording", "failing"} :
            worker' = [worker EXCEPT ![w] = [worker[w] EXCEPT !.pc = pc]]
      BY <1>5 DEF Mail
    <3> QED BY <1>w, <3>1, PcUpdate DEF TypeOK
  <2>2. mails' \in [Cycles -> [Attempts -> Nat]]
    BY <1>5, <1>w, CountUp DEF Mail, TypeOK
  <2> QED BY <1>5, <2>1, <2>2 DEF Mail, TypeOK
<1>6. CASE RecordSuccess(w)
  <2>1. inv' \in RowType
    BY <1>6, <1>r DEF RecordSuccess, Closed, RowType
  <2> QED BY <1>6, <2>1, FinishType DEF RecordSuccess, TypeOK
<1>7. CASE RecordFailure(w)
  <2>1. inv' \in RowType
    BY <1>7, <1>r DEF RecordFailure, RowType
  <2> QED BY <1>7, <2>1, FinishType DEF RecordFailure, TypeOK
<1>8. CASE RecordThrows(w) \/ LoseLock(w)
  <2>1. worker' \in [Workers -> WorkerType]
    <3>1. \/ worker' = [worker EXCEPT ![w] = [worker[w] EXCEPT !.pc = "failing"]]
          \/ worker' = [worker EXCEPT ![w] = [worker[w] EXCEPT !.locked = FALSE]]
      BY <1>8 DEF RecordThrows, LoseLock
    <3> QED BY <1>w, <3>1, PcUpdate DEF TypeOK
  <2>2. faults' \in 0..MaxFaults
    BY <1>8, FaultType DEF RecordThrows, LoseLock, TypeOK
  <2> QED BY <1>8, <2>1, <2>2 DEF RecordThrows, LoseLock, TypeOK
<1>9. CASE HandlerThrows(w)
  BY <1>9, FinishType, FaultType DEF HandlerThrows, TypeOK
<1>10. CASE Crash(w)
  <2>1. IdleWorker \in WorkerType
    BY BoundsAssumption DEF IdleWorker, WorkerType, Attempts
  <2> QED BY <1>10, <2>1, FaultType DEF Crash, TypeOK
<1> QED BY <1>1, <1>2, <1>3, <1>4, <1>5, <1>6, <1>7, <1>8, <1>9, <1>10
        DEF HandlerStep, FaultStep

\* The stalled check, the cron and the clock keep the types.
LEMMA CronType ==
  ASSUME TypeOK, (\E a \in Attempts : Stalled(a)) \/ CronSelect \/ CronAdd \/ Tick
  PROVE  TypeOK'
<1>1. CASE \E a \in Attempts : Stalled(a)
  BY <1>1 DEF Stalled, TypeOK
<1>2. CASE CronSelect
  BY <1>2 DEF CronSelect, Retryable, TypeOK
<1>3. CASE CronAdd
  <2>1. cron \in Attempts
    BY <1>3 DEF CronAdd, TypeOK, Attempts
  <2>2. queue' \in [Attempts -> {"none", "waiting", "active"}]
    BY <1>3, <2>1, QueueType DEF CronAdd, TypeOK
  <2>3. faults' \in 0..MaxFaults
    BY <1>3, FaultType DEF CronAdd, TypeOK
  <2> QED BY <1>3, <2>2, <2>3 DEF CronAdd, TypeOK
<1>4. CASE Tick
  <2>1. inv' \in RowType
    BY <1>4 DEF Tick, TypeOK, RowType
  <2> QED BY <1>4, <2>1 DEF Tick, TypeOK
<1> QED BY <1>1, <1>2, <1>3, <1>4

\* Every step keeps the types.
LEMMA TypeStep ==
  ASSUME TypeOK, SendsFit, [Next]_vars
  PROVE  TypeOK'
<1>1. CASE UNCHANGED vars
  BY <1>1 DEF vars, TypeOK
<1> QED BY <1>1, SendType, WorkerStepType, CronType DEF Next

\* A send counts as in flight from its first step to its reset, so that every
\* step keeps the sends in flight within the cycles that are left.
LEMMA SendsFitStep ==
  ASSUME TypeOK, SendsFit, [Next]_vars
  PROVE  SendsFit'
<1>t. cycle \in Nat /\ cycle \in 0..MaxCycles /\ MaxCycles \in Nat
  BY BoundsAssumption DEF TypeOK
<1>1. CASE UNCHANGED <<cycle, request>>
  BY <1>1 DEF SendsFit, Unreset
<1>2. ASSUME NEW r \in Requests, BeginSend(r) PROVE SendsFit'
  <2>1. r \notin Unreset /\ Unreset' = Unreset \cup {r}
    BY <1>2 DEF BeginSend, Unreset, TypeOK
  <2>2. Cardinality(Unreset') = Cardinality(Unreset) + 1
    BY <2>1, UnresetFinite, FS_AddElement
  <2>3. cycle' = cycle /\ cycle + Cardinality(Unreset) < MaxCycles
    BY <1>2 DEF BeginSend
  <2> QED BY <1>t, <2>2, <2>3, UnresetFinite DEF SendsFit
<1>3. ASSUME NEW r \in Requests, Reset(r) PROVE SendsFit'
  <2>1. r \in Unreset /\ Unreset' = Unreset \ {r}
    BY <1>3 DEF Reset, Unreset, TypeOK
  <2>2. Cardinality(Unreset') = Cardinality(Unreset) - 1
    BY <2>1, UnresetFinite, FS_RemoveElement
  <2>3. cycle' = cycle + 1
    BY <1>3 DEF Reset
  <2> QED BY <1>t, <2>2, <2>3, UnresetFinite DEF SendsFit
<1>4. ASSUME NEW r \in Requests, RemoveStale(r) \/ ClearPrior(r) \/ EnqueueFirst(r)
      PROVE SendsFit'
  <2>1. /\ cycle' = cycle
        /\ \A q \in Requests : q # r => request'[q] = request[q]
        /\ request'[r].pc \in {"removing", "resetting"}
             <=> request[r].pc \in {"removing", "resetting"}
    BY <1>4 DEF RemoveStale, ClearPrior, EnqueueFirst, IdleCall, TypeOK, CallType
  <2>2. Unreset' = Unreset
    BY <2>1 DEF Unreset
  <2> QED BY <2>1, <2>2 DEF SendsFit
<1>5. CASE \E w \in Workers : Take(w) \/ HandlerStep(w) \/ FaultStep(w)
  BY <1>1, <1>5 DEF Take, HandlerStep, FaultStep, Claim, ClaimRefused, OptedOut, Mail,
     RecordSuccess, RecordFailure, RecordThrows, HandlerThrows, Crash, LoseLock
<1>6. CASE (\E a \in Attempts : Stalled(a)) \/ CronSelect \/ CronAdd \/ Tick
  BY <1>1, <1>6 DEF Stalled, CronSelect, CronAdd, Tick
<1> QED BY <1>1, <1>2, <1>3, <1>4, <1>5, <1>6 DEF Next, SendStep, vars

\* In the first state nothing has been sent, claimed or mailed.
LEMMA InitInv == Init => IInv
<1> SUFFICES ASSUME Init PROVE IInv
  OBVIOUS
<1>1. TypeOK
  BY BoundsAssumption DEF Init, TypeOK, RowType, WorkerType, CallType, IdleWorker, IdleCall,
     Attempts, Cycles
<1>2. Unreset = {}
  BY DEF Init, Unreset, IdleCall
<1>3. SendsFit
  BY <1>2, FS_EmptySet, BoundsAssumption DEF SendsFit, Init
<1>4. CounterInv
  BY BoundsAssumption DEF CounterInv, Init, Attempts, Cycles
<1>5. OwnerInv
  BY DEF OwnerInv, Holds, Init, IdleWorker
<1>6. AttemptsInOrder
  BY DEF AttemptsInOrder, Init, Attempts
<1> QED BY <1>1, <1>3, <1>4, <1>5, <1>6 DEF IInv

\* The variables of InvoiceDelivery stay within their types in every behaviour.
THEOREM TypeCorrect == Spec => []TypeOK
<1>1. Init => TypeOK /\ SendsFit
  BY InitInv DEF IInv
<1>2. TypeOK /\ SendsFit /\ [Next]_vars => TypeOK' /\ SendsFit'
  BY TypeStep, SendsFitStep
<1> QED BY <1>1, <1>2, PTL DEF Spec

------------------------------------------------------------------------------
(* One mail per attempt, attempts in order *)

History == CounterInv /\ OwnerInv /\ AttemptsInOrder

\* A step that claims and mails nothing, opens no cycle and gives no slot a claim
\* keeps the history sound.
LEMMA QuietStep ==
  ASSUME TypeOK, History, UNCHANGED <<cycle, claims, mails>>,
         inv'.attempts = inv.attempts, inv'.pending => cycle > 0,
         \A w \in Workers : Holds(w)' =>
           /\ Holds(w)
           /\ worker'[w].cycle = worker[w].cycle
           /\ worker'[w].attempt = worker[w].attempt
           /\ worker'[w].pc = "mailing" => worker[w].pc = "mailing"
  PROVE  History'
<1>1. CounterInv'
  BY DEF History, CounterInv
<1>2. OwnerInv'
  BY DEF History, OwnerInv
<1>3. AttemptsInOrder'
  BY DEF History, AttemptsInOrder
<1> QED BY <1>1, <1>2, <1>3 DEF History

\* A slot that finishes or keeps to its claim meets the condition of QuietStep.
LEMMA SlotKeeps ==
  ASSUME TypeOK, NEW w \in Workers,
         \/ worker' = worker
         \/ worker' = [worker EXCEPT ![w] = IdleWorker]
         \/ Holds(w) /\ worker' = [worker EXCEPT ![w].pc = "failing"]
         \/ Holds(w) /\ worker' = [worker EXCEPT ![w].pc = "recording"]
         \/ worker' = [worker EXCEPT ![w].locked = FALSE]
         \/ \E a \in Attempts : worker' = [worker EXCEPT ![w] =
              [pc |-> "claiming", attempt |-> a, cycle |-> 0, locked |-> TRUE]]
  PROVE  \A v \in Workers : Holds(v)' =>
           /\ Holds(v)
           /\ worker'[v].cycle = worker[v].cycle
           /\ worker'[v].attempt = worker[v].attempt
           /\ worker'[v].pc = "mailing" => worker[v].pc = "mailing"
<1>1. CASE worker' = worker
  BY <1>1 DEF Holds
<1>2. CASE worker' = [worker EXCEPT ![w] = IdleWorker]
  BY <1>2 DEF Holds, IdleWorker, TypeOK
<1>3. CASE \/ Holds(w) /\ worker' = [worker EXCEPT ![w].pc = "failing"]
           \/ Holds(w) /\ worker' = [worker EXCEPT ![w].pc = "recording"]
  <2>1. PICK pc \in {"failing", "recording"} :
          Holds(w) /\ worker' = [worker EXCEPT ![w].pc = pc]
    BY <1>3
  <2>2. /\ worker'[w].cycle = worker[w].cycle
        /\ worker'[w].attempt = worker[w].attempt
        /\ worker'[w].pc = pc
        /\ \A v \in Workers : v # w => worker'[v] = worker[v]
    BY <2>1 DEF TypeOK, WorkerType
  <2> QED BY <2>1, <2>2 DEF Holds
<1>4. CASE worker' = [worker EXCEPT ![w].locked = FALSE]
  BY <1>4 DEF Holds, TypeOK, WorkerType
<1>5. CASE \E a \in Attempts : worker' = [worker EXCEPT ![w] =
              [pc |-> "claiming", attempt |-> a, cycle |-> 0, locked |-> TRUE]]
  BY <1>5 DEF Holds, TypeOK
<1> QED BY <1>1, <1>2, <1>3, <1>4, <1>5

\* Reset opens a cycle in which nothing is claimed yet.
LEMMA ResetStep ==
  ASSUME TypeOK, SendsFit, History, NEW r \in Requests, Reset(r)
  PROVE  History'
<1>1. /\ cycle' = cycle + 1 /\ inv'.attempts = 0
      /\ UNCHANGED <<claims, mails, worker>>
  BY DEF Reset
<1>2. cycle \in Nat
  BY BoundsAssumption DEF TypeOK
<1>3. \A c \in Cycles, a \in Attempts : claims[c][a] > 0 => c <= cycle
  BY <1>2 DEF History, CounterInv, Cycles
<1>4. CounterInv'
  <2>1. (inv.pending => cycle > 0)'
    BY <1>1, <1>2
  <2>2. \A c \in Cycles, a \in Attempts : claims[c][a] > 0 => c < cycle'
    BY <1>1, <1>2, <1>3 DEF Cycles
  <2>3. \A a \in Attempts : ~(a <= inv'.attempts)
    BY <1>1 DEF Attempts
  <2> QED BY <1>1, <2>1, <2>2, <2>3 DEF History, CounterInv
<1>5. OwnerInv'
  BY <1>1, <1>2 DEF History, OwnerInv, Holds, Cycles
<1>6. AttemptsInOrder'
  BY <1>1 DEF History, AttemptsInOrder
<1> QED BY <1>4, <1>5, <1>6 DEF History

\* The compare-and-set claims an attempt nobody has claimed, next in order.
LEMMA ClaimStep ==
  ASSUME TypeOK, History, NEW w \in Workers, Claim(w)
  PROVE  History'
<1> DEFINE a == worker[w].attempt
<1>1. /\ a \in Attempts /\ inv.attempts \in 0..3 /\ inv.attempts = a - 1
      /\ cycle \in Cycles
  <2>1. inv.pending /\ inv.attempts = a - 1
    BY DEF Claim, Claimable
  <2>2. a \in Attempts /\ inv.attempts \in 0..3
    BY DEF TypeOK, WorkerType, RowType
  <2>3. cycle \in 0..MaxCycles /\ cycle > 0
    BY <2>1 DEF TypeOK, History, CounterInv
  <2> QED BY <2>1, <2>2, <2>3, BoundsAssumption DEF Cycles
<1>2. /\ inv'.attempts = a /\ inv'.pending /\ UNCHANGED <<cycle, mails>>
      /\ claims' = Counted(claims, cycle, a)
      /\ worker' = [worker EXCEPT ![w] = [pc |-> "mailing", attempt |-> a,
                                         cycle |-> cycle, locked |-> worker[w].locked]]
  BY DEF Claim
<1>3. \A c \in Cycles, b \in Attempts :
        /\ claims[c][b] \in Nat /\ mails[c][b] \in Nat
        /\ claims'[c][b] = IF c = cycle /\ b = a THEN claims[c][b] + 1 ELSE claims[c][b]
  BY <1>1, <1>2, CountUp DEF TypeOK
<1>4. claims[cycle][a] = 0 /\ mails[cycle][a] = 0
  BY <1>1, <1>3 DEF History, CounterInv, Attempts, Cycles
<1> HIDE DEF a
<1>5. CounterInv'
  <2>1. (inv.pending => cycle > 0)'
    BY <1>1, <1>2 DEF Cycles
  <2>2. ASSUME NEW c \in Cycles, NEW b \in Attempts
        PROVE  /\ claims'[c][b] <= 1
               /\ mails'[c][b] <= claims'[c][b]
               /\ claims'[c][b] > 0 => c < cycle' \/ (c = cycle' /\ b <= inv'.attempts)
               /\ c = cycle' /\ b <= inv'.attempts => claims'[c][b] > 0
    <3>1. CASE c = cycle /\ b = a
      BY <3>1, <1>1, <1>2, <1>3, <1>4 DEF Attempts
    <3>2. CASE ~(c = cycle /\ b = a)
      <4>1. claims'[c][b] = claims[c][b] /\ mails'[c][b] = mails[c][b]
        BY <3>2, <1>2, <1>3
      <4>2. c = cycle /\ b <= inv'.attempts <=> c = cycle /\ b <= inv.attempts
        BY <3>2, <1>1, <1>2 DEF Attempts
      <4> QED BY <4>1, <4>2, <1>2 DEF History, CounterInv
    <3> QED BY <3>1, <3>2
  <2> QED BY <2>1, <2>2 DEF CounterInv
<1>6. OwnerInv'
  <2>1. /\ Holds(w)' /\ worker'[w].pc = "mailing"
        /\ worker'[w].cycle = cycle /\ worker'[w].attempt = a
        /\ \A v \in Workers : v # w => worker'[v] = worker[v] /\ (Holds(v)' <=> Holds(v))
    BY <1>2 DEF Holds, TypeOK
  <2>2. ASSUME NEW v \in Workers, v # w, Holds(v)
        PROVE  /\ worker[v].cycle \in Cycles /\ worker[v].cycle <= cycle
               /\ worker[v].attempt \in Attempts
               /\ worker[v].cycle # cycle \/ worker[v].attempt # a
               /\ claims'[worker[v].cycle][worker[v].attempt] = 1
    <3>1. /\ worker[v].cycle \in Cycles /\ worker[v].cycle <= cycle
          /\ claims[worker[v].cycle][worker[v].attempt] = 1
      BY <2>2 DEF History, OwnerInv
    <3>2. worker[v].attempt \in Attempts
      BY DEF TypeOK, WorkerType
    <3>3. worker[v].cycle # cycle \/ worker[v].attempt # a
      BY <3>1, <1>4
    <3> QED BY <3>1, <3>2, <3>3, <1>3
  <2>3. claims'[cycle][a] = 1 /\ mails'[cycle][a] = 0
    BY <1>1, <1>2, <1>3, <1>4
  <2>4. cycle <= cycle'
    BY <1>1, <1>2 DEF Cycles
  <2> QED BY <2>1, <2>2, <2>3, <2>4, <1>1, <1>2 DEF History, OwnerInv
<1>7. AttemptsInOrder'
  <2>1. ASSUME NEW c \in Cycles, NEW b \in 2..3, claims'[c][b] > 0
        PROVE  claims'[c][b - 1] > 0
    <3>1. b \in Attempts /\ b - 1 \in Attempts
      BY DEF Attempts
    <3>2. CASE c = cycle /\ b = a
      <4>1. claims[c][b - 1] > 0
        BY <3>1, <3>2, <1>1 DEF History, CounterInv
      <4> QED BY <3>1, <4>1, <1>3
    <3>3. CASE ~(c = cycle /\ b = a)
      <4>1. claims[c][b - 1] > 0
        BY <2>1, <3>1, <3>3, <1>3 DEF History, AttemptsInOrder
      <4> QED BY <3>1, <4>1, <1>3
    <3> QED BY <3>2, <3>3
  <2> QED BY <2>1 DEF AttemptsInOrder
<1> QED BY <1>5, <1>6, <1>7 DEF History

\* A slot mails under a claim it owns alone, and once.
LEMMA MailStep ==
  ASSUME TypeOK, History, NEW w \in Workers, worker[w].pc = "mailing",
         UNCHANGED <<inv, cycle, claims>>,
         mails' = Counted(mails, worker[w].cycle, worker[w].attempt),
         worker' = [worker EXCEPT ![w].pc = "recording"]
  PROVE  History'
<1> DEFINE c0 == worker[w].cycle
           a0 == worker[w].attempt
<1>1. /\ c0 \in Cycles /\ a0 \in Attempts /\ c0 <= cycle
      /\ claims[c0][a0] = 1 /\ mails[c0][a0] = 0
  BY DEF History, OwnerInv, Holds, TypeOK, WorkerType
<1>2. \A c \in Cycles, b \in Attempts :
        mails'[c][b] = IF c = c0 /\ b = a0 THEN mails[c][b] + 1 ELSE mails[c][b]
  BY <1>1, CountUp DEF TypeOK
<1>3. /\ worker'[w].cycle = c0 /\ worker'[w].attempt = a0
      /\ worker'[w].pc = "recording"
      /\ \A v \in Workers : v # w => worker'[v] = worker[v]
  BY DEF TypeOK, WorkerType
<1>4. \A v \in Workers : worker[v].attempt \in Attempts
  BY DEF TypeOK, WorkerType
<1> HIDE DEF c0, a0
<1>5. CounterInv'
  <2>1. ASSUME NEW c \in Cycles, NEW b \in Attempts PROVE mails'[c][b] <= claims'[c][b]
    <3>1. CASE c = c0 /\ b = a0
      BY <3>1, <1>1, <1>2
    <3>2. CASE ~(c = c0 /\ b = a0)
      BY <3>2, <1>2 DEF History, CounterInv
    <3> QED BY <3>1, <3>2
  <2> QED BY <2>1 DEF History, CounterInv
<1>6. OwnerInv'
  <2>1. Holds(w) /\ Holds(w)' /\ \A v \in Workers : v # w => (Holds(v)' <=> Holds(v))
    BY <1>3 DEF Holds
  <2>2. \A v \in Workers : v # w /\ Holds(v) =>
          /\ worker[v].cycle # c0 \/ worker[v].attempt # a0
          /\ worker[v].cycle \in Cycles
    BY <2>1 DEF History, OwnerInv, c0, a0
  <2>3. ASSUME NEW v \in Workers, Holds(v)'
        PROVE  /\ worker'[v].cycle = worker[v].cycle
               /\ worker'[v].attempt = worker[v].attempt
               /\ worker'[v].pc = "mailing" =>
                    mails'[worker[v].cycle][worker[v].attempt] = 0
    <3>1. CASE v = w
      BY <3>1, <1>3 DEF c0, a0
    <3>2. CASE v # w
      <4>1. worker'[v] = worker[v] /\ Holds(v)
        BY <3>2, <2>1, <2>3, <1>3
      <4>2. mails'[worker[v].cycle][worker[v].attempt]
              = mails[worker[v].cycle][worker[v].attempt]
        BY <3>2, <4>1, <2>2, <1>2, <1>4
      <4> QED BY <4>1, <4>2 DEF History, OwnerInv
    <3> QED BY <3>1, <3>2
  <2>4. \A v \in Workers : Holds(v)' => Holds(v)
    BY <2>1
  <2> QED BY <2>3, <2>4 DEF History, OwnerInv
<1>7. AttemptsInOrder'
  BY DEF History, AttemptsInOrder
<1> QED BY <1>5, <1>6, <1>7 DEF History

\* Every other step is quiet: what a slot holds was claimed in an earlier cycle
\* or this one, so that a recorded failure cannot make an unsent row pending.
LEMMA HistoryStep ==
  ASSUME TypeOK, SendsFit, History, [Next]_vars
  PROVE  History'
<1>p. inv.pending => cycle > 0
  BY DEF History, CounterInv
<1>1. CASE UNCHANGED vars
  BY <1>1, <1>p, QuietStep DEF vars, Holds
<1>2. ASSUME NEW r \in Requests, SendStep(r) PROVE History'
  <2>1. CASE Reset(r)
    BY <2>1, ResetStep
  <2>2. CASE BeginSend(r) \/ RemoveStale(r) \/ ClearPrior(r) \/ EnqueueFirst(r)
    <3>1. UNCHANGED <<inv, worker, cycle, claims, mails>>
      BY <2>2 DEF BeginSend, RemoveStale, ClearPrior, EnqueueFirst
    <3> QED BY <3>1, <1>p, QuietStep DEF Holds
  <2> QED BY <1>2, <2>1, <2>2 DEF SendStep
<1>3. ASSUME NEW w \in Workers, Take(w) \/ HandlerStep(w) \/ FaultStep(w)
      PROVE History'
  <2>1. CASE Claim(w)
    BY <2>1, ClaimStep
  <2>2. CASE Take(w) \/ ClaimRefused(w) \/ HandlerThrows(w) \/ Crash(w) \/ LoseLock(w)
             \/ RecordThrows(w)
    <3>1. UNCHANGED <<inv, cycle, claims, mails>>
      BY <2>2 DEF Take, ClaimRefused, HandlerThrows, Crash, LoseLock, RecordThrows
    <3>2. \/ worker' = [worker EXCEPT ![w] = IdleWorker]
          \/ Holds(w) /\ worker' = [worker EXCEPT ![w].pc = "failing"]
          \/ worker' = [worker EXCEPT ![w].locked = FALSE]
          \/ \E a \in Attempts : worker' = [worker EXCEPT ![w] =
               [pc |-> "claiming", attempt |-> a, cycle |-> 0, locked |-> TRUE]]
      BY <2>2 DEF Take, ClaimRefused, HandlerThrows, Finish, Crash, LoseLock, RecordThrows,
         Holds
    <3> QED BY <3>1, <3>2, <1>p, SlotKeeps, QuietStep
  <2>3. CASE OptedOut(w) \/ RecordSuccess(w) \/ RecordFailure(w)
    <3>1. UNCHANGED <<cycle, claims, mails>> /\ worker' = [worker EXCEPT ![w] = IdleWorker]
      BY <2>3 DEF OptedOut, RecordSuccess, RecordFailure, Finish
    <3>2. inv'.attempts = inv.attempts
      BY <2>3 DEF OptedOut, RecordSuccess, RecordFailure, Closed
    <3>3. Holds(w)
      BY <2>3 DEF OptedOut, RecordSuccess, RecordFailure, Holds
    <3>4. cycle > 0
      BY <3>3 DEF History, OwnerInv, Cycles, TypeOK
    <3> QED BY <3>1, <3>2, <3>4, SlotKeeps, QuietStep
  <2>4. CASE Mail(w)
    <3>1. CASE mails' = Counted(mails, worker[w].cycle, worker[w].attempt)
               /\ worker' = [worker EXCEPT ![w].pc = "recording"]
      BY <2>4, <3>1, MailStep DEF Mail
    <3>2. CASE UNCHANGED mails /\ worker' = [worker EXCEPT ![w].pc = "failing"]
      <4>1. UNCHANGED <<inv, cycle, claims, mails>> /\ Holds(w)
        BY <2>4, <3>2 DEF Mail, Holds
      <4> QED BY <3>2, <4>1, <1>p, SlotKeeps, QuietStep
    <3> QED BY <2>4, <3>1, <3>2 DEF Mail
  <2> QED BY <1>3, <2>1, <2>2, <2>3, <2>4 DEF HandlerStep, FaultStep
<1>4. CASE (\E a \in Attempts : Stalled(a)) \/ CronSelect \/ CronAdd
  <2>1. UNCHANGED <<inv, worker, cycle, claims, mails>>
    BY <1>4 DEF Stalled, CronSelect, CronAdd
  <2> QED BY <2>1, <1>p, QuietStep DEF Holds
<1>5. CASE Tick
  <2>1. UNCHANGED <<worker, cycle, claims, mails>>
        /\ inv'.attempts = inv.attempts /\ inv'.pending = inv.pending
    BY <1>5 DEF Tick, TypeOK, RowType
  <2> QED BY <2>1, <1>p, QuietStep DEF Holds
<1> QED BY <1>1, <1>2, <1>3, <1>4, <1>5 DEF Next

\* IInv holds in every reachable state.
THEOREM Invariance == Spec => []IInv
<1>1. IInv /\ [Next]_vars => IInv'
  BY TypeStep, SendsFitStep, HistoryStep DEF IInv, History
<1> QED BY <1>1, InitInv, PTL DEF Spec

\* handleSendEmail hands over at most one email per attempt of a cycle, however
\* sends, retries, stalled reruns, expired locks and crashes interleave: an
\* attempt is mailed no more often than it is claimed, and claimed at most once.
THEOREM MailsAtMostOnce == Spec => []OneMailPerAttempt
<1>1. IInv => OneMailPerAttempt
  <2> SUFFICES ASSUME IInv, NEW c \in Cycles, NEW a \in Attempts
               PROVE  mails[c][a] <= 1
    BY DEF OneMailPerAttempt
  <2>1. mails[c][a] <= claims[c][a] /\ claims[c][a] <= 1
    BY DEF IInv, CounterInv
  <2>2. mails[c][a] \in Nat /\ claims[c][a] \in Nat
    BY DEF IInv, TypeOK
  <2> QED BY <2>1, <2>2
<1> QED BY <1>1, Invariance, PTL

\* handleSendEmail claims the attempts of a cycle in order, never one that was
\* enqueued before the last send out of turn.
THEOREM ClaimsInOrder == Spec => []AttemptsInOrder
<1>1. IInv => AttemptsInOrder
  BY DEF IInv
<1> QED BY <1>1, Invariance, PTL
==============================================================================
