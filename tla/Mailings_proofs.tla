--------------------------- MODULE Mailings_proofs ---------------------------
(***************************************************************************)
(* Proofs about Mailings, for sequences of any length, any times of a      *)
(* signing and any bounds on moves, earlier signings and faults.           *)
(*                                                                         *)
(* Both promises are proved by counting: what was mailed and what may      *)
(* still be mailed without a further fault never exceed the bound.         *)
(***************************************************************************)
EXTENDS Mailings, FiniteSetTheorems, TLAPS

(* The onboarding emails *)

\* The two jobs a day may have: the scheduled one and the cron's.
Scheduled(d) == [day |-> d, cron |-> FALSE]
Asked(d)     == [day |-> d, cron |-> TRUE]

\* The worker has mailed this job and not yet recorded it.
Mailed(i) == worker.pc = "marking" /\ worker.id = i

\* The call that starts the sequence has the day before it.
Ahead(d) ==
  \/ row = Sequence!NoRow
  \/ call.pc \in {"ensuring", "mailing"}
  \/ d # 0 /\ call.pc = "marking"
  \/ d # 0 /\ call.pc = "scheduling" /\ call.day <= d

\* The day's email may still come from the call or its scheduled job, and from the cron.
First(d) ==
  \/ Ahead(d)
  \/ queue[Scheduled(d)].state \in {"delayed", "waiting", "active"} /\ ~Mailed(Scheduled(d))

Second(d) ==
  /\ ~Mailed(Asked(d))
  /\ \/ d \notin row.sent
     \/ queue[Asked(d)].state \in {"waiting", "active"}
     \/ d \in cron.todo /\ queue[Asked(d)].state = "none"

One(b) == IF b THEN 1 ELSE 0

\* What was mailed and what may still be, of each day.
TwiceOK(d) == mails[d] + One(First(d)) + One(Second(d)) <= 2 + faults
TwiceInv   == \A d \in Sequence!Days : TwiceOK(d)

\* A sequence without a row was not started.
RowOK == row = Sequence!NoRow =>
  /\ cron.pc = "idle" /\ worker.pc = "idle"
  /\ \A i \in Sequence!Ids : queue[i].state = "none"

\* The call goes through its steps once.
CallOK ==
  /\ account = "new" => row = Sequence!NoRow /\ call.pc = "idle"
  /\ call.pc = "ensuring" => row = Sequence!NoRow
  /\ call.pc \in {"mailing", "marking", "scheduling"} => row # Sequence!NoRow
  /\ call.pc # "idle" => call.type # "none"
  /\ call.pc = "scheduling" => call.day # 0

CronOK   == (cron.pc = "idle" => cron.todo = {}) /\ (cron.pc = "adding" => cron.todo # {})
WorkerOK == worker.pc # "idle" => queue[worker.id].state = "active"

\* No day is scheduled that the call has still before it, and the cron's jobs have no delay.
QueueOK == \A d \in Sequence!Days :
  /\ queue[Scheduled(d)].state # "none" => d # 0 /\ ~Ahead(d)
  /\ queue[Asked(d)].state # "delayed"

\* A job that is not over has an attempt left.
AttemptsOK == \A i \in Sequence!Ids :
  queue[i].state \in {"none", "delayed", "waiting", "active"} =>
    queue[i].throws < Sequence!Attempts

OrderInv == RowOK /\ CallOK /\ CronOK /\ WorkerOK /\ QueueOK /\ AttemptsOK

SequenceInv == Sequence!TypeOK /\ OrderInv /\ TwiceInv

QueueRows == [state : {"none", "delayed", "waiting", "active", "completed", "failed"},
              throws : 0..Sequence!Attempts, stalls : 0..1]

LEMMA IdsOfDays ==
  /\ \A d \in Sequence!Days : Scheduled(d) \in Sequence!Ids /\ Asked(d) \in Sequence!Ids
  /\ \A i \in Sequence!Ids : \E d \in Sequence!Days : i = Scheduled(d) \/ i = Asked(d)
  /\ \A d, e \in Sequence!Days : /\ Scheduled(d) # Asked(e)
                                 /\ Scheduled(d) = Scheduled(e) => d = e
                                 /\ Asked(d) = Asked(e) => d = e
<1>1. \A d \in Sequence!Days : Scheduled(d) \in Sequence!Ids /\ Asked(d) \in Sequence!Ids
  BY DEF Scheduled, Asked, Sequence!Ids
<1>2. ASSUME NEW i \in Sequence!Ids
      PROVE  \E d \in Sequence!Days : i = Scheduled(d) \/ i = Asked(d)
  BY DEF Scheduled, Asked, Sequence!Ids
<1>3. ASSUME NEW d \in Sequence!Days, NEW e \in Sequence!Days
      PROVE  /\ Scheduled(d) # Asked(e)
             /\ Scheduled(d) = Scheduled(e) => d = e
             /\ Asked(d) = Asked(e) => d = e
  BY DEF Scheduled, Asked
<1> QED BY <1>1, <1>2, <1>3

LEMMA DaysAre ==
  /\ Sequence!Days \subseteq Nat /\ 0 \in Sequence!Days /\ 1 \in Sequence!Days
  /\ LastDay \in Nat /\ \A d \in Sequence!Days : d # LastDay => d + 1 \in Sequence!Days
BY BoundsAssumption DEF Sequence!Days

LEMMA SequenceBegins == Init => SequenceInv
<1> SUFFICES ASSUME Init PROVE SequenceInv
  OBVIOUS
<1>1. /\ account \in {"new", "active"} /\ row \in {Sequence!NoRow, Sequence!Over}
      /\ account = "new" => row = Sequence!NoRow
      /\ queue = [i \in Sequence!Ids |-> Sequence!Absent]
      /\ call = Sequence!IdleCall /\ cron = Sequence!IdleCron /\ worker = Sequence!IdleWorker
      /\ mails = [d \in Sequence!Days |-> 0] /\ faults = 0
  BY DEF Init, Sequence!Init
<1>2. /\ row \in [type : {"none", "new_user", "existing_user"}, sent : SUBSET Sequence!Days]
      /\ Sequence!Absent \in QueueRows /\ Sequence!Absent.state = "none"
      /\ Sequence!Absent.throws = 0
  BY <1>1 DEF Sequence!NoRow, Sequence!Over, Sequence!Absent, QueueRows, Sequence!Attempts
<1>3. call.pc = "idle" /\ cron.pc = "idle" /\ cron.todo = {} /\ worker.pc = "idle"
  BY <1>1 DEF Sequence!IdleCall, Sequence!IdleCron, Sequence!IdleWorker
<1>4. /\ call \in [pc : {"idle", "ensuring", "mailing", "marking", "scheduling"},
                   type : {"none", "new_user", "existing_user"}, day : Sequence!Days]
      /\ cron \in [pc : {"idle", "adding"}, todo : SUBSET Sequence!Days]
      /\ worker \in [pc : {"idle", "reading", "mailing", "marking"}, id : Sequence!Ids]
  BY <1>1, DaysAre DEF Sequence!IdleCall, Sequence!IdleCron, Sequence!IdleWorker, Sequence!Ids
<1>5. Sequence!TypeOK
  BY <1>1, <1>2, <1>4 DEF Sequence!TypeOK, QueueRows
<1>6. \A i \in Sequence!Ids : queue[i].state = "none" /\ queue[i].throws = 0
  BY <1>1, <1>2
<1>7. OrderInv
  BY <1>1, <1>3, <1>6, IdsOfDays
     DEF OrderInv, RowOK, CallOK, CronOK, WorkerOK, QueueOK, AttemptsOK, Sequence!Attempts
<1>8. TwiceInv
  BY <1>1 DEF TwiceInv, TwiceOK, One
<1> QED BY <1>5, <1>7, <1>8 DEF SequenceInv

------------------------------------------------------------------------------
(* Single moves *)

LEMMA QueueSet ==
  ASSUME NEW i \in Sequence!Ids, NEW g \in QueueRows, queue \in [Sequence!Ids -> QueueRows],
         queue' = [queue EXCEPT ![i] = g]
  PROVE  /\ queue' \in [Sequence!Ids -> QueueRows] /\ queue'[i] = g
         /\ \A j \in Sequence!Ids \ {i} : queue'[j] = queue[j]
OBVIOUS

\* What may still be mailed does not grow.
LEMMA TwiceStays ==
  ASSUME SequenceInv, NEW d \in Sequence!Days, First(d)' => First(d), Second(d)' => Second(d),
         mails'[d] = mails[d], faults' \in Nat, faults <= faults'
  PROVE  TwiceOK(d)'
<1>1. mails[d] \in Nat /\ faults \in Nat /\ TwiceOK(d)
  BY DEF SequenceInv, Sequence!TypeOK, TwiceInv
<1>2. One(First(d)') <= One(First(d)) /\ One(First(d)') \in Nat /\ One(First(d)) \in Nat
  BY DEF One
<1>3. One(Second(d)') <= One(Second(d)) /\ One(Second(d)') \in Nat /\ One(Second(d)) \in Nat
  BY DEF One
<1> QED BY <1>1, <1>2, <1>3 DEF TwiceOK

\* An outcome mails once, or not, and once more for each of its faults.
LEMMA OutcomePays ==
  ASSUME NEW o \in Sequence!Outcomes
  PROVE  /\ o.mails \in Nat /\ o.faults \in Nat /\ o.ok \in BOOLEAN
         /\ o.mails <= 1 + o.faults /\ (~o.ok => o.mails <= o.faults)
<1>1. CASE o = [mails |-> 1, faults |-> 0, ok |-> TRUE]
  <2>1. o.mails = 1 /\ o.faults = 0
    BY <1>1
  <2>2. o.ok /\ o.ok \in BOOLEAN
    BY <1>1, Zenon
  <2> QED BY <2>1, <2>2
<1>2. CASE o \in [mails : 1..2, faults : {1}, ok : {TRUE}]
  <2>1. o.mails \in 1..2 /\ o.faults = 1
    BY <1>2
  <2>2. o.ok = TRUE
    BY <1>2, Zenon
  <2>3. o.ok /\ o.ok \in BOOLEAN
    BY <2>2, Zenon
  <2> QED BY <2>1, <2>3
<1>3. CASE \/ o \in [mails : 0..1, faults : {1}, ok : {FALSE}]
           \/ o \in [mails : 0..2, faults : {2}, ok : {FALSE}]
  <2>1. (o.mails \in 0..1 /\ o.faults = 1) \/ (o.mails \in 0..2 /\ o.faults = 2)
    BY <1>3
  <2>2. o.ok = FALSE
    BY <1>3, Zenon
  <2>3. o.ok \in BOOLEAN
    BY <2>2, Zenon
  <2> QED BY <2>1, <2>3
<1> QED BY <1>1, <1>2, <1>3 DEF Sequence!Outcomes

------------------------------------------------------------------------------
(* The call that starts the sequence *)

\* What the call does but for scheduling.
LEMMA CallMoves ==
  ASSUME SequenceInv, UNCHANGED <<queue, cron, worker>>, CallOK',
         account' \in {"new", "active", "deleted"},
         row' \in [type : {"none", "new_user", "existing_user"}, sent : SUBSET Sequence!Days],
         call' \in [pc : {"idle", "ensuring", "mailing", "marking", "scheduling"},
                    type : {"none", "new_user", "existing_user"}, day : Sequence!Days],
         row' = Sequence!NoRow => row = Sequence!NoRow, row.sent \subseteq row'.sent,
         mails' \in [Sequence!Days -> Nat], faults' \in Nat, faults <= faults',
         \A d \in Sequence!Days :
           /\ Ahead(d)' => Ahead(d)
           /\ mails'[d] + One(Ahead(d)') <= mails[d] + One(Ahead(d)) + (faults' - faults)
  PROVE  SequenceInv'
<1>1. Sequence!TypeOK'
  BY DEF SequenceInv, Sequence!TypeOK
<1>2. RowOK' /\ CronOK' /\ WorkerOK' /\ QueueOK' /\ AttemptsOK'
  BY DEF SequenceInv, OrderInv, RowOK, CronOK, WorkerOK, QueueOK, AttemptsOK
<1>3. ASSUME NEW d \in Sequence!Days PROVE TwiceOK(d)'
  <2>1. /\ mails[d] \in Nat /\ mails'[d] \in Nat /\ faults \in Nat /\ TwiceOK(d)
        /\ Ahead(d)' => Ahead(d)
        /\ mails'[d] + One(Ahead(d)') <= mails[d] + One(Ahead(d)) + (faults' - faults)
    BY DEF SequenceInv, Sequence!TypeOK, TwiceInv
  <2>2. Second(d)' => Second(d)
    BY DEF Second, Mailed
  <2>3. CASE Ahead(d)
    <3>1. First(d) /\ (First(d)' => Ahead(d)')
      BY <2>3 DEF First, Mailed, SequenceInv, OrderInv, QueueOK
    <3> QED BY <2>1, <2>2, <3>1 DEF TwiceOK, One
  <2>4. CASE ~Ahead(d)
    <3>1. First(d)' => First(d)
      BY <2>1, <2>4 DEF First, Mailed
    <3>2. mails'[d] <= mails[d] + (faults' - faults)
      BY <2>1, <2>4 DEF One
    <3> QED BY <2>1, <2>2, <3>1, <3>2 DEF TwiceOK, One
  <2> QED BY <2>3, <2>4
<1> QED BY <1>1, <1>2, <1>3 DEF SequenceInv, OrderInv, TwiceInv

LEMMA StartKeeps ==
  ASSUME SequenceInv, Sequence!Register \/ Sequence!Backfill \/ Sequence!Suspend
  PROVE  SequenceInv'
<1>1. /\ UNCHANGED <<queue, cron, worker, row, mails, faults>>
      /\ account' \in {"new", "active", "deleted"}
  BY DEF Sequence!Register, Sequence!Backfill, Sequence!Suspend
<1>2. /\ row \in [type : {"none", "new_user", "existing_user"}, sent : SUBSET Sequence!Days]
      /\ call \in [pc : {"idle", "ensuring", "mailing", "marking", "scheduling"},
                   type : {"none", "new_user", "existing_user"}, day : Sequence!Days]
      /\ mails \in [Sequence!Days -> Nat] /\ faults \in Nat /\ CallOK
  BY DEF SequenceInv, OrderInv, Sequence!TypeOK
<1>3. CASE call' = call /\ account' # "new"
  <2>1. CallOK'
    BY <1>1, <1>2, <1>3 DEF CallOK
  <2>2. \A d \in Sequence!Days : Ahead(d)' => Ahead(d)
    BY <1>1, <1>3 DEF Ahead
  <2>3. \A d \in Sequence!Days :
          mails'[d] + One(Ahead(d)') <= mails[d] + One(Ahead(d)) + (faults' - faults)
    BY <1>1, <1>2, <2>2 DEF One
  <2> QED BY <1>1, <1>2, <1>3, <2>1, <2>2, <2>3, CallMoves
<1>4. CASE call'.pc = "ensuring" /\ row = Sequence!NoRow
           /\ \E t \in {"new_user", "existing_user"} :
                call' = [pc |-> "ensuring", type |-> t, day |-> 0]
           /\ account' = "active"
  <2>1. CallOK' /\ call' \in [pc : {"idle", "ensuring", "mailing", "marking", "scheduling"},
                              type : {"none", "new_user", "existing_user"}, day : Sequence!Days]
    BY <1>1, <1>4, DaysAre DEF CallOK
  <2>2. \A d \in Sequence!Days : Ahead(d)
    BY <1>4 DEF Ahead
  <2>3. \A d \in Sequence!Days :
          mails'[d] + One(Ahead(d)') <= mails[d] + One(Ahead(d)) + (faults' - faults)
    BY <1>1, <1>2, <2>2 DEF One
  <2> QED BY <1>1, <1>2, <2>1, <2>2, <2>3, CallMoves
<1>5. CASE Sequence!Suspend
  BY <1>3, <1>5 DEF Sequence!Suspend
<1>6. CASE Sequence!Register \/ Sequence!Backfill
  BY <1>2, <1>4, <1>6 DEF Sequence!Register, Sequence!Backfill, CallOK
<1> QED BY <1>5, <1>6

LEMMA EnsureKeeps == ASSUME SequenceInv, Sequence!EnsureRecord PROVE SequenceInv'
<1>1. /\ call.pc = "ensuring" /\ UNCHANGED <<account, queue, cron, worker, mails>>
      /\ row \in [type : {"none", "new_user", "existing_user"}, sent : SUBSET Sequence!Days]
      /\ call \in [pc : {"idle", "ensuring", "mailing", "marking", "scheduling"},
                   type : {"none", "new_user", "existing_user"}, day : Sequence!Days]
      /\ mails \in [Sequence!Days -> Nat] /\ faults \in Nat /\ CallOK
      /\ account \in {"new", "active", "deleted"}
  BY DEF SequenceInv, OrderInv, Sequence!TypeOK, Sequence!EnsureRecord
<1>2. call.type # "none" /\ account # "new" /\ \A d \in Sequence!Days : Ahead(d)
  BY <1>1 DEF CallOK, Ahead
<1>3. /\ row' \in [type : {"none", "new_user", "existing_user"}, sent : SUBSET Sequence!Days]
      /\ call' \in [pc : {"idle", "ensuring", "mailing", "marking", "scheduling"},
                    type : {"none", "new_user", "existing_user"}, day : Sequence!Days]
      /\ row' = Sequence!NoRow => row = Sequence!NoRow
      /\ row.sent \subseteq row'.sent /\ faults' \in Nat /\ faults <= faults'
      /\ \/ call'.pc = "mailing" /\ call'.type # "none" /\ row' # Sequence!NoRow
         \/ call'.pc = "idle"
  <2>1. CASE row' = [row EXCEPT !.type = call.type] /\ call' = [call EXCEPT !.pc = "mailing"]
             /\ UNCHANGED faults
    BY <1>1, <1>2, <2>1 DEF Sequence!NoRow
  <2>2. CASE Sequence!Fault /\ call' = Sequence!IdleCall /\ UNCHANGED row
    BY <1>1, <2>2, DaysAre DEF Sequence!Fault, Sequence!IdleCall
  <2> QED BY <2>1, <2>2 DEF Sequence!EnsureRecord
<1>4. CallOK'
  BY <1>1, <1>2, <1>3 DEF CallOK
<1>5. \A d \in Sequence!Days :
        mails'[d] + One(Ahead(d)') <= mails[d] + One(Ahead(d)) + (faults' - faults)
  BY <1>1, <1>2, <1>3 DEF One
<1> QED BY <1>1, <1>2, <1>3, <1>4, <1>5, CallMoves

\* The step to scheduling.
LEMMA SchedulingIs ==
  ASSUME SequenceInv, call.pc # "idle"
  PROVE  /\ Sequence!Scheduling \in [pc : {"idle", "ensuring", "mailing", "marking", "scheduling"},
                                     type : {"none", "new_user", "existing_user"},
                                     day : Sequence!Days]
         /\ Sequence!Scheduling.pc = "scheduling" /\ Sequence!Scheduling.day = 1
         /\ Sequence!Scheduling.type # "none"
<1> DEFINE g == [call EXCEPT !.pc = "scheduling"]
<1>1. /\ call \in [pc : {"idle", "ensuring", "mailing", "marking", "scheduling"},
                   type : {"none", "new_user", "existing_user"}, day : Sequence!Days]
      /\ call.type # "none"
  BY DEF SequenceInv, OrderInv, CallOK, Sequence!TypeOK
<1>2. /\ g \in [pc : {"idle", "ensuring", "mailing", "marking", "scheduling"},
                type : {"none", "new_user", "existing_user"}, day : Sequence!Days]
      /\ g.pc = "scheduling" /\ g.type # "none"
  BY <1>1
<1>3. Sequence!Scheduling = [g EXCEPT !.day = 1]
  BY DEF Sequence!Scheduling
<1> HIDE DEF g
<1> QED BY <1>2, <1>3, DaysAre

LEMMA FirstKeeps == ASSUME SequenceInv, Sequence!MailFirst \/ Sequence!MarkFirst PROVE SequenceInv'
<1>1. /\ call.pc \in {"mailing", "marking"} /\ UNCHANGED <<account, queue, cron, worker>>
      /\ row \in [type : {"none", "new_user", "existing_user"}, sent : SUBSET Sequence!Days]
      /\ call \in [pc : {"idle", "ensuring", "mailing", "marking", "scheduling"},
                   type : {"none", "new_user", "existing_user"}, day : Sequence!Days]
      /\ mails \in [Sequence!Days -> Nat] /\ faults \in Nat /\ CallOK
      /\ account \in {"new", "active", "deleted"}
  BY DEF SequenceInv, OrderInv, Sequence!TypeOK, Sequence!MailFirst, Sequence!MarkFirst
<1>2. row # Sequence!NoRow /\ call.type # "none" /\ account # "new"
  BY <1>1 DEF CallOK
<1>3. \A d \in Sequence!Days : d # 0 => Ahead(d)
  BY <1>1 DEF Ahead
<1>4. CASE Sequence!MailFirst
  <2>1. PICK o \in Sequence!Outcomes :
          /\ Sequence!Send(0, o)
          /\ call' = IF o.ok /\ call.type = "new_user"
                     THEN [call EXCEPT !.pc = "marking"] ELSE Sequence!Scheduling
    BY <1>4 DEF Sequence!MailFirst
  <2>2. call.pc = "mailing" /\ row' = row
    BY <1>4 DEF Sequence!MailFirst
  <2>3. /\ mails' = [mails EXCEPT ![0] = mails[0] + o.mails] /\ faults' = faults + o.faults
        /\ o.mails \in Nat /\ o.faults \in Nat /\ o.mails <= 1 + o.faults
    BY <1>1, <2>1, OutcomePays, DaysAre DEF Sequence!Send
  <2>4. /\ call' \in [pc : {"idle", "ensuring", "mailing", "marking", "scheduling"},
                      type : {"none", "new_user", "existing_user"}, day : Sequence!Days]
        /\ call'.type # "none"
        /\ call'.pc = "marking" \/ (call'.pc = "scheduling" /\ call'.day # 0)
    <3>1. CASE o.ok /\ call.type = "new_user"
      <4>1. call' = [call EXCEPT !.pc = "marking"]
        BY <2>1, <3>1
      <4> QED BY <1>1, <1>2, <4>1
    <3>2. CASE ~(o.ok /\ call.type = "new_user")
      <4>1. call' = Sequence!Scheduling
        BY <2>1, <3>2
      <4> QED BY <1>1, <4>1, SchedulingIs
    <3> QED BY <3>1, <3>2
  <2>5. CallOK'
    BY <1>1, <1>2, <2>2, <2>4 DEF CallOK
  <2>6. \A d \in Sequence!Days : Ahead(d)
    BY <2>2 DEF Ahead
  <2>7. ~Ahead(0)'
    BY <1>2, <2>2, <2>4 DEF Ahead
  <2>8. /\ mails' \in [Sequence!Days -> Nat] /\ mails'[0] = mails[0] + o.mails
        /\ \A d \in Sequence!Days : d # 0 => mails'[d] = mails[d]
        /\ faults' \in Nat /\ faults <= faults' /\ faults' - faults = o.faults
    BY <1>1, <2>3, DaysAre
  <2>9. ASSUME NEW d \in Sequence!Days
        PROVE  mails'[d] + One(Ahead(d)') <= mails[d] + One(Ahead(d)) + (faults' - faults)
    <3>1. CASE d = 0
      BY <1>1, <2>3, <2>6, <2>7, <2>8, <3>1, DaysAre DEF One
    <3>2. CASE d # 0
      BY <1>1, <2>3, <2>6, <2>8, <3>2 DEF One
    <3> QED BY <3>1, <3>2
  <2> QED BY <1>1, <2>2, <2>4, <2>5, <2>6, <2>8, <2>9, CallMoves
<1>5. CASE Sequence!MarkFirst
  <2>1. /\ call.pc = "marking" /\ call' = Sequence!Scheduling /\ mails' = mails
        /\ \/ row' = [row EXCEPT !.sent = row.sent \cup {0}] /\ faults' = faults
           \/ faults' = faults + 1 /\ row' = row
    BY <1>5 DEF Sequence!MarkFirst, Sequence!Fault
  <2>2. /\ row' \in [type : {"none", "new_user", "existing_user"}, sent : SUBSET Sequence!Days]
        /\ row' # Sequence!NoRow /\ row.sent \subseteq row'.sent
    BY <1>1, <1>2, <2>1, DaysAre DEF Sequence!NoRow
  <2>3. /\ call' \in [pc : {"idle", "ensuring", "mailing", "marking", "scheduling"},
                      type : {"none", "new_user", "existing_user"}, day : Sequence!Days]
        /\ call'.type # "none" /\ call'.pc = "scheduling" /\ call'.day # 0
    BY <2>1, SchedulingIs
  <2>4. CallOK'
    BY <1>1, <1>2, <2>2, <2>3 DEF CallOK
  <2>5. \A d \in Sequence!Days : Ahead(d)' => Ahead(d)
    BY <1>3, <2>2, <2>3 DEF Ahead
  <2>6. faults' \in Nat /\ faults <= faults'
    BY <1>1, <2>1
  <2>7. \A d \in Sequence!Days :
          mails'[d] + One(Ahead(d)') <= mails[d] + One(Ahead(d)) + (faults' - faults)
    BY <1>1, <2>1, <2>5, <2>6 DEF One
  <2> QED BY <1>1, <2>1, <2>2, <2>3, <2>4, <2>5, <2>6, <2>7, CallMoves
<1> QED BY <1>4, <1>5

------------------------------------------------------------------------------
(* The queue of the onboarding emails *)

\* The types of the state, one by one.
LEMMA SequenceTypes ==
  ASSUME SequenceInv
  PROVE  /\ account \in {"new", "active", "deleted"}
         /\ row \in [type : {"none", "new_user", "existing_user"}, sent : SUBSET Sequence!Days]
         /\ queue \in [Sequence!Ids -> QueueRows]
         /\ call \in [pc : {"idle", "ensuring", "mailing", "marking", "scheduling"},
                      type : {"none", "new_user", "existing_user"}, day : Sequence!Days]
         /\ cron \in [pc : {"idle", "adding"}, todo : SUBSET Sequence!Days]
         /\ worker \in [pc : {"idle", "reading", "mailing", "marking"}, id : Sequence!Ids]
         /\ mails \in [Sequence!Days -> Nat] /\ faults \in Nat
BY DEF SequenceInv, Sequence!TypeOK, QueueRows

\* A step that mails nothing and lets nothing more be mailed.
LEMMA StepStays ==
  ASSUME SequenceInv, OrderInv', mails' = mails, faults' \in Nat, faults <= faults',
         account' \in {"new", "active", "deleted"},
         row' \in [type : {"none", "new_user", "existing_user"}, sent : SUBSET Sequence!Days],
         queue' \in [Sequence!Ids -> QueueRows],
         call' \in [pc : {"idle", "ensuring", "mailing", "marking", "scheduling"},
                    type : {"none", "new_user", "existing_user"}, day : Sequence!Days],
         cron' \in [pc : {"idle", "adding"}, todo : SUBSET Sequence!Days],
         worker' \in [pc : {"idle", "reading", "mailing", "marking"}, id : Sequence!Ids],
         \A d \in Sequence!Days : (First(d)' => First(d)) /\ (Second(d)' => Second(d))
  PROVE  SequenceInv'
<1>1. Sequence!TypeOK'
  BY SequenceTypes DEF Sequence!TypeOK, QueueRows
<1>2. \A d \in Sequence!Days : TwiceOK(d)'
  BY TwiceStays
<1> QED BY <1>1, <1>2 DEF SequenceInv, TwiceInv

LEMMA ScheduleKeeps == ASSUME SequenceInv, Sequence!Schedule PROVE SequenceInv'
<1>0. PICK d \in Sequence!Days : d = call.day
  BY SequenceTypes
<1> DEFINE q == Scheduled(d)
<1>1. /\ call.pc = "scheduling" /\ UNCHANGED <<account, row, cron, worker, mails>>
      /\ row # Sequence!NoRow /\ d # 0 /\ call.type # "none" /\ account # "new"
  BY <1>0, SequenceTypes DEF Sequence!Schedule, SequenceInv, OrderInv, CallOK
<1>2. CASE Sequence!Add(q, "delayed") /\ faults' = faults
           /\ call' = IF d = LastDay THEN Sequence!IdleCall ELSE [call EXCEPT !.day = d + 1]
  <2>1. queue[q].state = "none"
    <3>1. d <= d /\ Ahead(d)
      BY <1>0, <1>1, DaysAre DEF Ahead
    <3> QED BY <3>1 DEF SequenceInv, OrderInv, QueueOK
  <2>2. PICK g : g = [queue[q] EXCEPT !.state = "delayed"]
    OBVIOUS
  <2>3. queue' = [queue EXCEPT ![q] = g]
    BY <1>2, <2>1, <2>2 DEF Sequence!Add
  <2>4. g \in QueueRows /\ g.state = "delayed" /\ g.throws = queue[q].throws /\ q \in Sequence!Ids
    BY <1>1, <2>2, SequenceTypes, IdsOfDays DEF QueueRows
  <2>5. /\ queue' \in [Sequence!Ids -> QueueRows] /\ queue'[q] = g
        /\ \A j \in Sequence!Ids \ {q} : queue'[j] = queue[j]
    BY <2>3, <2>4, SequenceTypes, QueueSet
  <2>6. /\ call' \in [pc : {"idle", "ensuring", "mailing", "marking", "scheduling"},
                      type : {"none", "new_user", "existing_user"}, day : Sequence!Days]
        /\ \/ call'.pc = "idle"
           \/ call'.pc = "scheduling" /\ call'.day = d + 1 /\ call'.type # "none"
    <3>1. CASE d = LastDay
      BY <1>2, <3>1, DaysAre DEF Sequence!IdleCall
    <3>2. CASE d # LastDay
      <4>1. call' = [call EXCEPT !.day = d + 1]
        BY <1>2, <3>2
      <4> QED BY <1>1, <3>2, <4>1, SequenceTypes, DaysAre
    <3> QED BY <3>1, <3>2
  <2>7. ASSUME NEW e \in Sequence!Days PROVE (Ahead(e)' => Ahead(e)) /\ ~Ahead(d)'
    BY <1>0, <1>1, <2>6, DaysAre DEF Ahead
  <2>8. CallOK'
    BY <1>1, <2>6, DaysAre DEF CallOK
  <2>9. RowOK' /\ CronOK'
    BY <1>1 DEF RowOK, CronOK, SequenceInv, OrderInv
  <2>10. WorkerOK'
    BY <1>1, <2>1, <2>5, SequenceTypes DEF WorkerOK, SequenceInv, OrderInv
  <2>11. ASSUME NEW e \in Sequence!Days
         PROVE  /\ queue'[Scheduled(e)].state # "none" => e # 0 /\ ~Ahead(e)'
                /\ queue'[Asked(e)].state # "delayed"
    <3>1. queue'[Asked(e)] = queue[Asked(e)]
      BY <1>1, <2>5, IdsOfDays
    <3>2. CASE e = d
      BY <1>1, <2>7, <3>1, <3>2 DEF SequenceInv, OrderInv, QueueOK
    <3>3. CASE e # d
      <4>1. queue'[Scheduled(e)] = queue[Scheduled(e)]
        BY <1>1, <2>5, <3>3, IdsOfDays
      <4> QED BY <2>7, <3>1, <4>1 DEF SequenceInv, OrderInv, QueueOK
    <3> QED BY <3>2, <3>3
  <2>12. QueueOK' /\ AttemptsOK'
    BY <2>1, <2>4, <2>5, <2>11 DEF QueueOK, AttemptsOK, SequenceInv, OrderInv
  <2>13. ASSUME NEW e \in Sequence!Days
         PROVE  (First(e)' => First(e)) /\ (Second(e)' => Second(e))
    <3>1. queue'[Asked(e)] = queue[Asked(e)]
      BY <1>1, <2>5, IdsOfDays
    <3>2. Second(e)' => Second(e)
      BY <1>1, <3>1 DEF Second, Mailed
    <3>3. CASE e = d
      <4>1. d <= d /\ Ahead(d)
        BY <1>0, <1>1, DaysAre DEF Ahead
      <4> QED BY <3>2, <3>3, <4>1 DEF First
    <3>4. CASE e # d
      <4>1. queue'[Scheduled(e)] = queue[Scheduled(e)]
        BY <1>1, <2>5, <3>4, IdsOfDays
      <4> QED BY <1>1, <2>7, <3>2, <4>1 DEF First, Mailed
    <3> QED BY <3>3, <3>4
  <2> QED
    BY <1>1, <1>2, <2>5, <2>6, <2>8, <2>9, <2>10, <2>12, <2>13, SequenceTypes, StepStays
       DEF OrderInv
<1>3. CASE Sequence!Fault /\ call' = Sequence!IdleCall /\ UNCHANGED queue
  <2>1. /\ call' \in [pc : {"idle", "ensuring", "mailing", "marking", "scheduling"},
                      type : {"none", "new_user", "existing_user"}, day : Sequence!Days]
        /\ call'.pc = "idle" /\ faults' = faults + 1
    BY <1>3, DaysAre DEF Sequence!IdleCall, Sequence!Fault
  <2>2. ASSUME NEW e \in Sequence!Days PROVE ~Ahead(e)'
    BY <1>1, <2>1 DEF Ahead
  <2>3. OrderInv'
    BY <1>1, <1>3, <2>1, <2>2
       DEF OrderInv, RowOK, CallOK, CronOK, WorkerOK, QueueOK, AttemptsOK, SequenceInv
  <2>4. ASSUME NEW e \in Sequence!Days
        PROVE  (First(e)' => First(e)) /\ (Second(e)' => Second(e))
    BY <1>1, <1>3, <2>2 DEF First, Second, Mailed
  <2> QED BY <1>1, <1>3, <2>1, <2>3, <2>4, SequenceTypes, StepStays
<1> QED BY <1>0, <1>2, <1>3 DEF Sequence!Schedule, Scheduled

LEMMA CronFindKeeps == ASSUME SequenceInv, Sequence!CronFind PROVE SequenceInv'
<1>1. /\ UNCHANGED <<account, row, queue, call, worker, mails, faults>>
      /\ cron' = [pc |-> "adding", todo |-> Sequence!Days \ row.sent]
      /\ Sequence!Days \ row.sent # {} /\ row # Sequence!NoRow
  BY DEF Sequence!CronFind, Sequence!Unsent
<1>2. /\ cron' \in [pc : {"idle", "adding"}, todo : SUBSET Sequence!Days]
      /\ cron'.pc = "adding" /\ cron'.todo = Sequence!Days \ row.sent
  BY <1>1
<1>3. RowOK' /\ CallOK' /\ CronOK' /\ WorkerOK' /\ QueueOK' /\ AttemptsOK'
  BY <1>1, <1>2 DEF OrderInv, RowOK, CallOK, CronOK, WorkerOK, QueueOK, AttemptsOK, Ahead,
                    SequenceInv
<1>4. ASSUME NEW e \in Sequence!Days
      PROVE  (First(e)' => First(e)) /\ (Second(e)' => Second(e))
  BY <1>1, <1>2 DEF First, Second, Mailed, Ahead
<1> QED BY <1>1, <1>2, <1>3, <1>4, SequenceTypes, StepStays DEF OrderInv

LEMMA CronAddKeeps == ASSUME SequenceInv, Sequence!CronAdd PROVE SequenceInv'
<1>1. /\ cron.pc = "adding" /\ UNCHANGED <<account, row, call, worker, mails>>
      /\ row # Sequence!NoRow
  BY DEF Sequence!CronAdd, SequenceInv, OrderInv, RowOK
<1>2. PICK d \in cron.todo :
        /\ \/ Sequence!Add(Asked(d), "waiting") /\ UNCHANGED faults
           \/ Sequence!Fault /\ UNCHANGED queue
        /\ cron' = IF cron.todo = {d} THEN Sequence!IdleCron
                   ELSE [cron EXCEPT !.todo = cron.todo \ {d}]
  BY DEF Sequence!CronAdd, Asked
<1>3. d \in Sequence!Days /\ Asked(d) \in Sequence!Ids /\ cron.todo \subseteq Sequence!Days
  BY <1>2, SequenceTypes, IdsOfDays
<1>4. /\ cron' \in [pc : {"idle", "adding"}, todo : SUBSET Sequence!Days]
      /\ cron'.todo \subseteq cron.todo /\ CronOK'
  <2>1. CASE cron.todo = {d}
    BY <1>2, <2>1 DEF Sequence!IdleCron, CronOK
  <2>2. CASE cron.todo # {d}
    <3>1. cron' = [cron EXCEPT !.todo = cron.todo \ {d}]
      BY <1>2, <2>2
    <3> QED BY <1>1, <1>2, <1>3, <2>2, <3>1, SequenceTypes DEF CronOK
  <2> QED BY <2>1, <2>2
<1>5. CASE queue' = queue
  <2>1. faults' \in Nat /\ faults <= faults'
    BY <1>2, SequenceTypes DEF Sequence!Fault
  <2>2. RowOK' /\ CallOK' /\ WorkerOK' /\ QueueOK' /\ AttemptsOK'
    BY <1>1, <1>5 DEF OrderInv, RowOK, CallOK, WorkerOK, QueueOK, AttemptsOK, Ahead, SequenceInv
  <2>3. ASSUME NEW e \in Sequence!Days
        PROVE  (First(e)' => First(e)) /\ (Second(e)' => Second(e))
    BY <1>1, <1>4, <1>5 DEF First, Second, Mailed, Ahead
  <2> QED BY <1>1, <1>4, <1>5, <2>1, <2>2, <2>3, SequenceTypes, StepStays DEF OrderInv
<1>6. CASE Sequence!Add(Asked(d), "waiting") /\ UNCHANGED faults
           /\ queue[Asked(d)].state = "none"
  <2> DEFINE q == Asked(d)
  <2>1. PICK g : g = [queue[q] EXCEPT !.state = "waiting"]
    OBVIOUS
  <2>2. queue' = [queue EXCEPT ![q] = g]
    BY <1>6, <2>1 DEF Sequence!Add
  <2>3. g \in QueueRows /\ g.state = "waiting" /\ g.throws = queue[q].throws
    BY <1>3, <2>1, SequenceTypes DEF QueueRows
  <2>4. /\ queue' \in [Sequence!Ids -> QueueRows] /\ queue'[q] = g
        /\ \A j \in Sequence!Ids \ {q} : queue'[j] = queue[j]
    BY <1>3, <2>2, <2>3, SequenceTypes, QueueSet
  <2>5. ~Mailed(q)
    BY <1>6 DEF Mailed, SequenceInv, OrderInv, WorkerOK
  <2>6. \A e \in Sequence!Days : queue'[Scheduled(e)] = queue[Scheduled(e)]
    BY <1>3, <2>4, IdsOfDays
  <2>7. \A e \in Sequence!Days : e # d => queue'[Asked(e)] = queue[Asked(e)]
    BY <1>3, <2>4, IdsOfDays
  <2>8. WorkerOK'
    BY <1>1, <1>6, <2>4, SequenceTypes DEF WorkerOK, SequenceInv, OrderInv
  <2>9. RowOK' /\ CallOK' /\ AttemptsOK'
    BY <1>1, <1>3, <1>6, <2>3, <2>4 DEF OrderInv, RowOK, CallOK, AttemptsOK, SequenceInv
  <2>10. QueueOK'
    BY <1>1, <2>3, <2>4, <2>6, <2>7 DEF OrderInv, QueueOK, Ahead, SequenceInv
  <2>11. ASSUME NEW e \in Sequence!Days
         PROVE  (First(e)' => First(e)) /\ (Second(e)' => Second(e))
    <3>1. First(e)' => First(e)
      BY <1>1, <2>6 DEF First, Mailed, Ahead
    <3>2. CASE e = d
      BY <1>2, <1>6, <2>5, <3>1, <3>2 DEF Second
    <3>3. CASE e # d
      BY <1>1, <1>4, <2>7, <3>1, <3>3 DEF Second, Mailed
    <3> QED BY <3>2, <3>3
  <2> QED
    BY <1>1, <1>4, <1>6, <2>4, <2>8, <2>9, <2>10, <2>11, SequenceTypes, StepStays DEF OrderInv
<1>7. CASE Sequence!Add(Asked(d), "waiting") /\ queue[Asked(d)].state # "none"
  <2>1. queue' = [queue EXCEPT ![Asked(d)] = queue[Asked(d)]]
    BY <1>7 DEF Sequence!Add
  <2>2. queue' = queue
    BY <1>3, <2>1, SequenceTypes
  <2> QED BY <1>5, <2>2
<1> QED BY <1>2, <1>5, <1>6, <1>7

LEMMA FallDueKeeps ==
  ASSUME SequenceInv, NEW d \in Sequence!Days, Sequence!FallDue(d)
  PROVE  SequenceInv'
<1> DEFINE q == Scheduled(d)
<1>1. /\ queue[q].state = "delayed" /\ UNCHANGED <<account, row, call, cron, worker, mails, faults>>
      /\ queue' = [queue EXCEPT ![q] = [queue[q] EXCEPT !.state = "waiting"]]
      /\ q \in Sequence!Ids
  BY IdsOfDays DEF Sequence!FallDue, Scheduled
<1>2. PICK g : g = [queue[q] EXCEPT !.state = "waiting"]
  OBVIOUS
<1>3. g \in QueueRows /\ g.state = "waiting" /\ g.throws = queue[q].throws
  BY <1>1, <1>2, SequenceTypes DEF QueueRows
<1>4. /\ queue' \in [Sequence!Ids -> QueueRows] /\ queue'[q] = g
      /\ \A j \in Sequence!Ids \ {q} : queue'[j] = queue[j]
  BY <1>1, <1>2, <1>3, SequenceTypes, QueueSet
<1>5. \A e \in Sequence!Days : queue'[Asked(e)] = queue[Asked(e)]
  BY <1>1, <1>4, IdsOfDays
<1>6. \A e \in Sequence!Days : e # d => queue'[Scheduled(e)] = queue[Scheduled(e)]
  BY <1>1, <1>4, IdsOfDays
<1>7. row # Sequence!NoRow
  BY <1>1 DEF SequenceInv, OrderInv, RowOK
<1>8. WorkerOK'
  BY <1>1, <1>4, SequenceTypes DEF WorkerOK, SequenceInv, OrderInv
<1>9. RowOK' /\ CallOK' /\ CronOK' /\ AttemptsOK'
  BY <1>1, <1>3, <1>4, <1>7 DEF OrderInv, RowOK, CallOK, CronOK, AttemptsOK, SequenceInv
<1>10. QueueOK'
  BY <1>1, <1>3, <1>4, <1>5, <1>6 DEF OrderInv, QueueOK, Ahead, SequenceInv
<1>11. ASSUME NEW e \in Sequence!Days
       PROVE  (First(e)' => First(e)) /\ (Second(e)' => Second(e))
  <2>1. Second(e)' => Second(e)
    BY <1>1, <1>5 DEF Second, Mailed
  <2>2. ~Mailed(q)
    BY <1>1 DEF Mailed, SequenceInv, OrderInv, WorkerOK
  <2>3. CASE e = d
    BY <1>1, <2>1, <2>2, <2>3 DEF First
  <2>4. CASE e # d
    BY <1>1, <1>6, <2>1, <2>4 DEF First, Mailed, Ahead
  <2> QED BY <2>3, <2>4
<1> QED BY <1>1, <1>4, <1>8, <1>9, <1>10, <1>11, SequenceTypes, StepStays DEF OrderInv

LEMMA TakeKeeps == ASSUME SequenceInv, Sequence!Take PROVE SequenceInv'
<1>1. /\ worker.pc = "idle" /\ UNCHANGED <<account, row, call, cron, mails, faults>>
  BY DEF Sequence!Take, Sequence!IdleWorker
<1>2. PICK i \in Sequence!Ids :
        /\ queue[i].state = "waiting"
        /\ queue' = [queue EXCEPT ![i] = [queue[i] EXCEPT !.state = "active"]]
        /\ worker' = [pc |-> "reading", id |-> i]
  BY DEF Sequence!Take
<1>3. PICK g : g = [queue[i] EXCEPT !.state = "active"]
  OBVIOUS
<1>4. g \in QueueRows /\ g.state = "active" /\ g.throws = queue[i].throws
  BY <1>3, SequenceTypes DEF QueueRows
<1>5. /\ queue' \in [Sequence!Ids -> QueueRows] /\ queue'[i] = g
      /\ \A j \in Sequence!Ids \ {i} : queue'[j] = queue[j]
  BY <1>2, <1>3, <1>4, SequenceTypes, QueueSet
<1>6. /\ worker' \in [pc : {"idle", "reading", "mailing", "marking"}, id : Sequence!Ids]
      /\ worker'.pc = "reading" /\ worker'.id = i
  BY <1>2
<1>7. row # Sequence!NoRow
  BY <1>2 DEF SequenceInv, OrderInv, RowOK
<1>8. \A j \in Sequence!Ids : \/ queue'[j] = queue[j]
                              \/ queue'[j].state = "active" /\ queue[j].state = "waiting"
                                 /\ queue'[j].throws = queue[j].throws
  BY <1>2, <1>4, <1>5
<1>9. RowOK' /\ CallOK' /\ CronOK' /\ WorkerOK'
  BY <1>1, <1>4, <1>5, <1>6, <1>7 DEF OrderInv, RowOK, CallOK, CronOK, WorkerOK, SequenceInv
<1>10. QueueOK' /\ AttemptsOK'
  BY <1>1, <1>8, IdsOfDays DEF OrderInv, QueueOK, AttemptsOK, Ahead, SequenceInv
<1>11. ASSUME NEW e \in Sequence!Days
       PROVE  (First(e)' => First(e)) /\ (Second(e)' => Second(e))
  <2>1. \A j \in Sequence!Ids : ~Mailed(j)
    BY <1>1 DEF Mailed
  <2>2. First(e)' => First(e)
    BY <1>1, <1>8, <2>1, IdsOfDays DEF First, Ahead
  <2>3. Second(e)' => Second(e)
    BY <1>1, <1>8, <2>1, IdsOfDays DEF Second
  <2> QED BY <2>2, <2>3
<1> QED BY <1>1, <1>5, <1>6, <1>9, <1>10, <1>11, SequenceTypes, StepStays DEF OrderInv

\* The worker leaves its job.  What it had mailed and not recorded may be mailed
\* again, and then a fault has paid for it.
LEMMA JobLeft ==
  ASSUME SequenceInv, worker.pc # "idle", NEW g \in QueueRows, NEW d \in Sequence!Days,
         d = worker.id.day,
         g.state \in {"waiting", "failed", "completed"},
         g.state = "waiting" => g.throws < Sequence!Attempts,
         queue' = [queue EXCEPT ![worker.id] = g], worker' = Sequence!IdleWorker,
         UNCHANGED <<account, call, cron>>,
         row' \in [type : {"none", "new_user", "existing_user"}, sent : SUBSET Sequence!Days],
         row' # Sequence!NoRow, row.sent \subseteq row'.sent,
         mails' \in [Sequence!Days -> Nat], faults' \in Nat, faults <= faults',
         \A e \in Sequence!Days : e # d => mails'[e] = mails[e],
         mails'[d] <= mails[d] + (faults' - faults),
         worker.pc = "marking" =>
           /\ mails'[d] = mails[d]
           /\ faults < faults' \/ (g.state = "completed" /\ d \in row'.sent)
  PROVE  SequenceInv'
<1>0. PICK w \in Sequence!Ids : w = worker.id
  BY SequenceTypes
<1>1. /\ queue' \in [Sequence!Ids -> QueueRows] /\ queue'[w] = g
      /\ \A j \in Sequence!Ids \ {w} : queue'[j] = queue[j]
  BY <1>0, SequenceTypes, QueueSet
<1>2. /\ worker' \in [pc : {"idle", "reading", "mailing", "marking"}, id : Sequence!Ids]
      /\ worker'.pc = "idle"
  BY DaysAre DEF Sequence!IdleWorker, Sequence!Ids
<1>3. queue[w].state = "active" /\ row # Sequence!NoRow
  BY <1>0 DEF SequenceInv, OrderInv, WorkerOK, RowOK
<1>4. \A j \in Sequence!Ids : \/ queue'[j] = queue[j]
                              \/ /\ queue'[j].state \in {"waiting", "failed", "completed"}
                                 /\ queue'[j].state = "waiting" =>
                                      queue'[j].throws < Sequence!Attempts
                                 /\ queue[j].state = "active"
  BY <1>1, <1>3
<1>5. Sequence!TypeOK'
  BY <1>1, <1>2, SequenceTypes DEF Sequence!TypeOK, QueueRows
<1>6. RowOK' /\ CallOK' /\ CronOK' /\ WorkerOK'
  BY <1>2, <1>3 DEF OrderInv, RowOK, CallOK, CronOK, WorkerOK, SequenceInv
<1>7. \A e \in Sequence!Days : Ahead(e)' <=> Ahead(e)
  BY <1>3 DEF Ahead
<1>8. QueueOK'
  BY <1>4, <1>7, IdsOfDays DEF OrderInv, QueueOK, SequenceInv
<1>9. AttemptsOK'
  BY <1>4 DEF OrderInv, AttemptsOK, SequenceInv
<1>10. ASSUME NEW e \in Sequence!Days PROVE TwiceOK(e)'
  <2>1. /\ mails[e] \in Nat /\ mails'[e] \in Nat /\ faults \in Nat /\ TwiceOK(e)
    BY SequenceTypes DEF SequenceInv, TwiceInv
  <2>2. Scheduled(e) \in Sequence!Ids /\ Asked(e) \in Sequence!Ids /\ Scheduled(e) # Asked(e)
    BY IdsOfDays
  <2>3. /\ ~Mailed(Scheduled(e))' /\ ~Mailed(Asked(e))'
    BY <1>2 DEF Mailed
  <2>4. CASE w = Scheduled(e)
    <3>1. e = d
      BY <1>0, <2>4 DEF Scheduled
    <3>2. Second(e)' => Second(e)
      BY <1>0, <1>1, <2>2, <2>3, <2>4 DEF Second, Mailed
    <3>3. CASE worker.pc = "marking"
      <4>1. mails'[e] = mails[e]
        BY <3>1, <3>3
      <4>2. CASE faults < faults'
        <5>1. faults + 1 <= faults'
          BY <2>1, <4>2
        <5> QED BY <2>1, <3>2, <4>1, <5>1 DEF TwiceOK, One
      <4>3. CASE g.state = "completed"
        <5>1. First(e)' => First(e)
          BY <1>1, <1>7, <2>4, <4>3 DEF First
        <5> QED BY <2>1, <3>2, <4>1, <5>1 DEF TwiceOK, One
      <4> QED BY <3>3, <4>2, <4>3
    <3>4. CASE worker.pc # "marking"
      <4>1. First(e)
        BY <1>3, <2>4, <3>4 DEF First, Mailed
      <4> QED BY <2>1, <3>1, <3>2, <4>1 DEF TwiceOK, One
    <3> QED BY <3>3, <3>4
  <2>5. CASE w = Asked(e)
    <3>1. e = d
      BY <1>0, <2>5 DEF Asked
    <3>2. First(e)' => First(e)
      BY <1>0, <1>1, <1>7, <2>2, <2>3, <2>5 DEF First, Mailed
    <3>3. CASE worker.pc = "marking"
      <4>1. mails'[e] = mails[e]
        BY <3>1, <3>3
      <4>2. CASE faults < faults'
        <5>1. faults + 1 <= faults'
          BY <2>1, <4>2
        <5> QED BY <2>1, <3>2, <4>1, <5>1 DEF TwiceOK, One
      <4>3. CASE g.state = "completed" /\ d \in row'.sent
        <5>1. ~Second(e)'
          BY <1>1, <2>5, <3>1, <4>3 DEF Second
        <5> QED BY <2>1, <3>2, <4>1, <5>1 DEF TwiceOK, One
      <4> QED BY <3>3, <4>2, <4>3
    <3>4. CASE worker.pc # "marking"
      <4>1. Second(e)
        BY <1>3, <2>5, <3>4 DEF Second, Mailed
      <4> QED BY <2>1, <3>1, <3>2, <4>1 DEF TwiceOK, One
    <3> QED BY <3>3, <3>4
  <2>6. CASE w # Scheduled(e) /\ w # Asked(e)
    <3>1. /\ queue'[Scheduled(e)] = queue[Scheduled(e)] /\ queue'[Asked(e)] = queue[Asked(e)]
          /\ ~Mailed(Scheduled(e)) /\ ~Mailed(Asked(e))
      BY <1>0, <1>1, <2>2, <2>6 DEF Mailed
    <3>2. e # d
      <4>1. PICK c \in Sequence!Days : w = Scheduled(c) \/ w = Asked(c)
        BY IdsOfDays
      <4>2. w.day = c
        BY <4>1 DEF Scheduled, Asked
      <4>3. c = d
        BY <1>0, <4>2
      <4> QED BY <2>6, <4>1, <4>3
    <3>3. mails'[e] = mails[e]
      BY <3>2
    <3>4. (First(e)' => First(e)) /\ (Second(e)' => Second(e))
      BY <1>7, <3>1 DEF First, Second
    <3> QED BY <2>1, <3>3, <3>4, TwiceStays
  <2> QED BY <2>4, <2>5, <2>6
<1> QED BY <1>5, <1>6, <1>8, <1>9, <1>10 DEF SequenceInv, OrderInv, TwiceInv

\* What Finish and Throw make of the job.
LEMMA FinishIs ==
  ASSUME SequenceInv, Sequence!Finish
  PROVE  \E g \in QueueRows : /\ g.state = "completed" /\ queue' = [queue EXCEPT ![worker.id] = g]
                              /\ worker' = Sequence!IdleWorker
<1> DEFINE g == [queue[worker.id] EXCEPT !.state = "completed"]
<1>1. /\ queue' = [queue EXCEPT ![worker.id] = g] /\ worker' = Sequence!IdleWorker
  BY DEF Sequence!Finish
<1>2. g \in QueueRows /\ g.state = "completed"
  BY SequenceTypes DEF QueueRows
<1> HIDE DEF g
<1> QED BY <1>1, <1>2

LEMMA ThrowIs ==
  ASSUME SequenceInv, worker.pc # "idle", Sequence!Throw
  PROVE  \E g \in QueueRows : /\ g.state \in {"waiting", "failed"}
                              /\ g.state = "waiting" => g.throws < Sequence!Attempts
                              /\ queue' = [queue EXCEPT ![worker.id] = g]
                              /\ worker' = Sequence!IdleWorker
<1> DEFINE f == queue[worker.id]
           n == f.throws + 1
           s == IF n < Sequence!Attempts THEN "waiting" ELSE "failed"
           one == [f EXCEPT !.throws = n]
           g == [one EXCEPT !.state = s]
<1>1. f \in QueueRows /\ f.throws < 3
  BY SequenceTypes DEF SequenceInv, OrderInv, WorkerOK, AttemptsOK, Sequence!Attempts
<1>2. n \in 0..3
  BY <1>1 DEF QueueRows
<1>3. s \in {"waiting", "failed"} /\ (s = "waiting" => n < Sequence!Attempts)
  OBVIOUS
<1>4. /\ queue' = [queue EXCEPT ![worker.id] = [f EXCEPT !.throws = n, !.state = s]]
      /\ worker' = Sequence!IdleWorker
  BY DEF Sequence!Throw
<1>5. [f EXCEPT !.throws = n, !.state = s] = g
  OBVIOUS
<1> HIDE DEF f, n, s
<1>6. one \in QueueRows /\ one.throws = n
  BY <1>1, <1>2 DEF QueueRows, Sequence!Attempts
<1> HIDE DEF one
<1>7. g \in QueueRows /\ g.state = s /\ g.throws = n
  BY <1>3, <1>6 DEF QueueRows
<1> HIDE DEF g
<1> QED BY <1>3, <1>4, <1>5, <1>7

LEMMA ReadUserKeeps == ASSUME SequenceInv, Sequence!ReadUser PROVE SequenceInv'
<1>1. worker.pc = "reading" /\ UNCHANGED <<account, row, call, cron, mails>>
  BY DEF Sequence!ReadUser
<1>2. PICK d \in Sequence!Days : d = worker.id.day
  BY SequenceTypes DEF Sequence!Ids
<1>3. row # Sequence!NoRow /\ mails[d] \in Nat /\ faults \in Nat
  BY <1>1, SequenceTypes DEF SequenceInv, OrderInv, RowOK
<1>4. CASE Sequence!Finish /\ UNCHANGED faults
  <2>1. PICK g \in QueueRows : /\ g.state = "completed" /\ queue' = [queue EXCEPT ![worker.id] = g]
                               /\ worker' = Sequence!IdleWorker
    BY <1>4, FinishIs
  <2>2. g.state \in {"waiting", "failed", "completed"} /\ (g.state = "waiting" => FALSE)
    BY <2>1
  <2>3. mails'[d] <= mails[d] + (faults' - faults) /\ faults' \in Nat /\ faults <= faults'
    BY <1>1, <1>3, <1>4
  <2> QED BY <1>1, <1>2, <1>3, <2>1, <2>2, <2>3, SequenceTypes, JobLeft
<1>5. CASE worker' = [worker EXCEPT !.pc = "mailing"] /\ UNCHANGED <<queue, faults>>
  <2>1. /\ worker' \in [pc : {"idle", "reading", "mailing", "marking"}, id : Sequence!Ids]
        /\ worker'.pc = "mailing" /\ worker'.id = worker.id
    BY <1>5, SequenceTypes
  <2>2. RowOK' /\ CallOK' /\ CronOK' /\ WorkerOK' /\ QueueOK' /\ AttemptsOK'
    BY <1>1, <1>3, <1>5, <2>1
       DEF OrderInv, RowOK, CallOK, CronOK, WorkerOK, QueueOK, AttemptsOK, Ahead, SequenceInv
  <2>3. ASSUME NEW e \in Sequence!Days
        PROVE  (First(e)' => First(e)) /\ (Second(e)' => Second(e))
    BY <1>1, <1>5, <2>1 DEF First, Second, Mailed, Ahead
  <2> QED BY <1>1, <1>5, <2>1, <2>2, <2>3, SequenceTypes, StepStays DEF OrderInv
<1>6. CASE Sequence!Fault /\ Sequence!Throw
  <2>1. PICK g \in QueueRows : /\ g.state \in {"waiting", "failed"}
                               /\ g.state = "waiting" => g.throws < Sequence!Attempts
                               /\ queue' = [queue EXCEPT ![worker.id] = g]
                               /\ worker' = Sequence!IdleWorker
    BY <1>1, <1>6, ThrowIs
  <2>2. mails'[d] <= mails[d] + (faults' - faults) /\ faults' \in Nat /\ faults <= faults'
    BY <1>1, <1>3, <1>6 DEF Sequence!Fault
  <2> QED BY <1>1, <1>2, <1>3, <2>1, <2>2, SequenceTypes, JobLeft
<1> QED BY <1>4, <1>5, <1>6 DEF Sequence!ReadUser

LEMMA MailKeeps == ASSUME SequenceInv, Sequence!Mail PROVE SequenceInv'
<1>1. worker.pc = "mailing" /\ UNCHANGED <<account, row, call, cron>>
  BY DEF Sequence!Mail
<1>2. PICK d \in Sequence!Days : d = worker.id.day
  BY SequenceTypes DEF Sequence!Ids
<1>3. row # Sequence!NoRow /\ mails \in [Sequence!Days -> Nat] /\ faults \in Nat
  BY <1>1, SequenceTypes DEF SequenceInv, OrderInv, RowOK
<1>4. PICK o \in Sequence!Outcomes :
        /\ Sequence!Send(worker.id.day, o)
        /\ IF o.ok THEN worker' = [worker EXCEPT !.pc = "marking"] /\ UNCHANGED queue
                   ELSE Sequence!Throw
  BY DEF Sequence!Mail
<1>5. /\ faults' = faults + o.faults /\ mails' = [mails EXCEPT ![d] = mails[d] + o.mails]
      /\ o.mails \in Nat /\ o.faults \in Nat /\ o.mails <= 1 + o.faults
  BY <1>2, <1>4, OutcomePays DEF Sequence!Send
<1>6. /\ mails' \in [Sequence!Days -> Nat] /\ mails'[d] = mails[d] + o.mails
      /\ \A e \in Sequence!Days : e # d => mails'[e] = mails[e]
      /\ faults' \in Nat /\ faults <= faults'
  BY <1>3, <1>5
<1>7. CASE o.ok
  <2>1. worker' = [worker EXCEPT !.pc = "marking"] /\ queue' = queue
    BY <1>4, <1>7
  <2>2. /\ worker' \in [pc : {"idle", "reading", "mailing", "marking"}, id : Sequence!Ids]
        /\ worker'.pc = "marking" /\ worker'.id = worker.id
    BY <2>1, SequenceTypes
  <2>3. RowOK' /\ CallOK' /\ CronOK' /\ WorkerOK' /\ QueueOK' /\ AttemptsOK'
    BY <1>1, <1>3, <2>1, <2>2
       DEF OrderInv, RowOK, CallOK, CronOK, WorkerOK, QueueOK, AttemptsOK, Ahead, SequenceInv
  <2>4. Sequence!TypeOK'
    BY <1>1, <1>6, <2>1, <2>2, SequenceTypes DEF Sequence!TypeOK, QueueRows
  <2>5. ASSUME NEW e \in Sequence!Days PROVE TwiceOK(e)'
    <3>1. /\ mails[e] \in Nat /\ mails'[e] \in Nat /\ TwiceOK(e)
          /\ mails'[e] <= mails[e] \/ e = d
      BY <1>3, <1>6 DEF SequenceInv, TwiceInv
    <3>2. (First(e)' => First(e)) /\ (Second(e)' => Second(e))
      BY <1>1, <2>1, <2>2 DEF First, Second, Mailed, Ahead
    <3>3. CASE e # d
      <4>1. mails'[e] = mails[e]
        BY <1>6, <3>3
      <4> QED BY <1>6, <3>2, <4>1, TwiceStays
    <3>4. CASE e = d
      <4>1. queue[worker.id].state = "active" /\ worker.id \in Sequence!Ids
        BY <1>1, SequenceTypes DEF SequenceInv, OrderInv, WorkerOK
      <4>2. mails'[e] <= mails[e] + 1 + (faults' - faults)
        BY <1>3, <1>5, <1>6, <3>4
      <4>3. worker.id = Scheduled(d) \/ worker.id = Asked(d)
        <5>1. PICK c \in Sequence!Days : worker.id = Scheduled(c) \/ worker.id = Asked(c)
          BY <4>1, IdsOfDays
        <5>2. c = d
          BY <1>2, <5>1 DEF Scheduled, Asked
        <5> QED BY <5>1, <5>2
      <4>4. CASE worker.id = Scheduled(d)
        <5>1. First(e)
          BY <1>1, <3>4, <4>1, <4>4 DEF First, Mailed
        <5>2. ~First(e)'
          <6>1. ~Ahead(d)
            BY <4>1, <4>4 DEF SequenceInv, OrderInv, QueueOK
          <6>2. ~Ahead(d)'
            BY <1>1, <6>1 DEF Ahead
          <6> QED BY <2>2, <3>4, <4>4, <6>2 DEF First, Mailed
        <5> QED BY <1>3, <1>6, <3>1, <3>2, <4>2, <5>1, <5>2 DEF TwiceOK, One
      <4>5. CASE worker.id = Asked(d)
        <5>1. Second(e)
          BY <1>1, <3>4, <4>1, <4>5 DEF Second, Mailed
        <5>2. ~Second(e)'
          BY <2>2, <3>4, <4>5 DEF Second, Mailed
        <5> QED BY <1>3, <1>6, <3>1, <3>2, <4>2, <5>1, <5>2 DEF TwiceOK, One
      <4> QED BY <4>3, <4>4, <4>5
    <3> QED BY <3>3, <3>4
  <2> QED BY <2>3, <2>4, <2>5 DEF SequenceInv, OrderInv, TwiceInv
<1>8. CASE ~o.ok
  <2>1. PICK g \in QueueRows : /\ g.state \in {"waiting", "failed"}
                               /\ g.state = "waiting" => g.throws < Sequence!Attempts
                               /\ queue' = [queue EXCEPT ![worker.id] = g]
                               /\ worker' = Sequence!IdleWorker
    BY <1>1, <1>4, <1>8, ThrowIs
  <2>2. mails'[d] <= mails[d] + (faults' - faults)
    BY <1>3, <1>5, <1>6, <1>8, OutcomePays
  <2> QED BY <1>1, <1>2, <1>3, <1>6, <2>1, <2>2, SequenceTypes, JobLeft
<1> QED BY <1>7, <1>8

LEMMA MarkKeeps == ASSUME SequenceInv, Sequence!Mark PROVE SequenceInv'
<1>1. worker.pc = "marking" /\ UNCHANGED <<account, call, cron, mails>>
  BY DEF Sequence!Mark
<1>2. PICK d \in Sequence!Days : d = worker.id.day
  BY SequenceTypes DEF Sequence!Ids
<1>3. row # Sequence!NoRow /\ mails[d] \in Nat /\ faults \in Nat
  BY <1>1, SequenceTypes DEF SequenceInv, OrderInv, RowOK
<1>4. CASE row' = [row EXCEPT !.sent = row.sent \cup {worker.id.day}] /\ Sequence!Finish
           /\ UNCHANGED faults
  <2>1. PICK g \in QueueRows : /\ g.state = "completed" /\ queue' = [queue EXCEPT ![worker.id] = g]
                               /\ worker' = Sequence!IdleWorker
    BY <1>4, FinishIs
  <2>2. g.state \in {"waiting", "failed", "completed"} /\ (g.state = "waiting" => FALSE)
    BY <2>1
  <2>3. /\ row' \in [type : {"none", "new_user", "existing_user"}, sent : SUBSET Sequence!Days]
        /\ row' # Sequence!NoRow /\ row.sent \subseteq row'.sent /\ d \in row'.sent
    BY <1>2, <1>3, <1>4, SequenceTypes DEF Sequence!NoRow
  <2>4. mails'[d] <= mails[d] + (faults' - faults) /\ faults' \in Nat /\ faults <= faults'
    BY <1>1, <1>3, <1>4
  <2> QED BY <1>1, <1>2, <1>3, <2>1, <2>2, <2>3, <2>4, SequenceTypes, JobLeft
<1>5. CASE Sequence!Fault /\ Sequence!Throw /\ UNCHANGED row
  <2>1. PICK g \in QueueRows : /\ g.state \in {"waiting", "failed"}
                               /\ g.state = "waiting" => g.throws < Sequence!Attempts
                               /\ queue' = [queue EXCEPT ![worker.id] = g]
                               /\ worker' = Sequence!IdleWorker
    BY <1>1, <1>5, ThrowIs
  <2>2. /\ mails'[d] <= mails[d] + (faults' - faults) /\ faults' \in Nat /\ faults <= faults'
        /\ faults < faults'
    BY <1>1, <1>3, <1>5 DEF Sequence!Fault
  <2> QED BY <1>1, <1>2, <1>3, <1>5, <2>1, <2>2, SequenceTypes, JobLeft
<1> QED BY <1>4, <1>5 DEF Sequence!Mark

LEMMA CrashKeeps == ASSUME SequenceInv, Sequence!Crash PROVE SequenceInv'
<1>1. /\ UNCHANGED <<account, row, mails>> /\ faults' = faults + 1
      /\ call' = Sequence!IdleCall /\ cron' = Sequence!IdleCron /\ worker' = Sequence!IdleWorker
  BY DEF Sequence!Crash, Sequence!Fault
<1>2. /\ call' \in [pc : {"idle", "ensuring", "mailing", "marking", "scheduling"},
                    type : {"none", "new_user", "existing_user"}, day : Sequence!Days]
      /\ cron' \in [pc : {"idle", "adding"}, todo : SUBSET Sequence!Days]
      /\ worker' \in [pc : {"idle", "reading", "mailing", "marking"}, id : Sequence!Ids]
      /\ call'.pc = "idle" /\ cron'.pc = "idle" /\ cron'.todo = {} /\ worker'.pc = "idle"
  BY <1>1, DaysAre DEF Sequence!IdleCall, Sequence!IdleCron, Sequence!IdleWorker, Sequence!Ids
<1>3. ASSUME NEW i \in Sequence!Ids
      PROVE  /\ queue'[i] \in QueueRows /\ queue'[i].throws = queue[i].throws
             /\ \/ queue'[i] = queue[i]
                \/ queue[i].state = "active" /\ queue'[i].state \in {"waiting", "failed"}
  <2> DEFINE f == queue[i]
             one == [f EXCEPT !.state = "waiting"]
             two == [one EXCEPT !.stalls = 1]
  <2>1. f \in QueueRows
    BY SequenceTypes
  <2>2. queue'[i] = IF f.state # "active" THEN f
                    ELSE IF f.stalls = 0 THEN [f EXCEPT !.state = "waiting", !.stalls = 1]
                    ELSE [f EXCEPT !.state = "failed"]
    BY DEF Sequence!Crash
  <2>3. [f EXCEPT !.state = "waiting", !.stalls = 1] = two
    OBVIOUS
  <2> HIDE DEF f
  <2>4. one \in QueueRows /\ one.state = "waiting" /\ one.throws = f.throws
    BY <2>1 DEF QueueRows
  <2> HIDE DEF one
  <2>5. two \in QueueRows /\ two.state = "waiting" /\ two.throws = f.throws
    BY <2>4 DEF QueueRows
  <2> HIDE DEF two
  <2>6. CASE f.state # "active"
    BY <2>1, <2>2, <2>6 DEF f
  <2>7. CASE f.state = "active" /\ f.stalls = 0
    BY <2>2, <2>3, <2>5, <2>7 DEF f
  <2>8. CASE f.state = "active" /\ f.stalls # 0
    <3>1. queue'[i] = [f EXCEPT !.state = "failed"]
      BY <2>2, <2>8
    <3> QED BY <2>1, <2>8, <3>1 DEF f, QueueRows
  <2> QED BY <2>6, <2>7, <2>8
<1>4. queue' \in [Sequence!Ids -> QueueRows]
  <2>1. queue' = [i \in Sequence!Ids |-> queue'[i]]
    BY DEF Sequence!Crash
  <2> QED BY <1>3, <2>1
<1>5. faults \in Nat /\ faults' \in Nat
  BY <1>1, SequenceTypes
<1>6. Sequence!TypeOK'
  BY <1>1, <1>2, <1>4, <1>5, SequenceTypes DEF Sequence!TypeOK, QueueRows
<1>7. RowOK'
  BY <1>1, <1>2, <1>3 DEF SequenceInv, OrderInv, RowOK
<1>8. CallOK' /\ CronOK' /\ WorkerOK'
  BY <1>1, <1>2 DEF SequenceInv, OrderInv, CallOK, CronOK, WorkerOK
<1>9. AttemptsOK'
  BY <1>3 DEF SequenceInv, OrderInv, AttemptsOK
<1>10. \A d \in Sequence!Days : Ahead(d)' => Ahead(d)
  BY <1>1, <1>2 DEF Ahead
<1>11. QueueOK'
  BY <1>3, <1>10, IdsOfDays DEF SequenceInv, OrderInv, QueueOK
<1>12. ASSUME NEW d \in Sequence!Days PROVE TwiceOK(d)'
  <2>1. mails[d] \in Nat /\ mails'[d] = mails[d] /\ TwiceOK(d)
    BY <1>1, SequenceTypes DEF SequenceInv, TwiceInv
  <2>2. Scheduled(d) \in Sequence!Ids /\ Asked(d) \in Sequence!Ids /\ Scheduled(d) # Asked(d)
    BY IdsOfDays
  <2>3. First(d)' => First(d) \/ Mailed(Scheduled(d))
    BY <1>3, <1>10, <2>2 DEF First
  <2>4. Second(d)' => Second(d) \/ Mailed(Asked(d))
    BY <1>1, <1>2, <1>3, <2>2 DEF Second
  <2>5. ~(Mailed(Scheduled(d)) /\ Mailed(Asked(d)))
    BY <2>2 DEF Mailed
  <2> QED BY <1>1, <1>5, <2>1, <2>3, <2>4, <2>5 DEF TwiceOK, One
<1> QED BY <1>6, <1>7, <1>8, <1>9, <1>11, <1>12 DEF SequenceInv, OrderInv, TwiceInv

LEMMA ForgetKeeps == ASSUME SequenceInv, Sequence!Forget PROVE SequenceInv'
<1>1. /\ UNCHANGED <<account, row, call, cron, worker, mails, faults>>
      /\ cron.todo = {}
  BY DEF Sequence!Forget, Sequence!IdleCron
<1>2. PICK i \in Sequence!Ids : /\ queue[i].state \in {"completed", "failed"}
                                /\ queue' = [queue EXCEPT ![i] = Sequence!Absent]
  BY DEF Sequence!Forget
<1>3. PICK g : g = Sequence!Absent
  OBVIOUS
<1>4. g \in QueueRows /\ g.state = "none" /\ g.throws = 0
  BY <1>3 DEF Sequence!Absent, QueueRows, Sequence!Attempts
<1>5. /\ queue' \in [Sequence!Ids -> QueueRows] /\ queue'[i] = g
      /\ \A j \in Sequence!Ids \ {i} : queue'[j] = queue[j]
  BY <1>2, <1>3, <1>4, SequenceTypes, QueueSet
<1>6. \A j \in Sequence!Ids : \/ queue'[j] = queue[j]
                              \/ queue'[j].state = "none" /\ queue'[j].throws = 0
                                 /\ queue[j].state \in {"completed", "failed"}
  BY <1>2, <1>4, <1>5
<1>7. row # Sequence!NoRow
  BY <1>2 DEF SequenceInv, OrderInv, RowOK
<1>8. RowOK' /\ CallOK' /\ CronOK'
  BY <1>1, <1>7 DEF SequenceInv, OrderInv, RowOK, CallOK, CronOK
<1>9. WorkerOK'
  BY <1>1, <1>2, <1>6, SequenceTypes DEF SequenceInv, OrderInv, WorkerOK
<1>10. QueueOK' /\ AttemptsOK'
  BY <1>1, <1>6, IdsOfDays DEF SequenceInv, OrderInv, QueueOK, AttemptsOK, Ahead, Sequence!Attempts
<1>11. ASSUME NEW d \in Sequence!Days
       PROVE  (First(d)' => First(d)) /\ (Second(d)' => Second(d))
  <2>1. First(d)' => First(d)
    BY <1>1, <1>6, IdsOfDays DEF First, Ahead, Mailed
  <2>2. Second(d)' => Second(d)
    BY <1>1, <1>6, IdsOfDays DEF Second, Mailed
  <2> QED BY <2>1, <2>2
<1> QED BY <1>1, <1>5, <1>8, <1>9, <1>10, <1>11, SequenceTypes, StepStays DEF OrderInv

\* What leaves the sequence alone, and may spend a fault.
LEMMA SequenceRests ==
  ASSUME SequenceInv, UNCHANGED sequenceVars, faults' \in Nat, faults <= faults'
  PROVE  SequenceInv'
<1>1. UNCHANGED <<account, row, queue, call, cron, worker, mails>>
  BY DEF sequenceVars
<1>2. OrderInv'
  BY <1>1 DEF SequenceInv, OrderInv, RowOK, CallOK, CronOK, WorkerOK, QueueOK, AttemptsOK, Ahead
<1>3. \A e \in Sequence!Days : (First(e)' => First(e)) /\ (Second(e)' => Second(e))
  BY <1>1 DEF First, Second, Mailed, Ahead
<1> QED BY <1>1, <1>2, <1>3, SequenceTypes, StepStays

LEMMA SequenceMoves == ASSUME SequenceInv, Sequence!Next PROVE SequenceInv'
<1>1. CASE Sequence!Register \/ Sequence!Backfill \/ Sequence!Suspend
  BY <1>1, StartKeeps
<1>2. CASE Sequence!CallStep
  BY <1>2, EnsureKeeps, FirstKeeps, ScheduleKeeps DEF Sequence!CallStep
<1>3. CASE \E d \in Sequence!Days : Sequence!FallDue(d)
  BY <1>3, FallDueKeeps
<1>4. CASE Sequence!CronFind \/ Sequence!CronAdd
  BY <1>4, CronFindKeeps, CronAddKeeps
<1>5. CASE Sequence!WorkerStep
  BY <1>5, TakeKeeps, ReadUserKeeps, MailKeeps, MarkKeeps DEF Sequence!WorkerStep
<1>6. CASE Sequence!Crash \/ Sequence!Forget
  BY <1>6, CrashKeeps, ForgetKeeps
<1> QED BY <1>1, <1>2, <1>3, <1>4, <1>5, <1>6 DEF Sequence!Next

------------------------------------------------------------------------------
(* The reminders *)

\* The sender has mailed this one and not yet recorded it.
Recording(i) == sender.pc = "recording" /\ sender.id = i

\* It is on its way and not mailed yet; or the cron may still queue it, because
\* there is no notification of its kind and the signing is at its time.
Due(i) ==
  \/ jobs[i].state \in {"waiting", "active"} /\ ~Recording(i)
  \/ i \in adding /\ jobs[i].state = "none"

Coming(i) ==
  /\ i.kind # "eta" /\ i.kind \notin rows
  /\ i.key = signing.at /\ ~Recording(i)

MayCome(k) == {i \in Signing!Ids : i.kind = k /\ (Due(i) \/ Coming(i))}

Allowed(k) == IF k = "eta" THEN earlier + faults
              ELSE 1 + faults + (IF k \in raced THEN moves ELSE 0)

\* What was mailed and what may still be, of each kind.
OnceOK(k) == /\ IsFiniteSet(MayCome(k))
             /\ reminded[k] + Cardinality(MayCome(k)) <= Allowed(k)
OnceInv   == \A k \in Signing!Kinds : OnceOK(k)

SenderOK == sender # Signing!Idle => jobs[sender.id].state = "active"

\* A reminder that is not over has an attempt left.
TriesOK == \A i \in Signing!Ids :
  jobs[i].state \in {"none", "waiting", "active"} => jobs[i].throws < Signing!Attempts

SigningInv == Signing!TypeOK /\ SenderOK /\ TriesOK /\ OnceInv

JobRows == [state : {"none", "waiting", "active", "over"},
            throws : 0..Signing!Attempts, stalls : 0..1]

LEMMA SigningTypes ==
  ASSUME SigningInv
  PROVE  /\ signing \in [confirmed : BOOLEAN, at : Slots] /\ now \in 0..LastMoment
         /\ rows \subseteq Signing!Kinds /\ raced \subseteq Signing!Kinds
         /\ adding \subseteq Signing!Ids /\ jobs \in [Signing!Ids -> JobRows]
         /\ \/ sender = Signing!Idle
            \/ sender \in [pc : {"reading", "mailing", "recording"}, id : Signing!Ids]
         /\ moves \in 0..MaxMoves /\ earlier \in 0..MaxEarlier /\ faults \in Nat
         /\ MaxMoves \in Nat /\ MaxEarlier \in Nat
         /\ reminded \in [Signing!Kinds -> Nat]
BY BoundsAssumption DEF SigningInv, Signing!TypeOK, JobRows

LEMMA SigningIdsAre ==
  /\ \A i \in Signing!Ids : i.kind \in Signing!Kinds
  /\ \A k \in {"client", "notary"}, t \in Slots :
       /\ [kind |-> k, key |-> t] \in Signing!Ids
       /\ [kind |-> k, key |-> t].kind = k /\ [kind |-> k, key |-> t].key = t
  /\ \A n \in 1..MaxEarlier : [kind |-> "eta", key |-> n] \in Signing!Ids
  /\ \A i \in Signing!Ids : i.kind # "eta" => i = [kind |-> i.kind, key |-> i.key]
<1>1. \A i \in Signing!Ids : i.kind \in Signing!Kinds
  BY DEF Signing!Ids, Signing!Kinds
<1>2. \A k \in {"client", "notary"}, t \in Slots :
        /\ [kind |-> k, key |-> t] \in Signing!Ids
        /\ [kind |-> k, key |-> t].kind = k /\ [kind |-> k, key |-> t].key = t
  BY DEF Signing!Ids
<1>3. \A n \in 1..MaxEarlier : [kind |-> "eta", key |-> n] \in Signing!Ids
  BY DEF Signing!Ids
<1>4. \A i \in Signing!Ids : i.kind # "eta" => i = [kind |-> i.kind, key |-> i.key]
  BY DEF Signing!Ids
<1> QED BY <1>1, <1>2, <1>3, <1>4

(* Counting *)

LEMMA Shrinks ==
  ASSUME NEW A, NEW B, IsFiniteSet(A), B \subseteq A
  PROVE  /\ IsFiniteSet(B) /\ Cardinality(B) <= Cardinality(A)
         /\ Cardinality(A) \in Nat /\ Cardinality(B) \in Nat
BY FS_Subset, FS_CardinalityType

LEMMA Grows ==
  ASSUME NEW A, NEW B, NEW x, IsFiniteSet(A), B \subseteq A \cup {x}
  PROVE  /\ IsFiniteSet(B) /\ Cardinality(B) <= Cardinality(A) + 1
         /\ Cardinality(A) \in Nat /\ Cardinality(B) \in Nat
<1>0. Cardinality(A) \in Nat
  BY FS_CardinalityType
<1>1. /\ IsFiniteSet(A \cup {x})
      /\ Cardinality(A \cup {x}) = IF x \in A THEN Cardinality(A) ELSE Cardinality(A) + 1
  BY FS_AddElement, Zenon
<1>2. IsFiniteSet(B) /\ Cardinality(B) <= Cardinality(A \cup {x})
  BY <1>1, Shrinks
<1>3. Cardinality(B) \in Nat /\ Cardinality(A \cup {x}) \in Nat
  BY <1>1, <1>2, FS_CardinalityType
<1> QED BY <1>0, <1>1, <1>2, <1>3

LEMMA Loses ==
  ASSUME NEW A, NEW B, NEW x, IsFiniteSet(A), x \in A, B \subseteq A \ {x}
  PROVE  /\ IsFiniteSet(B) /\ Cardinality(B) + 1 <= Cardinality(A)
         /\ Cardinality(A) \in Nat /\ Cardinality(B) \in Nat
<1>1. /\ IsFiniteSet(A \ {x}) /\ Cardinality(A) \in Nat
      /\ Cardinality(A \ {x}) = Cardinality(A) - 1
  BY FS_RemoveElement, FS_CardinalityType
<1>2. IsFiniteSet(B) /\ Cardinality(B) <= Cardinality(A \ {x}) /\ Cardinality(B) \in Nat
  BY <1>1, Shrinks
<1> QED BY <1>1, <1>2

LEMMA AllowedIs ==
  ASSUME SigningInv, NEW k \in Signing!Kinds
  PROVE  Allowed(k) \in Nat /\ reminded[k] \in Nat /\ IsFiniteSet(MayCome(k))
         /\ Cardinality(MayCome(k)) \in Nat
         /\ reminded[k] + Cardinality(MayCome(k)) <= Allowed(k)
<1>1. Allowed(k) \in Nat /\ reminded[k] \in Nat
  BY SigningTypes DEF Allowed
<1>2. OnceOK(k)
  BY DEF SigningInv, OnceInv
<1>3. Cardinality(MayCome(k)) \in Nat
  BY <1>2, FS_CardinalityType DEF OnceOK
<1> QED BY <1>1, <1>2, <1>3 DEF OnceOK

\* A step by which nothing more may come and no less is allowed.
LEMMA OnceStays ==
  ASSUME SigningInv, NEW k \in Signing!Kinds, MayCome(k)' \subseteq MayCome(k),
         reminded'[k] = reminded[k], Allowed(k)' \in Nat, Allowed(k) <= Allowed(k)'
  PROVE  OnceOK(k)'
<1>1. /\ IsFiniteSet(MayCome(k)') /\ Cardinality(MayCome(k)') <= Cardinality(MayCome(k))
      /\ Cardinality(MayCome(k)') \in Nat
  BY AllowedIs, Shrinks
<1> QED BY <1>1, AllowedIs DEF OnceOK

\* A step by which one more may come or was mailed, and one more is allowed.
LEMMA OnceMore ==
  ASSUME SigningInv, NEW k \in Signing!Kinds, NEW n \in 0..1,
         reminded'[k] = reminded[k] + n, NEW x, MayCome(k)' \subseteq MayCome(k) \cup {x},
         n = 1 => MayCome(k)' \subseteq MayCome(k),
         Allowed(k)' \in Nat, Allowed(k) + 1 <= Allowed(k)'
  PROVE  OnceOK(k)'
<1>1. CASE n = 0
  <2>1. /\ IsFiniteSet(MayCome(k)') /\ Cardinality(MayCome(k)') <= Cardinality(MayCome(k)) + 1
        /\ Cardinality(MayCome(k)') \in Nat
    BY AllowedIs, Grows
  <2> QED BY <1>1, <2>1, AllowedIs DEF OnceOK
<1>2. CASE n = 1
  <2>1. /\ IsFiniteSet(MayCome(k)') /\ Cardinality(MayCome(k)') <= Cardinality(MayCome(k))
        /\ Cardinality(MayCome(k)') \in Nat
    BY <1>2, AllowedIs, Shrinks
  <2> QED BY <1>2, <2>1, AllowedIs DEF OnceOK
<1> QED BY <1>1, <1>2

LEMMA SigningBegins == Init => SigningInv
<1> SUFFICES ASSUME Init PROVE SigningInv
  OBVIOUS
<1>1. /\ signing \in [confirmed : BOOLEAN, at : Slots]
      /\ now = 0 /\ moves = 0 /\ earlier = 0 /\ faults = 0
      /\ rows = {} /\ raced = {} /\ adding = {}
      /\ jobs = [i \in Signing!Ids |-> Signing!Absent] /\ sender = Signing!Idle
      /\ reminded = [k \in Signing!Kinds |-> 0]
  BY DEF Init, Signing!Init
<1>2. PICK g : g = Signing!Absent
  OBVIOUS
<1>3. g \in JobRows /\ g.state = "none" /\ g.throws = 0
  BY <1>2 DEF JobRows, Signing!Absent, Signing!Attempts
<1>4. jobs \in [Signing!Ids -> JobRows] /\ \A i \in Signing!Ids : jobs[i] = g
  BY <1>1, <1>2, <1>3
<1>5. Signing!TypeOK
  BY <1>1, <1>4, BoundsAssumption DEF Signing!TypeOK, JobRows
<1>6. SenderOK /\ TriesOK
  BY <1>1, <1>3, <1>4 DEF SenderOK, TriesOK, Signing!Attempts
<1>7. ASSUME NEW k \in Signing!Kinds PROVE OnceOK(k)
  <2>1. reminded[k] = 0 /\ Allowed(k) = IF k = "eta" THEN 0 ELSE 1
    BY <1>1 DEF Allowed
  <2>2. IsFiniteSet({}) /\ Cardinality({}) = 0
    BY FS_EmptySet
  <2>3. \A i \in Signing!Ids : ~Due(i)
    BY <1>1, <1>3, <1>4 DEF Due
  <2>4. CASE k = "eta"
    <3>1. MayCome(k) \subseteq {}
      BY <2>3, <2>4 DEF MayCome, Coming
    <3> QED BY <2>1, <2>2, <2>4, <3>1, Shrinks DEF OnceOK
  <2>5. CASE k # "eta"
    <3>1. MayCome(k) \subseteq {} \cup {[kind |-> k, key |-> signing.at]}
      BY <2>3, <2>5, SigningIdsAre DEF MayCome, Coming
    <3>2. IsFiniteSet(MayCome(k)) /\ Cardinality(MayCome(k)) <= 1 /\ Cardinality(MayCome(k)) \in Nat
      <4> DEFINE x == [kind |-> k, key |-> signing.at]
                 A == {}
      <4> HIDE DEF x
      <4>1. IsFiniteSet(A) /\ Cardinality(A) = 0 /\ MayCome(k) \subseteq A \cup {x}
        BY <2>2, <3>1 DEF x
      <4> HIDE DEF A
      <4>2. /\ IsFiniteSet(MayCome(k)) /\ Cardinality(MayCome(k)) <= Cardinality(A) + 1
            /\ Cardinality(MayCome(k)) \in Nat
        BY <4>1, Grows
      <4> QED BY <4>1, <4>2
    <3> QED BY <2>1, <2>5, <3>2 DEF OnceOK
  <2> QED BY <2>4, <2>5
<1> QED BY <1>5, <1>6, <1>7 DEF SigningInv, OnceInv

------------------------------------------------------------------------------
(* The steps of the reminders *)

LEMMA JobSet ==
  ASSUME NEW i \in Signing!Ids, NEW g \in JobRows, jobs \in [Signing!Ids -> JobRows],
         jobs' = [jobs EXCEPT ![i] = g]
  PROVE  /\ jobs' \in [Signing!Ids -> JobRows] /\ jobs'[i] = g
         /\ \A j \in Signing!Ids \ {i} : jobs'[j] = jobs[j]
OBVIOUS

\* What may come is a matter of the single ids.
LEMMA MayComeStays ==
  ASSUME NEW S, \A i \in Signing!Ids : (Due(i) \/ Coming(i))' => Due(i) \/ Coming(i) \/ i \in S,
         NEW k
  PROVE  MayCome(k)' \subseteq MayCome(k) \cup S
BY DEF MayCome

LEMMA AllowedStays ==
  ASSUME {moves, earlier, faults} \subseteq Nat, {moves', earlier', faults'} \subseteq Nat,
         faults <= faults', moves <= moves', earlier <= earlier', raced' = raced, NEW k
  PROVE  Allowed(k)' \in Nat /\ Allowed(k) <= Allowed(k)'
BY DEF Allowed

LEMMA SigningStays ==
  ASSUME SigningInv, Signing!TypeOK', SenderOK', TriesOK', UNCHANGED <<reminded, raced>>,
         faults <= faults', moves <= moves', earlier <= earlier',
         \A i \in Signing!Ids : (Due(i) \/ Coming(i))' => Due(i) \/ Coming(i)
  PROVE  SigningInv'
<1>1. /\ moves \in Nat /\ earlier \in Nat /\ faults \in Nat
      /\ moves' \in Nat /\ earlier' \in Nat /\ faults' \in Nat
  BY SigningTypes, BoundsAssumption DEF Signing!TypeOK
<1>2. ASSUME NEW k \in Signing!Kinds PROVE OnceOK(k)'
  <2>1. MayCome(k)' \subseteq MayCome(k)
    BY DEF MayCome
  <2>2. reminded'[k] = reminded[k]
    OBVIOUS
  <2>3. Allowed(k)' \in Nat /\ Allowed(k) <= Allowed(k)'
    BY <1>1, AllowedStays
  <2> QED BY <2>1, <2>2, <2>3, OnceStays
<1> QED BY <1>2 DEF SigningInv, OnceInv

\* What leaves the signing alone, and may spend a fault.
LEMMA SigningRests ==
  ASSUME SigningInv, UNCHANGED signingVars, faults' \in Nat, faults <= faults'
  PROVE  SigningInv'
<1>1. UNCHANGED <<signing, now, rows, jobs, sender, adding, moves, earlier, reminded, raced>>
  BY DEF signingVars
<1>2. Signing!TypeOK' /\ SenderOK' /\ TriesOK'
  BY <1>1 DEF SigningInv, Signing!TypeOK, SenderOK, TriesOK
<1>3. \A i \in Signing!Ids : (Due(i) \/ Coming(i))' => Due(i) \/ Coming(i)
  BY <1>1 DEF Due, Coming, Recording
<1>4. moves <= moves' /\ earlier <= earlier'
  BY <1>1, SigningTypes
<1> QED BY <1>1, <1>2, <1>3, <1>4, SigningStays

LEMMA CronFindsReminder ==
  ASSUME SigningInv, NEW k \in Signing!Kinds, Signing!CronFind(k)
  PROVE  SigningInv'
<1> DEFINE x == [kind |-> k, key |-> signing.at]
<1>1. /\ k \in {"client", "notary"} /\ k \notin rows /\ adding' = adding \cup {x}
      /\ UNCHANGED <<signing, now, rows, jobs, sender, moves, earlier, reminded, raced, faults>>
  BY DEF Signing!CronFind, Signing!Wanted
<1>2. x \in Signing!Ids /\ x.kind = k /\ x.key = signing.at
  BY <1>1, SigningTypes, SigningIdsAre
<1> HIDE DEF x
<1>3. Signing!TypeOK' /\ SenderOK' /\ TriesOK'
  BY <1>1, <1>2 DEF SigningInv, Signing!TypeOK, SenderOK, TriesOK
<1>4. ASSUME NEW i \in Signing!Ids, (Due(i) \/ Coming(i))' PROVE Due(i) \/ Coming(i)
  <2>1. CASE i = x
    <3>1. Recording(x) => jobs[x].state = "active"
      BY DEF Recording, SigningInv, SenderOK, Signing!Idle
    <3>2. Recording(x)' <=> Recording(x)
      BY <1>1 DEF Recording, x
    <3> QED BY <1>1, <1>2, <1>4, <2>1, <3>1 DEF Due, Coming, Recording
  <2>2. CASE i # x
    BY <1>1, <1>4, <2>2 DEF Due, Coming, Recording
  <2> QED BY <2>1, <2>2
<1>5. moves <= moves' /\ earlier <= earlier' /\ faults <= faults'
  BY <1>1, SigningTypes
<1> QED BY <1>1, <1>3, <1>4, <1>5, SigningStays

LEMMA EarlierCompleted == ASSUME SigningInv, Signing!CompleteEarlier PROVE SigningInv'
<1>0. PICK n \in 1..MaxEarlier : n = earlier + 1
  BY SigningTypes DEF Signing!CompleteEarlier
<1> DEFINE x == [kind |-> "eta", key |-> n]
<1>1. /\ earlier' = n /\ adding' = adding \cup {x}
      /\ UNCHANGED <<signing, now, rows, jobs, sender, moves, reminded, raced, faults>>
  BY <1>0 DEF Signing!CompleteEarlier
<1>2. x \in Signing!Ids /\ x.kind = "eta"
  BY SigningIdsAre
<1> HIDE DEF x
<1>3. Signing!TypeOK' /\ SenderOK' /\ TriesOK'
  BY <1>1, <1>2, SigningTypes DEF SigningInv, Signing!TypeOK, SenderOK, TriesOK
<1>4. \A i \in Signing!Ids : (Due(i) \/ Coming(i))' => Due(i) \/ Coming(i) \/ i \in {x}
  BY <1>1 DEF Due, Coming, Recording
<1>5. ASSUME NEW k \in Signing!Kinds PROVE OnceOK(k)'
  <2>1. MayCome(k)' \subseteq MayCome(k) \cup {x}
    BY <1>4, MayComeStays
  <2>2. reminded'[k] = reminded[k] /\ reminded'[k] = reminded[k] + 0
    BY <1>1, AllowedIs
  <2>3. CASE k = "eta"
    <3>1. Allowed(k)' \in Nat /\ Allowed(k) + 1 <= Allowed(k)'
      BY <1>0, <1>1, <2>3, SigningTypes DEF Allowed
    <3> QED BY <2>1, <2>2, <3>1, OnceMore
  <2>4. CASE k # "eta"
    <3>1. Allowed(k)' = Allowed(k)
      BY <1>1, <2>4 DEF Allowed
    <3>2. MayCome(k)' \subseteq MayCome(k)
      BY <1>2, <2>1, <2>4 DEF MayCome
    <3>3. Allowed(k)' \in Nat /\ Allowed(k) <= Allowed(k)'
      BY <3>1, AllowedIs
    <3> QED BY <2>2, <3>2, <3>3, OnceStays
  <2> QED BY <2>3, <2>4
<1> QED BY <1>3, <1>5 DEF SigningInv, OnceInv

LEMMA ReminderAdded == ASSUME SigningInv, Signing!Add PROVE SigningInv'
<1>1. PICK i \in adding :
        /\ adding' = adding \ {i}
        /\ \/ /\ jobs' = [jobs EXCEPT ![i].state = IF @ = "none" THEN "waiting" ELSE @]
              /\ UNCHANGED faults
           \/ Signing!Fault /\ UNCHANGED jobs
        /\ UNCHANGED <<signing, now, rows, sender, moves, earlier, reminded, raced>>
  BY DEF Signing!Add
<1>2. i \in Signing!Ids /\ adding' \subseteq adding /\ adding' \subseteq Signing!Ids
  BY <1>1, SigningTypes
<1>3. faults' \in Nat /\ faults <= faults' /\ moves <= moves' /\ earlier <= earlier'
  BY <1>1, SigningTypes DEF Signing!Fault
<1>4. CASE jobs' = jobs
  <2>1. Signing!TypeOK' /\ SenderOK' /\ TriesOK'
    BY <1>1, <1>2, <1>3, <1>4 DEF SigningInv, Signing!TypeOK, SenderOK, TriesOK
  <2>2. \A j \in Signing!Ids : (Due(j) \/ Coming(j))' => Due(j) \/ Coming(j)
    BY <1>1, <1>4 DEF Due, Coming, Recording
  <2> QED BY <1>1, <1>3, <2>1, <2>2, SigningStays
<1>5. CASE jobs' = [jobs EXCEPT ![i].state = IF @ = "none" THEN "waiting" ELSE @]
  <2> DEFINE s == IF jobs[i].state = "none" THEN "waiting" ELSE jobs[i].state
  <2>1. jobs[i] \in JobRows
    BY <1>2, SigningTypes
  <2>2. PICK g : g = [jobs[i] EXCEPT !.state = s]
    OBVIOUS
  <2>3. s \in {"none", "waiting", "active", "over"}
    BY <2>1 DEF JobRows
  <2>4. jobs' = [jobs EXCEPT ![i] = g]
    BY <1>5, <2>2
  <2>5. g \in JobRows /\ g.state = s /\ g.throws = jobs[i].throws
    <3> HIDE DEF s
    <3> QED BY <2>1, <2>2, <2>3 DEF JobRows
  <2>6. /\ jobs' \in [Signing!Ids -> JobRows] /\ jobs'[i] = g
        /\ \A j \in Signing!Ids \ {i} : jobs'[j] = jobs[j]
    BY <1>2, <2>4, <2>5, SigningTypes, JobSet
  <2>7. ASSUME NEW j \in Signing!Ids
        PROVE  /\ jobs'[j].throws = jobs[j].throws
               /\ \/ jobs'[j].state = jobs[j].state
                  \/ j = i /\ jobs[j].state = "none" /\ jobs'[j].state = "waiting"
    BY <2>5, <2>6
  <2>8. Signing!TypeOK'
    BY <1>1, <1>2, <1>3, <2>6, SigningTypes DEF Signing!TypeOK, JobRows
  <2>9. SenderOK'
    BY <1>1, <2>7, SigningTypes DEF SigningInv, SenderOK
  <2>10. TriesOK'
    BY <2>7 DEF SigningInv, TriesOK
  <2>11. ASSUME NEW j \in Signing!Ids, (Due(j) \/ Coming(j))' PROVE Due(j) \/ Coming(j)
    BY <1>1, <1>2, <2>7, <2>11 DEF Due, Coming, Recording
  <2> QED BY <1>1, <1>3, <2>8, <2>9, <2>10, <2>11, SigningStays
<1> QED BY <1>1, <1>4, <1>5

LEMMA ReminderTaken == ASSUME SigningInv, Signing!Take PROVE SigningInv'
<1>1. /\ sender = Signing!Idle
      /\ UNCHANGED <<signing, now, rows, adding, moves, earlier, reminded, raced, faults>>
  BY DEF Signing!Take
<1>2. PICK i \in Signing!Ids : /\ jobs[i].state = "waiting"
                               /\ jobs' = [jobs EXCEPT ![i] = [jobs[i] EXCEPT !.state = "active"]]
                               /\ sender' = [pc |-> "reading", id |-> i]
  BY DEF Signing!Take
<1>3. PICK g : g = [jobs[i] EXCEPT !.state = "active"]
  OBVIOUS
<1>4. g \in JobRows /\ g.state = "active" /\ g.throws = jobs[i].throws
  BY <1>3, SigningTypes DEF JobRows
<1>5. /\ jobs' \in [Signing!Ids -> JobRows] /\ jobs'[i] = g
      /\ \A j \in Signing!Ids \ {i} : jobs'[j] = jobs[j]
  BY <1>2, <1>3, <1>4, SigningTypes, JobSet
<1>6. ASSUME NEW j \in Signing!Ids
      PROVE  /\ jobs'[j].throws = jobs[j].throws
             /\ \/ jobs'[j].state = jobs[j].state
                \/ jobs[j].state = "waiting" /\ jobs'[j].state = "active"
  BY <1>2, <1>4, <1>5
<1>7. /\ sender' \in [pc : {"reading", "mailing", "recording"}, id : Signing!Ids]
      /\ sender'.pc = "reading" /\ sender'.id = i
  BY <1>2
<1>8. Signing!TypeOK'
  BY <1>1, <1>5, <1>7, SigningTypes DEF Signing!TypeOK, JobRows
<1>9. SenderOK' /\ TriesOK'
  BY <1>4, <1>5, <1>6, <1>7 DEF SigningInv, SenderOK, TriesOK
<1>10. \A j \in Signing!Ids : ~Recording(j)
  BY <1>1 DEF Recording, Signing!Idle
<1>11. ASSUME NEW j \in Signing!Ids, (Due(j) \/ Coming(j))' PROVE Due(j) \/ Coming(j)
  BY <1>1, <1>6, <1>10, <1>11 DEF Due, Coming
<1>12. moves <= moves' /\ earlier <= earlier' /\ faults <= faults'
  BY <1>1, SigningTypes
<1> QED BY <1>1, <1>8, <1>9, <1>11, <1>12, SigningStays

\* What Finish and Throw make of the job.
LEMMA ReminderFinished ==
  ASSUME SigningInv, NEW w \in Signing!Ids, sender.id = w, Signing!Finish
  PROVE  \E g \in JobRows : /\ g.state = "over" /\ jobs' = [jobs EXCEPT ![w] = g]
                            /\ sender' = Signing!Idle
<1> DEFINE g == [jobs[w] EXCEPT !.state = "over"]
<1>1. jobs' = [jobs EXCEPT ![w] = g] /\ sender' = Signing!Idle
  BY DEF Signing!Finish
<1>2. g \in JobRows /\ g.state = "over"
  BY SigningTypes DEF JobRows
<1> HIDE DEF g
<1> QED BY <1>1, <1>2

LEMMA ReminderThrown ==
  ASSUME SigningInv, NEW w \in Signing!Ids, sender.id = w, sender # Signing!Idle, Signing!Throw
  PROVE  \E g \in JobRows : /\ g.state \in {"waiting", "over"}
                            /\ g.state = "waiting" => g.throws < Signing!Attempts
                            /\ jobs' = [jobs EXCEPT ![w] = g] /\ sender' = Signing!Idle
<1> DEFINE f == jobs[w]
           n == f.throws + 1
           s == IF n < Signing!Attempts THEN "waiting" ELSE "over"
           one == [f EXCEPT !.throws = n]
           g == [one EXCEPT !.state = s]
<1>1. f \in JobRows /\ f.throws < 3
  BY SigningTypes DEF SigningInv, SenderOK, TriesOK, Signing!Attempts
<1>2. n \in 0..3
  BY <1>1 DEF JobRows
<1>3. s \in {"waiting", "over"} /\ (s = "waiting" => n < Signing!Attempts)
  OBVIOUS
<1>4. /\ jobs' = [jobs EXCEPT ![w] = [f EXCEPT !.throws = n, !.state = s]]
      /\ sender' = Signing!Idle
  BY DEF Signing!Throw
<1>5. [f EXCEPT !.throws = n, !.state = s] = g
  OBVIOUS
<1> HIDE DEF f, n, s
<1>6. one \in JobRows /\ one.throws = n
  BY <1>1, <1>2 DEF JobRows, Signing!Attempts
<1> HIDE DEF one
<1>7. g \in JobRows /\ g.state = s /\ g.throws = n
  BY <1>3, <1>6 DEF JobRows
<1> HIDE DEF g
<1> QED BY <1>3, <1>4, <1>5, <1>7

\* The sender leaves its job.  Only what it had mailed and not recorded may come again.
LEMMA SenderLeft ==
  ASSUME SigningInv, sender # Signing!Idle, NEW w \in Signing!Ids, sender.id = w,
         NEW g \in JobRows, g.state \in {"waiting", "over"},
         g.state = "waiting" => g.throws < Signing!Attempts,
         jobs' = [jobs EXCEPT ![w] = g], sender' = Signing!Idle,
         UNCHANGED <<signing, now, adding, moves, earlier, raced>>,
         rows \subseteq rows', rows' \subseteq Signing!Kinds,
         faults' \in Nat, reminded' \in [Signing!Kinds -> Nat]
  PROVE  /\ Signing!TypeOK' /\ SenderOK' /\ TriesOK'
         /\ \A i \in Signing!Ids :
              (Due(i) \/ Coming(i))' =>
                \/ Due(i) \/ Coming(i)
                \/ i = w /\ sender.pc = "recording" /\ (g.state = "waiting" \/ w.kind \notin rows')
<1>1. /\ jobs' \in [Signing!Ids -> JobRows] /\ jobs'[w] = g
      /\ \A j \in Signing!Ids \ {w} : jobs'[j] = jobs[j]
  BY SigningTypes, JobSet
<1>2. jobs[w].state = "active"
  BY DEF SigningInv, SenderOK
<1>3. Signing!TypeOK'
  BY <1>1, SigningTypes DEF Signing!TypeOK, JobRows
<1>4. SenderOK'
  BY DEF SenderOK
<1>5. TriesOK'
  BY <1>1 DEF SigningInv, TriesOK
<1>6. ASSUME NEW i \in Signing!Ids, (Due(i) \/ Coming(i))'
      PROVE  \/ Due(i) \/ Coming(i)
             \/ i = w /\ sender.pc = "recording" /\ (g.state = "waiting" \/ w.kind \notin rows')
  <2>1. CASE i # w
    <3>1. jobs'[i] = jobs[i] /\ ~Recording(i)
      BY <1>1, <2>1 DEF Recording
    <3> QED BY <1>6, <3>1 DEF Due, Coming
  <2>2. CASE i = w /\ sender.pc # "recording"
    BY <1>2, <2>2 DEF Due, Recording
  <2>3. CASE i = w /\ sender.pc = "recording"
    <3>1. CASE Due(i)'
      <4>1. g.state = "waiting"
        BY <1>1, <2>3, <3>1 DEF Due
      <4> QED BY <2>3, <4>1
    <3>2. CASE Coming(i)'
      <4>1. w.kind \notin rows'
        BY <2>3, <3>2 DEF Coming
      <4> QED BY <2>3, <4>1
    <3> QED BY <1>6, <3>1, <3>2
  <2> QED BY <2>1, <2>2, <2>3
<1> QED BY <1>3, <1>4, <1>5, <1>6

\* A step that spends a fault, and mails one at most or lets one more come.
LEMMA FaultPays ==
  ASSUME SigningInv, Signing!TypeOK', SenderOK', TriesOK',
         faults' = faults + 1, UNCHANGED <<moves, earlier, raced>>,
         NEW x, NEW n \in 0..1,
         \A k \in Signing!Kinds : reminded'[k] = reminded[k] \/ reminded'[k] = reminded[k] + n,
         \A i \in Signing!Ids : (Due(i) \/ Coming(i))' => Due(i) \/ Coming(i) \/ i \in {x},
         n = 1 => \A i \in Signing!Ids : (Due(i) \/ Coming(i))' => Due(i) \/ Coming(i)
  PROVE  SigningInv'
<1>1. ASSUME NEW k \in Signing!Kinds PROVE OnceOK(k)'
  <2>1. MayCome(k)' \subseteq MayCome(k) \cup {x}
    BY MayComeStays
  <2>2. n = 1 => MayCome(k)' \subseteq MayCome(k)
    BY DEF MayCome
  <2>3. Allowed(k)' = Allowed(k) + 1
    <3>1. faults \in Nat /\ earlier \in Nat /\ moves \in Nat
      BY SigningTypes
    <3> QED BY <3>1 DEF Allowed
  <2>4. PICK m \in {0, n} : reminded'[k] = reminded[k] + m
    BY AllowedIs
  <2>5. m \in 0..1 /\ (m = 1 => n = 1)
    BY <2>4
  <2>6. Allowed(k)' \in Nat /\ Allowed(k) + 1 <= Allowed(k)'
    BY <2>3, AllowedIs
  <2> QED BY <2>1, <2>2, <2>4, <2>5, <2>6, OnceMore
<1> QED BY <1>1 DEF SigningInv, OnceInv

LEMMA ReminderRead == ASSUME SigningInv, Signing!Read PROVE SigningInv'
<1>1. /\ sender.pc = "reading" /\ sender # Signing!Idle
      /\ UNCHANGED <<signing, now, rows, adding, moves, earlier, reminded, raced>>
  BY DEF Signing!Read, Signing!Idle
<1>2. PICK w \in Signing!Ids : w = sender.id
  BY <1>1, SigningTypes
<1>3. rows \subseteq rows' /\ rows' \subseteq Signing!Kinds /\ reminded' \in [Signing!Kinds -> Nat]
  BY <1>1, SigningTypes
<1>4. CASE Signing!Finish /\ UNCHANGED faults
  <2>1. PICK g \in JobRows : /\ g.state = "over" /\ jobs' = [jobs EXCEPT ![w] = g]
                             /\ sender' = Signing!Idle
    BY <1>2, <1>4, ReminderFinished
  <2>2. faults' \in Nat /\ faults <= faults' /\ moves <= moves' /\ earlier <= earlier'
    BY <1>1, <1>4, SigningTypes
  <2>3. /\ Signing!TypeOK' /\ SenderOK' /\ TriesOK'
        /\ \A i \in Signing!Ids : (Due(i) \/ Coming(i))' => Due(i) \/ Coming(i)
    BY <1>1, <1>2, <1>3, <2>1, <2>2, SenderLeft
  <2> QED BY <1>1, <2>2, <2>3, SigningStays
<1>5. CASE sender' = [sender EXCEPT !.pc = "mailing"] /\ UNCHANGED <<jobs, faults>>
  <2>1. /\ sender' \in [pc : {"reading", "mailing", "recording"}, id : Signing!Ids]
        /\ sender'.pc = "mailing" /\ sender'.id = sender.id
    BY <1>1, <1>5, SigningTypes
  <2>2. Signing!TypeOK' /\ SenderOK' /\ TriesOK'
    BY <1>1, <1>5, <2>1 DEF SigningInv, Signing!TypeOK, SenderOK, TriesOK
  <2>3. \A i \in Signing!Ids : (Due(i) \/ Coming(i))' => Due(i) \/ Coming(i)
    BY <1>1, <1>5, <2>1 DEF Due, Coming, Recording
  <2>4. faults <= faults' /\ moves <= moves' /\ earlier <= earlier'
    BY <1>1, <1>5, SigningTypes
  <2> QED BY <1>1, <2>2, <2>3, <2>4, SigningStays
<1>6. CASE Signing!Fault /\ Signing!Throw
  <2>1. PICK g \in JobRows : /\ g.state \in {"waiting", "over"}
                             /\ g.state = "waiting" => g.throws < Signing!Attempts
                             /\ jobs' = [jobs EXCEPT ![w] = g] /\ sender' = Signing!Idle
    BY <1>1, <1>2, <1>6, ReminderThrown
  <2>2. faults' \in Nat /\ faults <= faults' /\ moves <= moves' /\ earlier <= earlier'
    BY <1>1, <1>6, SigningTypes DEF Signing!Fault
  <2>3. /\ Signing!TypeOK' /\ SenderOK' /\ TriesOK'
        /\ \A i \in Signing!Ids : (Due(i) \/ Coming(i))' => Due(i) \/ Coming(i)
    BY <1>1, <1>2, <1>3, <2>1, <2>2, SenderLeft
  <2> QED BY <1>1, <2>2, <2>3, SigningStays
<1> QED BY <1>4, <1>5, <1>6 DEF Signing!Read

LEMMA ReminderMailed == ASSUME SigningInv, Signing!Mail PROVE SigningInv'
<1>1. /\ sender.pc = "mailing" /\ sender # Signing!Idle
      /\ UNCHANGED <<signing, now, rows, adding, moves, earlier, raced>>
  BY DEF Signing!Mail, Signing!Idle
<1>2. PICK w \in Signing!Ids : w = sender.id
  BY <1>1, SigningTypes
<1>3. /\ rows \subseteq rows' /\ rows' \subseteq Signing!Kinds /\ w.kind \in Signing!Kinds
      /\ reminded \in [Signing!Kinds -> Nat] /\ faults \in Nat
  BY <1>1, SigningTypes, SigningIdsAre
<1>4. ASSUME NEW n \in 1..2, reminded' = [reminded EXCEPT ![w.kind] = reminded[w.kind] + n],
             faults' = faults + (n - 1),
             sender' = [sender EXCEPT !.pc = "recording"], UNCHANGED jobs
      PROVE  SigningInv'
  <2>1. /\ sender' \in [pc : {"reading", "mailing", "recording"}, id : Signing!Ids]
        /\ sender'.pc = "recording" /\ sender'.id = w
    BY <1>1, <1>2, <1>4, SigningTypes
  <2>2. /\ reminded' \in [Signing!Kinds -> Nat] /\ reminded'[w.kind] = reminded[w.kind] + n
        /\ \A k \in Signing!Kinds : k # w.kind => reminded'[k] = reminded[k]
    BY <1>3, <1>4
  <2>3. faults' \in Nat /\ faults <= faults' /\ n \in Nat
    BY <1>3, <1>4
  <2>4. Signing!TypeOK'
    BY <1>1, <1>4, <2>1, <2>2, <2>3, SigningTypes DEF Signing!TypeOK, JobRows
  <2>5. SenderOK' /\ TriesOK'
    BY <1>1, <1>2, <1>4, <2>1 DEF SigningInv, SenderOK, TriesOK
  <2>6. jobs[w].state = "active" /\ ~Recording(w) /\ Recording(w)'
    BY <1>1, <1>2, <2>1 DEF SigningInv, SenderOK, Recording
  <2>7. \A i \in Signing!Ids : (Due(i) \/ Coming(i))' => (Due(i) \/ Coming(i)) /\ i # w
    <3>1. \A i \in Signing!Ids : i # w => ~Recording(i)
      BY <1>2 DEF Recording
    <3> QED BY <1>1, <1>4, <2>6, <3>1 DEF Due, Coming
  <2>8. ASSUME NEW k \in Signing!Kinds PROVE OnceOK(k)'
    <3>1. {moves, earlier, faults} \subseteq Nat /\ {moves', earlier', faults'} \subseteq Nat
          /\ moves <= moves' /\ earlier <= earlier'
      BY <1>1, <2>3, SigningTypes
    <3>2. Allowed(k)' \in Nat /\ Allowed(k) <= Allowed(k)'
      BY <1>1, <2>3, <3>1, AllowedStays
    <3>3. CASE k # w.kind
      <4>1. MayCome(k)' \subseteq MayCome(k)
        BY <2>7 DEF MayCome
      <4> QED BY <2>2, <3>2, <3>3, <4>1, OnceStays
    <3>4. CASE k = w.kind
      <4>1. w \in MayCome(k) /\ MayCome(k)' \subseteq MayCome(k) \ {w}
        BY <2>6, <2>7, <3>4 DEF MayCome, Due
      <4>2. /\ IsFiniteSet(MayCome(k)') /\ Cardinality(MayCome(k)') \in Nat
            /\ Cardinality(MayCome(k)') + 1 <= Cardinality(MayCome(k))
        BY <4>1, AllowedIs, Loses
      <4>3. Allowed(k)' = Allowed(k) + (n - 1)
        BY <1>1, <1>3, <1>4, <3>1 DEF Allowed
      <4>4. reminded'[k] = reminded[k] + n
        BY <2>2, <3>4
      <4> QED BY <2>3, <4>2, <4>3, <4>4, AllowedIs DEF OnceOK
    <3> QED BY <3>3, <3>4
  <2> QED BY <2>4, <2>5, <2>8 DEF SigningInv, OnceInv
<1>5. ASSUME NEW n \in 0..1, Signing!Fault, Signing!Throw,
             reminded' = [reminded EXCEPT ![w.kind] = reminded[w.kind] + n]
      PROVE  SigningInv'
  <2>1. PICK g \in JobRows : /\ g.state \in {"waiting", "over"}
                             /\ g.state = "waiting" => g.throws < Signing!Attempts
                             /\ jobs' = [jobs EXCEPT ![w] = g] /\ sender' = Signing!Idle
    BY <1>1, <1>2, <1>5, ReminderThrown
  <2>2. /\ reminded' \in [Signing!Kinds -> Nat]
        /\ \A k \in Signing!Kinds : reminded'[k] = reminded[k] \/ reminded'[k] = reminded[k] + n
    BY <1>3, <1>5
  <2>3. faults' \in Nat /\ faults' = faults + 1
    BY <1>3, <1>5 DEF Signing!Fault
  <2>4. /\ Signing!TypeOK' /\ SenderOK' /\ TriesOK'
        /\ \A i \in Signing!Ids : (Due(i) \/ Coming(i))' => Due(i) \/ Coming(i)
    BY <1>1, <1>2, <1>3, <2>1, <2>2, <2>3, SenderLeft
  <2>5. \A i \in Signing!Ids : (Due(i) \/ Coming(i))' => Due(i) \/ Coming(i) \/ i \in {w}
    BY <2>4
  <2> QED BY <1>1, <2>2, <2>3, <2>4, <2>5, FaultPays
<1>6. CASE /\ reminded' = [reminded EXCEPT ![sender.id.kind] = @ + 1]
           /\ sender' = [sender EXCEPT !.pc = "recording"]
           /\ UNCHANGED <<jobs, faults>>
  <2>1. faults' = faults + (1 - 1)
    BY <1>3, <1>6
  <2>2. reminded' = [reminded EXCEPT ![w.kind] = reminded[w.kind] + 1] /\ UNCHANGED jobs
    BY <1>2, <1>6
  <2>3. 1 \in 1..2
    OBVIOUS
  <2> QED BY <1>4, <1>6, <2>1, <2>2, <2>3
<1>7. CASE /\ Signing!Fault
           /\ reminded' = [reminded EXCEPT ![sender.id.kind] = @ + 2]
           /\ sender' = [sender EXCEPT !.pc = "recording"]
           /\ UNCHANGED jobs
  <2>1. faults' = faults + (2 - 1)
    BY <1>3, <1>7 DEF Signing!Fault
  <2>2. reminded' = [reminded EXCEPT ![w.kind] = reminded[w.kind] + 2]
    BY <1>2, <1>7
  <2>3. 2 \in 1..2
    OBVIOUS
  <2> QED BY <1>4, <1>7, <2>1, <2>2, <2>3
<1>8. CASE /\ Signing!Fault /\ Signing!Throw
           /\ \E n \in 0..1 : reminded' = [reminded EXCEPT ![sender.id.kind] = @ + n]
  <2>1. PICK n \in 0..1 : reminded' = [reminded EXCEPT ![w.kind] = reminded[w.kind] + n]
    BY <1>2, <1>8
  <2> QED BY <1>5, <1>8, <2>1
<1> QED BY <1>6, <1>7, <1>8 DEF Signing!Mail

LEMMA ReminderRecorded == ASSUME SigningInv, Signing!Record PROVE SigningInv'
<1>1. /\ sender.pc = "recording" /\ sender # Signing!Idle
      /\ UNCHANGED <<signing, now, adding, moves, earlier, reminded, raced>>
  BY DEF Signing!Record, Signing!Idle
<1>2. PICK w \in Signing!Ids : w = sender.id
  BY <1>1, SigningTypes
<1>3. w.kind \in Signing!Kinds /\ reminded' \in [Signing!Kinds -> Nat] /\ faults \in Nat
      /\ rows \subseteq Signing!Kinds
  BY <1>1, SigningTypes, SigningIdsAre
<1>4. CASE rows' = rows \cup {sender.id.kind} /\ Signing!Finish /\ UNCHANGED faults
  <2>1. PICK g \in JobRows : /\ g.state = "over" /\ jobs' = [jobs EXCEPT ![w] = g]
                             /\ sender' = Signing!Idle
    BY <1>2, <1>4, ReminderFinished
  <2>2. faults' \in Nat /\ faults <= faults' /\ moves <= moves' /\ earlier <= earlier'
    BY <1>1, <1>4, SigningTypes
  <2>3. rows \subseteq rows' /\ rows' \subseteq Signing!Kinds /\ w.kind \in rows'
    BY <1>2, <1>3, <1>4
  <2>4. /\ Signing!TypeOK' /\ SenderOK' /\ TriesOK'
        /\ \A i \in Signing!Ids : (Due(i) \/ Coming(i))' => Due(i) \/ Coming(i)
    BY <1>1, <1>2, <1>3, <2>1, <2>2, <2>3, SenderLeft
  <2> QED BY <1>1, <2>2, <2>4, SigningStays
<1>5. CASE Signing!Fault /\ Signing!Throw /\ UNCHANGED rows
  <2>1. PICK g \in JobRows : /\ g.state \in {"waiting", "over"}
                             /\ g.state = "waiting" => g.throws < Signing!Attempts
                             /\ jobs' = [jobs EXCEPT ![w] = g] /\ sender' = Signing!Idle
    BY <1>1, <1>2, <1>5, ReminderThrown
  <2>2. faults' \in Nat /\ faults' = faults + 1
    BY <1>3, <1>5 DEF Signing!Fault
  <2>3. rows \subseteq rows' /\ rows' \subseteq Signing!Kinds
    BY <1>3, <1>5
  <2>4. /\ Signing!TypeOK' /\ SenderOK' /\ TriesOK'
        /\ \A i \in Signing!Ids : (Due(i) \/ Coming(i))' => Due(i) \/ Coming(i) \/ i \in {w}
    BY <1>1, <1>2, <1>3, <2>1, <2>2, <2>3, SenderLeft
  <2>5. \A k \in Signing!Kinds : reminded'[k] = reminded[k] \/ reminded'[k] = reminded[k] + 0
    BY <1>1
  <2>6. 0 \in 0..1 /\ 0 # 1
    OBVIOUS
  <2> QED BY <1>1, <2>2, <2>4, <2>5, <2>6, FaultPays
<1> QED BY <1>4, <1>5 DEF Signing!Record

LEMMA SenderDies == ASSUME SigningInv, Signing!Crash PROVE SigningInv'
<1>1. /\ UNCHANGED <<signing, now, rows, moves, earlier, reminded, raced>>
      /\ faults' = faults + 1 /\ adding' = {} /\ sender' = Signing!Idle
  BY DEF Signing!Crash, Signing!Fault
<1>2. ASSUME NEW i \in Signing!Ids
      PROVE  /\ jobs'[i] \in JobRows /\ jobs'[i].throws = jobs[i].throws
             /\ \/ jobs'[i] = jobs[i]
                \/ jobs[i].state = "active" /\ jobs'[i].state \in {"waiting", "over"}
  <2> DEFINE f == jobs[i]
             one == [f EXCEPT !.state = "waiting"]
             two == [one EXCEPT !.stalls = 1]
  <2>1. f \in JobRows
    BY SigningTypes
  <2>2. jobs'[i] = IF f.state # "active" THEN f
                   ELSE IF f.stalls = 0 THEN [f EXCEPT !.state = "waiting", !.stalls = 1]
                   ELSE [f EXCEPT !.state = "over"]
    BY DEF Signing!Crash
  <2>3. [f EXCEPT !.state = "waiting", !.stalls = 1] = two
    OBVIOUS
  <2> HIDE DEF f
  <2>4. one \in JobRows /\ one.state = "waiting" /\ one.throws = f.throws
    BY <2>1 DEF JobRows
  <2> HIDE DEF one
  <2>5. two \in JobRows /\ two.state = "waiting" /\ two.throws = f.throws
    BY <2>4 DEF JobRows
  <2> HIDE DEF two
  <2>6. CASE f.state # "active"
    BY <2>1, <2>2, <2>6 DEF f
  <2>7. CASE f.state = "active" /\ f.stalls = 0
    BY <2>2, <2>3, <2>5, <2>7 DEF f
  <2>8. CASE f.state = "active" /\ f.stalls # 0
    <3>1. jobs'[i] = [f EXCEPT !.state = "over"]
      BY <2>2, <2>8
    <3> QED BY <2>1, <2>8, <3>1 DEF f, JobRows
  <2> QED BY <2>6, <2>7, <2>8
<1>3. jobs' \in [Signing!Ids -> JobRows]
  <2>1. jobs' = [i \in Signing!Ids |-> jobs'[i]]
    BY DEF Signing!Crash
  <2> QED BY <1>2, <2>1
<1>4. Signing!TypeOK'
  BY <1>1, <1>3, SigningTypes DEF Signing!TypeOK, JobRows
<1>5. SenderOK'
  BY <1>1 DEF SenderOK
<1>6. TriesOK'
  BY <1>2 DEF SigningInv, TriesOK
<1>7. PICK x : x = sender.id
  OBVIOUS
<1>8. \A i \in Signing!Ids : i # x => ~Recording(i)
  BY <1>7 DEF Recording
<1>9. \A i \in Signing!Ids : (Due(i) \/ Coming(i))' => Due(i) \/ Coming(i) \/ i \in {x}
  BY <1>1, <1>2, <1>8 DEF Due, Coming
<1>10. \A k \in Signing!Kinds : reminded'[k] = reminded[k] \/ reminded'[k] = reminded[k] + 0
  BY <1>1
<1>11. 0 \in 0..1 /\ 0 # 1
  OBVIOUS
<1> QED BY <1>1, <1>4, <1>5, <1>6, <1>9, <1>10, <1>11, FaultPays

LEMMA ReminderForgotten == ASSUME SigningInv, Signing!Forget PROVE SigningInv'
<1>1. /\ adding = {}
      /\ UNCHANGED <<signing, now, rows, sender, adding, moves, earlier, reminded, raced, faults>>
  BY DEF Signing!Forget
<1>2. PICK i \in Signing!Ids : /\ jobs[i].state = "over"
                               /\ jobs' = [jobs EXCEPT ![i] = Signing!Absent]
  BY DEF Signing!Forget
<1>3. PICK g : g = Signing!Absent
  OBVIOUS
<1>4. g \in JobRows /\ g.state = "none" /\ g.throws = 0
  BY <1>3 DEF Signing!Absent, JobRows, Signing!Attempts
<1>5. /\ jobs' \in [Signing!Ids -> JobRows] /\ jobs'[i] = g
      /\ \A j \in Signing!Ids \ {i} : jobs'[j] = jobs[j]
  BY <1>2, <1>3, <1>4, SigningTypes, JobSet
<1>6. Signing!TypeOK'
  BY <1>1, <1>5, SigningTypes DEF Signing!TypeOK, JobRows
<1>7. SenderOK'
  BY <1>1, <1>2, <1>5, SigningTypes DEF SigningInv, SenderOK
<1>8. TriesOK'
  BY <1>4, <1>5 DEF SigningInv, TriesOK, Signing!Attempts
<1>9. \A j \in Signing!Ids : (Due(j) \/ Coming(j))' => Due(j) \/ Coming(j)
  <2>1. \A j \in Signing!Ids : jobs'[j] = jobs[j] \/ jobs'[j].state = "none"
    BY <1>4, <1>5
  <2> QED BY <1>1, <2>1 DEF Due, Coming, Recording
<1>10. moves <= moves' /\ earlier <= earlier' /\ faults <= faults'
  BY <1>1, SigningTypes
<1> QED BY <1>1, <1>6, <1>7, <1>8, <1>9, <1>10, SigningStays

\* The signing is moved: the reminder may be queued for the new time.  Either that
\* for the old time may not come any more, or it is on its way and the move counts.
LEMMA SigningMoved == ASSUME SigningInv, Signing!Move PROVE SigningInv'
<1>1. /\ moves < MaxMoves /\ moves' = moves + 1
      /\ raced' = raced \cup {k \in Signing!Kinds : Signing!Open(k)}
      /\ UNCHANGED <<now, rows, jobs, sender, adding, earlier, reminded, faults>>
  BY DEF Signing!Move
<1>2. PICK t \in Slots \ {signing.at} : signing' = [signing EXCEPT !.at = t]
  BY DEF Signing!Move
<1>3. /\ signing' \in [confirmed : BOOLEAN, at : Slots] /\ signing'.at = t
      /\ signing.at \in Slots
  BY <1>2, SigningTypes
<1>4. moves \in Nat /\ moves' \in 0..MaxMoves /\ earlier \in Nat /\ faults \in Nat
  BY <1>1, SigningTypes
<1>5. Signing!TypeOK'
  BY <1>1, <1>3, <1>4, SigningTypes DEF Signing!TypeOK, JobRows
<1>6. SenderOK' /\ TriesOK'
  BY <1>1 DEF SigningInv, SenderOK, TriesOK
<1>7. \A i \in Signing!Ids : Due(i)' => Due(i)
  BY <1>1 DEF Due, Recording
<1>8. ASSUME NEW k \in Signing!Kinds PROVE OnceOK(k)'
  <2> DEFINE x == [kind |-> k, key |-> t]
             old == [kind |-> k, key |-> signing.at]
  <2>1. reminded'[k] = reminded[k] /\ reminded'[k] = reminded[k] + 0
    BY <1>1, AllowedIs
  <2>2. CASE k = "eta"
    <3>1. MayCome(k)' \subseteq MayCome(k)
      BY <1>7, <2>2 DEF MayCome, Coming
    <3>2. Allowed(k)' = Allowed(k)
      BY <1>1, <2>2 DEF Allowed
    <3>3. Allowed(k)' \in Nat /\ Allowed(k) <= Allowed(k)'
      BY <3>2, AllowedIs
    <3> QED BY <2>1, <3>1, <3>3, OnceStays
  <2>3. CASE k # "eta" /\ k \in raced'
    <3>1. MayCome(k)' \subseteq MayCome(k) \cup {x}
      <4>1. ASSUME NEW i \in Signing!Ids, i.kind = k, Coming(i)' PROVE i = x
        BY <1>3, <2>3, <4>1, SigningIdsAre DEF Coming
      <4> HIDE DEF x
      <4> QED BY <1>7, <4>1 DEF MayCome
    <3>2. Allowed(k) <= 1 + faults + moves /\ Allowed(k) \in Nat
      BY <1>4, <2>3, AllowedIs DEF Allowed
    <3>3. Allowed(k)' = 1 + faults + (moves + 1)
      BY <1>1, <2>3 DEF Allowed
    <3>4. Allowed(k)' \in Nat /\ Allowed(k) + 1 <= Allowed(k)'
      BY <1>4, <3>2, <3>3
    <3>5. 0 \in 0..1 /\ 0 # 1
      OBVIOUS
    <3> QED BY <2>1, <3>1, <3>4, <3>5, OnceMore
  <2>4. CASE k # "eta" /\ k \notin raced'
    <3>1. k \notin raced /\ ~Signing!Open(k)
      BY <1>1, <2>4
    <3>2. \A i \in Signing!Ids : i.kind = k => /\ jobs[i].state \notin {"waiting", "active"}
                                               /\ i \notin adding
      BY <3>1, SigningTypes DEF Signing!Open
    <3>3. Allowed(k)' = Allowed(k)
      BY <1>1, <2>4, <3>1 DEF Allowed
    <3>4. \A i \in Signing!Ids : i.kind = k => ~Due(i)'
      BY <1>7, <3>2 DEF Due
    <3>5. CASE k \in rows
      <4>1. MayCome(k)' \subseteq MayCome(k)
        BY <1>1, <3>4, <3>5 DEF MayCome, Coming
      <4>2. Allowed(k)' \in Nat /\ Allowed(k) <= Allowed(k)'
        BY <3>3, AllowedIs
      <4> QED BY <2>1, <4>1, <4>2, OnceStays
    <3>6. CASE k \notin rows
      <4>1. k \in {"client", "notary"}
        BY <2>4 DEF Signing!Kinds
      <4>2. old \in Signing!Ids /\ old.kind = k /\ old.key = signing.at
        BY <1>3, <4>1, SigningIdsAre
      <4>3. ASSUME NEW i \in Signing!Ids, i.kind = k, Coming(i)' PROVE i = x
        BY <1>3, <2>4, <4>3, SigningIdsAre DEF Coming
      <4> HIDE DEF old, x
      <4>4. ~Recording(old)
        BY <3>2, <4>2 DEF Recording, SigningInv, SenderOK, Signing!Idle
      <4>5. old \in MayCome(k)
        BY <2>4, <3>6, <4>2, <4>4 DEF MayCome, Coming
      <4>6. MayCome(k)' \subseteq {x}
        BY <3>4, <4>3 DEF MayCome
      <4>7. IsFiniteSet({x}) /\ Cardinality({x}) = 1
        BY FS_Singleton
      <4>8. /\ IsFiniteSet(MayCome(k)') /\ Cardinality(MayCome(k)') <= 1
            /\ Cardinality(MayCome(k)') \in Nat
        BY <4>6, <4>7, Shrinks
      <4>9. {old} \subseteq MayCome(k) /\ Cardinality({old}) = 1
        BY <4>5, FS_Singleton
      <4>10. 1 <= Cardinality(MayCome(k))
        BY <4>9, AllowedIs, Shrinks
      <4> QED BY <2>1, <3>3, <4>8, <4>10, AllowedIs DEF OnceOK
    <3> QED BY <3>5, <3>6
  <2> QED BY <2>2, <2>3, <2>4
<1> QED BY <1>5, <1>6, <1>8 DEF SigningInv, OnceInv

LEMMA SigningLeft == ASSUME SigningInv, Signing!Leave \/ Signing!Tick PROVE SigningInv'
<1>1. /\ UNCHANGED <<rows, jobs, sender, adding, moves, earlier, reminded, raced, faults>>
      /\ now' \in 0..LastMoment
  BY SigningTypes, BoundsAssumption DEF Signing!Leave, Signing!Tick
<1>2. signing' \in [confirmed : BOOLEAN, at : Slots] /\ signing'.at = signing.at
  <2>1. CASE signing' = signing
    BY <2>1, SigningTypes
  <2>2. CASE signing' = [signing EXCEPT !.confirmed = FALSE]
    <3>1. signing.at \in Slots /\ FALSE \in BOOLEAN
      BY SigningTypes
    <3> QED BY <2>2, <3>1, SigningTypes
  <2> QED BY <2>1, <2>2 DEF Signing!Leave, Signing!Tick
<1>3. Signing!TypeOK'
  BY <1>1, <1>2, SigningTypes DEF Signing!TypeOK, JobRows
<1>4. SenderOK' /\ TriesOK'
  BY <1>1 DEF SigningInv, SenderOK, TriesOK
<1>5. \A i \in Signing!Ids : (Due(i) \/ Coming(i))' => Due(i) \/ Coming(i)
  BY <1>1, <1>2 DEF Due, Coming, Recording
<1>6. moves <= moves' /\ earlier <= earlier' /\ faults <= faults'
  BY <1>1, SigningTypes
<1> QED BY <1>1, <1>3, <1>4, <1>5, <1>6, SigningStays

LEMMA SigningMoves == ASSUME SigningInv, Signing!Next PROVE SigningInv'
<1>1. CASE \E k \in Signing!Kinds : Signing!CronFind(k)
  BY <1>1, CronFindsReminder
<1>2. CASE Signing!CompleteEarlier \/ Signing!Add
  BY <1>2, EarlierCompleted, ReminderAdded
<1>3. CASE Signing!Take \/ Signing!Read \/ Signing!Mail \/ Signing!Record
  BY <1>3, ReminderTaken, ReminderRead, ReminderMailed, ReminderRecorded
<1>4. CASE Signing!Crash \/ Signing!Forget
  BY <1>4, SenderDies, ReminderForgotten
<1>5. CASE Signing!Move \/ Signing!Leave \/ Signing!Tick
  BY <1>5, SigningMoved, SigningLeft
<1> QED BY <1>1, <1>2, <1>3, <1>4, <1>5 DEF Signing!Next

------------------------------------------------------------------------------
(* The theorems *)

\* A fault is never taken back.
LEMMA FaultsGrow ==
  ASSUME SequenceInv, Next
  PROVE  faults' \in Nat /\ faults <= faults'
<1>1. faults \in Nat
  BY SequenceTypes
<1>2. CASE faults' = faults \/ faults' = faults + 1
  BY <1>1, <1>2
<1>3. CASE Sequence!Next
  <2>1. CASE Sequence!MailFirst \/ Sequence!Mail
    <3>1. PICK o \in Sequence!Outcomes : faults' = faults + o.faults
      BY <2>1 DEF Sequence!MailFirst, Sequence!Mail, Sequence!Send
    <3>2. o.faults \in Nat
      BY OutcomePays
    <3> QED BY <1>1, <3>1, <3>2
  <2>2. CASE ~(Sequence!MailFirst \/ Sequence!Mail)
    BY <1>2, <1>3, <2>2
       DEF Sequence!Next, Sequence!CallStep, Sequence!WorkerStep, Sequence!Fault,
           Sequence!Register, Sequence!Backfill, Sequence!EnsureRecord, Sequence!MarkFirst,
           Sequence!Schedule, Sequence!FallDue, Sequence!CronFind, Sequence!CronAdd,
           Sequence!Take, Sequence!ReadUser, Sequence!Mark, Sequence!Crash, Sequence!Forget,
           Sequence!Suspend
  <2> QED BY <2>1, <2>2
<1>4. CASE Signing!Next
  BY <1>2, <1>4
     DEF Signing!Next, Signing!Fault, Signing!CronFind, Signing!CompleteEarlier, Signing!Add,
         Signing!Take, Signing!Read, Signing!Mail, Signing!Record, Signing!Crash,
         Signing!Forget, Signing!Move, Signing!Leave, Signing!Tick
<1> QED BY <1>3, <1>4 DEF Next

LEMMA MailingsStep == SequenceInv /\ SigningInv /\ [Next]_vars => (SequenceInv /\ SigningInv)'
<1> SUFFICES ASSUME SequenceInv, SigningInv, [Next]_vars PROVE (SequenceInv /\ SigningInv)'
  OBVIOUS
<1>1. CASE Sequence!Next /\ UNCHANGED signingVars
  <2>1. faults' \in Nat /\ faults <= faults'
    BY <1>1, FaultsGrow DEF Next
  <2> QED BY <1>1, <2>1, SequenceMoves, SigningRests
<1>2. CASE Signing!Next /\ UNCHANGED sequenceVars
  <2>1. faults' \in Nat /\ faults <= faults'
    BY <1>2, FaultsGrow DEF Next
  <2> QED BY <1>2, <2>1, SigningMoves, SequenceRests
<1>3. CASE UNCHANGED vars
  <2>1. faults' \in Nat /\ faults <= faults' /\ UNCHANGED sequenceVars /\ UNCHANGED signingVars
    BY <1>3, SequenceTypes DEF vars
  <2> QED BY <2>1, SequenceRests, SigningRests
<1> QED BY <1>1, <1>2, <1>3 DEF Next

MailingsInv == SequenceInv /\ SigningInv

LEMMA MailingsKeep == Spec => []MailingsInv
<1>1. Init => MailingsInv
  BY SequenceBegins, SigningBegins DEF MailingsInv
<1>2. MailingsInv /\ [Next]_vars => MailingsInv'
  BY MailingsStep DEF MailingsInv
<1> QED BY <1>1, <1>2, PTL DEF Spec

\* The state of both mailers stays well typed: a job never uses more than its
\* attempts, and the queue never finds one stalled more than once without failing it.
THEOREM TypeCorrect == Spec => []TypeOK
<1>1. MailingsInv => TypeOK
  BY DEF MailingsInv, SequenceInv, SigningInv, TypeOK
<1> QED BY <1>1, MailingsKeep, PTL

\* Whatever the cron, the schedule, retries and crashes do, and for a sequence of
\* any length, a day's email goes out at most twice and once more for every fault.
THEOREM TwiceAtMost == Spec => []TwicePerDay
<1>1. ASSUME MailingsInv, NEW d \in Sequence!Days PROVE mails[d] <= 2 + faults
  <2>1. TwiceOK(d) /\ mails[d] \in Nat /\ faults \in Nat
    BY <1>1, SequenceTypes DEF MailingsInv, SequenceInv, TwiceInv
  <2> QED BY <2>1 DEF TwiceOK, One
<1>2. MailingsInv => TwicePerDay
  BY <1>1 DEF TwicePerDay, Sequence!TwicePerDay
<1> QED BY <1>2, MailingsKeep, PTL

\* A reminder goes out once, however often the cron fires and the signing is moved
\* afterwards, and once more for a fault or for a move while it was queued.
THEOREM RemindsOnce == Spec => []RemindedOnce
<1>1. ASSUME MailingsInv, NEW k \in Signing!Kinds PROVE reminded[k] <= Allowed(k)
  BY <1>1, AllowedIs DEF MailingsInv
<1>2. MailingsInv => RemindedOnce
  BY <1>1 DEF RemindedOnce, Signing!RemindedOnce, Allowed, Signing!Kinds
<1> QED BY <1>2, MailingsKeep, PTL
==============================================================================
