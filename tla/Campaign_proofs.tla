--------------------------- MODULE Campaign_proofs ----------------------------
(***************************************************************************)
(* What is proved of Campaign, for every number of leads, steps, workers,  *)
(* ticks, attempts, dispatches and faults and every daily limit.           *)
(***************************************************************************)
EXTENDS Campaign, TLAPS

------------------------------------------------------------------------------
(* Rows, mailings and the records of workers *)

RowRecs    == [status : RowStatuses, running : BOOLEAN]
Pcs        == {"idle", "gate", "mail", "record", "count"}
WorkerRecs == [pc : Pcs, row : Rows \cup {ARow}, tries : 0..(Attempts - 1), sent : Nat, sameDay : BOOLEAN,
               becomes : {"CONTACTED", "CONVERTED"}]
TickPcs    == {"idle", "found", "clear", "resolve", "insert", "flip"}
TickRecs   == [pc : TickPcs, audience : SUBSET Leads]

\* A row is its dispatch and its mailing.
LEMMA RowParts ==
  /\ \A r \in Rows : /\ r[1] \in Dispatches /\ LeadOf(r) \in Leads /\ MailingOf(r) \in Mailings
                     /\ MailingOf(r)[1] = LeadOf(r)
  /\ \A q, r \in Rows : q[1] = r[1] /\ MailingOf(q) = MailingOf(r) => q = r
  /\ \A m \in Mailings : m[1] \in Leads /\ \E s \in Steps : m = <<m[1], s>>
  /\ \A d \in Dispatches, m \in Mailings : \E r \in Rows : r[1] = d /\ MailingOf(r) = m
<1> USE DEF Rows, LeadOf, MailingOf, Mailings
<1>1. \A r \in Rows : /\ r[1] \in Dispatches /\ LeadOf(r) \in Leads /\ MailingOf(r) \in Mailings
                     /\ MailingOf(r)[1] = LeadOf(r)
  OBVIOUS
<1>2. \A q, r \in Rows : q[1] = r[1] /\ MailingOf(q) = MailingOf(r) => q = r
  OBVIOUS
<1>3. \A m \in Mailings : m[1] \in Leads /\ \E s \in Steps : m = <<m[1], s>>
  OBVIOUS
<1>4. ASSUME NEW d \in Dispatches, NEW m \in Mailings
      PROVE  \E r \in Rows : r[1] = d /\ MailingOf(r) = m
  <2>1. PICK l \in Leads, s \in Steps : m = <<l, s>>
    OBVIOUS
  <2>2. <<d, l, s>> \in Rows
    OBVIOUS
  <2> QED BY <2>1, <2>2
<1> QED BY <1>1, <1>2, <1>3, <1>4

LEMMA IdleIsRec ==
  ASSUME BoundsAssumption
  PROVE  IdleWorker \in WorkerRecs /\ IdleWorker.pc = "idle"
<1>1. 0 \in 0..(Attempts - 1) /\ 0 \in Nat
  BY DEF BoundsAssumption
<1> QED BY <1>1 DEF IdleWorker, WorkerRecs, Pcs

\* One worker's record is replaced.
LEMMA WorkerPut ==
  ASSUME worker \in [Workers -> WorkerRecs], NEW w \in Workers, NEW rec \in WorkerRecs,
         worker' = [worker EXCEPT ![w] = rec]
  PROVE  /\ worker' \in [Workers -> WorkerRecs] /\ worker'[w] = rec
         /\ \A v \in Workers : v # w => worker'[v] = worker[v]
OBVIOUS

LEMMA DropEffect ==
  ASSUME BoundsAssumption, worker \in [Workers -> WorkerRecs], NEW w \in Workers, Drop(w)
  PROVE  /\ worker' \in [Workers -> WorkerRecs] /\ worker'[w].pc = "idle"
         /\ \A v \in Workers : v # w => worker'[v] = worker[v]
BY IdleIsRec, WorkerPut DEF Drop

LEMMA MoveEffect ==
  ASSUME worker \in [Workers -> WorkerRecs], NEW w \in Workers, NEW pc \in Pcs, SetWorker(w, pc)
  PROVE  /\ worker' \in [Workers -> WorkerRecs] /\ worker'[w].pc = pc
         /\ worker'[w].row = worker[w].row /\ worker'[w].tries = worker[w].tries
         /\ worker'[w].sent = worker[w].sent /\ worker'[w].sameDay = worker[w].sameDay
         /\ \A v \in Workers : v # w => worker'[v] = worker[v]
<1> DEFINE rec == [worker[w] EXCEPT !.pc = pc]
<1>1. worker' = [worker EXCEPT ![w] = rec]
  BY Zenon DEF SetWorker
<1>2. /\ rec \in WorkerRecs /\ rec.pc = pc /\ rec.row = worker[w].row /\ rec.tries = worker[w].tries
      /\ rec.sent = worker[w].sent /\ rec.sameDay = worker[w].sameDay
  BY DEF WorkerRecs
<1> HIDE DEF rec
<1> QED BY <1>1, <1>2, WorkerPut

LEMMA TakenRec ==
  ASSUME BoundsAssumption, NEW r \in Rows, NEW n \in 0..(Attempts - 1)
  PROVE  [pc |-> "gate", row |-> r, tries |-> n, sent |-> 0, sameDay |-> TRUE,
          becomes |-> "CONTACTED"] \in WorkerRecs
BY DEF WorkerRecs, Pcs

LEMMA PassRec ==
  ASSUME worker \in [Workers -> WorkerRecs], NEW w \in Workers, NEW n \in Nat,
         NEW s \in {"CONTACTED", "CONVERTED"},
         worker' = [worker EXCEPT ![w].pc = "mail", ![w].sent = n, ![w].sameDay = TRUE,
                      ![w].becomes = s]
  PROVE  /\ worker' \in [Workers -> WorkerRecs] /\ worker'[w].pc = "mail"
         /\ worker'[w].row = worker[w].row /\ worker'[w].tries = worker[w].tries
         /\ worker'[w].sent = n /\ worker'[w].sameDay
         /\ \A v \in Workers : v # w => worker'[v] = worker[v]
<1> DEFINE one == [worker[w] EXCEPT !.pc = "mail"]
           two == [one EXCEPT !.sent = n]
           three == [two EXCEPT !.sameDay = TRUE]
           rec == [three EXCEPT !.becomes = s]
<1>1. worker' = [worker EXCEPT ![w] = rec]
  BY Zenon
<1>2. one \in WorkerRecs /\ one.pc = "mail" /\ one.row = worker[w].row /\ one.tries = worker[w].tries
  BY DEF WorkerRecs, Pcs
<1> HIDE DEF one
<1>3. two \in WorkerRecs /\ two.pc = "mail" /\ two.row = one.row /\ two.tries = one.tries /\ two.sent = n
  BY <1>2 DEF WorkerRecs, Pcs
<1> HIDE DEF two
<1>4. /\ three \in WorkerRecs /\ three.pc = "mail" /\ three.row = two.row
      /\ three.tries = two.tries /\ three.sent = n /\ three.sameDay
  BY <1>3 DEF WorkerRecs, Pcs
<1> HIDE DEF three
<1>5. /\ rec \in WorkerRecs /\ rec.pc = "mail" /\ rec.row = three.row /\ rec.tries = three.tries
      /\ rec.sent = n /\ rec.sameDay
  BY <1>4 DEF WorkerRecs, Pcs
<1> HIDE DEF rec
<1> QED BY <1>1, <1>2, <1>3, <1>4, <1>5, WorkerPut

LEMMA PutEffect ==
  ASSUME row \in [Rows -> RowRecs], NEW r \in Rows, NEW s \in RowStatuses, PutRow(r, s)
  PROVE  /\ row' \in [Rows -> RowRecs]
         /\ row'[r].status = IF row[r].status = "NONE" THEN "NONE" ELSE s
         /\ \A q \in Rows : q # r => row'[q] = row[q]
BY DEF PutRow, RowRecs

------------------------------------------------------------------------------
(* Types *)

LEMMA TypesUsed ==
  TypeOK => /\ row \in [Rows -> RowRecs] /\ worker \in [Workers -> WorkerRecs]
            /\ tick \in [Ticks -> TickRecs]
BY DEF TypeOK, RowRecs, WorkerRecs, Pcs, TickRecs, TickPcs

\* What TypeOK says of the rows and the sends, of the dispatches, and of the rest.
RowsTyped ==
  /\ row \in [Rows -> RowRecs] /\ due \subseteq Rows
  /\ jobs \subseteq [row : Rows, tries : 0..(Attempts - 1)]
  /\ worker \in [Workers -> WorkerRecs] /\ built \in 0..MaxDispatch
  /\ \A r \in Rows : row[r].status # "NONE" => r[1] <= built
  /\ \A j \in jobs : j.row[1] <= built
  /\ \A w \in Workers : ~Idle(w) => worker[w].row \in Rows /\ worker[w].row[1] <= built
DispatchTyped ==
  /\ campaign \in Campaigns /\ tick \in [Ticks -> TickRecs]
  /\ api \in {"idle", "SCHEDULED", "PAUSED", "RUNNING", "CANCELLED"}
  /\ check \in {"idle", "found", "counted"}
PeopleTyped ==
  /\ lead \in [Leads -> Stops \cup {"NEW", "CONTACTED", "CONVERTED"}]
  /\ excluded \subseteq Leads /\ suppressed \subseteq Leads
  /\ provider \in [status : {"ACTIVE", "PAUSED", "GONE"}, sent : Nat, dated : BOOLEAN]
  /\ mails \in [Mailings -> Nat] /\ today \in Nat /\ faults \in 0..MaxFaults
  /\ twice \subseteq Mailings /\ lost \subseteq Mailings
  /\ stopped \subseteq Leads /\ raced \subseteq Leads /\ overrun \in BOOLEAN

LEMMA TypeParts ==
  TypeOK <=> RowsTyped /\ DispatchTyped /\ PeopleTyped /\ revived \subseteq Mailings
BY DEF TypeOK, RowsTyped, DispatchTyped, PeopleTyped, RowRecs, WorkerRecs, Pcs, TickRecs, TickPcs

\* All but the history of the maintenance tick, which Next writes.
StepTyped == RowsTyped /\ DispatchTyped /\ PeopleTyped

LEMMA TypeNext == RowsTyped' /\ DispatchTyped' /\ PeopleTyped' => StepTyped'
BY DEF StepTyped

LEMMA FaultTyped ==
  ASSUME BoundsAssumption, faults \in 0..MaxFaults, Fault
  PROVE  faults' \in 0..MaxFaults
BY DEF Fault, BoundsAssumption

LEMMA AdminTyped ==
  ASSUME BoundsAssumption, TypeOK, AdminRequest
  PROVE  StepTyped'
<1> USE DEF sends, rows, people, history
<1>0. RowsTyped /\ DispatchTyped /\ PeopleTyped
  BY TypeParts
<1>1. ASSUME Begin PROVE StepTyped'
  <2>1. row' \in [Rows -> RowRecs] /\ \A r \in Rows : row'[r].status # "NONE" => row[r].status # "NONE"
    <3> USE <1>0 DEF RowsTyped, RowRecs, RowStatuses, Active
    <3>1. CASE BeginSchedule
      BY <3>1 DEF BeginSchedule
    <3>2. CASE BeginPause
      BY <3>2 DEF BeginPause
    <3>3. CASE BeginResume
      BY <3>3 DEF BeginResume
    <3>4. CASE BeginCancel
      BY <3>4 DEF BeginCancel
    <3> QED BY <1>1, <3>1, <3>2, <3>3, <3>4 DEF Begin
  <2>2. RowsTyped'
    BY <1>0, <1>1, <2>1 DEF Begin, RowsTyped, Idle
  <2>3. api' \in {"SCHEDULED", "PAUSED", "RUNNING", "CANCELLED"} /\ (Fault \/ UNCHANGED faults)
    BY <1>1 DEF Begin, BeginSchedule, BeginPause, BeginResume, BeginCancel, Request
  <2>4. DispatchTyped' /\ PeopleTyped'
    BY <1>0, <1>1, <2>3, FaultTyped DEF Begin, DispatchTyped, PeopleTyped
  <2> QED BY <2>2, <2>4, TypeNext
<1>2. ASSUME WriteStatus \/ Remove PROVE StepTyped'
  <2>1. RowsTyped' /\ PeopleTyped'
    BY <1>0, <1>2 DEF WriteStatus, Remove, RowsTyped, PeopleTyped, Idle
  <2>2. DispatchTyped'
    BY <1>0, <1>2 DEF WriteStatus, Remove, DispatchTyped, Campaigns
  <2> QED BY <2>1, <2>2, TypeNext
<1> QED BY <1>1, <1>2 DEF AdminRequest

\* One tick's record is replaced.
LEMMA TickPut ==
  ASSUME tick \in [Ticks -> TickRecs], NEW t \in Ticks, NEW pc \in TickPcs, NEW S \in SUBSET Leads,
         tick' = [tick EXCEPT ![t] = [pc |-> pc, audience |-> S]]
  PROVE  /\ tick' \in [Ticks -> TickRecs] /\ tick'[t].pc = pc /\ tick'[t].audience = S
         /\ \A u \in Ticks : u # t => tick'[u] = tick[u]
BY DEF TickRecs

LEMMA TickMove ==
  ASSUME tick \in [Ticks -> TickRecs], NEW t \in Ticks, NEW pc \in TickPcs,
         tick' = [tick EXCEPT ![t].pc = pc]
  PROVE  /\ tick' \in [Ticks -> TickRecs] /\ tick'[t].pc = pc /\ tick'[t].audience = tick[t].audience
         /\ \A u \in Ticks : u # t => tick'[u] = tick[u]
BY DEF TickRecs

\* A tick that is over.
LEMMA TickDone ==
  ASSUME tick \in [Ticks -> TickRecs], NEW t \in Ticks, tick' = [tick EXCEPT ![t] = IdleTick]
  PROVE  /\ tick' \in [Ticks -> TickRecs] /\ tick'[t].pc = "idle" /\ tick'[t].audience = {}
         /\ \A u \in Ticks : u # t => tick'[u] = tick[u]
<1>1. "idle" \in TickPcs /\ {} \in SUBSET Leads
  BY DEF TickPcs
<1> QED BY <1>1, TickPut DEF IdleTick

\* Tick t moves on to one of the steps pcs.
TickMoves(t, pcs) ==
  /\ tick' \in [Ticks -> TickRecs] /\ tick'[t].pc \in pcs
  /\ \A u \in Ticks : u # t => tick'[u] = tick[u]

LEMMA DispatchTick ==
  ASSUME TypeOK, NEW t \in Ticks
  PROVE  /\ FindDue(t) => TickMoves(t, {"found"})
         /\ SkipDue(t) \/ Flip(t) \/ DispatchThrows(t) => TickMoves(t, {"idle"})
         /\ StartDispatch(t) => TickMoves(t, {"clear"})
         /\ Clear(t) => TickMoves(t, {"resolve"})
         /\ Resolve(t) => /\ TickMoves(t, {"idle", "insert"})
                          /\ tick'[t].pc = "insert" => tick'[t].audience = Sendable
         /\ Insert(t) => TickMoves(t, {"insert", "flip"}) /\ tick'[t].audience = tick[t].audience
<1>0. tick \in [Ticks -> TickRecs] /\ Sendable \in SUBSET Leads /\ {} \in SUBSET Leads
  BY TypesUsed DEF Sendable
<1> USE DEF TickMoves, TickPcs
<1>1. ASSUME FindDue(t) PROVE TickMoves(t, {"found"})
  <2>1. tick' = [tick EXCEPT ![t] = [pc |-> "found", audience |-> {}]]
    BY <1>1 DEF FindDue, IdleTick
  <2> QED BY <1>0, <2>1, TickPut
<1>2. ASSUME SkipDue(t) \/ Flip(t) \/ DispatchThrows(t) PROVE TickMoves(t, {"idle"})
  BY <1>0, <1>2, TickDone DEF SkipDue, Flip, DispatchThrows
<1>3. ASSUME StartDispatch(t) PROVE TickMoves(t, {"clear"})
  BY <1>0, <1>3, TickMove DEF StartDispatch
<1>4. ASSUME Clear(t) PROVE TickMoves(t, {"resolve"})
  BY <1>0, <1>4, TickMove DEF Clear
<1>5. ASSUME Resolve(t)
      PROVE  /\ TickMoves(t, {"idle", "insert"})
             /\ tick'[t].pc = "insert" => tick'[t].audience = Sendable
  <2>1. CASE tick' = [tick EXCEPT ![t] = IdleTick]
    BY <1>0, <2>1, TickDone
  <2>2. CASE tick' = [tick EXCEPT ![t] = [pc |-> "insert", audience |-> Sendable]]
    BY <1>0, <2>2, TickPut
  <2> QED BY <1>5, <2>1, <2>2 DEF Resolve
<1>6. ASSUME Insert(t)
      PROVE  TickMoves(t, {"insert", "flip"}) /\ tick'[t].audience = tick[t].audience
  <2>1. CASE tick' = [tick EXCEPT ![t].pc = "flip"]
    BY <1>0, <2>1, TickMove
  <2>2. CASE tick' = [tick EXCEPT ![t].pc = tick[t].pc]
    BY <1>0, <1>6, <2>2, TickMove DEF Insert
  <2> QED BY <1>6, <2>1, <2>2 DEF Insert
<1> QED BY <1>1, <1>2, <1>3, <1>4, <1>5, <1>6

LEMMA DispatchesTyped ==
  ASSUME BoundsAssumption, TypeOK, NEW t \in Ticks, Dispatch(t) \/ DispatchThrows(t)
  PROVE  StepTyped'
<1>0. RowsTyped /\ DispatchTyped /\ PeopleTyped
  BY TypeParts
<1>1. tick' \in [Ticks -> TickRecs]
  BY DispatchTick DEF Dispatch, TickMoves
<1>2. /\ built' \in 0..MaxDispatch /\ built <= built' /\ campaign' \in Campaigns
      /\ UNCHANGED <<due, jobs, worker, api, check, lead, excluded, suppressed, provider>>
  BY <1>0 DEF Dispatch, DispatchThrows, FindDue, SkipDue, StartDispatch, Clear, Resolve, Insert, Flip,
              UnchangedByTick, sends, people, RowsTyped, DispatchTyped, Campaigns, Fails
<1>3. /\ row' \in [Rows -> RowRecs]
      /\ \A r \in Rows : row'[r].status # "NONE" => row[r].status # "NONE" \/ r[1] <= built
  <2>1. CASE UNCHANGED row
    BY <1>0, <2>1 DEF RowsTyped
  <2>2. CASE Clear(t)
    BY <1>0, <2>2 DEF Clear, SetRows, RowsTyped, RowRecs, RowStatuses
  <2>3. CASE Insert(t)
    <3>1. PICK S \in SUBSET NewRows(t) :
            row' = [r \in Rows |-> IF r \in S THEN [status |-> "QUEUED", running |-> TRUE] ELSE row[r]]
      BY <2>3 DEF Insert
    <3>2. \A r \in S : r[1] = built
      BY DEF NewRows
    <3> QED BY <1>0, <3>1, <3>2 DEF RowsTyped, RowRecs, RowStatuses, Active
  <2> QED BY <2>1, <2>2, <2>3 DEF Dispatch, DispatchThrows, FindDue, SkipDue, StartDispatch, Resolve, Flip
<1>4. RowsTyped'
  <2>1. built \in Nat /\ built' \in Nat /\ MaxDispatch \in Nat
    BY <1>0, <1>2 DEF RowsTyped, BoundsAssumption
  <2>2. \A r \in Rows : r[1] \in Nat
    BY RowParts DEF Dispatches
  <2>3. \A r \in Rows : row'[r].status # "NONE" => r[1] <= built'
    BY <1>0, <1>2, <1>3, <2>1, <2>2 DEF RowsTyped
  <2>4. \A j \in jobs : j.row \in Rows /\ j.row[1] <= built'
    BY <1>0, <1>2, <2>1, <2>2 DEF RowsTyped
  <2>5. \A w \in Workers : ~Idle(w) => worker[w].row \in Rows /\ worker[w].row[1] <= built'
    BY <1>0, <1>2, <2>1, <2>2 DEF RowsTyped
  <2> QED BY <1>0, <1>2, <1>3, <2>3, <2>4, <2>5 DEF RowsTyped, Idle
<1>5. /\ twice' \subseteq Mailings /\ lost' \subseteq Mailings
      /\ UNCHANGED <<mails, today, stopped, raced, overrun>>
  <2>1. CASE UNCHANGED history
    BY <1>0, <2>1 DEF PeopleTyped, history
  <2>2. CASE Clear(t)
    <3>1. \A r \in Partial : MailingOf(r) \in Mailings
      BY RowParts DEF Partial, WithStatus
    <3>2. \A w \in Workers : ~Idle(w) => MailingOf(worker[w].row) \in Mailings
      BY <1>0, RowParts DEF RowsTyped
    <3> QED BY <1>0, <2>2, <3>1, <3>2 DEF Clear, PeopleTyped
  <2> QED BY <2>1, <2>2 DEF Dispatch, DispatchThrows, FindDue, SkipDue, StartDispatch, Resolve, Insert, Flip
<1>6. faults' \in 0..MaxFaults
  BY <1>0, FaultTyped DEF Dispatch, DispatchThrows, FindDue, SkipDue, StartDispatch, Clear, Resolve, Insert, Flip,
              PeopleTyped
<1> QED BY <1>0, <1>1, <1>2, <1>4, <1>5, <1>6, TypeNext DEF DispatchTyped, PeopleTyped

------------------------------------------------------------------------------
(* What a send does to its row and its worker *)

\* Worker w moves on to pc with the same row, and no other worker does anything.
WorkerMoves(w, pc) ==
  /\ worker' \in [Workers -> WorkerRecs] /\ worker'[w].pc = pc
  /\ pc # "idle" => /\ worker'[w].row = worker[w].row /\ worker'[w].tries = worker[w].tries
  /\ \A v \in Workers : v # w => worker'[v] = worker[v]

\* Row r gets one of the statuses, unless a dispatch has deleted it.
RowGets(r, statuses) ==
  /\ row' \in [Rows -> RowRecs]
  /\ row[r].status = "NONE" => row'[r] = row[r]
  /\ row[r].status # "NONE" => row'[r].status \in statuses
  /\ \A q \in Rows : q # r => row'[q] = row[q]

LEMMA TakeEffect ==
  ASSUME BoundsAssumption, TypeOK, NEW w \in Workers, Take(w)
  PROVE  \E j \in jobs :
           /\ jobs' = jobs \ {j} /\ Idle(w) /\ UNCHANGED row
           /\ \/ UNCHANGED worker
              \/ /\ row[j.row].status = "SENDING" /\ worker' \in [Workers -> WorkerRecs]
                 /\ worker'[w].pc = "gate" /\ worker'[w].row = j.row /\ worker'[w].tries = j.tries
                 /\ \A v \in Workers : v # w => worker'[v] = worker[v]
<1>1. PICK j \in jobs :
        /\ jobs' = jobs \ {j}
        /\ IF row[j.row].status = "SENDING"
             THEN worker' = [worker EXCEPT ![w] = [pc |-> "gate", row |-> j.row, tries |-> j.tries,
                                                   sent |-> 0, sameDay |-> TRUE,
                                                   becomes |-> "CONTACTED"]]
             ELSE UNCHANGED worker
  BY DEF Take
<1>2. Idle(w) /\ UNCHANGED row /\ worker \in [Workers -> WorkerRecs]
  BY TypesUsed DEF Take
<1>3. j.row \in Rows /\ j.tries \in 0..(Attempts - 1)
  BY DEF TypeOK
<1> DEFINE rec == [pc |-> "gate", row |-> j.row, tries |-> j.tries, sent |-> 0, sameDay |-> TRUE,
                     becomes |-> "CONTACTED"]
<1>4. CASE row[j.row].status = "SENDING"
  <2>1. rec \in WorkerRecs /\ rec.pc = "gate" /\ rec.row = j.row /\ rec.tries = j.tries
    BY <1>3, TakenRec
  <2>2. worker' = [worker EXCEPT ![w] = rec]
    BY <1>1, <1>4
  <2> HIDE DEF rec
  <2>3. /\ worker' \in [Workers -> WorkerRecs] /\ worker'[w] = rec
        /\ \A v \in Workers : v # w => worker'[v] = worker[v]
    BY <1>2, <2>1, <2>2, WorkerPut
  <2> QED BY <1>1, <1>2, <1>4, <2>1, <2>3
<1>5. CASE row[j.row].status # "SENDING"
  BY <1>1, <1>2, <1>5
<1> QED BY <1>4, <1>5

LEMMA SendEffect ==
  ASSUME BoundsAssumption, TypeOK, NEW w \in Workers
  PROVE  LET r == worker[w].row IN
         /\ Skip(w)       => r \in Rows /\ RowGets(r, {"SKIPPED"}) /\ WorkerMoves(w, "idle")
         /\ NoProvider(w) => r \in Rows /\ RowGets(r, {"FAILED"}) /\ WorkerMoves(w, "idle")
         /\ Reschedule(w) => r \in Rows /\ RowGets(r, {"QUEUED"}) /\ WorkerMoves(w, "idle")
         /\ NoDraft(w)    => r \in Rows /\ RowGets(r, {"SKIPPED"}) /\ WorkerMoves(w, "idle")
         /\ Pass(w)       => r \in Rows /\ UNCHANGED row /\ WorkerMoves(w, "mail")
         /\ Mail(w)       => r \in Rows /\ UNCHANGED row /\ WorkerMoves(w, "record")
         /\ Record(w)     => r \in Rows /\ RowGets(r, {"SENT"}) /\ WorkerMoves(w, "count")
         /\ Account(w)    => r \in Rows /\ UNCHANGED row /\ WorkerMoves(w, "idle")
         /\ SendThrows(w) => /\ r \in Rows /\ WorkerMoves(w, "idle")
                             /\ \/ RowGets(r, {"FAILED"}) /\ UNCHANGED jobs
                                \/ /\ UNCHANGED row /\ worker[w].tries + 1 \in 0..(Attempts - 1)
                                   /\ jobs' = jobs \cup {[row |-> r, tries |-> worker[w].tries + 1]}
<1> DEFINE r == worker[w].row
<1>0. /\ row \in [Rows -> RowRecs] /\ worker \in [Workers -> WorkerRecs] /\ (~Idle(w) => r \in Rows)
      /\ provider.sent \in Nat
  BY TypesUsed DEF TypeOK
<1>1. Drop(w) => WorkerMoves(w, "idle")
  BY <1>0, DropEffect DEF WorkerMoves
<1>2. \A pc \in Pcs : SetWorker(w, pc) => WorkerMoves(w, pc)
  BY <1>0, MoveEffect DEF WorkerMoves
<1>3. \A s \in RowStatuses : ~Idle(w) /\ PutRow(r, s) => RowGets(r, {s})
  <2>1. SUFFICES ASSUME NEW s \in RowStatuses, ~Idle(w), PutRow(r, s) PROVE RowGets(r, {s})
    OBVIOUS
  <2>2. row[r].status = "NONE" => row' = row
    BY <2>1 DEF PutRow
  <2> HIDE DEF r
  <2> QED BY <1>0, <2>1, <2>2, PutEffect DEF RowGets
<1>4. {"record", "count", "mail"} \subseteq Pcs /\ {"SKIPPED", "FAILED", "QUEUED", "SENT"} \subseteq RowStatuses
  BY DEF Pcs, RowStatuses, Active
<1>5. Skip(w) => r \in Rows /\ RowGets(r, {"SKIPPED"}) /\ WorkerMoves(w, "idle")
  BY <1>0, <1>1, <1>3, <1>4 DEF Skip, Idle
<1>6. NoProvider(w) => r \in Rows /\ RowGets(r, {"FAILED"}) /\ WorkerMoves(w, "idle")
  BY <1>0, <1>1, <1>3, <1>4 DEF NoProvider, Idle
<1>7. Reschedule(w) => r \in Rows /\ RowGets(r, {"QUEUED"}) /\ WorkerMoves(w, "idle")
  BY <1>0, <1>1, <1>3, <1>4 DEF Reschedule, Idle
<1>8. Pass(w) => r \in Rows /\ UNCHANGED row /\ WorkerMoves(w, "mail")
  <2> SUFFICES ASSUME Pass(w) PROVE r \in Rows /\ UNCHANGED row /\ WorkerMoves(w, "mail")
    OBVIOUS
  <2>1. SentToday \in Nat
    BY <1>0 DEF SentToday
  <2>2. PICK s \in {"CONTACTED", "CONVERTED"} :
          worker' = [worker EXCEPT ![w].pc = "mail", ![w].sent = SentToday, ![w].sameDay = TRUE,
                       ![w].becomes = s]
    BY Zenon DEF Pass
  <2> HIDE DEF r
  <2>3. WorkerMoves(w, "mail")
    BY <1>0, <2>1, <2>2, PassRec DEF WorkerMoves
  <2> QED BY <1>0, <2>3 DEF Pass, Idle
<1>9. Mail(w) => r \in Rows /\ UNCHANGED row /\ WorkerMoves(w, "record")
  BY <1>0, <1>2, <1>4 DEF Mail, Idle
<1>10. Record(w) => r \in Rows /\ RowGets(r, {"SENT"}) /\ WorkerMoves(w, "count")
  BY <1>0, <1>2, <1>3, <1>4 DEF Record, Idle
<1>11. Account(w) => r \in Rows /\ UNCHANGED row /\ WorkerMoves(w, "idle")
  BY <1>0, <1>1 DEF Account, Idle
<1>12. SendThrows(w) => /\ r \in Rows /\ WorkerMoves(w, "idle")
                        /\ \/ RowGets(r, {"FAILED"}) /\ UNCHANGED jobs
                           \/ /\ UNCHANGED row /\ worker[w].tries + 1 \in 0..(Attempts - 1)
                              /\ jobs' = jobs \cup {[row |-> r, tries |-> worker[w].tries + 1]}
  <2> SUFFICES ASSUME SendThrows(w)
               PROVE  /\ r \in Rows /\ WorkerMoves(w, "idle")
                      /\ \/ RowGets(r, {"FAILED"}) /\ UNCHANGED jobs
                         \/ /\ UNCHANGED row /\ worker[w].tries + 1 \in 0..(Attempts - 1)
                            /\ jobs' = jobs \cup {[row |-> r, tries |-> worker[w].tries + 1]}
    OBVIOUS
  <2>1. ~Idle(w) /\ Drop(w)
    BY DEF SendThrows, PastGate, Idle
  <2>2. CASE FinalAttempt(w)
    BY <1>0, <1>1, <1>3, <1>4, <2>1, <2>2 DEF SendThrows
  <2>3. CASE ~FinalAttempt(w)
    <3>1. worker[w].tries \in 0..(Attempts - 1) /\ Attempts \in Nat
      BY <1>0 DEF WorkerRecs, BoundsAssumption
    <3>2. worker[w].tries + 1 \in 0..(Attempts - 1)
      BY <2>3, <3>1 DEF FinalAttempt
    <3>3. UNCHANGED row /\ jobs' = jobs \cup {[Job(w) EXCEPT !.tries = @ + 1]}
      BY <2>3 DEF SendThrows
    <3>4. [Job(w) EXCEPT !.tries = @ + 1] = [row |-> r, tries |-> worker[w].tries + 1]
      BY DEF Job
    <3> QED BY <1>0, <1>1, <2>1, <3>2, <3>3, <3>4
  <2> QED BY <2>2, <2>3
<1>13. NoDraft(w) => r \in Rows /\ RowGets(r, {"SKIPPED"}) /\ WorkerMoves(w, "idle")
  BY <1>0, <1>1, <1>3, <1>4 DEF NoDraft, Idle
<1> QED BY <1>5, <1>6, <1>7, <1>8, <1>9, <1>10, <1>11, <1>12, <1>13

\* The steps of the workers and of the send tick keep their hands off these.
LEMMA CrashEffect ==
  ASSUME BoundsAssumption, TypeOK, Crash
  PROVE  /\ worker' \in [Workers -> WorkerRecs] /\ \A w \in Workers : worker'[w].pc = "idle"
         /\ tick' \in [Ticks -> TickRecs] /\ \A t \in Ticks : tick'[t].pc = "idle"
         /\ jobs' \subseteq [row : Rows, tries : 0..(Attempts - 1)] /\ jobs \subseteq jobs'
         /\ \A j \in jobs' : j \in jobs \/ \E w \in Workers : ~Idle(w) /\ j.row = worker[w].row
<1>0. worker \in [Workers -> WorkerRecs] /\ \A w \in Workers : ~Idle(w) => worker[w].row \in Rows
  BY TypesUsed DEF TypeOK
<1>1. worker' \in [Workers -> WorkerRecs] /\ \A w \in Workers : worker'[w].pc = "idle"
  BY IdleIsRec DEF Crash
<1>2. tick' \in [Ticks -> TickRecs] /\ \A t \in Ticks : tick'[t].pc = "idle"
  <2>1. IdleTick \in TickRecs /\ IdleTick.pc = "idle"
    BY DEF IdleTick, TickRecs, TickPcs
  <2> QED BY <2>1 DEF Crash
<1>3. \A w \in Workers : ~Idle(w) =>
        Job(w) \in [row : Rows, tries : 0..(Attempts - 1)] /\ Job(w).row = worker[w].row
  BY <1>0 DEF Job, WorkerRecs
<1>4. /\ jobs' \subseteq [row : Rows, tries : 0..(Attempts - 1)] /\ jobs \subseteq jobs'
      /\ \A j \in jobs' : j \in jobs \/ \E w \in Workers : ~Idle(w) /\ j.row = worker[w].row
  BY <1>3 DEF Crash, TypeOK
<1> QED BY <1>1, <1>2, <1>4

LEMMA MidnightEffect ==
  ASSUME TypeOK, Midnight
  PROVE  /\ worker' \in [Workers -> WorkerRecs]
         /\ \A w \in Workers : worker'[w].pc = worker[w].pc /\ worker'[w].row = worker[w].row
         /\ provider' \in [status : {"ACTIVE", "PAUSED", "GONE"}, sent : Nat, dated : BOOLEAN]
         /\ ~provider'.dated
<1>1. worker \in [Workers -> WorkerRecs]
  BY TypesUsed
<1>2. \A w \in Workers : LET rec == [worker[w] EXCEPT !.sameDay = FALSE] IN
        rec \in WorkerRecs /\ rec.pc = worker[w].pc /\ rec.row = worker[w].row
  BY <1>1 DEF WorkerRecs
<1>3. worker' = [w \in Workers |-> [worker[w] EXCEPT !.sameDay = FALSE]]
  BY DEF Midnight
<1>4. /\ provider' \in [status : {"ACTIVE", "PAUSED", "GONE"}, sent : Nat, dated : BOOLEAN]
      /\ ~provider'.dated
  BY DEF Midnight, TypeOK
<1> QED BY <1>2, <1>3, <1>4

\* Claims, requeues, bounces and unsubscribes: the status of rows that are there.
LEMMA RowsEffect ==
  ASSUME TypeOK
  PROVE  /\ \A r \in Rows : ClaimRow(r) =>
              UNCHANGED row \/ (row[r].status = "QUEUED" /\ RowGets(r, {"SENDING"}))
         /\ \A r \in Rows : Requeue(r) => row[r].status = "SENDING" /\ RowGets(r, {"QUEUED"})
         /\ \A l \in Leads : Unsubscribe(l) \/ Bounce(l) =>
              /\ row' \in [Rows -> RowRecs]
              /\ \A r \in Rows : \/ row'[r] = row[r]
                                 \/ row[r].status = "SENT" /\ row'[r].status = "BOUNCED"
                                 \/ /\ row[r].status = "QUEUED" /\ row'[r].status = "SKIPPED"
                                    /\ LeadOf(r) = l
<1>0. row \in [Rows -> RowRecs]
  BY TypesUsed
<1> USE <1>0 DEF RowRecs, RowStatuses, Active, RowGets
<1>1. ASSUME NEW r \in Rows, ClaimRow(r)
      PROVE  UNCHANGED row \/ (row[r].status = "QUEUED" /\ RowGets(r, {"SENDING"}))
  BY <1>1 DEF ClaimRow
<1>2. ASSUME NEW r \in Rows, Requeue(r) PROVE row[r].status = "SENDING" /\ RowGets(r, {"QUEUED"})
  BY <1>2 DEF Requeue
<1>3. ASSUME NEW l \in Leads, Unsubscribe(l) \/ Bounce(l)
      PROVE  /\ row' \in [Rows -> RowRecs]
             /\ \A r \in Rows : \/ row'[r] = row[r]
                                \/ row[r].status = "SENT" /\ row'[r].status = "BOUNCED"
                                \/ /\ row[r].status = "QUEUED" /\ row'[r].status = "SKIPPED"
                                   /\ LeadOf(r) = l
  <2>1. \E S \in SUBSET WithStatus({"SENT"}) : SkipQueued(l, S)
    <3>1. CASE Unsubscribe(l)
      BY <3>1 DEF Unsubscribe
    <3>2. CASE Bounce(l)
      BY <3>2 DEF Bounce
    <3> QED BY <1>3, <3>1, <3>2
  <2>2. PICK S \in SUBSET WithStatus({"SENT"}) : SkipQueued(l, S)
    BY <2>1
  <2> DEFINE as(r, status) == [row[r] EXCEPT !.status = status]
  <2>3. \A r \in Rows, s \in RowStatuses : as(r, s) \in RowRecs /\ as(r, s).status = s
    OBVIOUS
  <2>4. /\ row' = [r \in Rows |-> IF r \in S THEN as(r, "BOUNCED")
                                  ELSE IF LeadOf(r) = l /\ row[r].status = "QUEUED"
                                  THEN as(r, "SKIPPED") ELSE row[r]]
        /\ \A r \in S : r \in Rows /\ row[r].status = "SENT"
        /\ "BOUNCED" \in RowStatuses /\ "SKIPPED" \in RowStatuses
    BY <2>2 DEF SkipQueued, WithStatus
  <2> HIDE DEF as, RowRecs, RowStatuses, Active, RowGets
  <2>5. /\ \A r \in Rows : row'[r] = IF r \in S THEN as(r, "BOUNCED")
                                   ELSE IF LeadOf(r) = l /\ row[r].status = "QUEUED"
                                   THEN as(r, "SKIPPED") ELSE row[r]
        /\ row' = [r \in Rows |-> row'[r]]
    BY <2>4
  <2>6. ASSUME NEW r \in Rows
        PROVE  /\ row'[r] \in RowRecs
               /\ \/ row'[r] = row[r]
                  \/ row[r].status = "SENT" /\ row'[r].status = "BOUNCED"
                  \/ /\ row[r].status = "QUEUED" /\ row'[r].status = "SKIPPED"
                     /\ LeadOf(r) = l
    <3>1. row[r] \in RowRecs
      BY <1>0
    <3> QED BY <2>3, <2>4, <2>5, <3>1
  <2>7. row' \in [Rows -> RowRecs]
    <3>1. \A r \in Rows : row[r] \in RowRecs
      BY <1>0
    <3> QED BY <2>3, <2>4, <3>1
  <2> QED BY <2>6, <2>7, Zenon
<1> QED BY <1>1, <1>2, <1>3

LEMMA RequestedRows ==
  ASSUME TypeOK, Begin
  PROVE  /\ row' \in [Rows -> RowRecs]
         /\ \A r \in Rows : \/ row'[r].status = row[r].status
                            \/ row[r].status \in Active /\ row'[r].status = "CANCELLED"
<1>0. row \in [Rows -> RowRecs]
  BY TypesUsed
<1> USE <1>0 DEF RowRecs, RowStatuses, Active
<1>1. CASE BeginSchedule
  BY <1>1 DEF BeginSchedule
<1>2. CASE BeginPause
  BY <1>2 DEF BeginPause
<1>3. CASE BeginResume
  BY <1>3 DEF BeginResume
<1>4. CASE BeginCancel
  BY <1>4 DEF BeginCancel
<1> QED BY <1>1, <1>2, <1>3, <1>4 DEF Begin

LEMMA PeopleTypedBySends ==
  ASSUME BoundsAssumption, PeopleTyped, RowsTyped, NEW w \in Workers, Send(w) \/ SendThrows(w)
  PROVE  PeopleTyped'
<1> DEFINE r == worker[w].row
<1>1. /\ ~Idle(w) => r \in Rows /\ LeadOf(r) \in Leads /\ MailingOf(r) \in Mailings
      /\ worker[w].sent + 1 \in Nat /\ worker[w].sameDay \in BOOLEAN
  BY RowParts DEF RowsTyped, WorkerRecs
<1> HIDE DEF r
<1>2. CASE Take(w) \/ NoProvider(w) \/ Reschedule(w) \/ Record(w)
  BY <1>2 DEF Take, NoProvider, Reschedule, Record, UnchangedBySend, history, PeopleTyped
<1>3. CASE Skip(w)
  BY <1>1, <1>3 DEF Skip, UnchangedBySend, PeopleTyped, Stops, Idle, r
<1>4. CASE Pass(w)
  BY <1>4 DEF Pass, UnchangedBySend, PeopleTyped
<1>8. CASE NoDraft(w)
  <2>1. faults' \in 0..MaxFaults
    BY <1>8, FaultTyped DEF NoDraft, PeopleTyped
  <2> QED BY <1>1, <1>8, <2>1 DEF NoDraft, UnchangedBySend, PeopleTyped, Idle, r
<1>5. CASE Mail(w)
  BY <1>1, <1>5 DEF Mail, UnchangedBySend, PeopleTyped, Idle, r
<1>6. CASE Account(w)
  <2>1. provider' \in [status : {"ACTIVE", "PAUSED", "GONE"}, sent : Nat, dated : BOOLEAN]
    BY <1>1, <1>6 DEF Account, PeopleTyped
  <2>2. lead' \in [Leads -> Stops \cup {"NEW", "CONTACTED", "CONVERTED"}]
    <3>1. worker[w].becomes \in {"CONTACTED", "CONVERTED"}
      BY DEF RowsTyped, WorkerRecs
    <3> QED BY <1>1, <1>6, <3>1 DEF Account, PeopleTyped, r
  <2> QED BY <1>6, <2>1, <2>2 DEF Account, UnchangedBySend, PeopleTyped, history
<1>7. CASE SendThrows(w)
  <2>1. ~Idle(w) /\ faults' \in 0..MaxFaults /\ overrun' \in BOOLEAN
    BY <1>7, FaultTyped DEF SendThrows, PastGate, Idle, PeopleTyped
  <2>2. twice' \subseteq Mailings
    BY <1>1, <1>7, <2>1 DEF SendThrows, PeopleTyped, r
  <2> QED BY <1>7, <2>1, <2>2 DEF SendThrows, UnchangedBySend, PeopleTyped
<1> QED BY <1>2, <1>3, <1>4, <1>5, <1>6, <1>7, <1>8 DEF Send

LEMMA RowsTypedBySends ==
  ASSUME BoundsAssumption, TypeOK, NEW w \in Workers, Send(w) \/ SendThrows(w)
  PROVE  RowsTyped'
<1> DEFINE r == worker[w].row
<1>0. RowsTyped /\ (~Idle(w) => r \in Rows /\ r[1] <= built)
  BY TypeParts DEF RowsTyped
<1>1. UNCHANGED <<due, built>>
  BY DEF Send, SendThrows, Take, Skip, NoDraft, NoProvider, Reschedule, Pass, Mail, Record, Account, UnchangedBySend
<1>2. CASE Take(w)
  <2>1. PICK j \in jobs :
           /\ jobs' = jobs \ {j} /\ Idle(w) /\ UNCHANGED row
           /\ \/ UNCHANGED worker
              \/ /\ row[j.row].status = "SENDING" /\ worker' \in [Workers -> WorkerRecs]
                 /\ worker'[w].pc = "gate" /\ worker'[w].row = j.row /\ worker'[w].tries = j.tries
                 /\ \A v \in Workers : v # w => worker'[v] = worker[v]
    BY <1>2, TakeEffect
  <2>2. j.row \in Rows /\ j.row[1] <= built
    BY <1>0 DEF RowsTyped
  <2> QED BY <1>0, <1>1, <2>1, <2>2 DEF RowsTyped, Idle
<1>3. ASSUME RowGets(r, {"SKIPPED", "FAILED", "QUEUED", "SENT"}) \/ UNCHANGED row, r \in Rows, ~Idle(w),
             \E pc \in Pcs : WorkerMoves(w, pc),
             UNCHANGED jobs \/ \E n \in 0..(Attempts - 1) : jobs' = jobs \cup {[row |-> r, tries |-> n]}
      PROVE  RowsTyped'
  <2> HIDE DEF r
  <2>1. row' \in [Rows -> RowRecs] /\ \A q \in Rows : row'[q].status # "NONE" => row[q].status # "NONE"
    BY <1>0, <1>3 DEF RowGets, RowsTyped
  <2>2. /\ jobs' \subseteq [row : Rows, tries : 0..(Attempts - 1)]
        /\ \A j \in jobs' : j.row[1] <= built
    BY <1>0, <1>3 DEF RowsTyped
  <2>3. /\ worker' \in [Workers -> WorkerRecs]
        /\ \A v \in Workers : worker'[v].pc # "idle" => ~Idle(v) /\ worker'[v].row = worker[v].row
    BY <1>3 DEF WorkerMoves, Idle
  <2> QED BY <1>0, <1>1, <2>1, <2>2, <2>3 DEF RowsTyped, Idle
<1>4. CASE Skip(w) \/ NoDraft(w) \/ NoProvider(w) \/ Reschedule(w) \/ Pass(w) \/ Mail(w) \/ Record(w) \/ Account(w)
  <2>1. UNCHANGED jobs /\ ~Idle(w)
    BY <1>4 DEF Skip, NoDraft, NoProvider, Reschedule, Pass, Mail, Record, Account, Idle
  <2>2. {"idle", "mail", "record", "count"} \subseteq Pcs
    BY DEF Pcs
  <2>3. /\ r \in Rows /\ \E pc \in Pcs : WorkerMoves(w, pc)
        /\ \/ UNCHANGED row \/ RowGets(r, {"SKIPPED"}) \/ RowGets(r, {"FAILED"})
           \/ RowGets(r, {"QUEUED"}) \/ RowGets(r, {"SENT"})
    BY <1>4, <2>2, SendEffect
  <2>4. RowGets(r, {"SKIPPED", "FAILED", "QUEUED", "SENT"}) \/ UNCHANGED row
    BY <2>3 DEF RowGets
  <2> QED BY <1>3, <2>1, <2>3, <2>4
<1>5. CASE SendThrows(w)
  <2>1. ~Idle(w) /\ "idle" \in Pcs
    BY <1>5 DEF SendThrows, PastGate, Idle, Pcs
  <2>2. /\ r \in Rows /\ WorkerMoves(w, "idle")
        /\ \/ RowGets(r, {"FAILED"}) /\ UNCHANGED jobs
           \/ UNCHANGED row /\ \E n \in 0..(Attempts - 1) : jobs' = jobs \cup {[row |-> r, tries |-> n]}
    BY <1>5, SendEffect
  <2>3. RowGets(r, {"SKIPPED", "FAILED", "QUEUED", "SENT"}) \/ UNCHANGED row
    BY <2>2 DEF RowGets
  <2> QED BY <1>3, <2>1, <2>2, <2>3
<1> QED BY <1>2, <1>4, <1>5 DEF Send

LEMMA SendsTyped ==
  ASSUME BoundsAssumption, TypeOK, NEW w \in Workers, Send(w) \/ SendThrows(w)
  PROVE  StepTyped'
<1>0. RowsTyped /\ DispatchTyped /\ PeopleTyped
  BY TypeParts
<1>1. DispatchTyped'
  BY <1>0 DEF Send, SendThrows, Take, Skip, NoDraft, NoProvider, Reschedule, Pass, Mail, Record, Account,
              UnchangedBySend, DispatchTyped
<1> QED BY <1>0, <1>1, RowsTypedBySends, PeopleTypedBySends, TypeNext

LEMMA TicksTyped ==
  ASSUME BoundsAssumption, TypeOK, SendTick \/ Maintenance \/ Crash
  PROVE  StepTyped'
<1> USE DEF sends, rows, people, history
<1>0. RowsTyped /\ DispatchTyped /\ PeopleTyped /\ revived \subseteq Mailings
  BY TypeParts
<1>1. CASE FindRows
  <2>1. SentToday \in Nat /\ due' \subseteq Rows
    BY <1>0, <1>1 DEF SentToday, PeopleTyped, FindRows
  <2>2. provider' \in [status : {"ACTIVE", "PAUSED", "GONE"}, sent : Nat, dated : BOOLEAN]
    BY <1>0, <1>1, <2>1 DEF FindRows, PeopleTyped
  <2> QED BY <1>0, <1>1, <2>1, <2>2, TypeNext DEF FindRows, RowsTyped, DispatchTyped, PeopleTyped, Idle
<1>2. ASSUME NEW r \in Rows, ClaimRow(r) PROVE StepTyped'
  <2>1. UNCHANGED row \/ (row[r].status = "QUEUED" /\ RowGets(r, {"SENDING"}))
    BY <1>2, RowsEffect
  <2>2. row' \in [Rows -> RowRecs] /\ \A q \in Rows : row'[q].status # "NONE" => row[q].status # "NONE"
    BY <1>0, <2>1 DEF RowGets, RowsTyped
  <2>3. /\ jobs' \subseteq [row : Rows, tries : 0..(Attempts - 1)]
        /\ \A j \in jobs' : j.row[1] <= built
    <3>1. CASE UNCHANGED jobs
      BY <1>0, <3>1 DEF RowsTyped
    <3>2. CASE row[r].status = "QUEUED" /\ jobs' = jobs \cup {[row |-> r, tries |-> 0]}
      <4>1. r[1] <= built /\ 0 \in 0..(Attempts - 1)
        BY <1>0, <3>2 DEF RowsTyped, BoundsAssumption
      <4> QED BY <1>0, <3>2, <4>1 DEF RowsTyped
    <3> QED BY <1>2, <3>1, <3>2 DEF ClaimRow
  <2>4. UNCHANGED <<built, worker>> /\ due' \subseteq due
    BY <1>2 DEF ClaimRow
  <2>5. RowsTyped'
    BY <1>0, <2>2, <2>3, <2>4 DEF RowsTyped, Idle
  <2>6. faults' \in 0..MaxFaults
    BY <1>0, <1>2, FaultTyped DEF ClaimRow, PeopleTyped
  <2> QED BY <1>0, <1>2, <2>5, <2>6, TypeNext DEF ClaimRow, DispatchTyped, PeopleTyped
<1>3. ASSUME NEW r \in Rows, Requeue(r) PROVE StepTyped'
  <2>1. row[r].status = "SENDING" /\ RowGets(r, {"QUEUED"})
    BY <1>3, RowsEffect
  <2>2. row' \in [Rows -> RowRecs] /\ \A q \in Rows : row'[q].status # "NONE" => row[q].status # "NONE"
    BY <1>0, <2>1 DEF RowGets, RowsTyped
  <2>3. RowsTyped'
    BY <1>0, <1>3, <2>2 DEF Requeue, RowsTyped, Idle
  <2>4. faults' \in 0..MaxFaults /\ twice' \subseteq Mailings
    BY <1>0, <1>3, FaultTyped, RowParts DEF Requeue, PeopleTyped
  <2> QED BY <1>0, <1>3, <2>3, <2>4, TypeNext DEF Requeue, DispatchTyped, PeopleTyped
<1>4. CASE FindRunning \/ Count \/ Complete
  <2>1. RowsTyped' /\ PeopleTyped'
    BY <1>0, <1>4 DEF FindRunning, Count, Complete, RowsTyped, PeopleTyped, Idle
  <2> QED BY <1>0, <1>4, <2>1, TypeNext DEF FindRunning, Count, Complete, DispatchTyped, Campaigns
<1>5. CASE Crash
  <2>1. /\ worker' \in [Workers -> WorkerRecs] /\ \A w \in Workers : worker'[w].pc = "idle"
        /\ tick' \in [Ticks -> TickRecs]
        /\ jobs' \subseteq [row : Rows, tries : 0..(Attempts - 1)]
        /\ \A j \in jobs' : j \in jobs \/ \E w \in Workers : ~Idle(w) /\ j.row = worker[w].row
    BY <1>5, CrashEffect
  <2>2. UNCHANGED <<row, built, campaign, api>> /\ due' = {} /\ check' = "idle"
    BY <1>5 DEF Crash
  <2>3. \A j \in jobs' : j.row[1] <= built
    BY <1>0, <2>1 DEF RowsTyped
  <2>4. RowsTyped'
    BY <1>0, <2>1, <2>2, <2>3 DEF RowsTyped, Idle
  <2>5. DispatchTyped'
    BY <1>0, <2>1, <2>2 DEF DispatchTyped
  <2>6. faults' \in 0..MaxFaults
    BY <1>0, <1>5, FaultTyped DEF Crash, PeopleTyped
  <2>7. twice' \subseteq Mailings
    <3>1. \A w \in Workers : worker[w].pc = "record" => MailingOf(worker[w].row) \in Mailings
      BY <1>0, RowParts DEF RowsTyped, Idle
    <3> QED BY <1>0, <1>5, <3>1 DEF Crash, PeopleTyped
  <2>8. overrun' \in BOOLEAN
    BY <1>5 DEF Crash
  <2>9. UNCHANGED <<lead, excluded, suppressed, provider, mails, today, lost, stopped, raced>>
    BY <1>5 DEF Crash
  <2>10. PeopleTyped'
    BY <1>0, <2>6, <2>7, <2>8, <2>9 DEF PeopleTyped
  <2> QED BY <2>4, <2>5, <2>10, TypeNext
<1> QED BY <1>1, <1>2, <1>3, <1>4, <1>5 DEF SendTick, Maintenance

LEMMA PeopleStepsTyped ==
  ASSUME BoundsAssumption, TypeOK,
         \/ \E l \in Leads : LeadChange(l)
         \/ UpdateProvider \/ Midnight
  PROVE  StepTyped'
<1> USE DEF sends, rows, people, history
<1>0. RowsTyped /\ DispatchTyped /\ PeopleTyped
  BY TypeParts
<1>1. ASSUME NEW l \in Leads, Unsubscribe(l) \/ Bounce(l) PROVE StepTyped'
  <2>1. /\ row' \in [Rows -> RowRecs]
        /\ \A r \in Rows : row'[r].status # "NONE" => row[r].status # "NONE"
    BY <1>1, RowsEffect
  <2>2. RowsTyped' /\ DispatchTyped'
    BY <1>0, <1>1, <2>1 DEF Unsubscribe, Bounce, Stopping, RowsTyped, DispatchTyped, Idle
  <2>3. faults' \in 0..MaxFaults /\ lead' \in [Leads -> Stops \cup {"NEW", "CONTACTED", "CONVERTED"}]
    BY <1>0, <1>1, FaultTyped DEF Unsubscribe, Bounce, Stopping, PeopleTyped, Stops
  <2> QED BY <1>0, <1>1, <2>2, <2>3, TypeNext DEF Unsubscribe, Bounce, Stopping, PeopleTyped
<1>2. ASSUME NEW l \in Leads, Reply(l) \/ Exclude(l) PROVE StepTyped'
  <2>1. RowsTyped' /\ DispatchTyped'
    BY <1>0, <1>2 DEF Reply, Exclude, Stopping, RowsTyped, DispatchTyped, Idle
  <2>2. faults' \in 0..MaxFaults /\ lead' \in [Leads -> Stops \cup {"NEW", "CONTACTED", "CONVERTED"}]
    BY <1>0, <1>2, FaultTyped DEF Reply, Exclude, Stopping, PeopleTyped, Stops
  <2> QED BY <1>0, <1>2, <2>1, <2>2, TypeNext DEF Reply, Exclude, Stopping, PeopleTyped
<1>3. ASSUME NEW l \in Leads, Resubscribe(l) \/ Include(l) \/ Restate(l) PROVE StepTyped'
  <2>0. Lifting(l)
    BY <1>3 DEF Resubscribe, Include, Restate
  <2>1. RowsTyped' /\ DispatchTyped'
    BY <1>0, <2>0 DEF Lifting, RowsTyped, DispatchTyped, Idle
  <2>2. faults' \in 0..MaxFaults
    BY <1>0, <2>0, FaultTyped DEF Lifting, PeopleTyped
  <2>3. lead' \in [Leads -> Stops \cup {"NEW", "CONTACTED", "CONVERTED"}]
    BY <1>0, <1>3 DEF Resubscribe, Include, Restate, PeopleTyped
  <2>4. lost' \subseteq Mailings /\ stopped' \subseteq Leads
    BY <1>0, <2>0 DEF Lifting, PeopleTyped, Mailings
  <2>5. excluded' \subseteq Leads /\ suppressed' \subseteq Leads
    BY <1>0, <1>3 DEF Resubscribe, Include, Restate, PeopleTyped
  <2> QED BY <1>0, <2>0, <2>1, <2>2, <2>3, <2>4, <2>5, TypeNext DEF Lifting, PeopleTyped
<1>4. CASE UpdateProvider
  <2>1. RowsTyped' /\ DispatchTyped'
    BY <1>0, <1>4 DEF UpdateProvider, RowsTyped, DispatchTyped, Idle
  <2>2. faults' \in 0..MaxFaults
    BY <1>0, <1>4, FaultTyped DEF UpdateProvider, PeopleTyped
  <2>3. provider' \in [status : {"ACTIVE", "PAUSED", "GONE"}, sent : Nat, dated : BOOLEAN]
    BY <1>0, <1>4 DEF UpdateProvider, PeopleTyped
  <2> QED BY <1>0, <1>4, <2>1, <2>2, <2>3, TypeNext DEF UpdateProvider, PeopleTyped
<1>5. CASE Midnight
  <2>1. /\ worker' \in [Workers -> WorkerRecs]
        /\ \A w \in Workers : worker'[w].pc = worker[w].pc /\ worker'[w].row = worker[w].row
        /\ provider' \in [status : {"ACTIVE", "PAUSED", "GONE"}, sent : Nat, dated : BOOLEAN]
    BY <1>5, MidnightEffect
  <2>2. RowsTyped' /\ DispatchTyped'
    BY <1>0, <1>5, <2>1 DEF Midnight, RowsTyped, DispatchTyped, Idle
  <2>3. faults' \in 0..MaxFaults /\ overrun' \in BOOLEAN
    BY <1>0, <1>5, FaultTyped DEF Midnight, PeopleTyped
  <2> QED BY <1>0, <1>5, <2>1, <2>2, <2>3, TypeNext DEF Midnight, PeopleTyped
<1> QED BY <1>1, <1>2, <1>3, <1>4, <1>5 DEF LeadChange

LEMMA InitTyped ==
  ASSUME BoundsAssumption, Init PROVE TypeOK
<1>1. NoRow \in RowRecs /\ NoRow.status = "NONE"
  BY DEF NoRow, RowRecs, RowStatuses
<1>2. IdleTick \in TickRecs
  BY DEF IdleTick, TickRecs, TickPcs
<1>3. IdleWorker \in WorkerRecs /\ IdleWorker.pc = "idle"
  BY IdleIsRec
<1>4. RowsTyped
  BY <1>1, <1>3 DEF Init, RowsTyped, Idle, BoundsAssumption
<1>5. DispatchTyped
  BY <1>2 DEF Init, DispatchTyped, Campaigns
<1>6. PeopleTyped
  <2>1. provider \in [status : {"ACTIVE", "PAUSED", "GONE"}, sent : Nat, dated : BOOLEAN]
    BY DEF Init
  <2>2. lead \in [Leads -> Stops \cup {"NEW", "CONTACTED", "CONVERTED"}] /\ mails \in [Mailings -> Nat]
    BY DEF Init
  <2>3. excluded = {} /\ suppressed = {} /\ twice = {} /\ lost = {} /\ stopped = {} /\ raced = {}
    BY DEF Init
  <2>4. overrun \in BOOLEAN
    BY DEF Init
  <2>5. faults \in 0..MaxFaults /\ today \in Nat
    <3>1. faults = 0 /\ today = 0
      BY DEF Init
    <3> QED BY <3>1 DEF BoundsAssumption
  <2> QED BY <2>1, <2>2, <2>3, <2>4, <2>5 DEF PeopleTyped
<1>7. revived = {}
  BY DEF Init
<1> QED BY <1>4, <1>5, <1>6, <1>7, TypeParts

LEMMA StutterTyped ==
  ASSUME TypeOK, UNCHANGED vars PROVE TypeOK'
BY DEF vars, TypeOK, Idle

LEMMA NextIsStep == [Next]_vars => Step \/ UNCHANGED vars
BY Zenon DEF Next

\* The variables of a campaign keep their types: no retry passes its attempts, and no
\* row, job or send is of a dispatch that was not begun.
THEOREM TypeCorrect == Spec => []TypeOK
<1>1. Init => TypeOK
  BY BoundsAssumption, InitTyped
<1>2. TypeOK /\ [Next]_vars => TypeOK'
  <2> SUFFICES ASSUME TypeOK, [Next]_vars PROVE TypeOK'
    OBVIOUS
  <2> USE BoundsAssumption
  <2>1. CASE Next
    <3>6. StepTyped'
      <4>1. CASE AdminRequest
        BY <4>1, AdminTyped
      <4>2. CASE \E t \in Ticks : Dispatch(t) \/ DispatchThrows(t)
        BY <4>2, DispatchesTyped
      <4>3. CASE SendTick \/ Maintenance \/ Crash
        BY <4>3, TicksTyped
      <4>4. CASE \E w \in Workers : Send(w) \/ SendThrows(w)
        BY <4>4, SendsTyped
      <4>5. CASE (\E l \in Leads : LeadChange(l)) \/ UpdateProvider \/ Midnight
        BY <4>5, PeopleStepsTyped
      <4>6. Step
        BY <2>1, Zenon DEF Next
      <4> QED BY <4>1, <4>2, <4>3, <4>4, <4>5, <4>6, Zenon DEF Step
    <3>7. revived' \subseteq Mailings
      <4>1. Queued \subseteq Mailings
        <5>1. SUFFICES ASSUME NEW m \in Queued PROVE m \in Mailings
          OBVIOUS
        <5>2. PICK r \in Rows : m = MailingOf(r)
          BY <5>1, Zenon DEF Queued
        <5> QED BY <5>2, RowParts
      <4>2. revived' = revived \cup Queued \/ revived' = {}
        BY <2>1, Zenon DEF Next
      <4> QED BY <4>1, <4>2 DEF TypeOK
    <3>8. (RowsTyped /\ DispatchTyped /\ PeopleTyped)'
      BY <3>6 DEF StepTyped
    <3> QED BY <3>7, <3>8 DEF TypeOK, RowsTyped, DispatchTyped, PeopleTyped,
                              RowRecs, WorkerRecs, Pcs, TickRecs, TickPcs
  <2>2. CASE UNCHANGED vars
    BY <2>2, StutterTyped
  <2> QED BY <2>1, <2>2
<1> QED BY <1>1, <1>2, PTL DEF Spec

------------------------------------------------------------------------------
(* The daily budget *)

\* As long as no two sends overlapped and none was left uncounted: at most one is past
\* its gate, with a count of the day that is still right, and what was mailed today is
\* counted but for that one.
CountIsRight(w) ==
  /\ worker[w].sameDay /\ worker[w].sent < DailyLimit
  /\ worker[w].pc = "mail" => today <= worker[w].sent /\ worker[w].sent = SentToday
  /\ worker[w].pc # "mail" => today <= worker[w].sent + 1

BudgetInv ==
  ~overrun =>
    /\ today <= DailyLimit
    /\ \A v, w \in Workers : PastGate(v) /\ PastGate(w) => v = w
    /\ (\A w \in Workers : ~PastGate(w)) => today <= SentToday
    /\ \A w \in Workers : PastGate(w) => CountIsRight(w)

\* A step that lets no send past the gate and counts no mail.
LEMMA BudgetQuiet ==
  ASSUME TypeOK, BudgetInv, overrun' = overrun, today' = today, SentToday' = SentToday,
         \A w \in Workers : PastGate(w)' => /\ PastGate(w) /\ worker'[w].pc = worker[w].pc
                                            /\ worker'[w].sent = worker[w].sent
                                            /\ worker'[w].sameDay = worker[w].sameDay,
         \A w \in Workers : PastGate(w) => PastGate(w)' \/ today <= SentToday
  PROVE  BudgetInv'
BY DEF BudgetInv, CountIsRight

LEMMA BudgetBySends ==
  ASSUME BoundsAssumption, TypeOK, BudgetInv, NEW w \in Workers, Send(w) \/ SendThrows(w)
  PROVE  BudgetInv'
<1>0. /\ worker \in [Workers -> WorkerRecs] /\ DailyLimit \in Nat /\ today \in Nat
      /\ provider \in [status : {"ACTIVE", "PAUSED", "GONE"}, sent : Nat, dated : BOOLEAN]
      /\ SentToday \in Nat
  BY TypesUsed DEF TypeOK, BoundsAssumption, SentToday
<1>1. CASE Take(w)
  <2>1. /\ UNCHANGED <<provider, today, overrun>>
        /\ \A v \in Workers : worker'[v] = worker[v] \/ (~PastGate(v)' /\ ~PastGate(v))
    <3>1. UNCHANGED <<provider, today, overrun>>
      BY <1>1 DEF Take, history
    <3>2. \A v \in Workers : worker'[v] = worker[v] \/ (~PastGate(v)' /\ ~PastGate(v))
      BY <1>1, TakeEffect DEF PastGate, Idle
    <3> QED BY <3>1, <3>2
  <2> QED BY <2>1, BudgetQuiet DEF SentToday, PastGate
<1>2. CASE Skip(w) \/ NoDraft(w) \/ NoProvider(w) \/ Reschedule(w)
  <2>1. WorkerMoves(w, "idle") /\ worker[w].pc = "gate"
    BY <1>2, SendEffect DEF Skip, NoDraft, NoProvider, Reschedule
  <2>2. /\ UNCHANGED <<provider, today, overrun>>
        /\ \A v \in Workers : worker'[v] = worker[v] \/ (~PastGate(v)' /\ ~PastGate(v))
    <3>1. UNCHANGED <<provider, today, overrun>>
      BY <1>2 DEF Skip, NoDraft, NoProvider, Reschedule, history
    <3>2. \A v \in Workers : worker'[v] = worker[v] \/ (~PastGate(v)' /\ ~PastGate(v))
      BY <2>1 DEF PastGate, WorkerMoves
    <3> QED BY <3>1, <3>2
  <2> QED BY <2>2, BudgetQuiet DEF SentToday, PastGate
<1>3. CASE Pass(w)
  <2> SUFFICES ASSUME ~overrun' PROVE BudgetInv'
    BY DEF BudgetInv
  <2>1. /\ ~overrun /\ \A v \in Workers : v # w => ~PastGate(v)
        /\ worker[w].pc = "gate" /\ SentToday < DailyLimit /\ UNCHANGED <<provider, today>>
    <3>1. ~overrun /\ \A v \in Workers : v # w => ~PastGate(v)
      BY <1>3, Zenon DEF Pass
    <3>2. worker[w].pc = "gate" /\ ~Full /\ UNCHANGED <<provider, today>>
      BY <1>3 DEF Pass
    <3>3. SentToday < DailyLimit
      BY <1>0, <3>2 DEF Full
    <3> QED BY <3>1, <3>2, <3>3
  <2>2. /\ worker'[w].pc = "mail" /\ worker'[w].sent = SentToday /\ worker'[w].sameDay
        /\ \A v \in Workers : v # w => worker'[v] = worker[v]
    <3>1. PICK s \in {"CONTACTED", "CONVERTED"} :
            worker' = [worker EXCEPT ![w].pc = "mail", ![w].sent = SentToday, ![w].sameDay = TRUE,
                         ![w].becomes = s]
      BY <1>3, Zenon DEF Pass
    <3> QED BY <1>0, <3>1, PassRec
  <2>3. today <= SentToday /\ today <= DailyLimit
    BY <2>1 DEF BudgetInv, PastGate
  <2> QED BY <2>1, <2>2, <2>3 DEF BudgetInv, CountIsRight, PastGate, SentToday
<1>4. CASE Mail(w) \/ Record(w)
  <2>1. /\ UNCHANGED <<provider, overrun>> /\ PastGate(w) /\ PastGate(w)'
        /\ \A v \in Workers : v # w => worker'[v] = worker[v]
        /\ worker'[w].sent = worker[w].sent /\ worker'[w].sameDay = worker[w].sameDay
        /\ worker'[w].pc # "mail" /\ today' <= today + 1 /\ today' \in Nat
        /\ worker[w].pc # "mail" => today' = today
    <3>1. CASE Mail(w)
      <4>1. SetWorker(w, "record") /\ "record" \in Pcs
        BY <3>1 DEF Mail, Pcs
      <4>2. /\ worker'[w].pc = "record" /\ worker'[w].sent = worker[w].sent
            /\ worker'[w].sameDay = worker[w].sameDay /\ \A v \in Workers : v # w => worker'[v] = worker[v]
        BY <1>0, <4>1, MoveEffect
      <4>3. UNCHANGED <<provider, overrun>> /\ worker[w].pc = "mail" /\ today' = today + 1
        BY <3>1 DEF Mail
      <4> QED BY <1>0, <4>2, <4>3 DEF PastGate
    <3>2. CASE Record(w)
      <4>1. SetWorker(w, "count") /\ "count" \in Pcs
        BY <3>2 DEF Record, Pcs
      <4>2. /\ worker'[w].pc = "count" /\ worker'[w].sent = worker[w].sent
            /\ worker'[w].sameDay = worker[w].sameDay /\ \A v \in Workers : v # w => worker'[v] = worker[v]
        BY <1>0, <4>1, MoveEffect
      <4>3. UNCHANGED <<provider, overrun, today>> /\ worker[w].pc = "record"
        BY <3>2 DEF Record, history
      <4> QED BY <1>0, <4>2, <4>3 DEF PastGate
    <3> QED BY <1>4, <3>1, <3>2
  <2>2. \A v \in Workers : v # w => (PastGate(v)' <=> PastGate(v))
    BY <2>1 DEF PastGate
  <2> SUFFICES ASSUME ~overrun' PROVE BudgetInv'
    BY DEF BudgetInv
  <2>3. /\ CountIsRight(w) /\ \A v \in Workers : v # w => ~PastGate(v)
        /\ worker[w].sent \in Nat
    BY <1>0, <2>1 DEF BudgetInv, WorkerRecs
  <2>4. today' <= worker[w].sent + 1 /\ worker[w].sent < DailyLimit
    BY <1>0, <2>1, <2>3 DEF CountIsRight
  <2>5. CountIsRight(w)'
    BY <2>1, <2>3, <2>4 DEF CountIsRight
  <2>6. today' <= DailyLimit
    BY <1>0, <2>1, <2>3, <2>4
  <2> QED BY <2>1, <2>2, <2>3, <2>5, <2>6 DEF BudgetInv
<1>5. CASE Account(w)
  <2>1. WorkerMoves(w, "idle") /\ worker[w].pc = "count" /\ PastGate(w)
    BY <1>5, SendEffect DEF Account, PastGate
  <2>2. /\ UNCHANGED <<today, overrun>>
        /\ provider'.sent = worker[w].sent + 1 /\ provider'.dated = worker[w].sameDay
    BY <1>0, <1>5 DEF Account, history
  <2> SUFFICES ASSUME ~overrun' PROVE BudgetInv'
    BY DEF BudgetInv
  <2>3. /\ CountIsRight(w) /\ \A v \in Workers : v # w => ~PastGate(v)
        /\ today <= DailyLimit
    BY <2>1, <2>2 DEF BudgetInv
  <2>4. today <= SentToday'
    BY <2>1, <2>2, <2>3 DEF SentToday, CountIsRight
  <2>5. \A v \in Workers : ~PastGate(v)'
    BY <2>1, <2>3 DEF WorkerMoves, PastGate
  <2> QED BY <2>2, <2>3, <2>4, <2>5 DEF BudgetInv
<1>6. CASE SendThrows(w)
  <2>1. WorkerMoves(w, "idle") /\ PastGate(w) /\ UNCHANGED <<today, provider>>
    BY <1>6, SendEffect DEF SendThrows
  <2> SUFFICES ASSUME ~overrun' PROVE BudgetInv'
    BY DEF BudgetInv
  <2>2. ~overrun /\ worker[w].pc = "mail"
    BY <1>6, <2>1 DEF SendThrows, PastGate
  <2>3. CountIsRight(w)
    BY <2>1, <2>2 DEF BudgetInv
  <2>4. today <= SentToday
    BY <2>2, <2>3 DEF CountIsRight
  <2>5. \A v \in Workers : ~PastGate(v)' /\ (PastGate(v) => v = w)
    BY <2>1, <2>2 DEF WorkerMoves, PastGate, BudgetInv
  <2> QED BY <2>1, <2>2, <2>4, <2>5 DEF BudgetInv, SentToday
<1> QED BY <1>1, <1>2, <1>3, <1>4, <1>5, <1>6 DEF Send

LEMMA BudgetKeeps ==
  ASSUME BoundsAssumption, TypeOK, BudgetInv, [Next]_vars
  PROVE  BudgetInv'
<1>0. /\ worker \in [Workers -> WorkerRecs] /\ DailyLimit \in Nat /\ today \in Nat
      /\ provider \in [status : {"ACTIVE", "PAUSED", "GONE"}, sent : Nat, dated : BOOLEAN]
  BY TypesUsed DEF TypeOK, BoundsAssumption
<1>1. CASE \E w \in Workers : Send(w) \/ SendThrows(w)
  BY <1>1, BudgetBySends
<1>2. CASE UNCHANGED <<worker, provider, today, overrun>>
  BY <1>2, BudgetQuiet DEF SentToday, PastGate
<1>3. CASE FindRows \/ UpdateProvider
  <2>1. SentToday' = SentToday /\ UNCHANGED <<worker, today, overrun>>
    BY <1>0, <1>3 DEF FindRows, UpdateProvider, SentToday, sends, history
  <2> QED BY <2>1, BudgetQuiet DEF PastGate
<1>4. CASE Crash
  <2> SUFFICES ASSUME ~overrun' PROVE BudgetInv'
    BY DEF BudgetInv
  <2>1. ~overrun /\ \A w \in Workers : PastGate(w) => worker[w].pc = "mail"
    BY <1>4 DEF Crash, PastGate
  <2>2. UNCHANGED <<today, provider>> /\ \A w \in Workers : ~PastGate(w)'
    BY <1>4, CrashEffect DEF Crash, PastGate
  <2>3. today <= SentToday /\ today <= DailyLimit
    BY <2>1 DEF BudgetInv, CountIsRight
  <2> QED BY <2>2, <2>3 DEF BudgetInv, SentToday
<1>5. CASE Midnight
  <2> SUFFICES ASSUME ~overrun' PROVE BudgetInv'
    BY DEF BudgetInv
  <2>1. \A w \in Workers : ~PastGate(w)
    BY <1>5 DEF Midnight
  <2>2. today' = 0 /\ SentToday' = 0 /\ \A w \in Workers : ~PastGate(w)'
    BY <1>5, <2>1, MidnightEffect DEF Midnight, PastGate, SentToday
  <2> QED BY <1>0, <2>2 DEF BudgetInv
<1> QED
  <2>1. [Next]_vars => \/ \E w \in Workers : Send(w) \/ SendThrows(w)
                       \/ FindRows \/ UpdateProvider \/ Crash \/ Midnight
                       \/ UNCHANGED <<worker, provider, today, overrun>>
    BY NextIsStep DEF Step, vars, AdminRequest, Begin, WriteStatus, Remove, Dispatch, DispatchThrows, FindDue, SkipDue,
           StartDispatch, Clear, Resolve, Insert, Flip, UnchangedByTick, SendTick, ClaimRow, Maintenance,
           FindRunning, Count, Complete, Requeue, Unsubscribe, Bounce, Reply, Exclude, Stopping, LeadChange, Lifting, Resubscribe, Include, Restate, sends, history
  <2> QED BY <1>1, <1>2, <1>3, <1>4, <1>5, <2>1

LEMMA BudgetInit == ASSUME BoundsAssumption, Init PROVE BudgetInv
<1>1. /\ today = 0 /\ SentToday = 0 /\ DailyLimit \in Nat
      /\ \A w \in Workers : ~PastGate(w)
  BY DEF Init, SentToday, PastGate, IdleWorker, BoundsAssumption
<1> QED BY <1>1 DEF BudgetInv

\* The daily limit of a provider holds while sends do not overlap, none is cut by
\* midnight and none fails after its mail (EmailSenderService.send, the send-email
\* processor).
THEOREM BudgetHolds == Spec => []BudgetKept
<1>1. Init => TypeOK /\ BudgetInv
  BY BoundsAssumption, InitTyped, BudgetInit
<1>2. TypeOK /\ BudgetInv /\ TypeOK' /\ [Next]_vars => BudgetInv'
  BY BoundsAssumption, BudgetKeeps
<1>3. BudgetInv => BudgetKept
  BY DEF BudgetInv, BudgetKept
<1> QED BY <1>1, <1>2, <1>3, TypeCorrect, PTL DEF Spec

------------------------------------------------------------------------------
(* Leads that leave *)

\* A lead that left is known to the gate, and no send of it is past the gate, unless one
\* was when it left.
StopInv ==
  /\ \A l \in stopped \ raced : l \in suppressed \cup excluded \/ lead[l] = "REPLIED"
  /\ \A w \in Workers : PastGate(w) => LeadOf(worker[w].row) \notin stopped \ raced

\* A step after which no more leads have left, none is forgotten, and no send passed the gate.
LEMMA StopQuiet ==
  ASSUME StopInv, stopped' \ raced' \subseteq stopped \ raced,
         \A l \in stopped' \ raced' :
           /\ l \in suppressed \cup excluded => l \in suppressed' \cup excluded'
           /\ lead[l] = "REPLIED" => lead'[l] = "REPLIED" \/ l \in suppressed' \cup excluded',
         \A w \in Workers : PastGate(w)' => PastGate(w) /\ worker'[w].row = worker[w].row
  PROVE  StopInv'
BY DEF StopInv

LEMMA StopBySends ==
  ASSUME BoundsAssumption, TypeOK, StopInv, NEW w \in Workers, Send(w) \/ SendThrows(w)
  PROVE  StopInv'
<1>0. /\ lead \in [Leads -> Stops \cup {"NEW", "CONTACTED", "CONVERTED"}]
      /\ worker \in [Workers -> WorkerRecs]
      /\ ~Idle(w) => LeadOf(worker[w].row) \in Leads
      /\ stopped \subseteq Leads
  BY TypesUsed, RowParts DEF TypeOK
<1>1. UNCHANGED <<stopped, raced, suppressed, excluded>>
  BY DEF Send, SendThrows, Take, Skip, NoDraft, NoProvider, Reschedule, Pass, Mail, Record, Account, UnchangedBySend,
         history
<1>2. CASE ~Pass(w)
  <2>1. \A v \in Workers : PastGate(v)' => PastGate(v) /\ worker'[v].row = worker[v].row
    <3>1. CASE Take(w)
      BY <3>1, TakeEffect DEF PastGate
    <3>2. CASE Mail(w) \/ Record(w)
      <4>1. PastGate(w)
        BY <3>2 DEF Mail, Record, PastGate
      <4>2. \E pc \in Pcs : pc # "idle" /\ WorkerMoves(w, pc)
        BY <3>2, SendEffect DEF Pcs
      <4> QED BY <4>1, <4>2 DEF WorkerMoves, PastGate
    <3>3. CASE Skip(w) \/ NoDraft(w) \/ NoProvider(w) \/ Reschedule(w) \/ Account(w) \/ SendThrows(w)
      <4>1. WorkerMoves(w, "idle")
        BY <3>3, SendEffect
      <4> QED BY <4>1 DEF WorkerMoves, PastGate
    <3> QED BY <1>2, <3>1, <3>2, <3>3 DEF Send
  <2>2. \A l \in stopped \ raced : lead[l] = "REPLIED" => lead'[l] = "REPLIED" \/ l \in suppressed
    <3>1. CASE Skip(w)
      BY <1>0, <3>1 DEF Skip, Idle
    <3>2. CASE Account(w)
      <4>1. LeadOf(worker[w].row) \notin stopped \ raced /\ ~Idle(w)
        BY <3>2 DEF StopInv, Account, PastGate, Idle
      <4> QED BY <1>0, <3>2, <4>1 DEF Account
    <3>3. CASE UNCHANGED lead
      BY <3>3
    <3> QED BY <1>2, <3>1, <3>2, <3>3 DEF Send, SendThrows, Take, NoDraft, NoProvider, Reschedule, Mail, Record
  <2> QED BY <1>1, <2>1, <2>2, StopQuiet
<1>3. CASE Pass(w)
  <2>1. ~GateCloses(worker[w].row) /\ UNCHANGED lead
    BY <1>3 DEF Pass
  <2>2. LeadOf(worker[w].row) \notin stopped \ raced
    BY <2>1 DEF GateCloses, StopInv
  <2>3. WorkerMoves(w, "mail")
    BY <1>3, SendEffect
  <2>4. worker'[w].row = worker[w].row /\ \A v \in Workers : v # w => worker'[v] = worker[v]
    BY <2>3 DEF WorkerMoves
  <2> QED BY <1>1, <2>1, <2>2, <2>4 DEF StopInv, PastGate
<1> QED BY <1>2, <1>3

\* A lead that nothing speaks against any more has not left; of the others nothing changes.
LEMMA LiftingEffect ==
  ASSUME TypeOK, NEW l \in Leads, Resubscribe(l) \/ Include(l) \/ Restate(l)
  PROVE  /\ Lifting(l) /\ suppressed' \subseteq suppressed /\ excluded' \subseteq excluded
         /\ \A k \in Leads : k # l => lead'[k] = lead[k]
         /\ \A k \in Leads : k # l /\ k \in suppressed \cup excluded => k \in suppressed' \cup excluded'
         /\ \A k \in Leads : lead'[k] = "REPLIED" => lead[k] = "REPLIED"
<1>0. lead \in [Leads -> Stops \cup {"NEW", "CONTACTED", "CONVERTED"}]
  BY DEF TypeOK
<1>1. CASE Resubscribe(l)
  BY <1>0, <1>1 DEF Resubscribe
<1>2. CASE Include(l)
  BY <1>0, <1>2 DEF Include
<1>3. CASE Restate(l)
  <2>1. PICK s \in {"NEW", "CONVERTED"} : lead' = [lead EXCEPT ![l] = s]
    BY <1>3 DEF Restate
  <2> QED BY <1>0, <1>3, <2>1 DEF Restate
<1> QED BY <1>1, <1>2, <1>3

LEMMA StopByLeads ==
  ASSUME TypeOK, StopInv, NEW l \in Leads, LeadChange(l)
  PROVE  StopInv'
<1>0. lead \in [Leads -> Stops \cup {"NEW", "CONTACTED", "CONVERTED"}] /\ stopped \subseteq Leads
  BY DEF TypeOK
<1>1. CASE Resubscribe(l) \/ Include(l) \/ Restate(l)
  <2>1. UNCHANGED worker /\ raced' = raced
    BY <1>1, LiftingEffect DEF Lifting, sends
  <2>2. /\ stopped' \subseteq stopped
        /\ l \in stopped' => l \in suppressed' \cup excluded' \/ lead'[l] = "REPLIED"
    <3>1. Lifting(l)
      BY <1>1, LiftingEffect
    <3>2. CASE l \notin stopped \/ l \in suppressed' \cup excluded' \/ lead'[l] = "REPLIED"
      BY <3>1, <3>2 DEF Lifting
    <3>3. CASE ~(l \notin stopped \/ l \in suppressed' \cup excluded' \/ lead'[l] = "REPLIED")
      BY <3>1, <3>3 DEF Lifting
    <3> QED BY <3>2, <3>3
  <2>3. \A k \in stopped' \ raced' : k \in suppressed' \cup excluded' \/ lead'[k] = "REPLIED"
    <3>1. SUFFICES ASSUME NEW k \in stopped' \ raced', k # l
                   PROVE  k \in suppressed' \cup excluded' \/ lead'[k] = "REPLIED"
      BY <2>2
    <3>2. k \in Leads /\ (k \in suppressed \cup excluded \/ lead[k] = "REPLIED")
      BY <1>0, <2>1, <2>2 DEF StopInv
    <3> QED BY <1>1, <3>1, <3>2, LiftingEffect
  <2>4. \A w \in Workers : PastGate(w) => LeadOf(worker[w].row) \notin stopped' \ raced'
    BY <2>1, <2>2 DEF StopInv
  <2> QED BY <2>1, <2>3, <2>4 DEF StopInv, PastGate
<1>2. CASE Unsubscribe(l) \/ Bounce(l) \/ Reply(l) \/ Exclude(l)
  <2>1. /\ UNCHANGED worker /\ stopped' = stopped \cup {l}
        /\ raced' = IF \E w \in Workers : PastGate(w) /\ LeadOf(worker[w].row) = l
                      THEN raced \cup {l} ELSE raced
    BY <1>2 DEF Unsubscribe, Bounce, Reply, Exclude, Stopping, sends
  <2>2. /\ suppressed \subseteq suppressed' /\ excluded \subseteq excluded'
        /\ \A k \in Leads : k # l => lead'[k] = lead[k]
        /\ l \in suppressed' \cup excluded' \/ lead'[l] = "REPLIED"
    BY <1>0, <1>2 DEF Unsubscribe, Bounce, Reply, Exclude
  <2>3. \A k \in stopped' \ raced' : k \in suppressed' \cup excluded' \/ lead'[k] = "REPLIED"
    <3>1. \A k \in stopped' \ raced' : k = l \/ k \in stopped \ raced
      BY <2>1
    <3> QED BY <1>0, <2>2, <3>1 DEF StopInv
  <2>4. \A w \in Workers : PastGate(w) => LeadOf(worker[w].row) \notin stopped' \ raced'
    BY <2>1 DEF StopInv
  <2> QED BY <2>1, <2>3, <2>4 DEF StopInv, PastGate
<1> QED BY <1>1, <1>2 DEF LeadChange

LEMMA StopKeeps ==
  ASSUME BoundsAssumption, TypeOK, StopInv, [Next]_vars
  PROVE  StopInv'
<1>1. CASE \E w \in Workers : Send(w) \/ SendThrows(w)
  BY <1>1, StopBySends
<1>2. CASE \E l \in Leads : LeadChange(l)
  BY <1>2, StopByLeads
<1>3. CASE Crash \/ Midnight \/ UNCHANGED <<worker, stopped, raced, lead, suppressed, excluded>>
  <2>1. UNCHANGED <<stopped, raced, lead, suppressed, excluded>>
    BY <1>3 DEF Crash, Midnight, people
  <2>2. \A w \in Workers : PastGate(w)' => PastGate(w) /\ worker'[w].row = worker[w].row
    <3>1. CASE Crash
      BY <3>1, CrashEffect DEF PastGate
    <3>2. CASE Midnight
      BY <3>2, MidnightEffect DEF PastGate
    <3>3. CASE UNCHANGED worker
      BY <3>3 DEF PastGate
    <3> QED BY <1>3, <3>1, <3>2, <3>3
  <2> QED BY <2>1, <2>2, StopQuiet
<1> QED
  <2>1. [Next]_vars => \/ \E w \in Workers : Send(w) \/ SendThrows(w)
                       \/ \E l \in Leads : LeadChange(l)
                       \/ Crash \/ Midnight
                       \/ UNCHANGED <<worker, stopped, raced, lead, suppressed, excluded>>
    BY NextIsStep DEF Step, vars, AdminRequest, Begin, WriteStatus, Remove, Dispatch, DispatchThrows, FindDue, SkipDue,
           StartDispatch, Clear, Resolve, Insert, Flip, UnchangedByTick, SendTick, FindRows, ClaimRow, Maintenance,
           FindRunning, Count, Complete, Requeue, UpdateProvider, sends, people, history
  <2> QED BY <1>1, <1>2, <1>3, <2>1

LEMMA StopInit == ASSUME Init PROVE StopInv
BY DEF Init, StopInv, PastGate, IdleWorker

\* No step mails a lead that has left.
LEMMA OnlyMailMails ==
  ASSUME BoundsAssumption, TypeOK, [Next]_vars, NEW m \in Mailings, mails'[m] > mails[m]
  PROVE  \E w \in Workers : Mail(w) /\ PastGate(w) /\ MailingOf(worker[w].row) = m
<1>0. mails \in [Mailings -> Nat]
  BY DEF TypeOK
<1>1. mails' # mails
  BY <1>0
<1>2. \E w \in Workers : Mail(w)
  BY <1>1, NextIsStep DEF Step, vars, AdminRequest, Begin, WriteStatus, Remove, Dispatch, DispatchThrows, FindDue, SkipDue,
           StartDispatch, Clear, Resolve, Insert, Flip, UnchangedByTick, SendTick, FindRows, ClaimRow, Maintenance,
           FindRunning, Count, Complete, Requeue, Unsubscribe, Bounce, Reply, Exclude, Stopping, LeadChange, Lifting, Resubscribe, Include, Restate, UpdateProvider, Midnight,
           Crash, Send, SendThrows, Take, Skip, NoDraft, NoProvider, Reschedule, Pass, Record, Account, sends, history
<1>3. PICK w \in Workers : Mail(w)
  BY <1>2
<1>4. mails' = [mails EXCEPT ![MailingOf(worker[w].row)] = @ + 1] /\ PastGate(w)
  BY <1>3 DEF Mail, PastGate
<1> QED BY <1>0, <1>3, <1>4

\* A lead that replied, unsubscribed, bounced or was excluded is not mailed as long as
\* nobody takes that back (EmailSenderService.send's gate), unless a send of its had
\* passed the gate by then.
THEOREM StopsAreHeeded == Spec => StopHeeded
<1>1. Init => TypeOK /\ StopInv
  BY BoundsAssumption, InitTyped, StopInit
<1>2. TypeOK /\ StopInv /\ TypeOK' /\ [Next]_vars => StopInv'
  BY BoundsAssumption, StopKeeps
<1>3. TypeOK /\ StopInv /\ [Next]_vars =>
        [\A m \in Mailings : mails'[m] > mails[m] => m[1] \notin stopped \ raced]_vars
  <2> SUFFICES ASSUME TypeOK, StopInv, [Next]_vars, NEW m \in Mailings, mails'[m] > mails[m]
               PROVE  m[1] \notin stopped \ raced
    OBVIOUS
  <2>1. PICK w \in Workers : Mail(w) /\ PastGate(w) /\ MailingOf(worker[w].row) = m
    BY BoundsAssumption, OnlyMailMails
  <2>2. worker[w].row \in Rows
    BY <2>1 DEF TypeOK, PastGate, Idle
  <2> QED BY <2>1, <2>2, RowParts DEF StopInv
<1> QED BY <1>1, <1>2, <1>3, TypeCorrect, PTL DEF Spec, StopHeeded

------------------------------------------------------------------------------
(* What becomes of a row *)

Failures == {"FAILED", "CANCELLED"}

\* How the status of a row can change in a step.
StatusStep(r) ==
  \/ row'[r].status = row[r].status
  \/ row'[r].status = "NONE" /\ \E t \in Ticks : Clear(t)
  \/ row[r].status = "NONE" /\ row'[r].status = "QUEUED" /\ \E t \in Ticks : Insert(t) /\ r \in NewRows(t)
  \/ row[r].status # "NONE" /\ row'[r].status \in Failures
  \/ row[r].status \in Active /\ row'[r].status \in Active
  \/ row[r].status # "NONE" /\ row'[r].status = "QUEUED" /\ \E w \in Workers : Reschedule(w)
  \/ row[r].status # "NONE" /\ row'[r].status = "SENT" /\ \E w \in Workers : Record(w) /\ worker[w].row = r
  \/ row[r].status = "SENT" /\ row'[r].status = "BOUNCED"
  \/ row[r].status # "NONE" /\ row'[r].status = "SKIPPED" /\
       ((\E w \in Workers : (Skip(w) \/ NoDraft(w)) /\ worker[w].row = r) \/ LeadOf(r) \in stopped')

LEMMA RowSteps ==
  ASSUME BoundsAssumption, TypeOK, [Next]_vars, NEW r \in Rows
  PROVE  StatusStep(r)
<1>0. row \in [Rows -> RowRecs]
  BY TypesUsed
<1>1. CASE UNCHANGED row
  BY <1>1 DEF StatusStep
<1>2. CASE Begin
  BY <1>2, RequestedRows DEF StatusStep, Failures, Active
<1>3. ASSUME NEW t \in Ticks, Clear(t) PROVE StatusStep(r)
  BY <1>0, <1>3 DEF Clear, SetRows, StatusStep, RowRecs
<1>4. ASSUME NEW t \in Ticks, Insert(t) PROVE StatusStep(r)
  <2>1. PICK S \in SUBSET NewRows(t) :
          row' = [q \in Rows |-> IF q \in S THEN [status |-> "QUEUED", running |-> TRUE] ELSE row[q]]
    BY <1>4 DEF Insert
  <2>2. r \in NewRows(t) => row[r].status = "NONE"
    BY DEF NewRows
  <2> QED BY <1>0, <1>4, <2>1, <2>2 DEF StatusStep
<1>5. ASSUME NEW q \in Rows, ClaimRow(q) \/ Requeue(q) PROVE StatusStep(r)
  BY <1>5, RowsEffect DEF StatusStep, RowGets, Active
<1>6. ASSUME NEW l \in Leads, Unsubscribe(l) \/ Bounce(l) PROVE StatusStep(r)
  <2>1. l \in stopped'
    BY <1>6 DEF Unsubscribe, Bounce, Stopping
  <2> QED BY <1>6, <2>1, RowsEffect DEF StatusStep
<1>7. ASSUME NEW w \in Workers, Skip(w) \/ NoDraft(w) \/ NoProvider(w) \/ Reschedule(w) \/ Record(w) \/ SendThrows(w)
      PROVE  StatusStep(r)
  <2>1. CASE Skip(w) \/ NoDraft(w)
    BY <2>1, SendEffect DEF StatusStep, RowGets
  <2>2. CASE NoProvider(w) \/ Reschedule(w) \/ SendThrows(w)
    BY <2>2, SendEffect DEF StatusStep, RowGets, Active, Failures
  <2>3. CASE Record(w)
    BY <2>3, SendEffect DEF StatusStep, RowGets
  <2> QED BY <1>7, <2>1, <2>2, <2>3
<1> QED
  <2>1. [Next]_vars =>
          \/ Begin \/ \E t \in Ticks : Clear(t) \/ Insert(t)
          \/ \E q \in Rows : ClaimRow(q) \/ Requeue(q)
          \/ \E l \in Leads : Unsubscribe(l) \/ Bounce(l)
          \/ \E w \in Workers : Skip(w) \/ NoDraft(w) \/ NoProvider(w) \/ Reschedule(w) \/ Record(w) \/ SendThrows(w)
          \/ UNCHANGED row
    BY NextIsStep DEF Step, vars, AdminRequest, WriteStatus, Remove, Dispatch, DispatchThrows, FindDue, SkipDue,
           StartDispatch, Resolve, Flip, SendTick, FindRows, Maintenance, FindRunning, Count, Complete, Reply, Exclude,
           LeadChange, Lifting, Resubscribe, Include, Restate, UpdateProvider, Midnight, Crash, Send, Take, Pass, Mail, Account, rows
  <2> QED BY <1>1, <1>2, <1>3, <1>4, <1>5, <1>6, <1>7, <2>1

------------------------------------------------------------------------------
(* Dispatches *)

\* One dispatch is under way at a time, and until it inserts, no row is its.
DispatchInv ==
  /\ \A t, u \in Dispatching : t = u
  /\ \A t \in Dispatching : built >= 1
  /\ \A t \in Ticks : tick[t].pc \in {"clear", "resolve"} =>
       \A r \in Rows : r[1] = built => row[r].status = "NONE"

\* A step of no dispatch.
LEMMA TicksAlone ==
  ASSUME [Next]_vars
  PROVE  \/ \E t \in Ticks : Dispatch(t) \/ DispatchThrows(t)
         \/ Crash
         \/ UNCHANGED <<tick, built>>
BY NextIsStep DEF Step, vars, AdminRequest, Begin, WriteStatus, Remove, SendTick, FindRows, ClaimRow, Maintenance,
       FindRunning, Count, Complete, Requeue, Unsubscribe, Bounce, Reply, Exclude, Stopping, LeadChange, Lifting, Resubscribe, Include, Restate, UpdateProvider, Midnight,
       Send, SendThrows, Take, Skip, NoDraft, NoProvider, Reschedule, Pass, Mail, Record, Account, UnchangedBySend

LEMMA DispatchKeeps ==
  ASSUME BoundsAssumption, TypeOK, DispatchInv, [Next]_vars
  PROVE  DispatchInv'
<1>0. built \in Nat /\ tick \in [Ticks -> TickRecs] /\ row \in [Rows -> RowRecs]
  BY TypesUsed DEF TypeOK, BoundsAssumption
<1>1. CASE Crash
  BY <1>1, CrashEffect DEF DispatchInv, Dispatching
<1>2. CASE UNCHANGED <<tick, built>>
  <2>1. \A t \in Ticks : ~Clear(t) /\ (Insert(t) => tick[t].pc = "insert")
    <3>1. ASSUME NEW t \in Ticks, Clear(t) PROVE FALSE
      BY <1>0, <1>2, <3>1, DispatchTick DEF TickMoves, Clear
    <3> QED BY <3>1 DEF Insert
  <2>2. ASSUME NEW t \in Ticks, tick[t].pc \in {"clear", "resolve"}, NEW r \in Rows, r[1] = built
        PROVE  row'[r].status = "NONE"
    <3>1. row[r].status = "NONE"
      BY <2>2 DEF DispatchInv
    <3>2. ASSUME NEW u \in Ticks, Insert(u) PROVE FALSE
      BY <2>1, <2>2, <3>2 DEF DispatchInv, Dispatching
    <3> QED BY <2>1, <3>1, <3>2, RowSteps DEF StatusStep, Active
  <2> QED BY <1>2, <2>2 DEF DispatchInv, Dispatching
<1>3. ASSUME NEW t \in Ticks, Dispatch(t) \/ DispatchThrows(t) PROVE DispatchInv'
  <2>1. CASE FindDue(t) \/ SkipDue(t) \/ Flip(t) \/ DispatchThrows(t)
    <3>1. /\ UNCHANGED <<row, built>> /\ tick'[t].pc \in {"idle", "found"}
          /\ \A u \in Ticks : u # t => tick'[u] = tick[u]
      BY <2>1, DispatchTick DEF TickMoves, FindDue, SkipDue, Flip, DispatchThrows
    <3> QED BY <3>1 DEF DispatchInv, Dispatching
  <2>2. CASE StartDispatch(t)
    <3>1. /\ UNCHANGED row /\ built' = built + 1 /\ Dispatching = {} /\ tick'[t].pc = "clear"
          /\ \A u \in Ticks : u # t => tick'[u] = tick[u]
      BY <2>2, DispatchTick DEF TickMoves, StartDispatch
    <3>2. \A r \in Rows : row[r].status # "NONE" => r[1] # built + 1
      BY <1>0, RowParts DEF TypeOK, Dispatches
    <3> QED BY <1>0, <3>1, <3>2 DEF DispatchInv, Dispatching
  <2>3. CASE Clear(t)
    <3>1. /\ UNCHANGED built /\ tick[t].pc = "clear" /\ tick'[t].pc = "resolve"
          /\ \A u \in Ticks : u # t => tick'[u] = tick[u]
      BY <2>3, DispatchTick DEF TickMoves, Clear
    <3>2. \A r \in Rows : row'[r].status = row[r].status \/ row'[r].status = "NONE"
      BY <1>0, <2>3 DEF Clear, SetRows, RowRecs
    <3> QED BY <3>1, <3>2 DEF DispatchInv, Dispatching
  <2>4. CASE Resolve(t)
    <3>1. /\ UNCHANGED <<row, built>> /\ tick[t].pc = "resolve" /\ tick'[t].pc \in {"idle", "insert"}
          /\ \A u \in Ticks : u # t => tick'[u] = tick[u]
      BY <2>4, DispatchTick DEF TickMoves, Resolve
    <3> QED BY <3>1 DEF DispatchInv, Dispatching
  <2>5. CASE Insert(t)
    <3>1. /\ UNCHANGED built /\ tick[t].pc = "insert" /\ tick'[t].pc \in {"insert", "flip"}
          /\ \A u \in Ticks : u # t => tick'[u] = tick[u]
      BY <2>5, DispatchTick DEF TickMoves, Insert
    <3>2. \A u \in Ticks : tick'[u].pc \notin {"clear", "resolve"}
      BY <3>1 DEF DispatchInv, Dispatching
    <3> QED BY <3>1, <3>2 DEF DispatchInv, Dispatching
  <2> QED BY <1>3, <2>1, <2>2, <2>3, <2>4, <2>5 DEF Dispatch
<1> QED BY <1>1, <1>2, <1>3, TicksAlone

LEMMA DispatchInit == ASSUME Init PROVE DispatchInv
BY DEF Init, DispatchInv, Dispatching, IdleTick

------------------------------------------------------------------------------
(* Nobody is forgotten *)

\* A lead that left, or whose mailings were dropped when it came back; a mailing
\* of such a lead, or one dropped itself.
Dropped(l)  == \A s \in Steps : <<l, s>> \in lost
LeadLeft(l) == l \in stopped \/ Dropped(l)
Left(m)     == m \in lost \/ m[1] \in stopped

Mailed(m) == mails[m] > 0

\* What the gate and the requests go by, and what the rows say, is true of the leads.
GoneInv ==
  /\ suppressed \cup excluded \subseteq stopped
  /\ \A l \in Leads : lead[l] = "REPLIED" => LeadLeft(l)
  /\ \A w \in Workers : worker[w].pc \in {"record", "count"} => Mailed(MailingOf(worker[w].row))
  /\ \A r \in Rows : row[r].status \in {"SENT", "BOUNCED"} => Mailed(MailingOf(r))
  /\ \A r \in Rows : row[r].status = "SKIPPED" => Left(MailingOf(r))

\* What has happened stays so: a lead that is taken back on the list has its mailings
\* dropped.
LEMMA HistoryGrows ==
  ASSUME BoundsAssumption, TypeOK, [Next]_vars
  PROVE  /\ \A m \in Mailings : Mailed(m) => Mailed(m)'
         /\ lost \subseteq lost'
         /\ \A l \in Leads : l \in stopped => l \in stopped' \/ \A s \in Steps : <<l, s>> \in lost'
<1>0. /\ mails \in [Mailings -> Nat] /\ \A w \in Workers : ~Idle(w) => worker[w].row \in Rows
      /\ stopped \subseteq Leads
  BY DEF TypeOK
<1>1. CASE UNCHANGED <<mails, lost, stopped>>
  BY <1>1 DEF Mailed
<1>2. ASSUME NEW w \in Workers, Mail(w) PROVE (\A m \in Mailings : Mailed(m) => Mailed(m)') /\ UNCHANGED <<lost, stopped>>
  BY <1>0, <1>2 DEF Mail, Mailed
<1>3. ASSUME \E t \in Ticks : Clear(t) PROVE lost \subseteq lost' /\ UNCHANGED <<mails, stopped>>
  BY <1>3 DEF Clear
<1>4. ASSUME Complete \/ \E w \in Workers : Skip(w) \/ NoDraft(w)
      PROVE  lost \subseteq lost' /\ UNCHANGED <<mails, stopped>>
  BY <1>4 DEF Complete, Skip, NoDraft
<1>5. ASSUME NEW l \in Leads, Unsubscribe(l) \/ Bounce(l) \/ Reply(l) \/ Exclude(l)
      PROVE  stopped \subseteq stopped' /\ UNCHANGED <<mails, lost>>
  BY <1>5 DEF Unsubscribe, Bounce, Reply, Exclude, Stopping
<1>6. ASSUME NEW l \in Leads, Resubscribe(l) \/ Include(l) \/ Restate(l)
      PROVE  /\ UNCHANGED mails /\ lost \subseteq lost'
             /\ \A k \in Leads : k \in stopped => k \in stopped' \/ \A s \in Steps : <<k, s>> \in lost'
  <2>1. Lifting(l)
    BY <1>6, LiftingEffect
  <2> QED BY <2>1 DEF Lifting
<1> QED
  <2>1. [Next]_vars =>
          \/ Complete \/ \E w \in Workers : Mail(w) \/ Skip(w) \/ NoDraft(w)
          \/ \E t \in Ticks : Clear(t)
          \/ \E l \in Leads : LeadChange(l)
          \/ UNCHANGED <<mails, lost, stopped>>
    BY NextIsStep DEF Step, vars, AdminRequest, Begin, WriteStatus, Remove, Dispatch, DispatchThrows, FindDue, SkipDue,
           StartDispatch, Resolve, Insert, Flip, SendTick, FindRows, ClaimRow, Maintenance,
           FindRunning, Count, Requeue, UpdateProvider, Midnight, Crash, Send, SendThrows, Take, NoProvider, Reschedule, Pass,
           Record, Account, history
  <2> QED BY <1>1, <1>2, <1>3, <1>4, <1>5, <1>6, <2>1 DEF Mailed, LeadChange

LEMMA LeftStays ==
  ASSUME BoundsAssumption, TypeOK, [Next]_vars
  PROVE  /\ \A l \in Leads : LeadLeft(l) => LeadLeft(l)'
         /\ \A m \in Mailings : Left(m) => Left(m)'
<1>1. \A l \in Leads : LeadLeft(l) => LeadLeft(l)'
  BY HistoryGrows DEF LeadLeft, Dropped
<1>2. \A m \in Mailings : Left(m) => Left(m)'
  BY HistoryGrows, RowParts DEF Left
<1> QED BY <1>1, <1>2

LEMMA LeftByLead ==
  ASSUME NEW m \in Mailings, LeadLeft(m[1]) PROVE Left(m)
BY RowParts DEF LeadLeft, Left, Dropped

LEMMA LeftByLeadNext ==
  ASSUME NEW m \in Mailings, LeadLeft(m[1])' PROVE Left(m)'
BY RowParts DEF LeadLeft, Left, Dropped

\* A send that its gate closes to is of a lead that left, or is dropped.
LEMMA SkippedHasLeft ==
  ASSUME BoundsAssumption, TypeOK, GoneInv, NEW w \in Workers, Skip(w), NEW r \in Rows, worker[w].row = r
  PROVE  Left(MailingOf(r))'
<1>2. GateCloses(r)
  BY DEF Skip
<1>3. MailingOf(r) \in Mailings /\ LeadOf(r) \in Leads /\ MailingOf(r)[1] = LeadOf(r)
  BY RowParts
<1>4. CASE campaign = "RUNNING"
  <2>1. LeadOf(r) \in suppressed \cup excluded \/ lead[LeadOf(r)] = "REPLIED"
    BY <1>2, <1>4 DEF GateCloses
  <2>2. LeadLeft(LeadOf(r))
    BY <1>3, <2>1 DEF GoneInv, LeadLeft
  <2>3. UNCHANGED stopped /\ lost \subseteq lost'
    BY DEF Skip
  <2> QED BY <1>3, <2>2, <2>3, LeftByLead DEF Left
<1>5. CASE campaign # "RUNNING"
  <2>1. MailingOf(r) \in lost'
    BY <1>5 DEF Skip
  <2> QED BY <2>1 DEF Left
<1> QED BY <1>4, <1>5

LEMMA GoneKeeps ==
  ASSUME BoundsAssumption, TypeOK, GoneInv, [Next]_vars
  PROVE  GoneInv'
<1>0. /\ lead \in [Leads -> Stops \cup {"NEW", "CONTACTED", "CONVERTED"}] /\ mails \in [Mailings -> Nat]
      /\ worker \in [Workers -> WorkerRecs]
      /\ \A w \in Workers : ~Idle(w) => MailingOf(worker[w].row) \in Mailings
  BY TypesUsed, RowParts DEF TypeOK
<1>1. (suppressed \cup excluded \subseteq stopped)'
  <2>1. ASSUME NEW l \in Leads, Unsubscribe(l) \/ Bounce(l) \/ Reply(l) \/ Exclude(l)
        PROVE  (suppressed \cup excluded \subseteq stopped)'
    BY <2>1 DEF Unsubscribe, Bounce, Reply, Exclude, Stopping, GoneInv
  <2>2. ASSUME NEW l \in Leads, Resubscribe(l) \/ Include(l) \/ Restate(l)
        PROVE  (suppressed \cup excluded \subseteq stopped)'
    <3>1. Lifting(l) /\ suppressed' \cup excluded' \subseteq suppressed \cup excluded
      BY <2>2, LiftingEffect
    <3>2. stopped' = stopped \/ (stopped' = stopped \ {l} /\ l \notin suppressed' \cup excluded')
      BY <3>1 DEF Lifting
    <3> QED BY <3>1, <3>2 DEF GoneInv
  <2>3. CASE UNCHANGED <<suppressed, excluded, stopped>>
    BY <2>3 DEF GoneInv
  <2>4. \/ \E l \in Leads : LeadChange(l)
        \/ UNCHANGED <<suppressed, excluded, stopped>>
    BY NextIsStep DEF Step, vars, AdminRequest, Begin, WriteStatus, Remove, Dispatch, DispatchThrows, FindDue, SkipDue,
           StartDispatch, Clear, Resolve, Insert, Flip, UnchangedByTick, SendTick, FindRows, ClaimRow, Maintenance,
           FindRunning, Count, Complete, Requeue, UpdateProvider, Midnight, Crash, Send, SendThrows, Take, Skip, NoDraft, NoProvider,
           Reschedule, Pass, Mail, Record, Account, UnchangedBySend, people, history
  <2> QED BY <2>1, <2>2, <2>3, <2>4 DEF LeadChange
<1>2. \A l \in Leads : lead'[l] = "REPLIED" => LeadLeft(l)'
  <2>1. \A l \in Leads : lead'[l] = "REPLIED" => lead[l] = "REPLIED" \/ l \in stopped'
    <3>1. ASSUME NEW k \in Leads, LeadChange(k)
          PROVE  \A l \in Leads : lead'[l] = "REPLIED" => lead[l] = "REPLIED" \/ l \in stopped'
      <4>1. CASE Unsubscribe(k) \/ Bounce(k) \/ Reply(k) \/ Exclude(k)
        BY <1>0, <4>1 DEF Unsubscribe, Bounce, Reply, Exclude, Stopping
      <4> QED BY <3>1, <4>1, LiftingEffect DEF LeadChange
    <3>2. ASSUME NEW w \in Workers, Skip(w) \/ Account(w)
          PROVE  \A l \in Leads : lead'[l] = "REPLIED" => lead[l] = "REPLIED"
      <4>1. CASE Skip(w)
        BY <1>0, <4>1 DEF Skip
      <4>2. CASE Account(w)
        <5>1. worker[w].becomes \in {"CONTACTED", "CONVERTED"}
          BY <1>0 DEF WorkerRecs
        <5> QED BY <1>0, <4>2, <5>1 DEF Account
      <4> QED BY <3>2, <4>1, <4>2
    <3>3. \/ \E l \in Leads : LeadChange(l)
          \/ \E w \in Workers : Skip(w) \/ Account(w)
          \/ UNCHANGED lead
      BY NextIsStep DEF Step, vars, AdminRequest, Begin, WriteStatus, Remove, Dispatch, DispatchThrows, FindDue, SkipDue,
             StartDispatch, Clear, Resolve, Insert, Flip, UnchangedByTick, SendTick, FindRows, ClaimRow, Maintenance,
             FindRunning, Count, Complete, Requeue, UpdateProvider, Midnight, Crash, Send, SendThrows, Take, NoDraft, NoProvider,
             Reschedule, Pass, Mail, Record, people
    <3> QED BY <3>1, <3>2, <3>3
  <2> QED BY <2>1, LeftStays DEF GoneInv, LeadLeft
<1>3. \A w \in Workers : worker'[w].pc \in {"record", "count"} => mails'[MailingOf(worker'[w].row)] > 0
  <2>1. ASSUME NEW w \in Workers, worker'[w].pc \in {"record", "count"}
        PROVE  \/ worker[w].pc \in {"record", "count"} /\ worker'[w].row = worker[w].row
               \/ Mail(w) /\ worker'[w].row = worker[w].row
    <3>1. CASE Crash
      BY <2>1, <3>1, CrashEffect
    <3>2. CASE Midnight
      BY <2>1, <3>2, MidnightEffect
    <3>3. CASE UNCHANGED worker
      BY <2>1, <3>3
    <3>4. ASSUME NEW v \in Workers, Send(v) \/ SendThrows(v)
          PROVE  \/ worker[w].pc \in {"record", "count"} /\ worker'[w].row = worker[w].row
                 \/ Mail(w) /\ worker'[w].row = worker[w].row
      <4>1. CASE Take(v)
        BY <2>1, <4>1, TakeEffect
      <4>2. CASE Skip(v) \/ NoDraft(v) \/ NoProvider(v) \/ Reschedule(v) \/ Account(v) \/ SendThrows(v)
        BY <2>1, <4>2, SendEffect DEF WorkerMoves
      <4>3. CASE Pass(v)
        BY <2>1, <4>3, SendEffect DEF WorkerMoves
      <4>4. CASE Mail(v)
        BY <2>1, <4>4, SendEffect DEF WorkerMoves
      <4>5. CASE Record(v)
        BY <2>1, <4>5, SendEffect DEF WorkerMoves, Record
      <4> QED BY <3>4, <4>1, <4>2, <4>3, <4>4, <4>5 DEF Send
    <3>5. \/ \E v \in Workers : Send(v) \/ SendThrows(v)
          \/ Crash \/ Midnight \/ UNCHANGED worker
      BY NextIsStep DEF Step, vars, AdminRequest, Begin, WriteStatus, Remove, Dispatch, DispatchThrows, FindDue, SkipDue,
             StartDispatch, Clear, Resolve, Insert, Flip, UnchangedByTick, SendTick, FindRows, ClaimRow, Maintenance,
             FindRunning, Count, Complete, Requeue, Unsubscribe, Bounce, Reply, Exclude, Stopping, LeadChange, Lifting, Resubscribe, Include, Restate, UpdateProvider, sends
    <3> QED BY <3>1, <3>2, <3>3, <3>4, <3>5
  <2>2. SUFFICES ASSUME NEW w \in Workers, worker'[w].pc \in {"record", "count"}
                 PROVE  mails'[MailingOf(worker'[w].row)] > 0
    OBVIOUS
  <2>3. CASE worker[w].pc \in {"record", "count"} /\ worker'[w].row = worker[w].row
    <3>1. Mailed(MailingOf(worker[w].row)) /\ MailingOf(worker[w].row) \in Mailings
      BY <1>0, <2>3 DEF GoneInv, Idle
    <3>2. Mailed(MailingOf(worker[w].row)) => mails'[MailingOf(worker[w].row)] > 0
      BY <3>1, HistoryGrows DEF Mailed
    <3> QED BY <2>3, <3>1, <3>2 DEF Mailed
  <2>4. CASE Mail(w) /\ worker'[w].row = worker[w].row
    <3>1. /\ mails' = [mails EXCEPT ![MailingOf(worker[w].row)] = @ + 1]
          /\ MailingOf(worker[w].row) \in Mailings
      BY <1>0, <2>4 DEF Mail, Idle
    <3>2. mails'[MailingOf(worker[w].row)] > 0
      BY <1>0, <3>1
    <3> QED BY <2>4, <3>2 DEF Mailed
  <2> QED BY <2>1, <2>2, <2>3, <2>4
<1>4. ASSUME NEW r \in Rows
      PROVE  /\ row'[r].status \in {"SENT", "BOUNCED"} => mails'[MailingOf(r)] > 0
             /\ row'[r].status = "SKIPPED" => Left(MailingOf(r))'
  <2>1. MailingOf(r) \in Mailings /\ MailingOf(r)[1] = LeadOf(r) /\ StatusStep(r)
    BY RowParts, RowSteps
  <2>2. row'[r].status \in {"SENT", "BOUNCED"} => Mailed(MailingOf(r))
    <3>1. \A w \in Workers : Record(w) /\ worker[w].row = r => Mailed(MailingOf(r))
      BY DEF GoneInv, Record
    <3> QED BY <2>1, <3>1 DEF StatusStep, GoneInv, Active, Failures
  <2>3. row'[r].status = "SKIPPED" => Left(MailingOf(r))'
    <3>1. row[r].status = "SKIPPED" => Left(MailingOf(r))'
      BY <2>1, LeftStays DEF GoneInv
    <3>2. LeadOf(r) \in stopped' => Left(MailingOf(r))'
      BY <2>1 DEF Left
    <3>3. \A w \in Workers : (Skip(w) \/ NoDraft(w)) /\ worker[w].row = r => Left(MailingOf(r))'
      <4>1. ASSUME NEW w \in Workers, Skip(w), worker[w].row = r PROVE Left(MailingOf(r))'
        BY <4>1, SkippedHasLeft
      <4>2. ASSUME NEW w \in Workers, NoDraft(w), worker[w].row = r PROVE Left(MailingOf(r))'
        BY <4>2 DEF NoDraft, Left
      <4> QED BY <4>1, <4>2
    <3> QED BY <2>1, <3>1, <3>2, <3>3 DEF StatusStep, Active, Failures
  <2> QED BY <2>1, <2>2, <2>3, HistoryGrows DEF Mailed
<1> QED BY <1>1, <1>2, <1>3, <1>4 DEF GoneInv, Mailed

\* Each mailing was mailed, was dropped, or is in a row that is not settled or failed.
InRow(m)     == \E r \in Rows : MailingOf(r) = m /\ row[r].status \in Active \cup Failures
Accounted(m) == Mailed(m) \/ Left(m) \/ InRow(m)

\* A lead that is not in the audience a dispatch resolved has left, and a dispatch that
\* is about to set its campaign running has a row for each of the others.
AudienceInv ==
  /\ \A t \in Ticks : tick[t].pc \in {"insert", "flip"} =>
       \A l \in Leads \ tick[t].audience : LeadLeft(l)
  /\ \A t \in Ticks : tick[t].pc = "flip" =>
       \A r \in Rows : r[1] = built /\ LeadOf(r) \in tick[t].audience => row[r].status # "NONE"

\* Once a campaign has been set running, every mailing is accounted for.
Reached == campaign \in {"RUNNING", "PAUSED", "COMPLETED"} \/ api \in {"RUNNING", "PAUSED"}

ReachInv == Reached => \A m \in Mailings : Accounted(m)

LEMMA WrittenIsAccounted ==
  ASSUME TypeOK, GoneInv, NEW r \in Rows, row[r].status # "NONE"
  PROVE  Accounted(MailingOf(r))
<1>1. row[r].status \in RowStatuses
  BY TypesUsed DEF RowRecs
<1> QED BY <1>1 DEF RowStatuses, GoneInv, Accounted, InRow, Failures

LEMMA WrittenIsAccountedNext ==
  ASSUME TypeOK', GoneInv', NEW r \in Rows, row'[r].status # "NONE"
  PROVE  Accounted(MailingOf(r))'
<1>1. row'[r].status \in RowStatuses
  BY DEF TypeOK
<1> QED BY <1>1 DEF RowStatuses, GoneInv, Accounted, InRow, Failures

\* Only a dispatch that begins again drops what was accounted for, unless it is the
\* first to do so.
LEMMA AccountedStays ==
  ASSUME BoundsAssumption, TypeOK, GoneInv, TypeOK', GoneInv', [Next]_vars,
         NEW m \in Mailings, Accounted(m)
  PROVE  Accounted(m)' \/ (\E t \in Ticks : Clear(t) /\ api = "idle" /\ campaign = "DISPATCHING")
<1>1. CASE Mailed(m) \/ Left(m)
  BY <1>1, HistoryGrows, LeftStays DEF Accounted
<1>2. CASE InRow(m)
  <2>1. PICK r \in Rows : MailingOf(r) = m /\ row[r].status \in Active \cup Failures
    BY <1>2 DEF InRow
  <2>2. row[r].status # "NONE"
    BY <2>1 DEF Active, Failures
  <2>3. CASE row'[r].status # "NONE"
    BY <2>1, <2>3, WrittenIsAccountedNext
  <2>4. CASE row'[r].status = "NONE"
    <3>1. PICK t \in Ticks : Clear(t)
      BY <2>2, <2>4, RowSteps DEF StatusStep, Active, Failures
    <3>2. row[r].status \in Active
      <4>1. row \in [Rows -> RowRecs]
        BY TypesUsed
      <4>2. SetRows(Partial, "NONE")
        BY <3>1 DEF Clear
      <4>3. r \in Partial
        BY <2>2, <2>4, <4>1, <4>2 DEF SetRows
      <4> QED BY <4>3 DEF Partial, WithStatus
    <3>3. CASE api = "idle" /\ campaign = "DISPATCHING"
      BY <3>1, <3>3
    <3>4. CASE ~(api = "idle" /\ campaign = "DISPATCHING")
      <4>1. lost' = lost \cup {MailingOf(q) : q \in Partial}
        BY <3>1, <3>4 DEF Clear
      <4>2. m \in lost'
        BY <2>1, <3>2, <4>1 DEF Partial, WithStatus
      <4> QED BY <4>2 DEF Accounted, Left
    <3> QED BY <3>3, <3>4
  <2> QED BY <2>3, <2>4
<1> QED BY <1>1, <1>2 DEF Accounted

LEMMA AudienceKeeps ==
  ASSUME BoundsAssumption, TypeOK, DispatchInv, GoneInv, AudienceInv, [Next]_vars
  PROVE  AudienceInv'
<1>0. built \in Nat /\ tick \in [Ticks -> TickRecs] /\ row \in [Rows -> RowRecs]
  BY TypesUsed DEF TypeOK, BoundsAssumption
<1>1. CASE Crash
  BY <1>1, CrashEffect DEF AudienceInv
<1>2. \A r \in Rows : row[r].status # "NONE" /\ row'[r].status = "NONE" => \E t \in Ticks : Clear(t)
  BY RowSteps DEF StatusStep, Active, Failures
<1>3. CASE UNCHANGED <<tick, built>>
  <2>1. \A t \in Ticks : ~Clear(t)
    <3>1. ASSUME NEW t \in Ticks, Clear(t) PROVE FALSE
      BY <1>0, <1>3, <3>1, DispatchTick DEF TickMoves, Clear
    <3> QED BY <3>1
  <2> QED BY <1>2, <1>3, <2>1, LeftStays DEF AudienceInv
<1>4. ASSUME NEW t \in Ticks, Dispatch(t) \/ DispatchThrows(t) PROVE AudienceInv'
  <2>1. CASE FindDue(t) \/ SkipDue(t) \/ Flip(t) \/ DispatchThrows(t)
    <3>1. /\ UNCHANGED <<row, built>> /\ tick'[t].pc \in {"idle", "found"}
          /\ \A u \in Ticks : u # t => tick'[u] = tick[u]
      BY <2>1, DispatchTick DEF TickMoves, FindDue, SkipDue, Flip, DispatchThrows
    <3> QED BY <3>1, LeftStays DEF AudienceInv
  <2>2. CASE StartDispatch(t) \/ Clear(t)
    <3>1. /\ tick'[t].pc \in {"clear", "resolve"} /\ \A u \in Ticks : u # t => tick'[u] = tick[u]
      BY <2>2, DispatchTick DEF TickMoves
    <3>2. \A u \in Ticks : u # t => tick[u].pc \in {"idle", "found"}
      BY <1>0, <2>2 DEF StartDispatch, Clear, DispatchInv, Dispatching, TickRecs, TickPcs
    <3> QED BY <3>1, <3>2 DEF AudienceInv
  <2>3. CASE Resolve(t)
    <3>1. /\ tick'[t].pc \in {"idle", "insert"} /\ \A u \in Ticks : u # t => tick'[u] = tick[u]
          /\ tick'[t].pc = "insert" => tick'[t].audience = Sendable
          /\ UNCHANGED <<row, built>>
      BY <2>3, DispatchTick DEF TickMoves, Resolve
    <3>2. \A l \in Leads \ Sendable : LeadLeft(l)
      BY DEF Sendable, GoneInv, LeadLeft
    <3> QED BY <3>1, <3>2, LeftStays DEF AudienceInv
  <2>4. CASE Insert(t)
    <3>1. /\ tick[t].pc = "insert" /\ tick'[t].pc \in {"insert", "flip"}
          /\ tick'[t].audience = tick[t].audience
          /\ \A u \in Ticks : u # t => tick'[u] = tick[u]
          /\ UNCHANGED built
      BY <2>4, DispatchTick DEF TickMoves, Insert
    <3>2. \A u \in Ticks : u # t => tick[u].pc \in {"idle", "found"}
      BY <1>0, <3>1 DEF DispatchInv, Dispatching, TickRecs, TickPcs
    <3>3. ASSUME tick'[t].pc = "flip", NEW r \in Rows, r[1] = built, LeadOf(r) \in tick[t].audience
          PROVE  row'[r].status # "NONE"
      <4>1. PICK S \in SUBSET NewRows(t) :
              /\ row' = [q \in Rows |-> IF q \in S THEN [status |-> "QUEUED", running |-> TRUE] ELSE row[q]]
              /\ tick' = [tick EXCEPT ![t].pc = IF S = NewRows(t) THEN "flip" ELSE @]
        BY <2>4 DEF Insert
      <4>2. S = NewRows(t)
        <5>1. CASE S # NewRows(t)
          <6>1. tick'[t].pc = tick[t].pc
            BY <1>0, <4>1, <5>1 DEF TickRecs
          <6> QED BY <3>1, <3>3, <6>1
        <5> QED BY <5>1
      <4>3. r \in S \/ row[r].status # "NONE"
        BY <3>3, <4>2 DEF NewRows
      <4> QED BY <1>0, <4>1, <4>3
    <3> QED BY <3>1, <3>2, <3>3, LeftStays DEF AudienceInv
  <2> QED BY <1>4, <2>1, <2>2, <2>3, <2>4 DEF Dispatch
<1> QED BY <1>1, <1>3, <1>4, TicksAlone

\* The steps that set a campaign running.
LEMMA Reaching ==
  ASSUME BoundsAssumption, TypeOK, [Next]_vars, Reached'
  PROVE  Reached \/ \E t \in Ticks : Flip(t)
<1>1. campaign' \in {"RUNNING", "PAUSED", "COMPLETED"} =>
        campaign' = campaign \/ WriteStatus \/ Complete \/ \E t \in Ticks : Flip(t)
  BY NextIsStep DEF Step, vars, AdminRequest, Begin, Remove, Dispatch, DispatchThrows, FindDue, SkipDue,
         StartDispatch, Clear, Resolve, Insert, UnchangedByTick, SendTick, FindRows, ClaimRow, Maintenance,
         FindRunning, Count, Requeue, Unsubscribe, Bounce, Reply, Exclude, Stopping, LeadChange, Lifting, Resubscribe, Include, Restate, UpdateProvider, Midnight, Crash,
         Send, SendThrows, Take, Skip, NoDraft, NoProvider, Reschedule, Pass, Mail, Record, Account, UnchangedBySend, Fails
<1>2. api' \in {"RUNNING", "PAUSED"} => api' = api \/ Begin
  BY NextIsStep DEF Step, vars, AdminRequest, WriteStatus, Remove, Dispatch, DispatchThrows, FindDue, SkipDue,
         StartDispatch, Clear, Resolve, Insert, Flip, UnchangedByTick, SendTick, FindRows, ClaimRow, Maintenance,
         FindRunning, Count, Complete, Requeue, Unsubscribe, Bounce, Reply, Exclude, Stopping, LeadChange, Lifting, Resubscribe, Include, Restate, UpdateProvider, Midnight,
         Crash, Send, SendThrows, Take, Skip, NoDraft, NoProvider, Reschedule, Pass, Mail, Record, Account, UnchangedBySend
<1>3. WriteStatus => Reached \/ api = "SCHEDULED" \/ api = "CANCELLED"
  BY DEF WriteStatus, Reached, TypeOK
<1>4. Begin /\ api' \in {"RUNNING", "PAUSED"} => Reached
  BY DEF Begin, BeginSchedule, BeginPause, BeginResume, BeginCancel, Request, Reached
<1>5. Complete => Reached \/ campaign' = campaign
  BY DEF Complete, Reached
<1>6. WriteStatus /\ campaign' \in {"RUNNING", "PAUSED", "COMPLETED"} => Reached
  BY <1>3 DEF WriteStatus
<1> QED BY <1>1, <1>2, <1>4, <1>5, <1>6 DEF Reached

LEMMA ReachKeeps ==
  ASSUME BoundsAssumption, TypeOK, DispatchInv, GoneInv, AudienceInv, ReachInv, TypeOK', GoneInv', [Next]_vars
  PROVE  ReachInv'
<1> SUFFICES ASSUME Reached', NEW m \in Mailings PROVE Accounted(m)'
  BY DEF ReachInv
<1>1. CASE Reached
  <2>1. Accounted(m)
    BY <1>1 DEF ReachInv
  <2>2. ~(api = "idle" /\ campaign = "DISPATCHING")
    BY <1>1 DEF Reached
  <2> QED BY <2>1, <2>2, AccountedStays
<1>2. ASSUME NEW t \in Ticks, Flip(t) PROVE Accounted(m)'
  <2>1. tick[t].pc = "flip" /\ UNCHANGED <<row, mails, lost, stopped>>
    BY <1>2 DEF Flip, history
  <2>2. built \in Dispatches /\ m[1] \in Leads
    <3>1. built \in 0..MaxDispatch /\ MaxDispatch \in Nat
      BY DEF TypeOK, BoundsAssumption
    <3>2. t \in Dispatching
      BY <2>1 DEF Dispatching
    <3>3. built >= 1
      BY <3>2 DEF DispatchInv
    <3> QED BY <3>1, <3>3, RowParts DEF Dispatches
  <2>3. CASE m[1] \notin tick[t].audience
    <3>1. Left(m)
      BY <2>1, <2>2, <2>3, LeftByLead DEF AudienceInv
    <3> QED BY <2>1, <3>1 DEF Accounted, Left
  <2>4. CASE m[1] \in tick[t].audience
    <3>1. PICK r \in Rows : r[1] = built /\ MailingOf(r) = m
      BY <2>2, RowParts
    <3>2. row[r].status # "NONE"
      BY <2>1, <2>4, <3>1, RowParts DEF AudienceInv
    <3>3. row'[r].status # "NONE"
      BY <2>1, <3>2
    <3> QED BY <3>1, <3>3, WrittenIsAccountedNext
  <2> QED BY <2>3, <2>4
<1> QED BY <1>1, <1>2, Reaching

\* Once the maintenance tick has counted, it is known which mailings are under way again.
RevivedInv == check = "counted" => \A r \in Rows : row[r].status \in Active => MailingOf(r) \in revived

LEMMA RevivedKeeps == RevivedInv /\ [Next]_vars => RevivedInv'
<1> SUFFICES ASSUME RevivedInv, [Next]_vars, check' = "counted", NEW r \in Rows, row'[r].status \in Active
             PROVE  MailingOf(r) \in revived'
  BY DEF RevivedInv, Active
<1>1. check = "counted" \/ Count
  BY NextIsStep DEF Step, vars, AdminRequest, Begin, WriteStatus, Remove, Dispatch, DispatchThrows, FindDue, SkipDue,
         StartDispatch, Clear, Resolve, Insert, Flip, UnchangedByTick, SendTick, FindRows, ClaimRow, Maintenance,
         FindRunning, Complete, Requeue, Unsubscribe, Bounce, Reply, Exclude, Stopping, LeadChange, Lifting,
         Resubscribe, Include, Restate, UpdateProvider, Midnight, Crash, Send, SendThrows, Take, Skip, NoDraft,
         NoProvider, Reschedule, Pass, Mail, Record, Account, UnchangedBySend
<1>2. CASE check = "counted"
  <2>1. CASE UNCHANGED vars
    BY <1>2, <2>1 DEF vars, RevivedInv
  <2>2. CASE Next
    <3>1. revived' = revived \cup Queued
      BY <1>2, <2>2, Zenon DEF Next
    <3>2. row[r].status \in Active => MailingOf(r) \in revived
      BY <1>2 DEF RevivedInv
    <3>3. row[r].status \notin Active => MailingOf(r) \in Queued
      BY DEF Queued
    <3> QED BY <3>1, <3>2, <3>3
  <2> QED BY <2>1, <2>2
<1>3. CASE Count
  <2>1. Unsettled = {} /\ UNCHANGED row
    BY <1>3 DEF Count, rows
  <2> QED BY <2>1 DEF Unsettled, WithStatus
<1> QED BY <1>1, <1>2, <1>3

\* NoneForgotten itself stays true of a completed campaign: no send of it is put off,
\* and one that goes on leaves its mailing mailed, dropped or failed.
LEMMA ForgottenKeeps ==
  ASSUME BoundsAssumption, TypeOK, GoneInv, ReachInv, RevivedInv, NoneForgotten, TypeOK', GoneInv', [Next]_vars
  PROVE  NoneForgotten'
<1> SUFFICES ASSUME campaign' = "COMPLETED", NEW m \in Mailings
             PROVE  \/ mails'[m] > 0 \/ m \in lost' \/ m[1] \in stopped'
                    \/ \E r \in Rows : row'[r].status \in {"FAILED", "CANCELLED"} /\ MailingOf(r) = m
  BY DEF NoneForgotten, WithStatus
<1>1. Mailed(m) \/ Left(m) => mails'[m] > 0 \/ m \in lost' \/ m[1] \in stopped'
  BY HistoryGrows, LeftStays DEF Mailed, Left
<1>2. CASE campaign = "COMPLETED"
  <2>1. CASE Mailed(m) \/ Left(m)
    BY <1>1, <2>1
  <2>2. CASE \E r \in Rows : row[r].status \in {"FAILED", "CANCELLED"} /\ MailingOf(r) = m
    <3>1. PICK r \in Rows : row[r].status \in {"FAILED", "CANCELLED"} /\ MailingOf(r) = m
      BY <2>2
    <3>2. \A w \in Workers : ~Reschedule(w)
      BY <1>2 DEF Reschedule, GateCloses
    <3>3. \A t \in Ticks : Clear(t) => row'[r].status = row[r].status
      <4>1. row \in [Rows -> RowRecs]
        BY TypesUsed
      <4>2. r \notin Partial
        BY <3>1 DEF Partial, WithStatus, Active
      <4> QED BY <4>1, <4>2 DEF Clear, SetRows
    <3>4. row'[r].status \in {"FAILED", "CANCELLED", "SENT", "SKIPPED"}
      BY <3>1, <3>2, <3>3, RowSteps DEF StatusStep, Failures, Active
    <3>5. row'[r].status = "SENT" => mails'[m] > 0
      BY <3>1 DEF GoneInv, Mailed
    <3>6. row'[r].status = "SKIPPED" => m \in lost' \/ m[1] \in stopped'
      BY <3>1 DEF GoneInv, Left
    <3> QED BY <3>1, <3>4, <3>5, <3>6
  <2> QED BY <1>2, <2>1, <2>2 DEF NoneForgotten, WithStatus, Mailed, Left
<1>3. CASE campaign # "COMPLETED"
  <2>1. Complete
    <3>1. campaign' # campaign
      BY <1>3
    <3>2. ~WriteStatus
      BY DEF WriteStatus, TypeOK
    <3>3. \A t \in Ticks : ~Dispatch(t) /\ ~DispatchThrows(t)
      BY <1>3 DEF Dispatch, DispatchThrows, FindDue, SkipDue, StartDispatch, Clear, Resolve, Insert, Flip, Fails
    <3> QED BY <3>1, <3>2, <3>3, NextIsStep
          DEF Step, vars, AdminRequest, Begin, Remove, SendTick, FindRows, ClaimRow, Maintenance,
              FindRunning, Count, Requeue, Unsubscribe, Bounce, Reply, Exclude, Stopping, LeadChange, Lifting, Resubscribe, Include, Restate, UpdateProvider, Midnight, Crash,
              Send, SendThrows, Take, Skip, NoDraft, NoProvider, Reschedule, Pass, Mail, Record, Account, UnchangedBySend
  <2>2. Accounted(m) /\ check = "counted" /\ lost' = lost \cup revived /\ UNCHANGED row
    BY <1>3, <2>1 DEF Complete, ReachInv, Reached, rows
  <2>3. ASSUME InRow(m)
        PROVE  m \in lost' \/ \E r \in Rows : row[r].status \in {"FAILED", "CANCELLED"} /\ MailingOf(r) = m
    BY <2>2, <2>3 DEF InRow, RevivedInv, Failures
  <2> QED BY <1>1, <2>2, <2>3 DEF Accounted
<1> QED BY <1>2, <1>3

LEMMA ReachInit ==
  ASSUME BoundsAssumption, Init PROVE GoneInv /\ AudienceInv /\ ReachInv /\ RevivedInv /\ NoneForgotten
<1>1. /\ suppressed = {} /\ excluded = {} /\ \A l \in Leads : lead[l] = "NEW"
      /\ \A w \in Workers : worker[w].pc = "idle"
      /\ \A r \in Rows : row[r].status = "NONE"
      /\ \A t \in Ticks : tick[t].pc = "idle"
      /\ campaign = "DRAFT" /\ api = "idle" /\ check = "idle"
  BY DEF Init, IdleWorker, NoRow, IdleTick
<1>2. GoneInv /\ AudienceInv
  BY <1>1 DEF GoneInv, AudienceInv
<1> QED BY <1>1, <1>2 DEF ReachInv, Reached, RevivedInv, NoneForgotten

\* When a campaign is completed (maintenanceTick), each of its mailings was mailed or
\* failed, or its lead left the audience, or its text was deleted, or a send of it met
\* the campaign paused or in dispatch, or it was queued between the tick's count and its
\* write: pacing, retries, requeues, crashes and dispatches done again lose no row.
THEOREM NobodyIsForgotten == Spec => []NoneForgotten
<1>1. Init => /\ TypeOK /\ DispatchInv /\ GoneInv /\ AudienceInv /\ ReachInv
              /\ RevivedInv /\ NoneForgotten
  BY BoundsAssumption, InitTyped, DispatchInit, ReachInit
<1>2. TypeOK /\ DispatchInv /\ TypeOK' /\ [Next]_vars => DispatchInv'
  BY BoundsAssumption, DispatchKeeps
<1>3. TypeOK /\ GoneInv /\ [Next]_vars => GoneInv'
  BY BoundsAssumption, GoneKeeps
<1>4. TypeOK /\ DispatchInv /\ GoneInv /\ AudienceInv /\ [Next]_vars => AudienceInv'
  BY BoundsAssumption, AudienceKeeps
<1>5. ASSUME TypeOK, DispatchInv, GoneInv, AudienceInv, ReachInv, TypeOK', GoneInv', [Next]_vars
      PROVE  ReachInv'
  BY <1>5, BoundsAssumption, ReachKeeps
<1>6. ASSUME TypeOK, GoneInv, ReachInv, RevivedInv, NoneForgotten, TypeOK', GoneInv', [Next]_vars
      PROVE  NoneForgotten'
  BY <1>6, BoundsAssumption, ForgottenKeeps
<1> QED BY <1>1, <1>2, <1>3, <1>4, <1>5, <1>6, RevivedKeeps, TypeCorrect, PTL DEF Spec

------------------------------------------------------------------------------
(* The sends of a row *)

On(w, r) == ~Idle(w) /\ worker[w].row = r
Live(r)  == row[r].status \in Active \/ \E w \in Workers : On(w, r)
Sure(r)  == MailingOf(r) \notin twice

\* The jobs, and the sends under way, of row r stay as they are; all but that of w do.
JobsStay(r)      == \A j \in jobs \cup jobs' : j.row = r => (j \in jobs <=> j \in jobs')
OthersStay(r, w) == \A v \in Workers \ {w} : On(v, r) \/ On(v, r)' =>
                      worker'[v].pc = worker[v].pc /\ worker'[v].row = worker[v].row
SendsStay(r)     == \A v \in Workers : On(v, r) \/ On(v, r)' =>
                      worker'[v].pc = worker[v].pc /\ worker'[v].row = worker[v].row
OneJobMore(r)    == /\ \A j \in jobs : j.row = r => j \in jobs'
                    /\ \A j, k \in jobs' \ jobs : j.row = r /\ k.row = r => j = k

StatusStays(r)   == row'[r].status = row[r].status
StatusSettles(r) == StatusStays(r) \/ (row[r].status # "NONE" /\ row'[r].status \notin Active \cup {"NONE"})

\* What a step can be for a row whose mailing no fault touches.
Rests(r)    == JobsStay(r) /\ SendsStay(r) /\ StatusSettles(r)
Cleared(r)  == /\ JobsStay(r) /\ SendsStay(r) /\ row[r].status \in Active /\ row'[r].status = "NONE"
               /\ \A w \in Workers : ~On(w, r)
               /\ \E t \in Ticks : Clear(t)
Inserted(r) == /\ JobsStay(r) /\ SendsStay(r) /\ row[r].status = "NONE" /\ row'[r].status = "QUEUED"
               /\ r[1] = built /\ \E t \in Ticks : Insert(t)
Claimed(r)  == SendsStay(r) /\ OneJobMore(r) /\ row[r].status = "QUEUED" /\ row'[r].status = "SENDING"
Requeued(r) == /\ JobsStay(r) /\ SendsStay(r) /\ row[r].status = "SENDING" /\ row'[r].status = "QUEUED"
               /\ \A j \in jobs : j.row # r
               /\ \A w \in Workers : ~On(w, r)
Taken(r)    == \E w \in Workers : \E j \in jobs :
                 /\ Idle(w) /\ j.row = r /\ jobs' = jobs \ {j} /\ StatusStays(r) /\ OthersStay(r, w)
                 /\ On(w, r)' => row[r].status = "SENDING" /\ worker'[w].pc = "gate"
Moved(r)    == \E w \in Workers :
                 /\ On(w, r) /\ On(w, r)' /\ OthersStay(r, w) /\ JobsStay(r)
                 /\ \/ worker[w].pc = "gate" /\ worker'[w].pc = "mail" /\ StatusStays(r)
                    \/ worker[w].pc = "mail" /\ worker'[w].pc = "record" /\ StatusStays(r)
                    \/ /\ worker[w].pc = "record" /\ worker'[w].pc = "count"
                       /\ IF row[r].status = "NONE" THEN StatusStays(r) ELSE row'[r].status = "SENT"
Finished(r) == \E w \in Workers :
                 /\ On(w, r) /\ ~On(w, r)' /\ OthersStay(r, w) /\ worker[w].pc # "record"
                 /\ \/ JobsStay(r) /\ StatusSettles(r)
                    \/ JobsStay(r) /\ row[r].status # "NONE" /\ worker[w].pc = "gate" /\ row'[r].status = "QUEUED"
                    \/ OneJobMore(r) /\ StatusStays(r)
Crashed(r)  == /\ \A w \in Workers : ~On(w, r)' /\ (On(w, r) => worker[w].pc # "record")
               /\ \A j \in jobs : j.row = r => j \in jobs'
               /\ \A j \in jobs' : j.row = r => j \in jobs \/ \E w \in Workers : On(w, r) /\ j = Job(w)
               /\ StatusStays(r)

RowTurn(r) ==
  \/ Rests(r) \/ Cleared(r) \/ Inserted(r) \/ Claimed(r) \/ Requeued(r)
  \/ Taken(r) \/ Moved(r) \/ Finished(r) \/ Crashed(r)

\* A mailing that may have been repeated stays one.
LEMMA TwiceGrows ==
  ASSUME [Next]_vars PROVE twice \subseteq twice'
<1>1. [Next]_vars =>
        \/ \E t \in Ticks : Clear(t)
        \/ \E w \in Workers : SendThrows(w)
        \/ Crash \/ (\E r \in Rows : Requeue(r)) \/ UNCHANGED twice
  BY NextIsStep DEF Step, vars, AdminRequest, Begin, WriteStatus, Remove, Dispatch, DispatchThrows, FindDue, SkipDue,
         StartDispatch, Resolve, Insert, Flip, SendTick, FindRows, ClaimRow, Maintenance, FindRunning, Count, Complete,
         Unsubscribe, Bounce, Reply, Exclude, Stopping, LeadChange, Lifting, Resubscribe, Include, Restate, UpdateProvider, Midnight,
         Send, Take, Skip, NoDraft, NoProvider, Reschedule, Pass, Mail, Record, Account, history
<1>2. ASSUME NEW t \in Ticks, Clear(t) PROVE twice \subseteq twice'
  BY <1>2 DEF Clear
<1>3. ASSUME NEW w \in Workers, SendThrows(w) PROVE twice \subseteq twice'
  BY <1>3 DEF SendThrows
<1>4. CASE Crash
  BY <1>4 DEF Crash
<1>5. ASSUME NEW r \in Rows, Requeue(r) PROVE twice \subseteq twice'
  BY <1>5 DEF Requeue
<1> QED BY <1>1, <1>2, <1>3, <1>4, <1>5

\* The steps of the sends.
LEMMA TurnBySends ==
  ASSUME BoundsAssumption, TypeOK, NEW r \in Rows, Sure(r)', NEW w \in Workers, Send(w) \/ SendThrows(w)
  PROVE  RowTurn(r)
<1>0. /\ worker \in [Workers -> WorkerRecs] /\ row \in [Rows -> RowRecs]
      /\ ~Idle(w) => worker[w].row \in Rows
  BY TypesUsed DEF TypeOK
<1>1. CASE Take(w)
  <2>1. PICK j \in jobs :
           /\ jobs' = jobs \ {j} /\ Idle(w) /\ UNCHANGED row
           /\ \/ UNCHANGED worker
              \/ /\ row[j.row].status = "SENDING" /\ worker' \in [Workers -> WorkerRecs]
                 /\ worker'[w].pc = "gate" /\ worker'[w].row = j.row /\ worker'[w].tries = j.tries
                 /\ \A v \in Workers : v # w => worker'[v] = worker[v]
    BY <1>1, TakeEffect
  <2>2. CASE j.row = r
    <3>1. On(w, r)' => row[r].status = "SENDING" /\ worker'[w].pc = "gate"
      BY <2>1, <2>2 DEF On, Idle
    <3>2. OthersStay(r, w) /\ StatusStays(r)
      BY <2>1 DEF OthersStay, StatusStays
    <3> QED BY <2>1, <2>2, <3>1, <3>2 DEF RowTurn, Taken
  <2>3. CASE j.row # r
    <3>1. JobsStay(r)
      BY <2>1, <2>3 DEF JobsStay
    <3>2. SendsStay(r)
      BY <2>1, <2>3 DEF SendsStay, On, Idle
    <3> QED BY <2>1, <3>1, <3>2 DEF RowTurn, Rests, StatusSettles, StatusStays
  <2> QED BY <2>2, <2>3
<1>2. ASSUME NEW q \in Rows, worker[w].row = q, r # q, ~Idle(w), NEW pc \in Pcs, WorkerMoves(w, pc),
             row'[r] = row[r], \A j \in jobs \cup jobs' : j \notin jobs \cap jobs' => j.row = q
      PROVE  RowTurn(r)
  <2>1. SendsStay(r)
    BY <1>2 DEF SendsStay, WorkerMoves, On, Idle
  <2>2. JobsStay(r)
    BY <1>2 DEF JobsStay
  <2> QED BY <1>2, <2>1, <2>2 DEF RowTurn, Rests, StatusSettles, StatusStays
<1>3. CASE Skip(w) \/ NoDraft(w) \/ NoProvider(w) \/ Reschedule(w) \/ Account(w)
  <2>1. PICK q \in Rows : worker[w].row = q
    BY <1>3, SendEffect
  <2>2. /\ WorkerMoves(w, "idle") /\ UNCHANGED jobs /\ ~Idle(w) /\ worker[w].pc # "record"
        /\ RowGets(q, {"SKIPPED", "FAILED"}) \/ UNCHANGED row
           \/ (worker[w].pc = "gate" /\ RowGets(q, {"QUEUED"}))
    BY <1>3, <2>1, SendEffect DEF Skip, NoDraft, NoProvider, Reschedule, Account, Idle, RowGets
  <2>3. CASE r # q
    BY <1>2, <2>1, <2>2, <2>3 DEF RowGets, Pcs
  <2>4. CASE r = q
    <3>1. On(w, r) /\ ~On(w, r)' /\ OthersStay(r, w) /\ JobsStay(r)
      BY <2>1, <2>2, <2>4 DEF On, Idle, OthersStay, JobsStay, WorkerMoves
    <3>2. \/ StatusSettles(r)
          \/ row[r].status # "NONE" /\ worker[w].pc = "gate" /\ row'[r].status = "QUEUED"
      BY <2>2, <2>4 DEF StatusSettles, StatusStays, RowGets, Active
    <3> QED BY <2>2, <3>1, <3>2 DEF RowTurn, Finished
  <2> QED BY <2>3, <2>4
<1>4. CASE SendThrows(w)
  <2>1. PICK q \in Rows : worker[w].row = q
    BY <1>4, SendEffect
  <2>2. /\ WorkerMoves(w, "idle") /\ ~Idle(w)
        /\ \/ RowGets(q, {"FAILED"}) /\ UNCHANGED jobs
           \/ \E j : j.row = q /\ jobs' = jobs \cup {j} /\ UNCHANGED row
    <3>1. worker[w].tries + 1 \in 0..(Attempts - 1) => [row |-> q, tries |-> worker[w].tries + 1].row = q
      OBVIOUS
    <3>2. ~Idle(w)
      BY <1>4 DEF SendThrows, PastGate, Idle
    <3> QED BY <1>4, <2>1, <3>1, <3>2, SendEffect
  <2>3. worker[w].pc = "record" => MailingOf(q) \in twice'
    BY <1>4, <2>1 DEF SendThrows
  <2>4. CASE r # q
    <3>1. row'[r] = row[r] /\ \A j \in jobs \cup jobs' : j \notin jobs \cap jobs' => j.row = q
      BY <2>2, <2>4 DEF RowGets
    <3> QED BY <1>2, <2>1, <2>2, <2>4, <3>1 DEF Pcs
  <2>5. CASE r = q
    <3>1. On(w, r) /\ ~On(w, r)' /\ OthersStay(r, w) /\ worker[w].pc # "record"
      BY <2>1, <2>2, <2>3, <2>5 DEF On, Idle, OthersStay, WorkerMoves, Sure
    <3>2. (JobsStay(r) /\ StatusSettles(r)) \/ (OneJobMore(r) /\ StatusStays(r))
      BY <2>2, <2>5 DEF JobsStay, OneJobMore, StatusSettles, StatusStays, RowGets, Active
    <3> QED BY <3>1, <3>2 DEF RowTurn, Finished
  <2> QED BY <2>4, <2>5
<1>5. CASE Pass(w) \/ Mail(w) \/ Record(w)
  <2>1. PICK q \in Rows : worker[w].row = q
    BY <1>5, SendEffect
  <2>2. /\ UNCHANGED jobs /\ ~Idle(w)
        /\ \/ worker[w].pc = "gate" /\ WorkerMoves(w, "mail") /\ UNCHANGED row
           \/ worker[w].pc = "mail" /\ WorkerMoves(w, "record") /\ UNCHANGED row
           \/ worker[w].pc = "record" /\ WorkerMoves(w, "count") /\ RowGets(q, {"SENT"})
    BY <1>5, <2>1, SendEffect DEF Pass, Mail, Record, Idle
  <2>3. CASE r # q
    BY <1>2, <2>1, <2>2, <2>3 DEF RowGets, Pcs
  <2>4. CASE r = q
    <3>1. On(w, r) /\ On(w, r)' /\ OthersStay(r, w) /\ JobsStay(r)
      BY <2>1, <2>2, <2>4 DEF On, Idle, OthersStay, JobsStay, WorkerMoves
    <3>2. \/ worker[w].pc = "gate" /\ worker'[w].pc = "mail" /\ StatusStays(r)
          \/ worker[w].pc = "mail" /\ worker'[w].pc = "record" /\ StatusStays(r)
          \/ /\ worker[w].pc = "record" /\ worker'[w].pc = "count"
             /\ IF row[r].status = "NONE" THEN StatusStays(r) ELSE row'[r].status = "SENT"
      BY <2>2, <2>4 DEF StatusStays, RowGets, WorkerMoves
    <3> QED BY <3>1, <3>2 DEF RowTurn, Moved
  <2> QED BY <2>3, <2>4
<1> QED BY <1>1, <1>3, <1>4, <1>5 DEF Send

\* The steps that leave the jobs and the sends alone, as far as rows and pcs go.
LEMMA AloneStays ==
  ASSUME NEW r \in Rows, UNCHANGED jobs,
         \A w \in Workers : worker'[w].pc = worker[w].pc /\ worker'[w].row = worker[w].row
  PROVE  JobsStay(r) /\ SendsStay(r)
BY DEF JobsStay, SendsStay

LEMMA TurnByClaim ==
  ASSUME BoundsAssumption, TypeOK, NEW r \in Rows, Sure(r)', NEW q \in Rows, ClaimRow(q) \/ Requeue(q)
  PROVE  RowTurn(r)
<1>1. SendsStay(r)
  BY DEF SendsStay, ClaimRow, Requeue, sends
<1>2. CASE ClaimRow(q)
  <2>1. CASE UNCHANGED jobs /\ (row' = row \/ r # q)
    BY <1>1, <1>2, <2>1, RowsEffect DEF RowTurn, Rests, JobsStay, StatusSettles, StatusStays, RowGets
  <2>2. CASE r # q
    <3>1. JobsStay(r)
      <4>1. jobs' = jobs \/ jobs' = jobs \cup {[row |-> q, tries |-> 0]}
        BY <1>2 DEF ClaimRow
      <4> QED BY <2>2, <4>1 DEF JobsStay
    <3>2. row'[r] = row[r]
      BY <1>2, <2>2, RowsEffect DEF RowGets
    <3> QED BY <1>1, <3>1, <3>2 DEF RowTurn, Rests, StatusSettles, StatusStays
  <2>3. CASE r = q /\ row[q].status = "QUEUED"
    <3>1. jobs' = jobs \/ jobs' = jobs \cup {[row |-> q, tries |-> 0]}
      BY <1>2, <2>3 DEF ClaimRow
    <3>2. OneJobMore(r)
      BY <3>1 DEF OneJobMore
    <3>3. row' = [row EXCEPT ![q].status = "SENDING"]
      BY <1>2, <2>3 DEF ClaimRow
    <3>4. row'[r].status = "SENDING"
      BY <2>3, <3>3, TypesUsed DEF RowRecs
    <3> QED BY <1>1, <2>3, <3>2, <3>4 DEF RowTurn, Claimed
  <2>4. CASE r = q /\ row[q].status # "QUEUED"
    <3>1. UNCHANGED jobs /\ row' = row
      BY <1>2, <2>4 DEF ClaimRow
    <3> QED BY <2>1, <3>1
  <2> QED BY <2>2, <2>3, <2>4
<1>3. CASE Requeue(q)
  <2>1. JobsStay(r)
    BY <1>3 DEF Requeue, sends, JobsStay
  <2>2. CASE r # q
    <3>1. row'[r] = row[r]
      BY <1>3, <2>2, RowsEffect DEF RowGets
    <3> QED BY <1>1, <2>1, <3>1 DEF RowTurn, Rests, StatusSettles, StatusStays
  <2>3. CASE r = q
    <3>1. row[r].status = "SENDING" /\ row'[r].status = "QUEUED"
      BY <1>3, <2>3, RowsEffect DEF RowGets
    <3>2. ~Late(r)
      BY <1>3, <2>3 DEF Requeue, Sure
    <3> QED BY <1>1, <2>1, <3>1, <3>2 DEF RowTurn, Requeued, Late, On
  <2> QED BY <2>2, <2>3
<1> QED BY <1>2, <1>3

LEMMA TurnByCrash ==
  ASSUME BoundsAssumption, TypeOK, NEW r \in Rows, Sure(r)', Crash
  PROVE  RowTurn(r)
<1>1. \A w \in Workers : ~On(w, r)'
  BY CrashEffect DEF On, Idle
<1>2. \A w \in Workers : On(w, r) => worker[w].pc # "record"
  BY DEF Crash, Sure, On
<1>3. jobs' = jobs \cup {Job(w) : w \in {v \in Workers : ~Idle(v)}}
  BY DEF Crash
<1>4. \A j \in jobs' : j.row = r => j \in jobs \/ \E w \in Workers : On(w, r) /\ j = Job(w)
  BY <1>3 DEF On, Job
<1>5. StatusStays(r)
  BY DEF Crash, StatusStays
<1> QED BY <1>1, <1>2, <1>3, <1>4, <1>5 DEF RowTurn, Crashed

LEMMA TurnByOthers ==
  ASSUME BoundsAssumption, TypeOK, NEW r \in Rows, Sure(r)', [Next]_vars, UNCHANGED jobs,
         \A w \in Workers : worker'[w].pc = worker[w].pc /\ worker'[w].row = worker[w].row,
         \A w \in Workers : ~Send(w) /\ ~SendThrows(w),
         \A q \in Rows : ~Requeue(q) /\ ~ClaimRow(q)
  PROVE  RowTurn(r)
<1>1. JobsStay(r) /\ SendsStay(r)
  BY AloneStays
<1>2. row \in [Rows -> RowRecs]
  BY TypesUsed
<1>3. ASSUME NEW t \in Ticks, Clear(t) PROVE RowTurn(r)
  <2>1. row' = [q \in Rows |-> IF q \in Partial THEN [row[q] EXCEPT !.status = "NONE"] ELSE row[q]]
    BY <1>3 DEF Clear, SetRows
  <2>2. CASE r \in Partial
    <3>1. row[r].status \in Active /\ row'[r].status = "NONE"
      BY <1>2, <2>1, <2>2 DEF Partial, WithStatus, RowRecs
    <3>2. \A w \in Workers : ~Idle(w) => MailingOf(worker[w].row) \in twice'
      BY <1>3 DEF Clear
    <3> QED BY <1>1, <1>3, <3>1, <3>2 DEF RowTurn, Cleared, On, Sure
  <2>3. CASE r \notin Partial
    BY <1>1, <2>1, <2>3 DEF RowTurn, Rests, StatusSettles, StatusStays
  <2> QED BY <2>2, <2>3
<1>4. ASSUME NEW t \in Ticks, Insert(t) PROVE RowTurn(r)
  <2>1. PICK S \in SUBSET NewRows(t) :
          row' = [q \in Rows |-> IF q \in S THEN [status |-> "QUEUED", running |-> TRUE] ELSE row[q]]
    BY <1>4 DEF Insert
  <2>2. CASE r \in S
    <3>1. r[1] = built /\ row[r].status = "NONE" /\ row'[r].status = "QUEUED"
      BY <2>1, <2>2 DEF NewRows
    <3> QED BY <1>1, <1>4, <3>1 DEF RowTurn, Inserted
  <2>3. CASE r \notin S
    BY <1>1, <2>1, <2>3 DEF RowTurn, Rests, StatusSettles, StatusStays
  <2> QED BY <2>2, <2>3
<1>5. CASE Begin
  BY <1>1, <1>5, RequestedRows DEF RowTurn, Rests, StatusSettles, StatusStays, Active
<1>6. ASSUME NEW l \in Leads, Unsubscribe(l) \/ Bounce(l) PROVE RowTurn(r)
  <2>1. \/ row'[r] = row[r]
        \/ row[r].status = "SENT" /\ row'[r].status = "BOUNCED"
        \/ row[r].status = "QUEUED" /\ row'[r].status = "SKIPPED"
    BY <1>6, RowsEffect
  <2> QED BY <1>1, <2>1 DEF RowTurn, Rests, StatusSettles, StatusStays, Active
<1>7. CASE UNCHANGED row
  BY <1>1, <1>7 DEF RowTurn, Rests, StatusSettles, StatusStays
<1> QED
  <2>1. \/ Begin \/ \E t \in Ticks : Clear(t) \/ Insert(t)
        \/ \E l \in Leads : Unsubscribe(l) \/ Bounce(l)
        \/ UNCHANGED row
    BY NextIsStep DEF Step, vars, AdminRequest, WriteStatus, Remove, Dispatch, DispatchThrows, FindDue, SkipDue,
           StartDispatch, Resolve, Flip, SendTick, FindRows, Maintenance, FindRunning, Count, Complete, Reply, Exclude,
           LeadChange, Lifting, Resubscribe, Include, Restate, UpdateProvider, Midnight, Crash, rows
  <2> QED BY <1>3, <1>4, <1>5, <1>6, <1>7, <2>1

LEMMA RowTurns ==
  ASSUME BoundsAssumption, TypeOK, NEW r \in Rows, Sure(r)', [Next]_vars
  PROVE  RowTurn(r)
<1>1. [Next]_vars =>
        \/ \E w \in Workers : Send(w) \/ SendThrows(w)
        \/ \E q \in Rows : ClaimRow(q) \/ Requeue(q)
        \/ Crash \/ Midnight \/ UNCHANGED <<jobs, worker>>
  BY NextIsStep DEF Step, vars, AdminRequest, Begin, WriteStatus, Remove, Dispatch, DispatchThrows, FindDue, SkipDue,
         StartDispatch, Clear, Resolve, Insert, Flip, UnchangedByTick, SendTick, FindRows, Maintenance, FindRunning, Count, Complete,
         Unsubscribe, Bounce, Reply, Exclude, Stopping, LeadChange, Lifting, Resubscribe, Include, Restate, UpdateProvider, sends
<1>2. CASE \E w \in Workers : Send(w) \/ SendThrows(w)
  BY <1>2, TurnBySends
<1>3. CASE \E q \in Rows : ClaimRow(q) \/ Requeue(q)
  BY <1>3, TurnByClaim
<1>4. CASE Crash
  BY <1>4, TurnByCrash
<1>5. CASE Midnight \/ UNCHANGED <<jobs, worker>>
  <2>1. /\ UNCHANGED jobs
        /\ \A w \in Workers : worker'[w].pc = worker[w].pc /\ worker'[w].row = worker[w].row
    BY <1>5, MidnightEffect DEF Midnight
  <2> QED BY <1>2, <1>3, <2>1, TurnByOthers
<1> QED BY <1>1, <1>2, <1>3, <1>4, <1>5

------------------------------------------------------------------------------
(* One send per mailing *)

Building(t)  == tick[t].pc \in {"resolve", "insert"}
NoJob(r)     == \A j \in jobs : j.row # r
NoSend(r)    == \A w \in Workers : ~On(w, r)
SameMailing(q, r) == MailingOf(q) = MailingOf(r)

\* A row has a job, or one send that has taken it, or neither.
OneSendOf(r) ==
  /\ \A j, k \in jobs : j.row = r /\ k.row = r => j = k
  /\ \A v, w \in Workers : On(v, r) /\ On(w, r) => v = w
  /\ NoJob(r) \/ NoSend(r)
  /\ row[r].status = "QUEUED" => NoJob(r) /\ NoSend(r)
  /\ row[r].status = "NONE" => NoSend(r)

\* A row not yet written has neither.
FreshRow(r) == r[1] = built /\ row[r].status = "NONE" => NoJob(r) /\ NoSend(r)

\* A row that is mailed and still under way is one whose send is about to record it.
SentOnceRow(r) ==
  Mailed(MailingOf(r)) =>
    /\ row[r].status \in Active => \E w \in Workers : On(w, r) /\ worker[w].pc = "record"
    /\ \A w \in Workers : On(w, r) => worker[w].pc \in {"record", "count"}

OnceInv ==
  /\ \A r \in Rows : Sure(r) => OneSendOf(r) /\ FreshRow(r) /\ SentOnceRow(r)
  /\ \A q, r \in Rows : Sure(r) /\ SameMailing(q, r) /\ Live(q) /\ Live(r) => q = r
  /\ \A t \in Ticks : Building(t) => \A r \in Rows : Sure(r) =>
       /\ Live(r) => r[1] = built
       /\ r[1] = built /\ row[r].status = "NONE" => ~Mailed(MailingOf(r))
  /\ \A m \in Mailings : mails[m] > 1 => m \in twice

LEMMA BuiltSteps ==
  ASSUME BoundsAssumption, TypeOK, [Next]_vars
  PROVE  \/ /\ built' = built
            /\ \A t \in Ticks : Building(t)' => Building(t) \/ Clear(t)
         \/ /\ built' = built + 1 /\ UNCHANGED <<row, jobs, worker>>
            /\ \A t \in Ticks : ~Building(t)'
<1>1. CASE UNCHANGED <<tick, built>>
  BY <1>1 DEF Building
<1>2. CASE Crash
  <2>1. built' = built
    BY <1>2 DEF Crash
  <2> QED BY <1>2, <2>1, CrashEffect DEF Building
<1>3. ASSUME NEW t \in Ticks, StartDispatch(t)
      PROVE  /\ built' = built + 1 /\ UNCHANGED <<row, jobs, worker>>
             /\ \A u \in Ticks : ~Building(u)'
  <2>1. \A u \in Ticks : ~Building(u)
    BY <1>3 DEF StartDispatch, Dispatching, Building
  <2> QED BY <1>3, <2>1, DispatchTick DEF StartDispatch, TickMoves, Building, UnchangedByTick, sends
<1>4. ASSUME NEW t \in Ticks,
             FindDue(t) \/ SkipDue(t) \/ Clear(t) \/ Resolve(t) \/ Insert(t) \/ Flip(t) \/ DispatchThrows(t)
      PROVE  /\ built' = built
             /\ \A u \in Ticks : Building(u)' => Building(u) \/ Clear(u)
  <2>1. built' = built
    BY <1>4 DEF FindDue, SkipDue, Clear, Resolve, Insert, Flip, DispatchThrows
  <2>2. \A u \in Ticks : u # t => tick'[u] = tick[u]
    BY <1>4, DispatchTick DEF TickMoves
  <2>3. Building(t)' => Building(t) \/ Clear(t)
    BY <1>4, DispatchTick DEF TickMoves, Building, Resolve, Insert
  <2> QED BY <2>1, <2>2, <2>3 DEF Building
<1> QED BY <1>1, <1>2, <1>3, <1>4, TicksAlone DEF Dispatch

\* A row comes to life when it is inserted, and in no other way.
LEMMA LiveSteps ==
  ASSUME NEW r \in Rows, RowTurn(r), Live(r)'
  PROVE  Live(r) \/ Inserted(r)
<1> USE DEF Live, On, Idle
<1>1. CASE Rests(r)
  BY <1>1 DEF Rests, SendsStay, StatusSettles, StatusStays
<1>2. CASE Cleared(r) \/ Claimed(r) \/ Requeued(r)
  BY <1>2 DEF Cleared, Claimed, Requeued, Active
<1>3. CASE Taken(r)
  BY <1>3 DEF Taken, OthersStay, StatusStays, Active
<1>4. CASE Moved(r) \/ Finished(r)
  BY <1>4 DEF Moved, Finished
<1>5. CASE Crashed(r)
  BY <1>5 DEF Crashed, StatusStays
<1> QED BY <1>1, <1>2, <1>3, <1>4, <1>5 DEF RowTurn

LEMMA OneSendKeeps ==
  ASSUME NEW r \in Rows, RowTurn(r), OneSendOf(r), FreshRow(r)
  PROVE  OneSendOf(r)'
<1> USE DEF OneSendOf, NoJob, NoSend, On, Idle
<1>1. CASE Rests(r)
  BY <1>1 DEF Rests, JobsStay, SendsStay, StatusSettles, StatusStays, Active
<1>2. CASE Cleared(r)
  BY <1>2 DEF Cleared, JobsStay, SendsStay, Active
<1>3. CASE Inserted(r)
  BY <1>3 DEF Inserted, JobsStay, SendsStay, FreshRow
<1>4. CASE Claimed(r)
  BY <1>4 DEF Claimed, OneJobMore, SendsStay
<1>5. CASE Requeued(r)
  BY <1>5 DEF Requeued, JobsStay, SendsStay
<1>6. CASE Taken(r)
  BY <1>6 DEF Taken, OthersStay, StatusStays
<1>7. CASE Moved(r)
  BY <1>7 DEF Moved, OthersStay, JobsStay, StatusStays
<1>8. CASE Finished(r)
  BY <1>8 DEF Finished, OthersStay, JobsStay, OneJobMore, StatusSettles, StatusStays
<1>9. CASE Crashed(r)
  BY <1>9 DEF Crashed, StatusStays, Job
<1> QED BY <1>1, <1>2, <1>3, <1>4, <1>5, <1>6, <1>7, <1>8, <1>9 DEF RowTurn

LEMMA FreshKeeps ==
  ASSUME BoundsAssumption, TypeOK, DispatchInv, NEW r \in Rows, RowTurn(r), FreshRow(r), [Next]_vars
  PROVE  FreshRow(r)'
<1> SUFFICES ASSUME r[1] = built', row'[r].status = "NONE" PROVE NoJob(r)' /\ NoSend(r)'
  BY DEF FreshRow
<1> USE DEF NoJob, NoSend, On, Idle
<1>1. CASE built' = built
  <2>1. row[r].status # "NONE" => Cleared(r)
    BY DEF RowTurn, Rests, Inserted, Claimed, Requeued, Taken, Moved, Finished, Crashed,
           StatusSettles, StatusStays, Active
  <2>2. row[r].status = "NONE"
    BY <1>1, <2>1 DEF Cleared, Clear, DispatchInv
  <2>3. NoJob(r) /\ NoSend(r)
    BY <1>1, <2>2 DEF FreshRow
  <2>4. Rests(r) \/ Crashed(r)
    BY <2>2, <2>3 DEF RowTurn, Cleared, Inserted, Claimed, Requeued, Taken, Moved, Finished, Active
  <2> QED BY <2>3, <2>4 DEF Rests, Crashed, JobsStay, SendsStay
<1>2. CASE built' = built + 1 /\ UNCHANGED <<jobs, worker>>
  <2>1. built \in Nat /\ ~(built + 1 <= built)
    BY DEF TypeOK, BoundsAssumption
  <2>2. NoJob(r) /\ NoSend(r)
    BY <1>2, <2>1 DEF TypeOK
  <2> QED BY <1>2, <2>2
<1> QED BY <1>1, <1>2, BuiltSteps

\* A mailing is mailed by the send of one of its rows, which goes on to record it.
LEMMA MailSteps ==
  ASSUME BoundsAssumption, TypeOK, [Next]_vars
  PROVE  \/ UNCHANGED mails
         \/ \E w \in Workers, q \in Rows :
              /\ Mail(w) /\ On(w, q) /\ UNCHANGED row /\ WorkerMoves(w, "record")
              /\ MailingOf(q) \in Mailings
              /\ mails' = [mails EXCEPT ![MailingOf(q)] = @ + 1]
<1>1. CASE \A w \in Workers : ~Mail(w)
  BY <1>1, NextIsStep DEF Step, vars, AdminRequest, Begin, WriteStatus, Remove, Dispatch, DispatchThrows, FindDue, SkipDue,
         StartDispatch, Clear, Resolve, Insert, Flip, SendTick, FindRows, ClaimRow, Maintenance, FindRunning, Count, Complete, Requeue,
         Unsubscribe, Bounce, Reply, Exclude, Stopping, LeadChange, Lifting, Resubscribe, Include, Restate, UpdateProvider, Midnight, Crash,
         Send, SendThrows, Take, Skip, NoDraft, NoProvider, Reschedule, Pass, Record, Account, history
<1>2. ASSUME NEW w \in Workers, Mail(w)
      PROVE  \E q \in Rows :
              /\ Mail(w) /\ On(w, q) /\ UNCHANGED row /\ WorkerMoves(w, "record")
              /\ MailingOf(q) \in Mailings
              /\ mails' = [mails EXCEPT ![MailingOf(q)] = @ + 1]
  <2>1. PICK q \in Rows : worker[w].row = q
    BY <1>2, SendEffect
  <2>2. ~Idle(w) /\ mails' = [mails EXCEPT ![MailingOf(q)] = @ + 1]
    BY <1>2, <2>1 DEF Mail, Idle
  <2> QED BY <1>2, <2>1, <2>2, RowParts, SendEffect DEF On
<1> QED BY <1>1, <1>2

\* After a dispatch has cleared the rows, no mailing that was sent is sure, and no row of
\* a sure one is live.
LEMMA ClearEnds ==
  ASSUME TypeOK, NEW t \in Ticks, Clear(t), NEW r \in Rows, Sure(r)'
  PROVE  ~Live(r)' /\ ~Mailed(MailingOf(r)) /\ UNCHANGED mails
<1>1. row \in [Rows -> RowRecs] /\ MailingOf(r) \in Mailings
  BY TypesUsed, RowParts
<1>2. row' = [q \in Rows |-> IF q \in Partial THEN [row[q] EXCEPT !.status = "NONE"] ELSE row[q]]
  BY DEF Clear, SetRows
<1>3. row'[r].status \notin Active
  BY <1>1, <1>2 DEF Partial, WithStatus, RowRecs, Active
<1>4. \A w \in Workers : ~Idle(w) => MailingOf(worker[w].row) \in twice'
  BY DEF Clear
<1>5. UNCHANGED worker
  BY DEF Clear, UnchangedByTick, sends
<1>6. ~Live(r)'
  BY <1>3, <1>4, <1>5 DEF Live, On, Idle, Sure
<1>7. ~Mailed(MailingOf(r)) /\ UNCHANGED mails
  BY <1>1 DEF Clear, Sure, Mailed
<1> QED BY <1>6, <1>7

LEMMA SureBefore ==
  ASSUME [Next]_vars, NEW r \in Rows, Sure(r)' PROVE Sure(r)
BY TwiceGrows DEF Sure

\* The row of a mailing that was sent before the step.
LEMMA SentRowKeeps ==
  ASSUME NEW r \in Rows, RowTurn(r), OneSendOf(r), SentOnceRow(r), Mailed(MailingOf(r)), ~Inserted(r)
  PROVE  /\ row'[r].status \in Active => \E w \in Workers : On(w, r)' /\ worker'[w].pc = "record"
         /\ \A w \in Workers : On(w, r)' => worker'[w].pc \in {"record", "count"}
<1>0. /\ row[r].status \in Active => \E w \in Workers : On(w, r) /\ worker[w].pc = "record"
      /\ \A w \in Workers : On(w, r) => worker[w].pc \in {"record", "count"}
  BY DEF SentOnceRow
<1> USE <1>0 DEF OneSendOf, NoJob, NoSend, On, Idle
<1>1. CASE Rests(r)
  BY <1>1 DEF Rests, SendsStay, StatusSettles, StatusStays
<1>2. CASE Cleared(r)
  BY <1>2 DEF Cleared, SendsStay, Active
<1>3. CASE Claimed(r) \/ Requeued(r)
  BY <1>3 DEF Claimed, Requeued, Active
<1>4. CASE Taken(r)
  <2>1. \A w \in Workers : ~On(w, r)
    BY <1>4 DEF Taken
  <2>2. row[r].status \notin Active
    BY <2>1
  <2> QED BY <1>4, <2>1, <2>2 DEF Taken, OthersStay, StatusStays, Active
<1>5. CASE Moved(r)
  BY <1>5 DEF Moved, OthersStay, StatusStays, Active
<1>6. CASE Finished(r)
  BY <1>6 DEF Finished, OthersStay, StatusSettles, StatusStays
<1>7. CASE Crashed(r)
  BY <1>7 DEF Crashed, StatusStays
<1> QED BY <1>1, <1>2, <1>3, <1>4, <1>5, <1>6, <1>7 DEF RowTurn

LEMMA SentOnceKeeps ==
  ASSUME BoundsAssumption, TypeOK, OnceInv, [Next]_vars, NEW r \in Rows, Sure(r)', OneSendOf(r)'
  PROVE  SentOnceRow(r)'
<1>0. Sure(r) /\ OneSendOf(r) /\ SentOnceRow(r) /\ RowTurn(r) /\ MailingOf(r) \in Mailings
  BY SureBefore, RowTurns, RowParts DEF OnceInv
<1> SUFFICES ASSUME mails'[MailingOf(r)] > 0
             PROVE  /\ row'[r].status \in Active => \E w \in Workers : On(w, r)' /\ worker'[w].pc = "record"
                    /\ \A w \in Workers : On(w, r)' => worker'[w].pc \in {"record", "count"}
  BY DEF SentOnceRow, Mailed
<1>1. CASE Mailed(MailingOf(r))
  <2>1. ~Inserted(r)
    BY <1>0, <1>1 DEF Inserted, Insert, Building, OnceInv
  <2> QED BY <1>0, <1>1, <2>1, SentRowKeeps
<1>2. CASE ~Mailed(MailingOf(r))
  <2>1. PICK w \in Workers, q \in Rows :
              /\ Mail(w) /\ On(w, q) /\ UNCHANGED row /\ WorkerMoves(w, "record")
              /\ MailingOf(q) \in Mailings
              /\ mails' = [mails EXCEPT ![MailingOf(q)] = @ + 1]
    BY <1>2, MailSteps DEF Mailed
  <2>2. SameMailing(q, r)
    BY <1>0, <1>2, <2>1 DEF TypeOK, Mailed, SameMailing
  <2>3. CASE r = q
    <3>1. On(w, r)' /\ worker'[w].pc = "record"
      BY <2>1, <2>3 DEF On, Idle, WorkerMoves
    <3> QED BY <3>1 DEF OneSendOf
  <2>4. CASE r # q
    <3>1. ~Live(r)
      BY <1>0, <2>1, <2>2, <2>4 DEF OnceInv, Live, SameMailing, Sure
    <3>2. \A v \in Workers : ~On(v, r)'
      BY <2>1, <2>4, <3>1 DEF Live, On, Idle, WorkerMoves
    <3> QED BY <2>1, <3>1, <3>2 DEF Live
  <2> QED BY <2>3, <2>4
<1> QED BY <1>1, <1>2

LEMMA OneMailKeeps ==
  ASSUME BoundsAssumption, TypeOK, OnceInv, [Next]_vars, NEW m \in Mailings, mails'[m] > 1
  PROVE  m \in twice'
<1>0. mails \in [Mailings -> Nat]
  BY DEF TypeOK
<1>1. CASE mails'[m] = mails[m]
  BY <1>1, TwiceGrows DEF OnceInv
<1>2. CASE mails'[m] # mails[m]
  <2>1. PICK w \in Workers, q \in Rows :
              /\ Mail(w) /\ On(w, q) /\ UNCHANGED row /\ WorkerMoves(w, "record")
              /\ MailingOf(q) \in Mailings
              /\ mails' = [mails EXCEPT ![MailingOf(q)] = @ + 1]
    BY <1>2, MailSteps
  <2>2. MailingOf(q) = m /\ mails[m] > 0
    BY <1>0, <1>2, <2>1
  <2>3. worker[w].pc \notin {"record", "count"}
    BY <2>1 DEF Mail
  <2>4. ~Sure(q)
    BY <2>1, <2>2, <2>3 DEF OnceInv, SentOnceRow, Mailed
  <2> QED BY <2>2, <2>4, TwiceGrows DEF Sure
<1> QED BY <1>1, <1>2

LEMMA OneLiveKeeps ==
  ASSUME BoundsAssumption, TypeOK, OnceInv, [Next]_vars,
         NEW q \in Rows, NEW r \in Rows, Sure(r)', SameMailing(q, r), Live(q)', Live(r)'
  PROVE  q = r
<1>1. Sure(q)' /\ Sure(q) /\ Sure(r)
  BY SureBefore DEF Sure, SameMailing
<1>2. (Live(q) \/ Inserted(q)) /\ (Live(r) \/ Inserted(r))
  BY <1>1, RowTurns, LiveSteps
<1>3. CASE Live(q) /\ Live(r)
  BY <1>1, <1>3 DEF OnceInv
<1>4. CASE Inserted(q) \/ Inserted(r)
  <2>1. PICK t \in Ticks : Building(t)
    BY <1>4 DEF Inserted, Insert, Building
  <2>2. (Live(q) => q[1] = built) /\ (Live(r) => r[1] = built)
    BY <1>1, <2>1 DEF OnceInv
  <2>3. q[1] = r[1]
    BY <1>2, <2>2 DEF Inserted
  <2> QED BY <2>3, RowParts DEF SameMailing
<1> QED BY <1>2, <1>3, <1>4

LEMMA BuildingKeeps ==
  ASSUME BoundsAssumption, TypeOK, DispatchInv, OnceInv, [Next]_vars,
         NEW t \in Ticks, Building(t)', NEW r \in Rows, Sure(r)'
  PROVE  /\ Live(r)' => r[1] = built'
         /\ r[1] = built' /\ row'[r].status = "NONE" => ~(mails'[MailingOf(r)] > 0)
<1>0. Sure(r) /\ RowTurn(r) /\ MailingOf(r) \in Mailings /\ mails \in [Mailings -> Nat]
  BY SureBefore, RowTurns, RowParts DEF TypeOK
<1>1. built' = built /\ (Building(t) \/ Clear(t))
  BY BuiltSteps
<1>2. CASE Clear(t)
  BY <1>2, ClearEnds DEF Mailed
<1>3. CASE Building(t)
  <2>1. Live(r)' => r[1] = built'
    BY <1>0, <1>1, <1>3, LiveSteps DEF OnceInv, Inserted
  <2>2. ASSUME r[1] = built, row'[r].status = "NONE", mails'[MailingOf(r)] > 0 PROVE FALSE
    <3>1. ~Cleared(r)
      BY <1>3 DEF Cleared, Clear, DispatchInv, Dispatching, Building
    <3>2. row[r].status = "NONE"
      BY <1>0, <2>2, <3>1 DEF RowTurn, Rests, Inserted, Claimed, Requeued, Taken, Moved, Finished, Crashed,
           StatusSettles, StatusStays, Active
    <3>3. ~Mailed(MailingOf(r)) /\ NoSend(r)
      BY <1>0, <1>3, <2>2, <3>2 DEF OnceInv, FreshRow
    <3>4. PICK w \in Workers, q \in Rows :
              /\ Mail(w) /\ On(w, q) /\ UNCHANGED row /\ WorkerMoves(w, "record")
              /\ MailingOf(q) \in Mailings
              /\ mails' = [mails EXCEPT ![MailingOf(q)] = @ + 1]
      BY <2>2, <3>3, MailSteps DEF Mailed
    <3>5. MailingOf(q) = MailingOf(r)
      BY <1>0, <2>2, <3>3, <3>4 DEF Mailed
    <3>6. Live(q) /\ Sure(q)
      BY <1>0, <3>4, <3>5 DEF Live, Sure
    <3>7. q[1] = built
      BY <1>3, <3>6 DEF OnceInv
    <3>8. q = r
      BY <2>2, <3>5, <3>7, RowParts
    <3> QED BY <3>3, <3>4, <3>8 DEF NoSend
  <2> QED BY <1>1, <2>1, <2>2
<1> QED BY <1>1, <1>2, <1>3

LEMMA OnceKeeps ==
  ASSUME BoundsAssumption, TypeOK, DispatchInv, OnceInv, [Next]_vars
  PROVE  OnceInv'
<1>1. ASSUME NEW r \in Rows, Sure(r)' PROVE OneSendOf(r)' /\ FreshRow(r)' /\ SentOnceRow(r)'
  <2>1. Sure(r) /\ RowTurn(r)
    BY <1>1, SureBefore, RowTurns
  <2>2. OneSendOf(r) /\ FreshRow(r)
    BY <2>1 DEF OnceInv
  <2>3. OneSendOf(r)'
    BY <2>1, <2>2, OneSendKeeps
  <2>4. FreshRow(r)'
    BY <2>1, <2>2, FreshKeeps
  <2> QED BY <1>1, <2>3, <2>4, SentOnceKeeps
<1>2. \A q, r \in Rows : Sure(r)' /\ SameMailing(q, r)' /\ Live(q)' /\ Live(r)' => q = r
  BY OneLiveKeeps DEF SameMailing
<1>3. \A t \in Ticks : Building(t)' => \A r \in Rows : Sure(r)' =>
       /\ Live(r)' => r[1] = built'
       /\ r[1] = built' /\ row'[r].status = "NONE" => ~Mailed(MailingOf(r))'
  BY BuildingKeeps DEF Mailed
<1>4. \A m \in Mailings : mails'[m] > 1 => m \in twice'
  BY OneMailKeeps
<1> QED BY <1>1, <1>2, <1>3, <1>4 DEF OnceInv

LEMMA OnceInit == ASSUME Init PROVE OnceInv
<1>1. /\ \A w \in Workers : worker[w].pc = "idle"
      /\ jobs = {}
      /\ \A r \in Rows : row[r].status = "NONE"
      /\ \A t \in Ticks : tick[t].pc = "idle"
      /\ \A m \in Mailings : mails[m] = 0
  BY DEF Init, IdleWorker, NoRow, IdleTick
<1>2. \A r \in Rows : NoJob(r) /\ NoSend(r) /\ ~Live(r) /\ ~Mailed(MailingOf(r))
  BY <1>1, RowParts DEF NoJob, NoSend, Live, On, Idle, Active, Mailed
<1> QED BY <1>1, <1>2 DEF OnceInv, OneSendOf, FreshRow, SentOnceRow, Building, NoJob, NoSend

\* A lead gets each email of the campaign once (EmailSenderService.send over
\* dispatch-tick's rows), unless its SENT was not recorded, its row was requeued under a
\* late job, or a dispatch came after the mail or under a send of it.
THEOREM MailsOnce == Spec => []MailedOnce
<1>1. Init => TypeOK /\ DispatchInv /\ OnceInv
  BY BoundsAssumption, InitTyped, DispatchInit, OnceInit
<1>2. TypeOK /\ DispatchInv /\ TypeOK' /\ [Next]_vars => DispatchInv'
  BY BoundsAssumption, DispatchKeeps
<1>3. TypeOK /\ DispatchInv /\ OnceInv /\ [Next]_vars => OnceInv'
  BY BoundsAssumption, OnceKeeps
<1>4. OnceInv => MailedOnce
  BY DEF OnceInv, MailedOnce
<1> QED BY <1>1, <1>2, <1>3, <1>4, TypeCorrect, PTL DEF Spec

==============================================================================
