-------------------------- MODULE WorkingDay_proofs --------------------------
(***************************************************************************)
(* What is proved of a working day: of JobLifecycle, for any number of     *)
(* calls and any kinds of fault; of DayPlan, for any jobs, offers, places, *)
(* drives, times and upsets.                                               *)
(***************************************************************************)
EXTENDS WorkingDay, Sequences, FiniteSetTheorems, WellFoundedInduction, TLAPS

SeenType == [status : Statuses, scanback : BOOLEAN, timed : BOOLEAN]

------------------------------------------------------------------------------
(* What a step does to its call *)

\* Call c, and no other, goes on to pc.
Moves(c, pc) ==
  /\ call' \in [Calls -> CallType] /\ call'[c].pc = pc
  /\ \A b \in Calls : b # c => call'[b] = call[b]

\* It does, and keeps what it has read and what was asked for.
Goes(c, pc) ==
  Moves(c, pc) /\ call'[c].seen = call[c].seen /\ call'[c].want = call[c].want

LEMMA CallPut ==
  ASSUME call \in [Calls -> CallType], NEW c \in Calls, NEW rec \in CallType,
         call' = [call EXCEPT ![c] = rec]
  PROVE  call'[c] = rec /\ Moves(c, rec.pc)
BY DEF Moves

LEMMA GotoEffect ==
  ASSUME call \in [Calls -> CallType], NEW c \in Calls, NEW pc \in Steps, Goto(c, pc)
  PROVE  Goes(c, pc)
<1> DEFINE rec == [call[c] EXCEPT !.pc = pc]
<1>1. call' = [call EXCEPT ![c] = rec]
  BY Zenon DEF Goto
<1>2. rec \in CallType /\ rec.pc = pc /\ rec.seen = call[c].seen /\ rec.want = call[c].want
  BY DEF CallType
<1> HIDE DEF rec
<1> QED BY <1>1, <1>2, CallPut DEF Goes

LEMMA IdleIsCall == IdleCall \in CallType /\ IdleCall.pc = "idle"
<1>1. [status |-> "PENDING", scanback |-> FALSE, timed |-> FALSE] \in SeenType
  BY DEF SeenType, Statuses
<1> QED BY <1>1 DEF IdleCall, CallType, SeenType, Steps

LEMMA ReturnEffect ==
  ASSUME call \in [Calls -> CallType], NEW c \in Calls, Return(c)
  PROVE  Moves(c, "idle")
BY IdleIsCall, CallPut DEF Return

LEMMA RowIsSeen == TypeOK => Row(job) \in SeenType
BY DEF TypeOK, RowType, Row, SeenType

\* A call that has read the row is about to do what was asked.
LEMMA ReadEffect ==
  ASSUME TypeOK, NEW c \in Calls, NEW pc \in Steps, NEW want \in Statuses \cup Edits \cup {""},
         call' = [call EXCEPT ![c] = [@ EXCEPT !.pc = pc, !.seen = Row(job), !.want = want]]
  PROVE  Moves(c, pc) /\ call'[c].seen = Row(job) /\ call'[c].want = want
<1> DEFINE one == [call[c] EXCEPT !.pc = pc]
           two == [one EXCEPT !.seen = Row(job)]
           rec == [two EXCEPT !.want = want]
<1>0. call \in [Calls -> CallType] /\ Row(job) \in SeenType
  BY RowIsSeen DEF TypeOK
<1>1. call' = [call EXCEPT ![c] = rec]
  BY Zenon
<1>2. one \in CallType /\ one.pc = pc
  BY <1>0 DEF CallType
<1> HIDE DEF one
<1>3. two \in CallType /\ two.pc = pc /\ two.seen = Row(job)
  BY <1>0, <1>2 DEF CallType, SeenType
<1> HIDE DEF two
<1>4. rec \in CallType /\ rec.pc = pc /\ rec.seen = Row(job) /\ rec.want = want
  BY <1>3 DEF CallType
<1> HIDE DEF rec
<1> QED BY <1>0, <1>1, <1>4, CallPut

LEMMA StatusRead ==
  ASSUME TypeOK, NEW c \in Calls, ReadForStatus(c)
  PROVE  /\ UNCHANGED <<job, journal, invoices, unsynced, faults>>
         /\ Moves(c, "writing") /\ call'[c].seen = Row(job) /\ Allowed(call'[c].want)
         /\ call'[c].want \in Statuses
<1>1. PICK want \in Statuses :
         /\ Allowed(want)
         /\ call' = [call EXCEPT ![c] = [@ EXCEPT !.pc = "writing", !.seen = Row(job), !.want = want]]
  BY DEF ReadForStatus
<1>2. Moves(c, "writing") /\ call'[c].seen = Row(job) /\ call'[c].want = want
  BY <1>1, ReadEffect DEF Steps
<1> QED BY <1>1, <1>2 DEF ReadForStatus

LEMMA EditRead ==
  ASSUME TypeOK, NEW c \in Calls, ReadForEdit(c)
  PROVE  /\ UNCHANGED <<job, journal, invoices, unsynced, faults>>
         /\ Moves(c, "editing") /\ call'[c].seen = Row(job)
<1>1. PICK edit \in Edits, timed \in BOOLEAN :
         call' = [call EXCEPT ![c] = [pc |-> "editing", seen |-> Row(job), want |-> edit, timed |-> timed]]
  BY DEF ReadForEdit
<1> DEFINE rec == [pc |-> "editing", seen |-> Row(job), want |-> edit, timed |-> timed]
<1>2. Row(job) \in SeenType /\ call \in [Calls -> CallType]
  BY RowIsSeen DEF TypeOK
<1>3. rec \in CallType /\ rec.pc = "editing" /\ rec.seen = Row(job)
  BY <1>2 DEF CallType, SeenType, Steps
<1>4. call' = [call EXCEPT ![c] = rec]
  BY <1>1
<1> HIDE DEF rec
<1>5. Moves(c, "editing") /\ call'[c].seen = Row(job)
  BY <1>2, <1>3, <1>4, CallPut
<1> QED BY <1>5 DEF ReadForEdit

LEMMA RemoveRead ==
  ASSUME TypeOK, NEW c \in Calls, ReadForRemove(c)
  PROVE  /\ UNCHANGED <<job, journal, invoices, unsynced, faults>>
         /\ Moves(c, "unsync") \/ Moves(c, "removing")
         /\ call'[c].seen = Row(job)
<1> DEFINE pc == IF job.status \in {"CONFIRMED", "IN_PROGRESS", "COMPLETE"} THEN "unsync" ELSE "removing"
           one == [call[c] EXCEPT !.seen = Row(job)]
           rec == [one EXCEPT !.pc = pc]
<1>0. call \in [Calls -> CallType] /\ Row(job) \in SeenType
  BY RowIsSeen DEF TypeOK
<1>1. call' = [call EXCEPT ![c] = rec]
  BY Zenon DEF ReadForRemove
<1>2. one \in CallType /\ one.seen = Row(job)
  BY <1>0 DEF CallType, SeenType
<1> HIDE DEF one
<1>3. pc \in {"unsync", "removing"} /\ pc \in Steps
  BY DEF Steps
<1> HIDE DEF pc
<1>4. rec \in CallType /\ rec.pc = pc /\ rec.seen = Row(job)
  BY <1>2, <1>3 DEF CallType
<1> HIDE DEF rec
<1>5. Moves(c, pc) /\ call'[c].seen = Row(job)
  BY <1>0, <1>1, <1>4, CallPut
<1> QED BY <1>3, <1>5 DEF ReadForRemove

LEMMA GenerateBegun ==
  ASSUME TypeOK, NEW c \in Calls, BeginGenerate(c)
  PROVE  UNCHANGED <<job, journal, invoices, unsynced, faults>> /\ Moves(c, "invoice")
<1> DEFINE one == [call[c] EXCEPT !.pc = "invoice"]
           rec == [one EXCEPT !.want = ""]
<1>0. call \in [Calls -> CallType]
  BY DEF TypeOK
<1>1. call' = [call EXCEPT ![c] = rec]
  BY Zenon DEF BeginGenerate
<1>2. one \in CallType /\ one.pc = "invoice"
  BY <1>0 DEF CallType, Steps
<1> HIDE DEF one
<1>3. rec \in CallType /\ rec.pc = "invoice"
  BY <1>2 DEF CallType
<1> HIDE DEF rec
<1>4. Moves(c, "invoice")
  BY <1>0, <1>1, <1>3, CallPut
<1> QED BY <1>4 DEF BeginGenerate

------------------------------------------------------------------------------
(* What the two writes do to the row *)

\* The row after a status write.
LEMMA StatusWritten ==
  ASSUME job \in RowType, NEW seen \in SeenType, NEW want \in Statuses
  PROVE  LET r == WithStatus(seen, want) IN
         /\ r \in RowType /\ r.status = want
         /\ r.deleted = job.deleted /\ r.scanback = job.scanback /\ r.timed = job.timed
         /\ "completed" \in r.stamps => "completed" \in job.stamps \/ want = "COMPLETE"
         /\ want = "SCANNING" => r.window # "planned"
<1> DEFINE stamped == [job EXCEPT !.status = want]
           stamp(r, s) == [r EXCEPT !.stamps = @ \cup {s}]
           windowed(r, w) == [r EXCEPT !.window = w]
           unscanned(r) == [r EXCEPT !.stamps = @ \ {"scanning"}]
           Same(r) == /\ r \in RowType /\ r.status = want
                      /\ r.deleted = job.deleted /\ r.scanback = job.scanback /\ r.timed = job.timed
<1>1. Same(stamped) /\ stamped.stamps = job.stamps
  BY DEF RowType
<1>2. \A r \in RowType, s \in Stamps : Same(r) => Same(stamp(r, s)) /\ stamp(r, s).stamps = r.stamps \cup {s}
  BY DEF RowType
<1>3. \A r \in RowType, w \in {"none", "anchored"} : Same(r) =>
        Same(windowed(r, w)) /\ windowed(r, w).stamps = r.stamps /\ windowed(r, w).window = w
  BY DEF RowType
<1>4. \A r \in RowType : Same(r) => Same(unscanned(r)) /\ unscanned(r).stamps = r.stamps \ {"scanning"}
  BY DEF RowType
<1>5. WithStatus(seen, want) =
        CASE want = "CONFIRMED" -> stamp(stamped, "confirmed")
          [] want = "IN_PROGRESS" ->
               IF seen.status = "SCANNING" THEN windowed(unscanned(stamp(stamped, "started")), "none")
               ELSE stamp(stamped, "started")
          [] want = "SCANNING" ->
               windowed(stamp(stamped, "scanning"), IF seen.timed THEN "anchored" ELSE "none")
          [] want = "COMPLETE" -> stamp(stamped, "completed")
          [] want = "CANCELLED" -> stamp(stamped, "cancelled")
          [] OTHER -> stamped
  BY Zenon DEF WithStatus
<1>6. {"confirmed", "started", "scanning", "completed", "cancelled"} \subseteq Stamps
  BY DEF Stamps
<1>7. \A r \in {stamped} \cup RowType : Same(r) => r \in RowType
  OBVIOUS
<1> HIDE DEF stamped, stamp, windowed, unscanned, Same
<1> DEFINE r == WithStatus(seen, want)
<1>8. stamped \in RowType
  BY <1>1, <1>7
<1>9. \A s \in Stamps : Same(stamp(stamped, s)) /\ stamp(stamped, s) \in RowType
                        /\ stamp(stamped, s).stamps = job.stamps \cup {s}
  BY <1>1, <1>2, <1>8 DEF Same
<1>10. Same(r) /\ ("completed" \in r.stamps => "completed" \in job.stamps \/ want = "COMPLETE")
  <2>1. CASE want = "CONFIRMED"
    BY <1>5, <1>6, <1>9, <2>1
  <2>2. CASE want = "IN_PROGRESS"
    <3>1. Same(unscanned(stamp(stamped, "started"))) /\ unscanned(stamp(stamped, "started")) \in RowType
          /\ unscanned(stamp(stamped, "started")).stamps = (job.stamps \cup {"started"}) \ {"scanning"}
      BY <1>4, <1>6, <1>9 DEF Same
    <3>2. Same(windowed(unscanned(stamp(stamped, "started")), "none"))
          /\ windowed(unscanned(stamp(stamped, "started")), "none").stamps = (job.stamps \cup {"started"}) \ {"scanning"}
      BY <1>3, <3>1
    <3> QED BY <1>5, <1>6, <1>9, <2>2, <3>2
  <2>3. CASE want = "SCANNING"
    BY <1>3, <1>5, <1>6, <1>9, <2>3
  <2>4. CASE want = "COMPLETE"
    BY <1>5, <1>6, <1>9, <2>4
  <2>5. CASE want = "CANCELLED"
    BY <1>5, <1>6, <1>9, <2>5
  <2>6. CASE want \notin {"CONFIRMED", "IN_PROGRESS", "SCANNING", "COMPLETE", "CANCELLED"}
    BY <1>1, <1>5, <2>6
  <2> QED BY <2>1, <2>2, <2>3, <2>4, <2>5, <2>6
<1>11. want = "SCANNING" => r.window # "planned"
  BY <1>3, <1>5, <1>6, <1>9
<1> QED BY <1>10, <1>11 DEF Same

\* An edit leaves the status and the stamps, and plans a window only as Rescheduled says.
LEMMA EditWritten ==
  ASSUME TypeOK, NEW c \in Calls, WriteEdit(c)
  PROVE  /\ job' \in RowType
         /\ job'.status = job.status /\ job'.deleted = job.deleted /\ job'.stamps = job.stamps
         /\ job'.window = "planned" =>
              job.window = "planned" \/ Rescheduled(call[c].seen, call[c].want)
<1> DEFINE seen == call[c].seen
           edit == call[c].want
           timed == call[c].timed
           scanback == IF edit = "type" THEN ~seen.scanback ELSE job.scanback
           isTimed == IF timed # seen.timed THEN timed ELSE job.timed
           window == IF ~Rescheduled(seen, edit) THEN job.window
                     ELSE IF timed THEN "planned" ELSE "none"
           one == [job EXCEPT !.scanback = scanback]
           two == [one EXCEPT !.timed = isTimed]
           three == [two EXCEPT !.window = window]
<1>1. job \in RowType /\ seen \in SeenType /\ timed \in BOOLEAN
  BY DEF TypeOK, CallType, SeenType
<1>2. scanback \in BOOLEAN /\ isTimed \in BOOLEAN
  BY <1>1 DEF RowType, SeenType
<1>3. window \in {"none", "planned", "anchored"}
      /\ (window = "planned" => job.window = "planned" \/ Rescheduled(seen, edit))
  BY <1>1 DEF RowType
<1>4. job' = three
  BY Zenon DEF WriteEdit
<1> HIDE DEF scanback, isTimed, window, seen, edit, timed
<1>5. one \in RowType /\ one.status = job.status /\ one.deleted = job.deleted /\ one.stamps = job.stamps
  BY <1>1, <1>2 DEF RowType
<1> HIDE DEF one
<1>6. two \in RowType /\ two.status = job.status /\ two.deleted = job.deleted /\ two.stamps = job.stamps
  BY <1>2, <1>5 DEF RowType
<1> HIDE DEF two
<1>7. three \in RowType /\ three.status = job.status /\ three.deleted = job.deleted
      /\ three.stamps = job.stamps /\ three.window = window
  BY <1>3, <1>6 DEF RowType
<1> HIDE DEF three
<1> QED BY <1>3, <1>4, <1>7 DEF seen, edit

LEMMA DeletedWritten ==
  ASSUME TypeOK, NEW c \in Calls, WriteDeleted(c)
  PROVE  /\ job' \in RowType /\ job'.deleted /\ job'.status = job.status
         /\ job'.stamps = job.stamps /\ job'.window = job.window /\ job'.scanback = job.scanback
<1> DEFINE rec == [job EXCEPT !.deleted = TRUE]
<1>1. job' = rec
  BY Zenon DEF WriteDeleted
<1>2. /\ rec \in RowType /\ rec.deleted /\ rec.status = job.status
      /\ rec.stamps = job.stamps /\ rec.window = job.window /\ rec.scanback = job.scanback
  BY DEF TypeOK, RowType
<1> HIDE DEF rec
<1> QED BY <1>1, <1>2

------------------------------------------------------------------------------
(* The steps *)

\* The step of call c is none of those that write the row, or begin or end a read of it.
Aside(c) ==
  \/ FindJournalEntry(c) \/ AddJournalEntry(c) \/ JournalThrows(c) \/ BeginGenerate(c) \/ Generate(c)
  \/ AddInvoice(c) \/ InvoiceThrows(c) \/ Notify(c) \/ EnqueueSync(c) \/ EditDone(c)
  \/ DraftThrows(c) \/ EnqueueDelete(c) \/ Die(c)

LEMMA CallSteps ==
  ASSUME [Next]_vars
  PROVE  \/ UNCHANGED vars
         \/ /\ raced' = (raced \/ Race)
            /\ \E c \in Calls :
                 \/ ReadForStatus(c) \/ ReadForEdit(c) \/ ReadForRemove(c)
                 \/ WriteStatus(c) \/ WriteEdit(c) \/ WriteDeleted(c) \/ Aside(c)
BY DEF Next, StatusStep, EditStep, RemoveStep, Aside

\* Where the other steps take their call; the row they leave alone.
LEMMA AsideMoves ==
  ASSUME TypeOK, NEW c \in Calls, Aside(c)
  PROVE  /\ UNCHANGED job
         /\ \/ Moves(c, "idle") \/ Moves(c, "invoice") \/ Moves(c, "journalAdd")
            \/ Moves(c, "notify") \/ Moves(c, "invoiceAdd") \/ Moves(c, "thenStatus")
            \/ Goes(c, "removing") /\ call[c].pc = "unsync"
<1>0. call \in [Calls -> CallType]
  BY DEF TypeOK
<1>1. UNCHANGED job
  BY DEF Aside, FindJournalEntry, AddJournalEntry, JournalThrows, BeginGenerate, Generate, AddInvoice,
         InvoiceThrows, Notify, EnqueueSync, EditDone, DraftThrows, EnqueueDelete, Die
<1>2. CASE Return(c)
  BY <1>0, <1>1, <1>2, ReturnEffect
<1>3. CASE BeginGenerate(c)
  BY <1>1, <1>3, GenerateBegun
<1>4. ASSUME NEW pc \in {"invoice", "journalAdd", "notify", "invoiceAdd", "thenStatus"}, Goto(c, pc)
      PROVE  Moves(c, pc)
  BY <1>0, <1>4, GotoEffect DEF Goes, Steps
<1>5. CASE EnqueueDelete(c)
  <2>1. Goto(c, "removing") /\ call[c].pc = "unsync"
    BY <1>5 DEF EnqueueDelete
  <2> QED BY <1>0, <1>1, <2>1, GotoEffect DEF Steps
<1>6. CASE FindJournalEntry(c) \/ Generate(c)
  BY <1>1, <1>4, <1>6 DEF FindJournalEntry, Generate
<1>7. CASE AddJournalEntry(c) \/ JournalThrows(c) \/ AddInvoice(c) \/ InvoiceThrows(c)
  BY <1>1, <1>4, <1>7 DEF AddJournalEntry, JournalThrows, AddInvoice, InvoiceThrows
<1>8. CASE Notify(c) \/ EnqueueSync(c) \/ EditDone(c) \/ DraftThrows(c) \/ Die(c)
  BY <1>1, <1>2, <1>4, <1>8 DEF Notify, EnqueueSync, EditDone, DraftThrows, Die
<1> QED BY <1>3, <1>5, <1>6, <1>7, <1>8 DEF Aside

LEMMA StatusWrites ==
  ASSUME TypeOK, NEW c \in Calls, WriteStatus(c), call[c].want \in Statuses
  PROVE  /\ job' \in RowType /\ job'.status = call[c].want
         /\ job'.deleted = job.deleted /\ job'.scanback = job.scanback
         /\ "completed" \in job'.stamps => "completed" \in job.stamps \/ call[c].want = "COMPLETE"
         /\ call[c].want = "SCANNING" => job'.window # "planned"
         /\ \/ call[c].want = "CONFIRMED" /\ Goes(c, "sync")
            \/ call[c].want = "COMPLETE" /\ Goes(c, "journal")
            \/ call[c].want = "SCANNING" /\ Goes(c, "notify")
            \/ call[c].want \notin {"CONFIRMED", "COMPLETE", "SCANNING"} /\ Moves(c, "idle")
         /\ UNCHANGED <<journal, invoices, unsynced, faults>>
<1>1. call[c].seen \in SeenType /\ job \in RowType /\ call \in [Calls -> CallType]
  BY DEF TypeOK, CallType, SeenType
<1>2. job' = WithStatus(call[c].seen, call[c].want)
  BY DEF WriteStatus
<1>3. /\ job' \in RowType /\ job'.status = call[c].want
      /\ job'.deleted = job.deleted /\ job'.scanback = job.scanback
      /\ "completed" \in job'.stamps => "completed" \in job.stamps \/ call[c].want = "COMPLETE"
      /\ call[c].want = "SCANNING" => job'.window # "planned"
  BY <1>1, <1>2, StatusWritten
<1>4. \/ call[c].want = "CONFIRMED" /\ Goto(c, "sync")
      \/ call[c].want = "COMPLETE" /\ Goto(c, "journal")
      \/ call[c].want = "SCANNING" /\ Goto(c, "notify")
      \/ call[c].want \notin {"CONFIRMED", "COMPLETE", "SCANNING"} /\ Return(c)
  BY DEF WriteStatus, AfterStatus
<1>5. {"sync", "journal", "notify"} \subseteq Steps
  BY DEF Steps
<1>6. \/ call[c].want = "CONFIRMED" /\ Goes(c, "sync")
      \/ call[c].want = "COMPLETE" /\ Goes(c, "journal")
      \/ call[c].want = "SCANNING" /\ Goes(c, "notify")
      \/ call[c].want \notin {"CONFIRMED", "COMPLETE", "SCANNING"} /\ Moves(c, "idle")
  BY <1>1, <1>4, <1>5, GotoEffect, ReturnEffect
<1> QED BY <1>3, <1>6 DEF WriteStatus

LEMMA EditMoves ==
  ASSUME TypeOK, NEW c \in Calls, WriteEdit(c)
  PROVE  IF Resynced(call[c].seen, call[c].want) THEN Moves(c, "resync") ELSE Moves(c, "thenStatus")
<1>1. call \in [Calls -> CallType] /\ {"resync", "thenStatus"} \subseteq Steps
  BY DEF TypeOK, Steps
<1>2. Goto(c, IF Resynced(call[c].seen, call[c].want) THEN "resync" ELSE "thenStatus")
  BY DEF WriteEdit
<1> QED BY <1>1, <1>2, GotoEffect DEF Goes

LEMMA DeleteMoves ==
  ASSUME TypeOK, NEW c \in Calls, WriteDeleted(c) PROVE Moves(c, "idle")
BY ReturnEffect DEF TypeOK, WriteDeleted

------------------------------------------------------------------------------
(* Types; and what a call that is about to write has asked for *)

\* The status asked for was allowed for the row as read.
AskInv ==
  \A c \in Calls : call[c].pc = "writing" =>
    /\ call[c].want \in TRANSITIONS[call[c].seen.status]
    /\ ~(call[c].want = "COMPLETE" /\ call[c].seen.status = "IN_PROGRESS" /\ call[c].seen.scanback)

LEMMA TransitionsTyped ==
  /\ \A s \in Statuses : TRANSITIONS[s] \subseteq Statuses
  /\ TRANSITIONS["COMPLETE"] = {}
  /\ \A s \in Statuses : "COMPLETE" \in TRANSITIONS[s] => s \in {"IN_PROGRESS", "SCANNING"}
BY DEF TRANSITIONS, Statuses

\* The call of the step is at pc afterwards, so it writes next only if it has just read.
LEMMA AskKeeps ==
  ASSUME TypeOK, AskInv, [Next]_vars
  PROVE  AskInv'
<1>1. CASE UNCHANGED vars
  BY <1>1 DEF vars, AskInv
<1>2. ASSUME NEW c \in Calls, NEW pc \in Steps \ {"writing"}, Moves(c, pc) PROVE AskInv'
  BY <1>2 DEF Moves, AskInv
<1>3. ASSUME NEW c \in Calls, ReadForStatus(c) PROVE AskInv'
  <2>1. Moves(c, "writing") /\ call'[c].seen = Row(job) /\ Allowed(call'[c].want)
    BY <1>3, StatusRead
  <2> QED BY <2>1 DEF Moves, AskInv, Allowed, Row
<1>4. ASSUME NEW c \in Calls, ReadForEdit(c) \/ ReadForRemove(c) \/ WriteEdit(c) \/ WriteDeleted(c) PROVE AskInv'
  BY <1>2, <1>4, EditRead, RemoveRead, EditMoves, DeleteMoves DEF Steps
<1>5. ASSUME NEW c \in Calls, Aside(c) PROVE AskInv'
  BY <1>2, <1>5, AsideMoves DEF Goes, Steps
<1>6. ASSUME NEW c \in Calls, WriteStatus(c) PROVE AskInv'
  <2>1. call[c].want \in Statuses
    BY <1>6, TransitionsTyped DEF WriteStatus, AskInv, TypeOK, CallType
  <2> QED BY <1>2, <1>6, <2>1, StatusWrites DEF Goes, Steps
<1> QED BY <1>1, <1>3, <1>4, <1>5, <1>6, CallSteps

------------------------------------------------------------------------------
(* What the steps leave alone, and the fault each of them may meet *)

Kept == UNCHANGED <<journal, invoices, unsynced, faults>>

\* A fault of this kind happened and nothing else was written.
Failed(kind) ==
  /\ UNCHANGED <<journal, invoices, unsynced>>
  /\ faults' \subseteq Faults /\ faults \subseteq faults' /\ kind \in faults'

LEMMA FaultEffect ==
  ASSUME TypeOK, NEW kind, Fault(kind)
  PROVE  faults' \subseteq Faults /\ faults \subseteq faults' /\ kind \in faults'
BY BoundsAssumption DEF TypeOK, Fault

LEMMA JournalEffect ==
  ASSUME TypeOK, NEW c \in Calls, FindJournalEntry(c) \/ AddJournalEntry(c) \/ JournalThrows(c)
  PROVE  /\ call[c].pc \in {"journal", "journalAdd"}
         /\ \/ Kept /\ journal > 0 /\ Moves(c, "invoice")
            \/ Kept /\ journal = 0 /\ Moves(c, "journalAdd")
            \/ /\ call[c].pc = "journalAdd" /\ journal' = journal + 1 /\ Moves(c, "invoice")
               /\ UNCHANGED <<invoices, unsynced, faults>>
            \/ Failed("journal") /\ Moves(c, "invoice")
<1>0. call \in [Calls -> CallType] /\ journal \in Nat /\ {"invoice", "journalAdd"} \subseteq Steps
  BY DEF TypeOK, Steps
<1>1. \A pc \in {"invoice", "journalAdd"} : Goto(c, pc) => Moves(c, pc)
  BY <1>0, GotoEffect DEF Goes
<1>2. CASE FindJournalEntry(c)
  BY <1>0, <1>1, <1>2 DEF FindJournalEntry, Kept
<1>3. CASE AddJournalEntry(c)
  BY <1>1, <1>3 DEF AddJournalEntry
<1>4. CASE JournalThrows(c)
  BY <1>1, <1>4, FaultEffect DEF JournalThrows, Failed
<1> QED BY <1>2, <1>3, <1>4

LEMMA InvoiceEffect ==
  ASSUME TypeOK, NEW c \in Calls, Generate(c) \/ AddInvoice(c) \/ InvoiceThrows(c)
  PROVE  /\ call[c].pc \in {"invoice", "invoiceAdd"}
         /\ \/ Kept /\ Moves(c, "invoiceAdd")
            \/ /\ Kept /\ Moves(c, "notify")
               /\ job.deleted \/ job.status # "COMPLETE" \/ invoices = 1
            \/ invoices' = 1 /\ Moves(c, "notify") /\ UNCHANGED <<journal, unsynced, faults>>
            \/ Failed("invoice") /\ Moves(c, "notify")
<1>0. call \in [Calls -> CallType] /\ invoices \in {0, 1} /\ {"notify", "invoiceAdd"} \subseteq Steps
  BY DEF TypeOK, Steps
<1>1. \A pc \in {"notify", "invoiceAdd"} : Goto(c, pc) => Moves(c, pc)
  BY <1>0, GotoEffect DEF Goes
<1>2. CASE Generate(c)
  BY <1>0, <1>1, <1>2 DEF Generate, Kept
<1>3. CASE AddInvoice(c)
  BY <1>0, <1>1, <1>3 DEF AddInvoice
<1>4. CASE InvoiceThrows(c)
  BY <1>1, <1>4, FaultEffect DEF InvoiceThrows, Failed
<1> QED BY <1>2, <1>3, <1>4

LEMMA SyncEffect ==
  ASSUME TypeOK, NEW c \in Calls, EnqueueSync(c)
  PROVE  /\ call[c].pc \in {"sync", "resync"}
         /\ Moves(c, "idle") \/ Moves(c, "thenStatus")
         /\ \/ unsynced' = {} /\ UNCHANGED <<journal, invoices, faults>>
            \/ Failed("queue")
<1>0. call \in [Calls -> CallType] /\ "thenStatus" \in Steps
  BY DEF TypeOK, Steps
<1>1. Return(c) \/ Goto(c, "thenStatus")
  BY DEF EnqueueSync
<1>2. Moves(c, "idle") \/ Moves(c, "thenStatus")
  BY <1>0, <1>1, GotoEffect, ReturnEffect DEF Goes
<1>3. CASE Fault("queue") /\ UNCHANGED unsynced
  BY <1>2, <1>3, FaultEffect DEF EnqueueSync, Failed
<1> QED BY <1>2, <1>3 DEF EnqueueSync

\* The rest of what a call can do besides its writes.
Minor(c) == BeginGenerate(c) \/ Notify(c) \/ EditDone(c) \/ DraftThrows(c) \/ EnqueueDelete(c) \/ Die(c)

LEMMA MinorEffect ==
  ASSUME TypeOK, NEW c \in Calls, Minor(c)
  PROVE  /\ Kept \/ Failed("queue") \/ Failed("draft") \/ Failed("death")
         /\ \/ call[c].pc \in {"idle", "notify", "thenStatus", "unsync"}
            \/ call[c].pc = "resync" /\ Failed("draft")
            \/ Failed("death")
         /\ Moves(c, "idle") \/ Moves(c, "invoice") \/ Moves(c, "removing")
<1>0. call \in [Calls -> CallType] /\ "removing" \in Steps
  BY DEF TypeOK, Steps
<1>1. CASE BeginGenerate(c)
  BY <1>1, GenerateBegun DEF BeginGenerate, Begin, Kept
<1>2. CASE Notify(c)
  BY <1>0, <1>2, ReturnEffect DEF Notify, Kept
<1>3. CASE EditDone(c)
  BY <1>0, <1>3, ReturnEffect DEF EditDone, Kept
<1>4. CASE EnqueueDelete(c)
  <2>1. Moves(c, "removing")
    BY <1>0, <1>4, GotoEffect DEF EnqueueDelete, Goes
  <2> QED BY <1>4, <2>1, FaultEffect DEF EnqueueDelete, Kept, Failed
<1>5. CASE Die(c)
  BY <1>0, <1>5, ReturnEffect, FaultEffect DEF Die, Failed
<1>6. CASE DraftThrows(c)
  BY <1>0, <1>6, ReturnEffect, FaultEffect DEF DraftThrows, Failed
<1> QED BY <1>1, <1>2, <1>3, <1>4, <1>5, <1>6 DEF Minor

\* A read: nothing is written.
ReadsRow(c) == ReadForStatus(c) \/ ReadForEdit(c) \/ ReadForRemove(c)

LEMMA ReadEffects ==
  ASSUME TypeOK, NEW c \in Calls, ReadsRow(c)
  PROVE  /\ call[c].pc \in {"idle", "thenStatus"} /\ UNCHANGED job /\ Kept
         /\ Moves(c, "writing") \/ Moves(c, "editing") \/ Moves(c, "unsync") \/ Moves(c, "removing")
         /\ call'[c].seen = Row(job)
<1>1. call[c].pc \in {"idle", "thenStatus"}
  BY DEF ReadsRow, ReadForStatus, ReadForEdit, ReadForRemove, Begin
<1> QED BY <1>1, StatusRead, EditRead, RemoveRead DEF ReadsRow, Kept

LEMMA AsideSplit ==
  ASSUME NEW c \in Calls, Aside(c)
  PROVE  \/ FindJournalEntry(c) \/ AddJournalEntry(c) \/ JournalThrows(c)
         \/ Generate(c) \/ AddInvoice(c) \/ InvoiceThrows(c)
         \/ EnqueueSync(c) \/ Minor(c)
BY DEF Aside, Minor

------------------------------------------------------------------------------
(* Types *)

LEMMA InitTyped == Init => TypeOK /\ AskInv
<1> SUFFICES ASSUME Init PROVE TypeOK /\ AskInv
  OBVIOUS
<1>1. job \in RowType
  BY DEF Init, RowType, Stamps
<1>2. call \in [Calls -> CallType] /\ \A c \in Calls : call[c].pc = "idle"
  BY IdleIsCall DEF Init
<1>3. raced \in BOOLEAN
  BY DEF Init
<1>4. journal \in Nat /\ invoices \in {0, 1} /\ ops \in 0..MaxOps
  BY BoundsAssumption DEF Init
<1>5. /\ unsynced \subseteq {"slot", "end"} /\ faults \subseteq Faults
      /\ notices \subseteq {"scanback", "eta", "delete-event"}
  BY DEF Init
<1> QED BY <1>1, <1>2, <1>3, <1>4, <1>5 DEF TypeOK, AskInv

\* What a write of the row does besides.
LEMMA WriteKeeps ==
  ASSUME TypeOK, NEW c \in Calls, WriteStatus(c) \/ WriteEdit(c) \/ WriteDeleted(c)
  PROVE  /\ UNCHANGED <<journal, invoices, faults, notices, ops>>
         /\ unsynced \subseteq unsynced' /\ unsynced' \subseteq {"slot", "end"}
<1>1. UNCHANGED <<journal, invoices, faults, notices, ops>>
  BY DEF WriteStatus, WriteEdit, WriteDeleted
<1>2. /\ unsynced \subseteq unsynced' /\ unsynced' \subseteq {"slot", "end"}
  BY DEF TypeOK, WriteStatus, WriteEdit, WriteDeleted
<1> QED BY <1>1, <1>2

LEMMA WantTyped ==
  ASSUME TypeOK, AskInv, NEW c \in Calls, WriteStatus(c) PROVE call[c].want \in Statuses
BY TransitionsTyped DEF WriteStatus, AskInv, TypeOK, CallType

LEMMA RowTyped ==
  ASSUME TypeOK, AskInv, [Next]_vars
  PROVE  job' \in RowType /\ call' \in [Calls -> CallType]
<1>1. CASE UNCHANGED vars
  BY <1>1 DEF vars, TypeOK
<1>2. ASSUME NEW c \in Calls, ReadsRow(c) PROVE job' \in RowType /\ call' \in [Calls -> CallType]
  BY <1>2, ReadEffects DEF Moves, TypeOK
<1>3. ASSUME NEW c \in Calls, Aside(c) PROVE job' \in RowType /\ call' \in [Calls -> CallType]
  BY <1>3, AsideMoves DEF Moves, Goes, TypeOK
<1>4. ASSUME NEW c \in Calls, WriteStatus(c) PROVE job' \in RowType /\ call' \in [Calls -> CallType]
  BY <1>4, WantTyped, StatusWrites DEF Moves, Goes
<1>5. ASSUME NEW c \in Calls, WriteEdit(c) PROVE job' \in RowType /\ call' \in [Calls -> CallType]
  BY <1>5, EditWritten, EditMoves DEF Moves
<1>6. ASSUME NEW c \in Calls, WriteDeleted(c) PROVE job' \in RowType /\ call' \in [Calls -> CallType]
  BY <1>6, DeletedWritten, DeleteMoves DEF Moves
<1> QED BY <1>1, <1>2, <1>3, <1>4, <1>5, <1>6, CallSteps DEF ReadsRow

LEMMA CountsTyped ==
  ASSUME TypeOK, [Next]_vars
  PROVE  journal' \in Nat /\ invoices' \in {0, 1} /\ faults' \subseteq Faults
         /\ unsynced' \subseteq {"slot", "end"}
<1> DEFINE Typed == /\ journal' \in Nat /\ invoices' \in {0, 1} /\ faults' \subseteq Faults
                    /\ unsynced' \subseteq {"slot", "end"}
<1>0. journal \in Nat /\ invoices \in {0, 1} /\ faults \subseteq Faults /\ unsynced \subseteq {"slot", "end"}
  BY DEF TypeOK
<1>1. CASE UNCHANGED vars
  BY <1>0, <1>1 DEF vars
<1>2. Kept => Typed
  BY <1>0 DEF Kept
<1>3. \A kind : Failed(kind) => Typed
  BY <1>0 DEF Failed
<1>4. ASSUME NEW c \in Calls, ReadsRow(c) PROVE Typed
  BY <1>2, <1>4, ReadEffects
<1>5. ASSUME NEW c \in Calls, WriteStatus(c) \/ WriteEdit(c) \/ WriteDeleted(c) PROVE Typed
  BY <1>0, <1>5, WriteKeeps
<1>6. ASSUME NEW c \in Calls, FindJournalEntry(c) \/ AddJournalEntry(c) \/ JournalThrows(c) PROVE Typed
  <2>1. \/ Kept \/ Failed("journal")
        \/ journal' = journal + 1 /\ UNCHANGED <<invoices, unsynced, faults>>
    BY <1>6, JournalEffect
  <2>2. CASE journal' = journal + 1 /\ UNCHANGED <<invoices, unsynced, faults>>
    BY <1>0, <2>2
  <2> QED BY <1>2, <1>3, <2>1, <2>2
<1>7. ASSUME NEW c \in Calls, Generate(c) \/ AddInvoice(c) \/ InvoiceThrows(c) PROVE Typed
  BY <1>0, <1>2, <1>3, <1>7, InvoiceEffect
<1>8. ASSUME NEW c \in Calls, EnqueueSync(c) PROVE Typed
  BY <1>0, <1>3, <1>8, SyncEffect
<1>9. ASSUME NEW c \in Calls, Minor(c) PROVE Typed
  BY <1>2, <1>3, <1>9, MinorEffect
<1> QED BY <1>1, <1>4, <1>5, <1>6, <1>7, <1>8, <1>9, CallSteps, AsideSplit DEF ReadsRow

LEMMA OpsTyped ==
  ASSUME TypeOK, NEW c \in Calls, StatusStep(c) \/ EditStep(c) \/ RemoveStep(c) \/ Die(c)
  PROVE  ops' \in 0..MaxOps /\ notices' \subseteq {"scanback", "eta", "delete-event"}
<1>0. MaxOps \in Nat /\ ops \in 0..MaxOps /\ notices \subseteq {"scanback", "eta", "delete-event"}
  BY BoundsAssumption DEF TypeOK
<1>1. UNCHANGED ops \/ Begin(c)
  BY DEF StatusStep, EditStep, RemoveStep, ReadForStatus, WriteStatus, FindJournalEntry, AddJournalEntry,
         JournalThrows, BeginGenerate, Generate, AddInvoice, InvoiceThrows, Notify, EnqueueSync, ReadForEdit,
         WriteEdit, DraftThrows, EditDone, ReadForRemove, EnqueueDelete, WriteDeleted, Die
<1>2. ops' \in 0..MaxOps
  BY <1>0, <1>1 DEF Begin
<1>3. CASE Notify(c)
  BY <1>0, <1>2, <1>3 DEF Notify
<1>4. CASE EnqueueDelete(c)
  BY <1>0, <1>2, <1>4 DEF EnqueueDelete
<1>5. UNCHANGED notices \/ Notify(c) \/ EnqueueDelete(c)
  BY DEF StatusStep, EditStep, RemoveStep, ReadForStatus, WriteStatus, FindJournalEntry, AddJournalEntry,
         JournalThrows, BeginGenerate, Generate, AddInvoice, InvoiceThrows, EnqueueSync, ReadForEdit,
         WriteEdit, DraftThrows, EditDone, ReadForRemove, WriteDeleted, Die
<1> QED BY <1>0, <1>2, <1>3, <1>4, <1>5

LEMMA TypeKeeps ==
  ASSUME TypeOK, AskInv, [Next]_vars
  PROVE  TypeOK' /\ AskInv'
<1>1. CASE UNCHANGED vars
  <2>1. raced' = raced
    BY <1>1, Zenon DEF vars
  <2>2. UNCHANGED <<job, journal, invoices, unsynced, notices, call, ops, faults>>
    BY <1>1 DEF vars
  <2>3. TypeOK'
    BY <2>1, <2>2 DEF TypeOK
  <2> QED BY <2>3, AskKeeps
<1>2. CASE Next
  <2>1. raced' \in BOOLEAN
    <3>1. raced' = (raced \/ Race)
      BY <1>2 DEF Next
    <3> QED BY <3>1, Zenon
  <2>2. ops' \in 0..MaxOps /\ notices' \subseteq {"scanback", "eta", "delete-event"}
    BY <1>2, OpsTyped DEF Next
  <2>3. TypeOK'
    BY <2>1, <2>2, RowTyped, CountsTyped DEF TypeOK
  <2> QED BY <2>3, AskKeeps
<1> QED BY <1>1, <1>2

\* The variables stay within their types: of the API calls of JobsService, whatever
\* they race with, none leaves the row or its own state outside them.
THEOREM TypeCorrect == Spec => []TypeOK
<1>1. TypeOK /\ AskInv /\ [Next]_vars => (TypeOK /\ AskInv)'
  BY TypeKeeps
<1>2. Spec => [](TypeOK /\ AskInv)
  BY <1>1, InitTyped, PTL DEF Spec
<1> QED BY <1>2, PTL

------------------------------------------------------------------------------
(* What an unraced call knows *)

\* Until the row is raced, what a call has read and not yet written by is the row.
ViewInv == ~raced => \A c \in Calls : Holding(c) => call[c].seen = Row(job)

\* A step of c leaves the view of the others if it leaves the row, or nobody holds one.
LEMMA OthersKeep ==
  ASSUME ViewInv, NEW c \in Calls, NEW pc \in Steps, Moves(c, pc), ~raced, ~Race,
         NEW b \in Calls, b # c, Holding(b)'
  PROVE  call'[b].seen = Row(job)'
<1>1. call'[b] = call[b] /\ Holding(b)
  BY DEF Moves, Holding
<1>2. UNCHANGED job
  BY <1>1 DEF Race
<1> QED BY <1>1, <1>2 DEF ViewInv, Row

LEMMA ViewKeeps ==
  ASSUME TypeOK, AskInv, ViewInv, [Next]_vars
  PROVE  ViewInv'
<1> DEFINE Idlers == Steps \ {"writing", "editing", "unsync", "removing"}
<1>1. CASE UNCHANGED vars
  <2>1. raced' = raced
    BY <1>1, Zenon DEF vars
  <2>2. UNCHANGED <<job, call>>
    BY <1>1 DEF vars
  <2> QED BY <2>1, <2>2 DEF ViewInv, Holding, Row
<1>2. CASE /\ raced' = (raced \/ Race)
           /\ \E c \in Calls : ReadsRow(c) \/ WriteStatus(c) \/ WriteEdit(c) \/ WriteDeleted(c) \/ Aside(c)
  <2> SUFFICES ASSUME ~raced, ~Race, NEW b \in Calls, Holding(b)'
               PROVE  call'[b].seen = Row(job)'
    <3>1. ~raced' => ~raced /\ ~Race
      BY <1>2, Zenon
    <3> QED BY <3>1 DEF ViewInv
  <2>1. PICK c \in Calls : ReadsRow(c) \/ WriteStatus(c) \/ WriteEdit(c) \/ WriteDeleted(c) \/ Aside(c)
    BY <1>2
  <2>2. \A pc \in Idlers : Moves(c, pc) => ~Holding(c)'
    BY DEF Moves, Holding
  <2>3. CASE ReadsRow(c)
    <3>1. /\ UNCHANGED job /\ call'[c].seen = Row(job)
          /\ Moves(c, "writing") \/ Moves(c, "editing") \/ Moves(c, "unsync") \/ Moves(c, "removing")
      BY <2>3, ReadEffects
    <3>2. {"writing", "editing", "unsync", "removing"} \subseteq Steps
      BY DEF Steps
    <3>3. CASE b = c
      BY <3>1, <3>3 DEF Row
    <3> QED BY <3>1, <3>2, <3>3, OthersKeep
  <2>4. CASE WriteStatus(c) \/ WriteEdit(c) \/ WriteDeleted(c)
    <3>1. PICK pc \in Idlers : Moves(c, pc)
      BY <2>4, WantTyped, StatusWrites, EditMoves, DeleteMoves DEF Goes, Steps
    <3>2. b # c
      BY <2>2, <3>1
    <3> QED BY <3>1, <3>2, OthersKeep
  <2>5. CASE Aside(c)
    <3>1. CASE \E pc \in Idlers : Moves(c, pc)
      <4>1. b # c
        BY <2>2, <3>1
      <4> QED BY <3>1, <4>1, OthersKeep
    <3>2. CASE Goes(c, "removing") /\ call[c].pc = "unsync"
      <4>1. UNCHANGED job /\ call'[c].seen = call[c].seen /\ Moves(c, "removing") /\ "removing" \in Steps
        BY <2>5, <3>2, AsideMoves DEF Goes, Steps
      <4>2. CASE b = c
        <5>1. call[c].seen = Row(job)
          BY <3>2 DEF ViewInv, Holding
        <5> QED BY <4>1, <4>2, <5>1 DEF Row
      <4> QED BY <4>1, <4>2, OthersKeep
    <3>3. {"idle", "invoice", "journalAdd", "notify", "invoiceAdd", "thenStatus"} \subseteq Idlers
      BY DEF Steps
    <3> QED BY <2>5, <3>1, <3>2, <3>3, AsideMoves
  <2> QED BY <2>1, <2>3, <2>4, <2>5
<1> QED BY <1>1, <1>2, CallSteps DEF ReadsRow

\* A status write by a call that saw the row as it is goes forward along the table.
LEMMA WriteForward ==
  ASSUME TypeOK, AskInv, ViewInv, ~raced, NEW c \in Calls, WriteStatus(c)
  PROVE  /\ call[c].want \in TRANSITIONS[job.status]
         /\ ~(call[c].want = "COMPLETE" /\ job.status = "IN_PROGRESS" /\ job.scanback)
<1>1. call[c].pc = "writing" /\ Holding(c)
  BY DEF WriteStatus, Holding
<1>2. call[c].seen.status = job.status /\ call[c].seen.scanback = job.scanback
  BY <1>1 DEF ViewInv, Row
<1> QED BY <1>1, <1>2 DEF AskInv

LEMMA StepForward ==
  ASSUME TypeOK, AskInv, ViewInv, [Next]_vars, ~raced
  PROVE  /\ job'.status \in TRANSITIONS[job.status] \cup {job.status}
         /\ job.scanback /\ job.status # "COMPLETE" /\ job'.status = "COMPLETE"
              => job.status = "SCANNING"
<1>1. CASE UNCHANGED vars
  BY <1>1 DEF vars
<1>2. ASSUME NEW c \in Calls, ReadsRow(c) \/ Aside(c) \/ WriteEdit(c) \/ WriteDeleted(c)
      PROVE  job'.status = job.status
  BY <1>2, ReadEffects, AsideMoves, EditWritten, DeletedWritten
<1>3. ASSUME NEW c \in Calls, WriteStatus(c)
      PROVE  /\ job'.status \in TRANSITIONS[job.status]
             /\ job.scanback /\ job'.status = "COMPLETE" => job.status = "SCANNING"
  <2>1. job'.status = call[c].want
    BY <1>3, WantTyped, StatusWrites
  <2>2. job.status \in Statuses
    BY DEF TypeOK, RowType
  <2> QED BY <1>3, <2>1, <2>2, WriteForward, TransitionsTyped
<1> QED BY <1>1, <1>2, <1>3, CallSteps DEF ReadsRow

LEMMA ViewInit == Init => ViewInv
<1> SUFFICES ASSUME Init PROVE \A c \in Calls : ~Holding(c)
  BY DEF ViewInv
<1>1. \A c \in Calls : call[c].pc = "idle"
  BY IdleIsCall DEF Init
<1> QED BY <1>1 DEF Holding

ViewPart == TypeOK /\ AskInv /\ ViewInv

LEMMA ViewPartKeeps == ViewPart /\ [Next]_vars => ViewPart'
<1> SUFFICES ASSUME TypeOK, AskInv, ViewInv, [Next]_vars PROVE TypeOK' /\ AskInv' /\ ViewInv'
  BY DEF ViewPart
<1> QED BY TypeKeeps, ViewKeeps

LEMMA ViewHolds == Spec => []ViewPart
<1>1. Init => ViewPart
  BY InitTyped, ViewInit DEF ViewPart
<1> QED BY <1>1, ViewPartKeeps, PTL DEF Spec

\* Until a call writes the row between another's read and write, the row moves only
\* along TRANSITIONS, and a job whose type mandates scanback completes from SCANNING
\* only: the check of updateStatus holds at its write, for any number of calls,
\* though the write is by id alone.
THEOREM UnracedGoesForward == Spec => ForwardUnlessRaced
<1>1. ViewPart /\ [Next]_vars =>
        [~raced => /\ job'.status \in TRANSITIONS[job.status] \cup {job.status}
                   /\ job.scanback /\ job.status # "COMPLETE" /\ job'.status = "COMPLETE"
                        => job.status = "SCANNING"]_vars
  BY StepForward DEF ViewPart
<1> QED BY <1>1, ViewHolds, PTL DEF Spec, ForwardUnlessRaced

------------------------------------------------------------------------------
(* The scanback countdown *)

LEMMA CountdownKeeps ==
  ASSUME TypeOK, AskInv, ViewInv, LiveCountdown, [Next]_vars
  PROVE  LiveCountdown'
<1>1. CASE UNCHANGED vars
  <2>1. raced' = raced
    BY <1>1, Zenon DEF vars
  <2> QED BY <1>1, <2>1 DEF vars, LiveCountdown
<1>2. CASE /\ raced' = (raced \/ Race)
           /\ \E c \in Calls : ReadsRow(c) \/ WriteStatus(c) \/ WriteEdit(c) \/ WriteDeleted(c) \/ Aside(c)
  <2> SUFFICES ASSUME ~raced, job'.status = "SCANNING", "scanning" \in job'.stamps
               PROVE  job'.window # "planned"
    <3>1. ~raced' => ~raced
      BY <1>2, Zenon
    <3> QED BY <3>1 DEF LiveCountdown
  <2>1. PICK c \in Calls : ReadsRow(c) \/ WriteStatus(c) \/ WriteEdit(c) \/ WriteDeleted(c) \/ Aside(c)
    BY <1>2
  <2>2. CASE ReadsRow(c) \/ Aside(c)
    <3>1. UNCHANGED job
      BY <2>2, ReadEffects, AsideMoves
    <3> QED BY <3>1 DEF LiveCountdown
  <2>3. CASE WriteStatus(c)
    BY <2>3, WantTyped, StatusWrites
  <2>4. CASE WriteEdit(c)
    <3>1. call[c].seen.status = job.status
      BY <2>4 DEF WriteEdit, ViewInv, Holding, Row
    <3>2. /\ job'.status = job.status /\ job'.stamps = job.stamps
          /\ job'.window = "planned" =>
               job.window = "planned" \/ Rescheduled(call[c].seen, call[c].want)
      BY <2>4, EditWritten
    <3> QED BY <3>1, <3>2 DEF LiveCountdown, Rescheduled
  <2>5. CASE WriteDeleted(c)
    BY <2>5, DeletedWritten DEF LiveCountdown
  <2> QED BY <2>1, <2>2, <2>3, <2>4, <2>5
<1> QED BY <1>1, <1>2, CallSteps DEF ReadsRow

\* While an unraced job is scanning its countdown runs from the moment scanning
\* began: no edit recomputes it from the appointment.
THEOREM CountdownStaysLive == Spec => []LiveCountdown
<1>1. Init => LiveCountdown
  BY DEF Init, LiveCountdown
<1>2. ViewPart /\ LiveCountdown /\ [Next]_vars => LiveCountdown'
  BY CountdownKeeps DEF ViewPart
<1>3. ViewPart /\ LiveCountdown /\ [Next]_vars => (ViewPart /\ LiveCountdown)'
  BY <1>2, ViewPartKeeps
<1>4. Init => ViewPart
  BY InitTyped, ViewInit DEF ViewPart
<1>5. Spec => [](ViewPart /\ LiveCountdown)
  BY <1>1, <1>3, <1>4, PTL DEF Spec
<1> QED BY <1>5, PTL

------------------------------------------------------------------------------
(* What is still owed to the calendar, the journal and the invoice book *)

\* Some call is at one of these steps.
At(pcs) == \E c \in Calls : call[c].pc \in pcs

\* A call elsewhere that moves elsewhere leaves who is there.
LEMMA AtKept ==
  ASSUME NEW c \in Calls, NEW pc, Moves(c, pc), NEW pcs, call[c].pc \notin pcs
  PROVE  At(pcs) => At(pcs)'
BY DEF Moves, At

LEMMA AtMoved ==
  ASSUME NEW c \in Calls, NEW pc, Moves(c, pc), NEW pcs, pc \in pcs
  PROVE  At(pcs)'
BY DEF Moves, At

\* A confirmed job whose time or place the calendar has not been told of has a call
\* that is about to tell it.
SyncInv ==
  job.status = "CONFIRMED" /\ faults \cap {"draft", "queue", "death"} = {} /\ "slot" \in unsynced
    => At({"sync", "resync"})

LEMMA SyncKeeps ==
  ASSUME TypeOK, AskInv, SyncInv, [Next]_vars
  PROVE  SyncInv'
<1> DEFINE Syncs == {"sync", "resync"}
<1>1. CASE UNCHANGED vars
  BY <1>1 DEF vars, SyncInv, At
<1>2. ASSUME NEW c \in Calls, NEW pc, Moves(c, pc), UNCHANGED job, call[c].pc \notin Syncs,
             Kept \/ UNCHANGED <<unsynced, faults>> \/ (\E kind : Failed(kind))
      PROVE  SyncInv'
  BY <1>2, AtKept DEF SyncInv, Kept, Failed
<1>3. ASSUME NEW c \in Calls, ReadsRow(c) PROVE SyncInv'
  BY <1>2, <1>3, ReadEffects
<1>4. ASSUME NEW c \in Calls, WriteStatus(c) PROVE SyncInv'
  <2>1. job'.status = "CONFIRMED" => Moves(c, "sync")
    BY <1>4, WantTyped, StatusWrites DEF Goes
  <2> QED BY <2>1, AtMoved DEF SyncInv
<1>5. ASSUME NEW c \in Calls, WriteEdit(c) PROVE SyncInv'
  <2>1. job'.status = job.status /\ faults' = faults
    BY <1>5, EditWritten, WriteKeeps
  <2>2. CASE Resynced(call[c].seen, call[c].want)
    BY <1>5, <2>2, EditMoves, AtMoved DEF SyncInv
  <2>3. CASE ~Resynced(call[c].seen, call[c].want)
    <3>1. Moves(c, "thenStatus") /\ call[c].pc \notin Syncs
      BY <1>5, <2>3, EditMoves DEF WriteEdit
    <3>2. job.status = "CONFIRMED" => ("slot" \in unsynced' <=> "slot" \in unsynced)
      BY <1>5, <2>3 DEF WriteEdit, Resynced
    <3> QED BY <2>1, <3>1, <3>2, AtKept DEF SyncInv
  <2> QED BY <2>2, <2>3
<1>6. ASSUME NEW c \in Calls, WriteDeleted(c) PROVE SyncInv'
  <2>1. /\ job'.status = job.status /\ UNCHANGED <<unsynced, faults>>
        /\ Moves(c, "idle") /\ call[c].pc \notin Syncs
    BY <1>6, DeletedWritten, DeleteMoves DEF WriteDeleted
  <2> QED BY <2>1, AtKept DEF SyncInv
<1>7. ASSUME NEW c \in Calls, FindJournalEntry(c) \/ AddJournalEntry(c) \/ JournalThrows(c) PROVE SyncInv'
  <2>1. UNCHANGED job
    BY <1>7 DEF FindJournalEntry, AddJournalEntry, JournalThrows
  <2> QED BY <1>2, <1>7, <2>1, JournalEffect
<1>8. ASSUME NEW c \in Calls, Generate(c) \/ AddInvoice(c) \/ InvoiceThrows(c) PROVE SyncInv'
  <2>1. UNCHANGED job
    BY <1>8 DEF Generate, AddInvoice, InvoiceThrows
  <2> QED BY <1>2, <1>8, <2>1, InvoiceEffect
<1>9. ASSUME NEW c \in Calls, EnqueueSync(c) PROVE SyncInv'
  <2>1. unsynced' = {} \/ "queue" \in faults'
    BY <1>9, SyncEffect DEF Failed
  <2> QED BY <2>1 DEF SyncInv
<1>10. ASSUME NEW c \in Calls, Minor(c) PROVE SyncInv'
  <2>1. UNCHANGED job
    BY <1>10 DEF Minor, BeginGenerate, Notify, EditDone, DraftThrows, EnqueueDelete, Die
  <2>2. CASE Failed("death") \/ Failed("draft")
    BY <2>2 DEF SyncInv, Failed
  <2> QED BY <1>2, <1>10, <2>1, <2>2, MinorEffect
<1> QED BY <1>1, <1>3, <1>4, <1>5, <1>6, <1>7, <1>8, <1>9, <1>10, CallSteps, AsideSplit DEF ReadsRow

\* When every call has returned, no change of time or place of a confirmed job was
\* left without a sync queued after it, unless the queue, a death or the unpaid
\* invoice's sync before it took that away: the decision is by the status as written,
\* and WriteStatus syncs whatever an earlier edit changed while it was not CONFIRMED.
THEOREM SlotsReachTheCalendar == Spec => []CalendarFollowsSlot
<1>1. Init => TypeOK /\ AskInv /\ SyncInv
  BY InitTyped DEF Init, SyncInv
<1>2. TypeOK /\ AskInv /\ SyncInv /\ [Next]_vars => (TypeOK /\ AskInv /\ SyncInv)'
  BY TypeKeeps, SyncKeeps
<1>3. SyncInv => CalendarFollowsSlot
  BY DEF SyncInv, At, CalendarFollowsSlot, Quiet
<1> QED BY <1>1, <1>2, <1>3, PTL DEF Spec

JournalSteps == {"journal", "journalAdd"}
InvoiceSteps == {"invoice", "invoiceAdd"}

\* A live completed job has its invoice, or a call that is still to see to it.
InvoiceOwed ==
  Completed /\ ~job.deleted /\ faults \cap {"invoice", "death"} = {}
    => invoices = 1 \/ At(JournalSteps \cup InvoiceSteps)

\* A completion has its journal entry, or a call that is still to see to it.
EntryOwed ==
  "completed" \in job.stamps /\ faults \cap {"journal", "death"} = {}
    => journal > 0 \/ At(JournalSteps)

\* A step of a call on its way elsewhere changes nothing of what is owed.
LEMMA OwedKept ==
  ASSUME NEW c \in Calls, NEW pc, Moves(c, pc),
         job'.status = job.status, job'.stamps = job.stamps, job.deleted => job'.deleted,
         Kept \/ UNCHANGED <<journal, invoices, faults>> \/ (\E kind : Failed(kind))
  PROVE  /\ InvoiceOwed /\ call[c].pc \notin JournalSteps \cup InvoiceSteps => InvoiceOwed'
         /\ EntryOwed /\ call[c].pc \notin JournalSteps => EntryOwed'
<1>1. UNCHANGED <<journal, invoices>> /\ faults \subseteq faults'
  BY DEF Kept, Failed
<1>2. call[c].pc \notin JournalSteps \cup InvoiceSteps
        => (At(JournalSteps \cup InvoiceSteps) => At(JournalSteps \cup InvoiceSteps)')
  BY AtKept
<1>3. call[c].pc \notin JournalSteps => (At(JournalSteps) => At(JournalSteps)')
  BY AtKept
<1>4. Completed' = Completed
  BY DEF Completed
<1>5. InvoiceOwed /\ call[c].pc \notin JournalSteps \cup InvoiceSteps => InvoiceOwed'
  BY <1>1, <1>2, <1>4 DEF InvoiceOwed
<1>6. EntryOwed /\ call[c].pc \notin JournalSteps => EntryOwed'
  BY <1>1, <1>3 DEF EntryOwed
<1> QED BY <1>5, <1>6

LEMMA OwedKeeps ==
  ASSUME TypeOK, AskInv, InvoiceOwed, EntryOwed, [Next]_vars
  PROVE  InvoiceOwed' /\ EntryOwed'
<1> DEFINE Owed == InvoiceOwed' /\ EntryOwed'
<1>0. /\ "journal" \in JournalSteps /\ "journalAdd" \in JournalSteps
      /\ "invoice" \in InvoiceSteps /\ "invoiceAdd" \in InvoiceSteps
      /\ journal \in Nat
  BY DEF JournalSteps, InvoiceSteps, TypeOK
<1>1. CASE UNCHANGED vars
  BY <1>1 DEF vars, InvoiceOwed, EntryOwed, At, Completed
<1>2. ASSUME NEW c \in Calls, ReadsRow(c) PROVE Owed
  <2>1. call[c].pc \notin JournalSteps \cup InvoiceSteps
    BY <1>2, ReadEffects DEF JournalSteps, InvoiceSteps
  <2> QED BY <1>2, <2>1, ReadEffects, OwedKept
<1>3. ASSUME NEW c \in Calls, WriteStatus(c) PROVE Owed
  <2>1. /\ job'.status = call[c].want /\ UNCHANGED <<journal, invoices, faults>>
        /\ "completed" \in job'.stamps => "completed" \in job.stamps \/ call[c].want = "COMPLETE"
        /\ call[c].want = "COMPLETE" => Moves(c, "journal")
        /\ \E pc : Moves(c, pc)
    BY <1>3, WantTyped, StatusWrites DEF Goes
  <2>2. CASE call[c].want = "COMPLETE"
    <3>1. At(JournalSteps \cup InvoiceSteps)' /\ At(JournalSteps)'
      BY <1>0, <2>1, <2>2, AtMoved
    <3> QED BY <3>1 DEF InvoiceOwed, EntryOwed
  <2>3. CASE call[c].want # "COMPLETE"
    <3>1. call[c].pc \notin JournalSteps
      BY <1>3 DEF WriteStatus, JournalSteps
    <3>2. At(JournalSteps) => At(JournalSteps)'
      BY <2>1, <3>1, AtKept
    <3> QED BY <2>1, <2>3, <3>2 DEF InvoiceOwed, EntryOwed, Completed
  <2> QED BY <2>2, <2>3
<1>4. ASSUME NEW c \in Calls, WriteEdit(c) \/ WriteDeleted(c) PROVE Owed
  <2>1. call[c].pc \notin JournalSteps \cup InvoiceSteps
    BY <1>4 DEF WriteEdit, WriteDeleted, JournalSteps, InvoiceSteps
  <2>2. job'.status = job.status /\ job'.stamps = job.stamps /\ (job.deleted => job'.deleted)
    BY <1>4, EditWritten, DeletedWritten
  <2>3. \E pc : Moves(c, pc)
    BY <1>4, EditMoves, DeleteMoves
  <2> QED BY <1>4, <2>1, <2>2, <2>3, WriteKeeps, OwedKept
<1>5. ASSUME NEW c \in Calls, FindJournalEntry(c) \/ AddJournalEntry(c) \/ JournalThrows(c) PROVE Owed
  <2>1. UNCHANGED job
    BY <1>5 DEF FindJournalEntry, AddJournalEntry, JournalThrows
  <2>2. Moves(c, "invoice") \/ Moves(c, "journalAdd")
    BY <1>5, JournalEffect
  <2>3. At(JournalSteps \cup InvoiceSteps)'
    BY <1>0, <2>2, AtMoved
  <2>4. \/ journal > 0 /\ UNCHANGED journal
        \/ Moves(c, "journalAdd")
        \/ journal' = journal + 1
        \/ "journal" \in faults'
    BY <1>5, JournalEffect DEF Kept, Failed
  <2>5. EntryOwed'
    BY <1>0, <2>4, AtMoved DEF EntryOwed
  <2> QED BY <2>3, <2>5 DEF InvoiceOwed
<1>6. ASSUME NEW c \in Calls, Generate(c) \/ AddInvoice(c) \/ InvoiceThrows(c) PROVE Owed
  <2>1. UNCHANGED job
    BY <1>6 DEF Generate, AddInvoice, InvoiceThrows
  <2>2. call[c].pc \notin JournalSteps
    BY <1>6, InvoiceEffect DEF JournalSteps
  <2>3. /\ Moves(c, "invoiceAdd") \/ Moves(c, "notify")
        /\ UNCHANGED journal /\ faults \subseteq faults'
    BY <1>6, InvoiceEffect DEF Kept, Failed
  <2>4. \/ Moves(c, "invoiceAdd")
        \/ job.deleted \/ job.status # "COMPLETE" \/ invoices' = 1
        \/ "invoice" \in faults'
    BY <1>6, InvoiceEffect DEF Kept, Failed
  <2>5. InvoiceOwed'
    BY <1>0, <2>1, <2>4, AtMoved DEF InvoiceOwed, Completed
  <2>6. EntryOwed'
    BY <2>1, <2>2, <2>3, AtKept DEF EntryOwed
  <2> QED BY <2>5, <2>6
<1>7. ASSUME NEW c \in Calls, EnqueueSync(c) PROVE Owed
  <2>1. UNCHANGED job
    BY <1>7 DEF EnqueueSync
  <2>2. call[c].pc \notin JournalSteps \cup InvoiceSteps
    BY <1>7 DEF EnqueueSync, JournalSteps, InvoiceSteps
  <2> QED BY <1>7, <2>1, <2>2, SyncEffect, OwedKept
<1>8. ASSUME NEW c \in Calls, Minor(c) PROVE Owed
  <2>1. UNCHANGED job
    BY <1>8 DEF Minor, BeginGenerate, Notify, EditDone, DraftThrows, EnqueueDelete, Die
  <2>2. CASE Failed("death")
    BY <2>2 DEF InvoiceOwed, EntryOwed, Failed
  <2>3. CASE ~Failed("death")
    <3>1. call[c].pc \notin JournalSteps \cup InvoiceSteps
      BY <1>8, <2>3, MinorEffect DEF JournalSteps, InvoiceSteps
    <3> QED BY <1>8, <2>1, <3>1, MinorEffect, OwedKept
  <2> QED BY <2>2, <2>3
<1> QED BY <1>1, <1>2, <1>3, <1>4, <1>5, <1>6, <1>7, <1>8, CallSteps, AsideSplit DEF ReadsRow

\* Of an unraced row, at most one call ever enters the completion in the journal: it
\* looks while there is no entry, and there is none before the row is COMPLETE.
EntryInv ==
  ~raced =>
    /\ job.status # "COMPLETE" => journal = 0 /\ ~At(JournalSteps)
    /\ \A b, c \in Calls : call[b].pc \in JournalSteps /\ call[c].pc \in JournalSteps => b = c
    /\ At(JournalSteps) => journal = 0
    /\ journal <= 1

\* A step of a call outside these steps changes nothing here.
LEMMA EntryKept ==
  ASSUME EntryInv, ~raced, NEW c \in Calls, NEW pc, Moves(c, pc), pc \notin JournalSteps,
         job'.status = job.status, UNCHANGED journal
  PROVE  EntryInv'
<1>1. \A b \in Calls : call'[b].pc \in JournalSteps => call[b].pc \in JournalSteps
  BY DEF Moves
<1>2. At(JournalSteps)' => At(JournalSteps)
  BY <1>1 DEF At
<1> QED BY <1>1, <1>2 DEF EntryInv

LEMMA EntryKeeps ==
  ASSUME TypeOK, AskInv, ViewInv, EntryInv, [Next]_vars
  PROVE  EntryInv'
<1>0. /\ "journal" \in JournalSteps /\ "journalAdd" \in JournalSteps
      /\ \A pc \in {"idle", "invoice", "notify", "invoiceAdd", "thenStatus", "removing", "writing",
                    "editing", "unsync", "sync", "resync"} : pc \notin JournalSteps
  BY DEF JournalSteps
<1>1. CASE UNCHANGED vars
  <2>1. raced' = raced
    BY <1>1, Zenon DEF vars
  <2> QED BY <1>1, <2>1 DEF vars, EntryInv, At
<1>2. CASE /\ raced' = (raced \/ Race)
           /\ \E c \in Calls : ReadsRow(c) \/ WriteStatus(c) \/ WriteEdit(c) \/ WriteDeleted(c) \/ Aside(c)
  <2> SUFFICES ASSUME ~raced PROVE EntryInv'
    <3>1. ~raced' => ~raced
      BY <1>2, Zenon
    <3> QED BY <3>1 DEF EntryInv
  <2>1. PICK c \in Calls : ReadsRow(c) \/ WriteStatus(c) \/ WriteEdit(c) \/ WriteDeleted(c) \/ Aside(c)
    BY <1>2
  <2>2. CASE ReadsRow(c)
    BY <1>0, <2>2, ReadEffects, EntryKept DEF Kept
  <2>3. CASE WriteStatus(c)
    <3>1. /\ job'.status = call[c].want /\ UNCHANGED journal
          /\ \/ Moves(c, "journal") /\ call[c].want = "COMPLETE"
             \/ Moves(c, "sync") \/ Moves(c, "notify") \/ Moves(c, "idle")
      BY <2>3, WantTyped, StatusWrites DEF Goes
    <3>2. job.status # "COMPLETE"
      BY <2>3, WriteForward, TransitionsTyped
    <3>3. journal = 0 /\ ~At(JournalSteps)
      BY <3>2 DEF EntryInv
    <3>4. \A b \in Calls : b # c => call'[b].pc \notin JournalSteps
      BY <3>1, <3>3 DEF Moves, At
    <3>5. call[c].want # "COMPLETE" => call'[c].pc \notin JournalSteps
      BY <1>0, <3>1 DEF Moves
    <3> QED BY <3>1, <3>3, <3>4, <3>5 DEF EntryInv, At
  <2>4. CASE WriteEdit(c) \/ WriteDeleted(c)
    <3>1. job'.status = job.status /\ UNCHANGED journal
      BY <2>4, EditWritten, DeletedWritten, WriteKeeps
    <3>2. Moves(c, "resync") \/ Moves(c, "thenStatus") \/ Moves(c, "idle")
      BY <2>4, EditMoves, DeleteMoves
    <3> QED BY <1>0, <3>1, <3>2, EntryKept
  <2>5. CASE FindJournalEntry(c) \/ AddJournalEntry(c) \/ JournalThrows(c)
    <3>1. UNCHANGED job /\ call[c].pc \in JournalSteps
      BY <2>5, JournalEffect DEF FindJournalEntry, AddJournalEntry, JournalThrows, JournalSteps
    <3>2. At(JournalSteps) /\ journal = 0 /\ job.status = "COMPLETE"
      BY <3>1 DEF At, EntryInv
    <3>3. \A b \in Calls : b # c => call[b].pc \notin JournalSteps
      BY <3>1 DEF EntryInv
    <3>4. \/ Moves(c, "invoice") /\ journal' \in {0, 1}
          \/ Moves(c, "journalAdd") /\ journal' = 0
      BY <2>5, <3>2, JournalEffect DEF Kept, Failed
    <3>5. \A b \in Calls : b # c => call'[b].pc \notin JournalSteps
      BY <3>3, <3>4 DEF Moves
    <3>6. call'[c].pc \in JournalSteps => journal' = 0
      BY <1>0, <3>4 DEF Moves
    <3> QED BY <3>1, <3>2, <3>4, <3>5, <3>6 DEF EntryInv, At
  <2>6. CASE Generate(c) \/ AddInvoice(c) \/ InvoiceThrows(c)
    <3>1. UNCHANGED <<job, journal>>
      BY <2>6 DEF Generate, AddInvoice, InvoiceThrows
    <3>2. Moves(c, "invoiceAdd") \/ Moves(c, "notify")
      BY <2>6, InvoiceEffect
    <3> QED BY <1>0, <3>1, <3>2, EntryKept
  <2>7. CASE EnqueueSync(c)
    <3>1. UNCHANGED <<job, journal>>
      BY <2>7 DEF EnqueueSync
    <3> QED BY <1>0, <2>7, <3>1, SyncEffect, EntryKept
  <2>8. CASE Minor(c)
    <3>1. UNCHANGED <<job, journal>>
      BY <2>8 DEF Minor, BeginGenerate, Notify, EditDone, DraftThrows, EnqueueDelete, Die
    <3> QED BY <1>0, <2>8, <3>1, MinorEffect, EntryKept
  <2> QED BY <2>1, <2>2, <2>3, <2>4, <2>5, <2>6, <2>7, <2>8, AsideSplit
<1> QED BY <1>1, <1>2, CallSteps DEF ReadsRow

OwedInv == ViewPart /\ InvoiceOwed /\ EntryOwed /\ EntryInv

LEMMA OwedInit == Init => OwedInv
<1> SUFFICES ASSUME Init PROVE OwedInv
  OBVIOUS
<1>1. ViewPart
  BY InitTyped, ViewInit DEF ViewPart
<1>2. \A c \in Calls : call[c].pc = "idle"
  BY IdleIsCall DEF Init
<1>3. ~At(JournalSteps) /\ journal = 0 /\ "completed" \notin job.stamps
  BY <1>2 DEF Init, At, JournalSteps
<1>4. InvoiceOwed /\ EntryOwed
  BY <1>3 DEF InvoiceOwed, EntryOwed, Completed
<1>5. \A c \in Calls : call[c].pc \notin JournalSteps
  BY <1>2 DEF JournalSteps
<1>6. EntryInv
  BY <1>3, <1>5 DEF EntryInv
<1> QED BY <1>1, <1>4, <1>6 DEF OwedInv

LEMMA OwedInvKeeps == OwedInv /\ [Next]_vars => OwedInv'
<1> SUFFICES ASSUME ViewPart, InvoiceOwed, EntryOwed, EntryInv, [Next]_vars
             PROVE  ViewPart' /\ InvoiceOwed' /\ EntryOwed' /\ EntryInv'
  BY DEF OwedInv
<1> QED BY ViewPartKeeps, OwedKeeps, EntryKeeps DEF ViewPart

\* A completed job gets its invoice and its journal entry unless an error of that very
\* step, or a crash, leaves it out: whatever calls race, and one failing never takes the
\* other with it.  Nobody enters it twice unless status changes raced, although the look
\* and the create are two statements.
THEOREM CompletionsAreSeenTo == Spec => []CompletionOwed
<1>1. OwedInv => CompletionOwed
  <2> SUFFICES ASSUME OwedInv PROVE CompletionOwed
    OBVIOUS
  <2>1. Quiet => ~At(JournalSteps) /\ ~At(JournalSteps \cup InvoiceSteps)
    BY DEF Quiet, At, JournalSteps, InvoiceSteps
  <2>2. ~raced => journal <= 1
    BY DEF OwedInv, EntryInv
  <2> QED BY <2>1, <2>2 DEF OwedInv, InvoiceOwed, EntryOwed, CompletionOwed
<1> QED BY <1>1, OwedInit, OwedInvKeeps, PTL DEF Spec

------------------------------------------------------------------------------
(* The jobs of a day on CITT's answers *)

RowFields == {"state", "offer", "at", "scanEnds", "late", "seq", "leg", "verdict"}

IsRow(x) ==
  /\ DOMAIN x = RowFields
  /\ x.state \in {"none", "live", "scanning", "over"} /\ x.offer \in Offers /\ x.at \in Nat
  /\ x.verdict \in {"unchecked", "RISKY", "TAKE_IT"}

\* Jobs are numbered as they come; only one that waits for its signing is checked.
RowsAreJobs ==
  /\ rows = [j \in Day!Jobs |-> rows[j]]
  /\ \A j \in Day!Jobs : IsRow(rows[j]) /\ (rows[j].verdict # "unchecked" => rows[j].state = "live")
  /\ \A j, k \in Day!Jobs : k < j /\ rows[j].state # "none" => rows[k].state # "none"

SlackOf(v) == IF v = "TAKE_IT" THEN Day!MinGap ELSE 0

\* An answer that is up to date still has its gaps.
AnswersHold ==
  /\ answer \in [Offers -> {"none", "old", "DECLINE", "RISKY", "TAKE_IT"}]
  /\ \A o \in Offers : answer[o] \in {"RISKY", "TAKE_IT"} =>
       /\ Day!Prevs(o.at) # {} => \E m \in Day!Prevs(o.at) : Day!GapBefore(o, m) >= SlackOf(answer[o])
       /\ Day!Nexts(o.at) # {} => \E m \in Day!Nexts(o.at) : Day!GapAfter(o, m) >= SlackOf(answer[o])

DayInv == RowsAreJobs /\ AnswersHold /\ left \in BOOLEAN /\ Day!CheckedDayFits

\* A set of natural numbers has a least one.
LEMMA LeastIs == ASSUME NEW T, T \subseteq Nat, T # {} PROVE \E n \in T : \A m \in T : n <= m
<1>1. PICK n \in T : \A m \in T : ~(<<m, n>> \in OpToRel(<, Nat))
  BY NatLessThanWellFounded, WFMin, Zenon
<1>2. \A m \in T : ~(m < n)
  BY <1>1, Zenon DEF OpToRel
<1> QED BY <1>2

LEMMA JobsAreNat == Day!Jobs \subseteq Nat
BY DayAssumption DEF Day!Jobs

\* A job that begins no later than a time has one just before that time, and so after.
LEMMA NeighboursAre ==
  ASSUME RowsAreJobs, NEW t \in Nat, NEW j \in Day!Anchored
  PROVE  /\ rows[j].at <= t => Day!Prevs(t) # {}
         /\ rows[j].at > t => Day!Nexts(t) # {}
<1>1. \A k \in Day!Anchored : rows[k].at \in Nat
  BY DEF RowsAreJobs, IsRow, Day!Anchored
<1>2. ASSUME rows[j].at <= t PROVE Day!Prevs(t) # {}
  <2> DEFINE S == {k \in Day!Anchored : rows[k].at <= t}
             T == {t - rows[k].at : k \in S}
  <2>1. T \subseteq Nat /\ T # {}
    <3>1. \A k \in S : t - rows[k].at \in Nat
      BY <1>1
    <3>2. j \in S
      BY <1>2
    <3> QED BY <3>1, <3>2
  <2> HIDE DEF T
  <2>2. PICK n \in T : \A m \in T : n <= m
    BY <2>1, LeastIs
  <2> USE DEF T
  <2>3. PICK k \in S : n = t - rows[k].at
    BY <2>2
  <2>4. \A l \in S : rows[l].at <= rows[k].at
    BY <1>1, <2>2, <2>3
  <2> QED BY <2>4 DEF Day!Prevs
<1>3. ASSUME rows[j].at > t PROVE Day!Nexts(t) # {}
  <2> DEFINE S == {k \in Day!Anchored : rows[k].at > t}
             T == {rows[k].at - t : k \in S}
  <2>1. T \subseteq Nat /\ T # {}
    <3>1. \A k \in S : rows[k].at - t \in Nat
      BY <1>1
    <3>2. j \in S
      BY <1>3
    <3> QED BY <3>1, <3>2
  <2> HIDE DEF T
  <2>2. PICK n \in T : \A m \in T : n <= m
    BY <2>1, LeastIs
  <2> USE DEF T
  <2>3. PICK k \in S : n = rows[k].at - t
    BY <2>2
  <2>4. \A l \in S : rows[l].at >= rows[k].at
    <3>1. ASSUME NEW l \in S PROVE rows[l].at >= rows[k].at
      <4>1. rows[l].at - t \in T
        OBVIOUS
      <4>2. rows[k].at - t <= rows[l].at - t
        BY <2>2, <2>3, <4>1
      <4>3. rows[k].at \in Nat /\ rows[l].at \in Nat
        BY <1>1
      <4> QED BY <4>2, <4>3
    <3> QED BY <3>1
  <2> QED BY <2>4 DEF Day!Nexts
<1> QED BY <1>2, <1>3

LEMMA DayBegins == Day!Init => DayInv
<1> SUFFICES ASSUME Day!Init PROVE DayInv
  OBVIOUS
<1>1. rows = [j \in Day!Jobs |-> Day!NoJob]
  BY DEF Day!Init
<1>2. Day!AnOffer \in Offers
  BY DayAssumption DEF Day!AnOffer
<1>3. IsRow(Day!NoJob) /\ Day!NoJob.verdict = "unchecked" /\ Day!NoJob.state = "none"
  BY <1>2 DEF Day!NoJob, IsRow, RowFields
<1>4. RowsAreJobs
  BY <1>1, <1>3 DEF RowsAreJobs
<1>5. AnswersHold
  BY DEF Day!Init, AnswersHold
<1>6. Day!CheckedDayFits
  BY <1>1, <1>3 DEF Day!CheckedDayFits, Day!Anchored
<1>7. left \in BOOLEAN
  BY DEF Day!Init
<1> QED BY <1>4, <1>5, <1>6, <1>7 DEF DayInv

\* The planner's steps, and those that follow the other side: no job moves.
LEMMA RowsStayKeeps ==
  ASSUME DayInv, RowsAreJobs', UNCHANGED <<answer, left>>,
         \A j \in Day!Jobs : /\ rows'[j].state = rows[j].state /\ rows'[j].offer = rows[j].offer
                             /\ rows'[j].at = rows[j].at /\ rows'[j].verdict = rows[j].verdict
  PROVE  DayInv'
<1>1. Day!Anchored' = Day!Anchored /\ Day!OnPlan' = Day!OnPlan
      /\ Day!Anchored \subseteq Day!Jobs /\ Day!OnPlan \subseteq Day!Jobs
  BY DEF Day!Anchored, Day!OnPlan, Day!Jobs
<1>2. ASSUME NEW t PROVE Day!Prevs(t)' = Day!Prevs(t) /\ Day!Nexts(t)' = Day!Nexts(t)
                      /\ Day!Prevs(t) \subseteq Day!Jobs /\ Day!Nexts(t) \subseteq Day!Jobs
  <2>1. \A j \in Day!Anchored : rows'[j].at = rows[j].at
    BY <1>1
  <2> QED BY <1>1, <2>1 DEF Day!Prevs, Day!Nexts
<1>3. ASSUME NEW o, NEW j \in Day!Jobs
      PROVE  /\ Day!GapBefore(o, j)' = Day!GapBefore(o, j)
             /\ Day!GapAfter(o, j)' = Day!GapAfter(o, j)
  BY DEF Day!GapBefore, Day!GapAfter, Day!SignEnds
<1>4. AnswersHold'
  <2>1. ASSUME NEW o \in Offers, answer[o] \in {"RISKY", "TAKE_IT"}
        PROVE  /\ Day!Prevs(o.at)' # {} =>
                    \E m \in Day!Prevs(o.at)' : Day!GapBefore(o, m)' >= SlackOf(answer[o])
               /\ Day!Nexts(o.at)' # {} =>
                    \E m \in Day!Nexts(o.at)' : Day!GapAfter(o, m)' >= SlackOf(answer[o])
    BY <1>2, <1>3, <2>1 DEF DayInv, AnswersHold
  <2> QED BY <2>1 DEF DayInv, AnswersHold, SlackOf, Day!MinGap
<1>5. Day!CheckedDayFits'
  BY <1>1 DEF DayInv, Day!CheckedDayFits, Day!Slack, Day!SignEnds, Day!PlannedEnd
<1> QED BY <1>4, <1>5 DEF DayInv

\* After the day changes, no answer is up to date.
LEMMA NoAnswerHolds ==
  ASSUME AnswersHold, NEW taken, Day!DayChanges(taken) PROVE AnswersHold'
<1>1. \A o \in Offers : answer'[o] \in {"none", "old"}
  BY DEF Day!DayChanges
<1>2. answer' \in [Offers -> {"none", "old", "DECLINE", "RISKY", "TAKE_IT"}]
  BY DEF Day!DayChanges
<1> QED BY <1>1, <1>2 DEF AnswersHold

\* What CheckedDayFits says of two jobs.
PairFits(a, b) ==
  IF a < b
  THEN rows[b].at >= Day!SignEnds(rows[a]) + Day!Slack(b)
         + IF left \/ \E k \in Day!OnPlan : rows[a].at < rows[k].at /\ rows[k].at < rows[b].at
           THEN 0 ELSE Drive[rows[a].offer.place][rows[b].offer.place]
  ELSE rows[b].at >= Day!PlannedEnd(rows[a]) + Day!Slack(a)

LEMMA FitsByPairs ==
  Day!CheckedDayFits <=>
    \A a, b \in Day!Jobs :
      /\ rows[a].state = "live" /\ rows[a].verdict # "unchecked"
      /\ rows[b].state = "live" /\ rows[b].verdict # "unchecked"
      /\ a # b /\ rows[a].at <= rows[b].at
      => PairFits(a, b)
BY DEF Day!CheckedDayFits, Day!Anchored, PairFits, Day!SignEnds, Day!PlannedEnd

LEMMA PairStays ==
  ASSUME DayInv, NEW a \in Day!Jobs, NEW b \in Day!Jobs,
         rows'[a] = rows[a], rows'[b] = rows[b], PairFits(a, b),
         (left \/ \E k \in Day!OnPlan : rows[a].at < rows[k].at /\ rows[k].at < rows[b].at) =>
           (left' \/ \E k \in Day!OnPlan' : rows[a].at < rows'[k].at /\ rows'[k].at < rows[b].at)
  PROVE  PairFits(a, b)'
<1>1. Day!Slack(a)' = Day!Slack(a) /\ Day!Slack(b)' = Day!Slack(b) /\ Day!Slack(b) \in Nat
  BY DEF Day!Slack, Day!MinGap
<1>2. PICK n \in Nat : n = Drive[rows[a].offer.place][rows[b].offer.place]
  BY DayAssumption DEF DayInv, RowsAreJobs, IsRow
<1>3. rows[b].at \in Nat /\ Day!SignEnds(rows[a]) \in Nat
  BY DayAssumption DEF DayInv, RowsAreJobs, IsRow, Day!SignEnds
<1>4. CASE a < b
  BY <1>1, <1>2, <1>3, <1>4 DEF PairFits, Day!SignEnds
<1>5. CASE ~(a < b)
  BY <1>1, <1>5 DEF PairFits, Day!PlannedEnd, Day!SignEnds
<1> QED BY <1>4, <1>5

\* A job is moved, worked on or leaves: it is no longer a checked one.
LEMMA UpsetKeeps ==
  ASSUME DayInv, NEW j \in Day!Jobs, NEW g, rows' = [rows EXCEPT ![j] = g], IsRow(g),
         g.verdict = "unchecked", g.state # "none", rows[j].state \in {"live", "scanning"},
         g.offer = rows[j].offer, Day!DayChanges({}), left' \in BOOLEAN, left => left',
         left' \/ (g.at = rows[j].at /\ g.state \in {"live", "scanning"})
  PROVE  DayInv'
<1>1. rows'[j] = g /\ \A k \in Day!Jobs : k # j => rows'[k] = rows[k]
  BY DEF DayInv, RowsAreJobs
<1>2. RowsAreJobs'
  BY <1>1 DEF DayInv, RowsAreJobs, IsRow
<1>3. AnswersHold'
  BY NoAnswerHolds DEF DayInv
<1>4. left' \/ \A k \in Day!OnPlan : k \in Day!OnPlan' /\ rows'[k].at = rows[k].at
  BY <1>1 DEF Day!OnPlan, Day!Jobs
<1>5. ASSUME NEW a \in Day!Jobs, NEW b \in Day!Jobs, a # b,
             rows'[a].state = "live", rows'[a].verdict # "unchecked",
             rows'[b].state = "live", rows'[b].verdict # "unchecked", rows'[a].at <= rows'[b].at
      PROVE  PairFits(a, b)'
  <2>1. rows'[a] = rows[a] /\ rows'[b] = rows[b]
    BY <1>1, <1>5
  <2>2. PairFits(a, b)
    BY <1>5, <2>1, FitsByPairs DEF DayInv
  <2>3. (left \/ \E k \in Day!OnPlan : rows[a].at < rows[k].at /\ rows[k].at < rows[b].at) =>
        (left' \/ \E k \in Day!OnPlan' : rows[a].at < rows'[k].at /\ rows'[k].at < rows[b].at)
    BY <1>4
  <2> QED BY <2>1, <2>2, <2>3, PairStays
<1>6. Day!CheckedDayFits'
  BY <1>5 DEF Day!CheckedDayFits, Day!Anchored, PairFits, Day!SignEnds, Day!PlannedEnd
<1> QED BY <1>2, <1>3, <1>6 DEF DayInv

\* Answers come and go; the jobs stay.
LEMMA AnswerKeeps ==
  ASSUME DayInv, NEW o \in Offers, Day!Check(o) \/ Day!Expire(o)
  PROVE  DayInv'
<1>1. UNCHANGED <<rows, left>>
  BY DEF Day!Check, Day!Expire
<1>2. PICK v \in {"none", "DECLINE", "RISKY", "TAKE_IT"} :
        /\ answer' = [answer EXCEPT ![o] = v]
        /\ v \in {"RISKY", "TAKE_IT"} =>
             \E p \in Day!Picks(Day!Prevs(o.at)), n \in Day!Picks(Day!Nexts(o.at)) :
               v = Day!Verdict(o, p, n)
  <2>1. CASE Day!Check(o)
    <3>1. PICK p \in Day!Picks(Day!Prevs(o.at)), n \in Day!Picks(Day!Nexts(o.at)) :
            answer' = [answer EXCEPT ![o] = Day!Verdict(o, p, n)]
      BY <2>1 DEF Day!Check
    <3>2. Day!Verdict(o, p, n) \in {"DECLINE", "RISKY", "TAKE_IT"}
      BY DEF Day!Verdict
    <3> QED BY <3>1, <3>2
  <2>2. CASE Day!Expire(o)
    BY <2>2 DEF Day!Expire
  <2> QED BY <2>1, <2>2
<1>3. ASSUME v \in {"RISKY", "TAKE_IT"}
      PROVE  /\ Day!Prevs(o.at) # {} => \E m \in Day!Prevs(o.at) : Day!GapBefore(o, m) >= SlackOf(v)
             /\ Day!Nexts(o.at) # {} => \E m \in Day!Nexts(o.at) : Day!GapAfter(o, m) >= SlackOf(v)
  <2>1. PICK p \in Day!Picks(Day!Prevs(o.at)), n \in Day!Picks(Day!Nexts(o.at)) :
          v = Day!Verdict(o, p, n)
    BY <1>2, <1>3
  <2> DEFINE gaps == {Day!GapBefore(o, j) : j \in p} \cup {Day!GapAfter(o, j) : j \in n}
  <2>2. /\ \A g \in gaps : ~(g < 0)
        /\ v = "TAKE_IT" => \A g \in gaps : ~(g < Day!MinGap)
    BY <1>3, <2>1 DEF Day!Verdict
  <2>3. p \subseteq Day!Jobs /\ n \subseteq Day!Jobs
    BY <2>1 DEF Day!Picks, Day!Prevs, Day!Nexts, Day!Anchored
  <2>4. \A g \in gaps : g \in Int
    <3>1. ASSUME NEW j \in Day!Jobs PROVE Day!GapBefore(o, j) \in Int /\ Day!GapAfter(o, j) \in Int
      <4>1. /\ rows[j].at \in Nat /\ rows[j].offer \in Offers
        BY DEF DayInv, RowsAreJobs, IsRow
      <4>2. /\ o.at \in Nat /\ o.sign \in Nat /\ o.scan \in Nat /\ rows[j].offer.sign \in Nat
            /\ Drive[rows[j].offer.place][o.place] \in Nat
        BY <4>1, DayAssumption
      <4> QED BY <4>1, <4>2 DEF Day!GapBefore, Day!GapAfter, Day!SignEnds
    <3> QED BY <2>3, <3>1
  <2>5. \A g \in gaps : g >= SlackOf(v)
    <3>1. ASSUME NEW g \in gaps PROVE g >= SlackOf(v)
      <4>1. g \in Int /\ ~(g < 0) /\ (v = "TAKE_IT" => ~(g < 10))
        BY <2>2, <2>4 DEF Day!MinGap
      <4>2. CASE v = "TAKE_IT"
        BY <4>1, <4>2 DEF SlackOf, Day!MinGap
      <4>3. CASE v # "TAKE_IT"
        BY <4>1, <4>3 DEF SlackOf
      <4> QED BY <4>2, <4>3
    <3> QED BY <3>1
  <2>6. ASSUME Day!Prevs(o.at) # {}
        PROVE  \E m \in Day!Prevs(o.at) : Day!GapBefore(o, m) >= SlackOf(v)
    BY <2>5, <2>6 DEF Day!Picks
  <2>7. ASSUME Day!Nexts(o.at) # {}
        PROVE  \E m \in Day!Nexts(o.at) : Day!GapAfter(o, m) >= SlackOf(v)
    BY <2>5, <2>7 DEF Day!Picks
  <2> QED BY <2>6, <2>7
<1>4. \A t, x, j : /\ Day!Prevs(t)' = Day!Prevs(t) /\ Day!Nexts(t)' = Day!Nexts(t)
                   /\ Day!GapBefore(x, j)' = Day!GapBefore(x, j)
                   /\ Day!GapAfter(x, j)' = Day!GapAfter(x, j)
  BY <1>1 DEF Day!Prevs, Day!Nexts, Day!Anchored, Day!GapBefore, Day!GapAfter, Day!SignEnds
<1>5. AnswersHold'
  <2>1. answer' \in [Offers -> {"none", "old", "DECLINE", "RISKY", "TAKE_IT"}]
    BY <1>2 DEF DayInv, AnswersHold
  <2>2. ASSUME NEW x \in Offers, answer'[x] \in {"RISKY", "TAKE_IT"}
        PROVE  /\ Day!Prevs(x.at) # {} =>
                    \E m \in Day!Prevs(x.at) : Day!GapBefore(x, m) >= SlackOf(answer'[x])
               /\ Day!Nexts(x.at) # {} =>
                    \E m \in Day!Nexts(x.at) : Day!GapAfter(x, m) >= SlackOf(answer'[x])
    <3>1. CASE x = o
      <4>1. answer'[x] = v
        BY <1>2, <3>1 DEF DayInv, AnswersHold
      <4> QED BY <1>3, <2>2, <3>1, <4>1
    <3>2. CASE x # o
      <4>1. answer'[x] = answer[x]
        BY <1>2, <3>2 DEF DayInv, AnswersHold
      <4> QED BY <2>2, <4>1 DEF DayInv, AnswersHold
    <3> QED BY <3>1, <3>2
  <2>3. ASSUME NEW x \in Offers, answer'[x] \in {"RISKY", "TAKE_IT"}
        PROVE  /\ Day!Prevs(x.at)' # {} =>
                    \E m \in Day!Prevs(x.at)' : Day!GapBefore(x, m)' >= SlackOf(answer'[x])
               /\ Day!Nexts(x.at)' # {} =>
                    \E m \in Day!Nexts(x.at)' : Day!GapAfter(x, m)' >= SlackOf(answer'[x])
    BY <1>4, <2>2, <2>3
  <2> QED BY <2>1, <2>3 DEF AnswersHold, SlackOf, Day!MinGap
<1>6. RowsAreJobs' /\ Day!CheckedDayFits' /\ left' \in BOOLEAN
  BY <1>1 DEF DayInv, RowsAreJobs, Day!CheckedDayFits, Day!Anchored, Day!OnPlan, Day!Slack,
              Day!SignEnds, Day!PlannedEnd
<1> QED BY <1>5, <1>6 DEF DayInv

\* The row of a job that is taken.
LEMMA TakenRow ==
  ASSUME DayInv, NEW o \in Offers, Day!Take(o)
  PROVE  \E j \in Day!Jobs : \E g :
           /\ rows' = [rows EXCEPT ![j] = g] /\ IsRow(g)
           /\ rows[j].state = "none" /\ \A k \in 1..j - 1 : rows[k].state # "none"
           /\ g.state = "live" /\ g.offer = o /\ g.at = o.at
           /\ g.verdict # "unchecked" =>
                /\ g.verdict = answer[o] /\ answer[o] \in {"RISKY", "TAKE_IT"}
                /\ \A k \in Day!Anchored : rows[k].verdict # "unchecked"
<1> DEFINE told == /\ answer[o] \in {"RISKY", "TAKE_IT"}
                   /\ \A k \in Day!Anchored : rows[k].verdict # "unchecked"
           w == Day!PlannedWindow(o, o.at)
           v == IF told THEN answer[o] ELSE "unchecked"
<1>1. PICK j \in Day!Jobs :
        /\ rows[j].state = "none" /\ \A k \in 1..j - 1 : rows[k].state # "none"
        /\ rows' = [rows EXCEPT ![j] = [Day!NoJob EXCEPT !.state = "live", !.offer = o,
                      !.at = o.at, !.scanEnds = w, !.verdict = v]]
  BY Zenon DEF Day!Take
<1>0. /\ v \in {"unchecked", "RISKY", "TAKE_IT"}
      /\ v # "unchecked" =>
             /\ v = answer[o] /\ answer[o] \in {"RISKY", "TAKE_IT"}
             /\ \A k \in Day!Anchored : rows[k].verdict # "unchecked"
  OBVIOUS
<1> HIDE DEF v, w
<1>2. PICK g : g = [Day!NoJob EXCEPT !.state = "live", !.offer = o,
                      !.at = o.at, !.scanEnds = w, !.verdict = v]
  OBVIOUS
<1>3. /\ g.state = "live" /\ g.offer = o /\ g.at = o.at /\ g.verdict = v
      /\ DOMAIN g = RowFields
  BY <1>2 DEF Day!NoJob, RowFields
<1>4. IsRow(g)
  BY <1>0, <1>3, DayAssumption DEF IsRow
<1> QED BY <1>0, <1>1, <1>2, <1>3, <1>4

LEMMA TakeKeeps ==
  ASSUME DayInv, NEW o \in Offers, Day!Take(o) PROVE DayInv'
<1>0. PICK j \in Day!Jobs : \E g :
        /\ rows' = [rows EXCEPT ![j] = g] /\ IsRow(g)
        /\ rows[j].state = "none" /\ \A k \in 1..j - 1 : rows[k].state # "none"
        /\ g.state = "live" /\ g.offer = o /\ g.at = o.at
        /\ g.verdict # "unchecked" =>
             /\ g.verdict = answer[o] /\ answer[o] \in {"RISKY", "TAKE_IT"}
             /\ \A k \in Day!Anchored : rows[k].verdict # "unchecked"
  BY TakenRow
<1>1. PICK g :
        /\ rows' = [rows EXCEPT ![j] = g] /\ IsRow(g)
        /\ rows[j].state = "none" /\ \A k \in 1..j - 1 : rows[k].state # "none"
        /\ g.state = "live" /\ g.offer = o /\ g.at = o.at
        /\ g.verdict # "unchecked" =>
             /\ g.verdict = answer[o] /\ answer[o] \in {"RISKY", "TAKE_IT"}
             /\ \A k \in Day!Anchored : rows[k].verdict # "unchecked"
  BY <1>0
<1>2. left' = left /\ Day!DayChanges({o})
  BY DEF Day!Take
<1>3. rows'[j] = g /\ \A k \in Day!Jobs : k # j => rows'[k] = rows[k]
  BY <1>1 DEF DayInv, RowsAreJobs
<1>4. j \in Nat /\ \A k \in Day!Jobs : k \in Nat /\ k \in 1..k
  BY DayAssumption DEF Day!Jobs
<1>5. RowsAreJobs'
  <2>1. rows' = [k \in Day!Jobs |-> rows'[k]]
    BY <1>1 DEF DayInv, RowsAreJobs
  <2>2. ASSUME NEW k \in Day!Jobs
        PROVE  IsRow(rows'[k]) /\ (rows'[k].verdict # "unchecked" => rows'[k].state = "live")
    BY <1>1, <1>3 DEF DayInv, RowsAreJobs
  <2>3. ASSUME NEW k \in Day!Jobs, NEW l \in Day!Jobs, l < k, rows'[k].state # "none"
        PROVE  rows'[l].state # "none"
    <3>1. CASE k = j
      <4>1. l \in 1..j - 1
        BY <1>4, <2>3, <3>1 DEF Day!Jobs
      <4> QED BY <1>1, <1>3, <2>3, <3>1, <4>1
    <3>2. CASE k # j
      <4>1. rows[l].state # "none"
        BY <1>3, <2>3, <3>2 DEF DayInv, RowsAreJobs
      <4> QED BY <1>1, <1>3, <4>1
    <3> QED BY <3>1, <3>2
  <2> QED BY <2>1, <2>2, <2>3 DEF RowsAreJobs, IsRow
<1>6. AnswersHold'
  BY <1>2, NoAnswerHolds DEF DayInv
\* The job taken last has the highest number.
<1>7. \A k \in Day!Anchored : k \in Day!Jobs /\ k < j
  <2>1. ASSUME NEW k \in Day!Jobs, rows[k].state = "live" PROVE k < j
    <3>1. ~(j < k)
      BY <1>1, <2>1 DEF DayInv, RowsAreJobs
    <3>2. k # j
      BY <1>1, <2>1
    <3> QED BY <1>4, <3>1, <3>2
  <2> QED BY <2>1 DEF Day!Anchored
<1>8. \A k \in Day!OnPlan : k \in Day!OnPlan' /\ rows'[k] = rows[k]
  BY <1>1, <1>3 DEF Day!OnPlan, Day!Jobs
<1>9. ASSUME NEW a \in Day!Anchored, NEW b \in Day!Anchored, a # b,
             rows[a].verdict # "unchecked", rows[b].verdict # "unchecked",
             rows[a].at <= rows[b].at
      PROVE  PairFits(a, b) /\ PairFits(a, b)'
  <2>1. /\ rows[a].state = "live" /\ rows[b].state = "live" /\ a \in Day!Jobs /\ b \in Day!Jobs
    BY DEF Day!Anchored
  <2>2. PairFits(a, b)
    BY <1>9, <2>1, FitsByPairs DEF DayInv
  <2>3. rows'[a] = rows[a] /\ rows'[b] = rows[b]
    BY <1>1, <1>3, <2>1
  <2>4. (left \/ \E k \in Day!OnPlan : rows[a].at < rows[k].at /\ rows[k].at < rows[b].at) =>
        (left' \/ \E k \in Day!OnPlan' : rows[a].at < rows'[k].at /\ rows'[k].at < rows[b].at)
    BY <1>2, <1>8
  <2>5. PairFits(a, b)'
    BY <2>1, <2>2, <2>3, <2>4, PairStays
  <2> QED BY <2>2, <2>5
<1>10. ASSUME NEW a \in Day!Anchored, g.verdict # "unchecked"
       PROVE  /\ rows[a].at <= o.at => PairFits(a, j)'
              /\ o.at <= rows[a].at => PairFits(j, a)'
  <2>1. /\ \A k \in Day!Anchored : /\ k \in Day!Jobs /\ rows[k].state = "live"
                                  /\ rows[k].verdict # "unchecked" /\ rows'[k] = rows[k]
        /\ g.verdict = answer[o] /\ answer[o] \in {"RISKY", "TAKE_IT"}
    BY <1>1, <1>3, <1>10 DEF Day!Anchored
  <2>2. PICK s \in Nat : s = SlackOf(answer[o])
    BY DEF SlackOf, Day!MinGap
  <2>3. Day!Slack(j)' = s
    BY <1>3, <2>1, <2>2 DEF Day!Slack, SlackOf, Day!MinGap
  <2>4. ASSUME NEW k \in Day!Anchored
        PROVE  /\ rows[k].at \in Nat /\ rows[k].offer.sign \in Nat \ {0}
               /\ rows[k].offer.scan \in Nat /\ Drive[rows[k].offer.place][o.place] \in Nat
    BY <2>1, DayAssumption DEF DayInv, RowsAreJobs, IsRow
  <2>5. o.at \in Nat /\ o.sign \in Nat /\ o.scan \in Nat
    BY DayAssumption
  <2>6. ASSUME rows[a].at <= o.at
        PROVE  PairFits(a, j)' /\ rows[a].at < o.at
    <3>1. PICK m \in Day!Prevs(o.at) : Day!GapBefore(o, m) >= s
      BY <2>1, <2>2, <2>5, <2>6, NeighboursAre DEF DayInv, AnswersHold
    <3>2. m \in Day!Anchored /\ rows[a].at <= rows[m].at
      BY <2>6 DEF Day!Prevs
    <3>3. PICK n \in Nat : n = Drive[rows[m].offer.place][o.place]
      BY <2>4, <3>2
    <3>4. o.at >= rows[m].at + rows[m].offer.sign + n + s
      BY <2>4, <2>5, <3>1, <3>2, <3>3 DEF Day!GapBefore, Day!SignEnds
    <3>5. CASE m = a
      <4>1. rows[a].at < o.at
        BY <2>4, <2>5, <3>4, <3>5
      <4>2. PairFits(a, j)'
        BY <1>1, <1>3, <1>7, <2>1, <2>3, <2>4, <2>5, <3>3, <3>4, <3>5 DEF PairFits, Day!SignEnds
      <4> QED BY <4>1, <4>2
    <3>6. CASE m # a
      <4>1. rows[m].at >= rows[a].at + rows[a].offer.sign
        <5>1. PairFits(a, m)
          BY <1>9, <2>1, <3>2, <3>6
        <5>2. PICK x \in Nat : x = Drive[rows[a].offer.place][rows[m].offer.place]
          BY <2>1, <3>2, DayAssumption DEF DayInv, RowsAreJobs, IsRow
        <5>3. Day!Slack(a) \in Nat /\ Day!Slack(m) \in Nat
          BY DEF Day!Slack, Day!MinGap
        <5>4. CASE a < m
          BY <2>4, <3>2, <5>1, <5>2, <5>3, <5>4 DEF PairFits, Day!SignEnds
        <5>5. CASE ~(a < m)
          BY <2>4, <3>2, <5>1, <5>3, <5>5 DEF PairFits, Day!SignEnds, Day!PlannedEnd
        <5> QED BY <5>4, <5>5
      <4>2. rows[a].at < rows[m].at /\ rows[m].at < o.at
            /\ o.at >= rows[a].at + rows[a].offer.sign + s
        BY <2>4, <2>5, <3>2, <3>4, <4>1
      <4>3. m \in Day!OnPlan' /\ rows'[m] = rows[m]
        BY <1>8, <2>1, <3>2 DEF Day!OnPlan, Day!Anchored
      <4>4. PairFits(a, j)'
        BY <1>1, <1>3, <1>7, <2>1, <2>3, <2>4, <2>5, <4>2, <4>3 DEF PairFits, Day!SignEnds
      <4>5. rows[a].at < o.at
        BY <2>4, <2>5, <3>2, <4>2
      <4> QED BY <4>4, <4>5
    <3> QED BY <3>5, <3>6
  <2>7. ASSUME o.at <= rows[a].at PROVE PairFits(j, a)'
    <3>1. rows[a].at > o.at
      BY <2>4, <2>5, <2>6, <2>7
    <3>2. PICK m \in Day!Nexts(o.at) : Day!GapAfter(o, m) >= s
      BY <2>1, <2>2, <2>5, <3>1, NeighboursAre DEF DayInv, AnswersHold
    <3>3. m \in Day!Anchored /\ rows[a].at >= rows[m].at
      BY <3>1 DEF Day!Nexts
    <3>4. rows[a].at >= o.at + o.sign + o.scan + s
      BY <2>4, <2>5, <3>2, <3>3 DEF Day!GapAfter
    <3>5. ~(j < a)
      <4>1. a \in Nat /\ a < j
        BY <1>4, <1>7
      <4> QED BY <1>4, <4>1
    <3> QED BY <1>1, <1>3, <2>1, <2>3, <2>4, <2>5, <3>4, <3>5
            DEF PairFits, Day!PlannedEnd, Day!SignEnds
  <2> QED BY <2>6, <2>7
<1>11. ASSUME NEW a \in Day!Jobs, NEW b \in Day!Jobs, a # b,
              rows'[a].state = "live", rows'[a].verdict # "unchecked",
              rows'[b].state = "live", rows'[b].verdict # "unchecked", rows'[a].at <= rows'[b].at
       PROVE  PairFits(a, b)'
  <2>1. \A k \in Day!Jobs : k # j /\ rows'[k].state = "live" => k \in Day!Anchored
    BY <1>3 DEF Day!Anchored
  <2>2. CASE a # j /\ b # j
    BY <1>3, <1>9, <1>11, <2>1, <2>2
  <2>3. CASE b = j
    BY <1>1, <1>3, <1>10, <1>11, <2>1, <2>3
  <2>4. CASE a = j
    BY <1>1, <1>3, <1>10, <1>11, <2>1, <2>4
  <2> QED BY <2>2, <2>3, <2>4
<1>12. Day!CheckedDayFits'
  BY <1>11 DEF Day!CheckedDayFits, Day!Anchored, PairFits, Day!SignEnds, Day!PlannedEnd
<1> QED BY <1>2, <1>5, <1>6, <1>12 DEF DayInv

LEMMA MoveKeeps ==
  ASSUME DayInv, NEW j \in Day!Jobs, Day!Move(j) PROVE DayInv'
<1>0. PICK t \in Nat : \E w :
        rows' = [rows EXCEPT ![j] = [rows[j] EXCEPT !.at = t, !.verdict = "unchecked",
                                                    !.scanEnds = w]]
  BY DayAssumption DEF Day!Move
<1>1. PICK w :
        rows' = [rows EXCEPT ![j] = [rows[j] EXCEPT !.at = t, !.verdict = "unchecked",
                                                    !.scanEnds = w]]
  BY <1>0
<1>2. PICK g : g = [rows[j] EXCEPT !.at = t, !.verdict = "unchecked", !.scanEnds = w]
  OBVIOUS
<1>3. IsRow(rows[j]) /\ rows[j].state = "live"
  BY DEF DayInv, RowsAreJobs, Day!Move
<1>4. /\ DOMAIN g = RowFields /\ g.at = t /\ g.verdict = "unchecked"
      /\ g.state = rows[j].state /\ g.offer = rows[j].offer
  BY <1>2, <1>3 DEF IsRow, RowFields
<1>5. left' = TRUE /\ Day!DayChanges({})
  BY DEF Day!Move
<1> QED BY <1>1, <1>2, <1>3, <1>4, <1>5, UpsetKeeps DEF IsRow

LEMMA StartKeeps ==
  ASSUME DayInv, NEW j \in Day!Jobs, Day!StartScanning(j) PROVE DayInv'
<1>1. PICK late, w :
        rows' = [rows EXCEPT ![j] = [rows[j] EXCEPT !.state = "scanning", !.late = late,
                                       !.verdict = "unchecked", !.scanEnds = w]]
  BY DEF Day!StartScanning
<1>2. PICK g : g = [rows[j] EXCEPT !.state = "scanning", !.late = late,
                                   !.verdict = "unchecked", !.scanEnds = w]
  OBVIOUS
<1>3. IsRow(rows[j]) /\ rows[j].state = "live"
  BY DEF DayInv, RowsAreJobs, Day!StartScanning
<1>4. /\ DOMAIN g = RowFields /\ g.at = rows[j].at /\ g.verdict = "unchecked"
      /\ g.state = "scanning" /\ g.offer = rows[j].offer
  BY <1>2, <1>3 DEF IsRow, RowFields
<1>5. left' = left /\ left \in BOOLEAN /\ Day!DayChanges({})
  BY DEF Day!StartScanning, DayInv
<1> QED BY <1>1, <1>2, <1>3, <1>4, <1>5, UpsetKeeps DEF IsRow

LEMMA ResumeKeeps ==
  ASSUME DayInv, NEW j \in Day!Jobs, Day!ResumeSigning(j) PROVE DayInv'
<1>1. PICK g : g = [rows[j] EXCEPT !.state = "live", !.late = 0, !.scanEnds = Day!None]
  OBVIOUS
<1>2. rows' = [rows EXCEPT ![j] = g]
  BY <1>1 DEF Day!ResumeSigning
<1>3. IsRow(rows[j]) /\ rows[j].state = "scanning" /\ rows[j].verdict = "unchecked"
  BY DEF DayInv, RowsAreJobs, Day!ResumeSigning
<1>4. /\ DOMAIN g = RowFields /\ g.at = rows[j].at /\ g.verdict = "unchecked"
      /\ g.state = "live" /\ g.offer = rows[j].offer
  BY <1>1, <1>3 DEF IsRow, RowFields
<1>5. left' = left /\ left \in BOOLEAN /\ Day!DayChanges({})
  BY DEF Day!ResumeSigning, DayInv
<1> QED BY <1>2, <1>3, <1>4, <1>5, UpsetKeeps DEF IsRow

LEMMA LeaveKeeps ==
  ASSUME DayInv, NEW j \in Day!Jobs, Day!Leave(j) PROVE DayInv'
<1>1. PICK g : g = [Day!NoJob EXCEPT !.state = "over", !.offer = rows[j].offer]
  OBVIOUS
<1>2. rows' = [rows EXCEPT ![j] = g]
  BY <1>1 DEF Day!Leave
<1>3. IsRow(rows[j]) /\ rows[j].state \in {"live", "scanning"}
  BY DEF DayInv, RowsAreJobs, Day!Leave
<1>4. /\ DOMAIN g = RowFields /\ g.at = 0 /\ g.verdict = "unchecked"
      /\ g.state = "over" /\ g.offer = rows[j].offer
  BY <1>1 DEF Day!NoJob, RowFields
<1>5. left' = TRUE /\ Day!DayChanges({})
  BY DEF Day!Leave
<1>6. IsRow(g)
  BY <1>3, <1>4 DEF IsRow
<1> QED BY <1>2, <1>3, <1>4, <1>5, <1>6, UpsetKeeps

\* The planner writes places in the route, legs and windows.
\* The planner writes one row at a time.
LEMMA PopulateWrites ==
  ASSUME DayInv, NEW r \in Requests, Day!Populate(r),
         NEW s, s = plan[r].stops[plan[r].next]
  PROVE  /\ rows' = [k \in Day!Jobs |-> rows'[k]]
         /\ \A k \in Day!Jobs : rows'[k] = rows[k] \/ rows'[k] = [rows[k] EXCEPT !.leg = s.leg]
<1>1. rows = [k \in Day!Jobs |-> rows[k]]
  BY DEF DayInv, RowsAreJobs
<1>2. CASE Day!WriteStop(r, [rows[s.job] EXCEPT !.leg = s.leg])
  <2>1. PICK g : g = [rows[s.job] EXCEPT !.leg = s.leg]
    OBVIOUS
  <2>2. rows' = IF s.job \in Day!OnPlan THEN [rows EXCEPT ![s.job] = g] ELSE rows
    BY <1>2, <2>1 DEF Day!WriteStop
  <2>3. \A k \in Day!Jobs : rows'[k] = rows[k] \/ (k = s.job /\ rows'[k] = g)
    BY <1>1, <2>2
  <2> QED BY <1>1, <2>1, <2>2, <2>3
<1>3. CASE Day!WriteStop(r, rows[s.job])
  <2>1. rows' = IF s.job \in Day!OnPlan THEN [rows EXCEPT ![s.job] = rows[s.job]] ELSE rows
    BY <1>3 DEF Day!WriteStop
  <2> QED BY <1>1, <2>1
<1> QED BY <1>2, <1>3, Zenon DEF Day!Populate

LEMMA ApplyWrites ==
  ASSUME DayInv, NEW r \in Requests, Day!ApplyRoute(r),
         NEW s, s = plan[r].stops[plan[r].next]
  PROVE  /\ rows' = [k \in Day!Jobs |-> rows'[k]]
         /\ \A k \in Day!Jobs : k # s.job \/ k \notin Day!OnPlan => rows'[k] = rows[k]
         /\ s.job \in Day!OnPlan =>
              rows'[s.job] = [rows[s.job] EXCEPT !.seq = plan[r].next, !.leg = s.leg,
                !.scanEnds = s.at + rows[s.job].offer.sign + rows[s.job].offer.scan]
<1>1. rows = [k \in Day!Jobs |-> rows[k]] /\ Day!OnPlan \subseteq Day!Jobs
  BY DEF DayInv, RowsAreJobs, Day!OnPlan, Day!Jobs
<1>2. PICK g : g = [rows[s.job] EXCEPT !.seq = plan[r].next, !.leg = s.leg,
                      !.scanEnds = s.at + rows[s.job].offer.sign + rows[s.job].offer.scan]
  OBVIOUS
<1>3. Day!WriteStop(r, g)
  BY <1>2, Zenon DEF Day!ApplyRoute
<1>4. rows' = IF s.job \in Day!OnPlan THEN [rows EXCEPT ![s.job] = g] ELSE rows
  BY <1>3 DEF Day!WriteStop
<1> QED BY <1>1, <1>2, <1>4

LEMMA PlannerKeeps ==
  ASSUME DayInv, NEW r \in Requests, Day!Populate(r) \/ Day!ApplyRoute(r) PROVE DayInv'
<1>1. UNCHANGED <<answer, left>>
  BY DEF Day!Populate, Day!ApplyRoute
<1>2. /\ rows' = [j \in Day!Jobs |-> rows'[j]]
      /\ \A j \in Day!Jobs :
           \E s, l, w : rows'[j] = rows[j] \/ rows'[j] = [rows[j] EXCEPT !.leg = l]
             \/ rows'[j] = [rows[j] EXCEPT !.seq = s, !.leg = l, !.scanEnds = w]
  <2>0. PICK s : s = plan[r].stops[plan[r].next]
    OBVIOUS
  <2>1. CASE Day!Populate(r)
    BY <2>0, <2>1, PopulateWrites, Zenon
  <2>2. CASE Day!ApplyRoute(r)
    <3>1. /\ rows' = [k \in Day!Jobs |-> rows'[k]]
          /\ \A k \in Day!Jobs : k # s.job \/ k \notin Day!OnPlan => rows'[k] = rows[k]
          /\ s.job \in Day!OnPlan =>
               rows'[s.job] = [rows[s.job] EXCEPT !.seq = plan[r].next, !.leg = s.leg,
                 !.scanEnds = s.at + rows[s.job].offer.sign + rows[s.job].offer.scan]
      BY <2>0, <2>2, ApplyWrites
    <3>2. ASSUME NEW j \in Day!Jobs
          PROVE  \E q, l, w : rows'[j] = rows[j] \/ rows'[j] = [rows[j] EXCEPT !.leg = l]
                   \/ rows'[j] = [rows[j] EXCEPT !.seq = q, !.leg = l, !.scanEnds = w]
      <4>1. CASE j = s.job /\ s.job \in Day!OnPlan
        <5>1. PICK q, w : q = plan[r].next
                /\ w = s.at + rows[s.job].offer.sign + rows[s.job].offer.scan
          OBVIOUS
        <5>2. rows'[s.job] = [rows[s.job] EXCEPT !.seq = q, !.leg = s.leg, !.scanEnds = w]
          BY <3>1, <4>1, <5>1
        <5>3. rows'[j] = [rows[j] EXCEPT !.seq = q, !.leg = s.leg, !.scanEnds = w]
          BY <4>1, <5>2
        <5> QED BY <5>3, Zenon
      <4>2. CASE ~(j = s.job /\ s.job \in Day!OnPlan)
        BY <3>1, <4>2, Zenon
      <4> QED BY <4>1, <4>2
    <3> QED BY <3>1, <3>2
  <2> QED BY <2>1, <2>2
<1>3. ASSUME NEW j \in Day!Jobs
      PROVE  /\ rows'[j].state = rows[j].state /\ rows'[j].offer = rows[j].offer
             /\ rows'[j].at = rows[j].at /\ rows'[j].verdict = rows[j].verdict
             /\ DOMAIN rows'[j] = RowFields
  <2>1. DOMAIN rows[j] = RowFields
    BY DEF DayInv, RowsAreJobs, IsRow
  <2> QED BY <1>2, <2>1 DEF RowFields
<1>4. RowsAreJobs'
  BY <1>2, <1>3 DEF DayInv, RowsAreJobs, IsRow
<1> QED BY <1>1, <1>3, <1>4, RowsStayKeeps

LEMMA DayStays == ASSUME DayInv, UNCHANGED <<rows, answer, left>> PROVE DayInv'
<1>1. RowsAreJobs'
  BY DEF DayInv, RowsAreJobs, IsRow
<1> QED BY <1>1, RowsStayKeeps

LEMMA DayStep == DayInv /\ [AnyNext]_allVars => DayInv'
<1> SUFFICES ASSUME DayInv, [AnyNext]_allVars PROVE DayInv'
  OBVIOUS
<1>1. CASE UNCHANGED dayVars
  BY <1>1, DayStays DEF dayVars
<1>2. CASE Day!Next
  <2>1. CASE \E o \in Offers : Day!Check(o) \/ Day!Expire(o)
    BY <2>1, AnswerKeeps
  <2>2. CASE \E o \in Offers : Day!Take(o)
    BY <2>2, TakeKeeps
  <2>3. CASE \E j \in Day!Jobs :
               Day!Move(j) \/ Day!StartScanning(j) \/ Day!ResumeSigning(j) \/ Day!Leave(j)
    BY <2>3, MoveKeeps, StartKeeps, ResumeKeeps, LeaveKeeps
  <2>4. CASE \E r \in Requests : Day!OpenPlan(r) \/ Day!OpenOptimise(r) \/ Day!RequestFails(r)
    BY <2>4, DayStays DEF Day!OpenPlan, Day!OpenOptimise, Day!Open, Day!RequestFails
  <2>5. CASE \E r \in Requests : Day!Populate(r) \/ Day!ApplyRoute(r)
    BY <2>5, PlannerKeeps
  <2> QED BY <1>2, <2>1, <2>2, <2>3, <2>4, <2>5 DEF Day!Next
<1> QED BY <1>1, <1>2 DEF AnyNext, allVars

\* CITT's answers can be relied on: two jobs of a day that were both taken on one that
\* was not out of date leave each other the time they were promised.
THEOREM CheckedJobsFit == AnySpec => []CheckedDayFits
<1>1. AnyInit => DayInv
  BY DayBegins DEF AnyInit
<1>2. DayInv => CheckedDayFits
  BY DEF DayInv, CheckedDayFits
<1> QED BY <1>1, <1>2, DayStep, PTL DEF AnySpec

------------------------------------------------------------------------------
(* The planner: its requests, its route and its windows *)

\* What else a row holds; nobody is late before scanning begins.
RowRuns(x) ==
  /\ x.seq \in {Day!None} \cup Day!Jobs /\ x.leg \in {Day!None} \cup Nat
  /\ x.scanEnds \in Int /\ x.late \in Day!Delays
  /\ x.state = "live" => x.late = 0

RowsRun == \A j \in Day!Jobs : RowRuns(rows[j])

\* A stop is a job, the time read of it and a drive.
IsStop(s) == s.job \in Day!Jobs /\ s.at \in Nat /\ s.leg \in Nat

\* The stops of a request, by place: each job of the day once, with its time and the
\* drive from the stop before, in an order that can be driven; the first few are stored.
IsRoute(stops, stored) ==
  LET n == Len(stops)
      j(i) == stops[i].job
  IN
  /\ \A k \in Day!OnPlan : \E i \in 1..n : j(i) = k
  /\ \A i \in 1..n : /\ j(i) \in Day!OnPlan /\ stops[i].at = rows[j(i)].at
                     /\ stops[i].leg = Drive[IF i = 1 THEN Home ELSE rows[j(i - 1)].offer.place]
                                            [rows[j(i)].offer.place]
                     /\ \A m \in 1..n : i # m => j(i) # j(m)
  /\ \/ \A i, m \in 1..n : i < m => stops[i].at <= stops[m].at
     \/ \A i \in 2..n : Day!PlannedEnd(rows[j(i - 1)]) + stops[i].leg <= stops[i].at + Day!Tolerance
  /\ \A i \in 1..stored : rows[j(i)].seq = i /\ rows[j(i)].leg = stops[i].leg

\* A request has stops still to be written; those of an optimise that is fresh are a route.
RequestRuns(p) ==
  /\ DOMAIN p = {"pc", "stops", "next", "fresh"}
  /\ p.pc \in {"none", "legs", "apply", "done"} /\ p.fresh \in BOOLEAN /\ p.next \in Nat \ {0}
  /\ p.pc \in {"legs", "apply"} =>
       /\ Len(p.stops) \in Nat /\ Len(p.stops) <= MaxJobs /\ p.next \in 1..Len(p.stops)
       /\ \A i \in 1..Len(p.stops) : IsStop(p.stops[i])
  /\ p.fresh => p.pc = "apply" /\ IsRoute(p.stops, p.next - 1)

RequestsRun == /\ plan = [r \in Requests |-> plan[r]]
               /\ \A r \in Requests : RequestRuns(plan[r])

\* A stored window that was not taken back or away ends when the notary is done.
WindowsHold == \A j \in Day!OnPlan \ misdated : Day!Ends(rows[j]) = Day!RealEnd(rows[j])

\* The leg of a stop is the drive from the stop before, or from home.
LegHolds(j) ==
  \/ rows[j].seq = 1 /\ rows[j].leg = Drive[Home][rows[j].offer.place]
  \/ \E k \in Day!OnPlan : /\ rows[k].seq = rows[j].seq - 1
                           /\ rows[j].leg = Drive[rows[k].offer.place][rows[j].offer.place]

\* After an undisturbed optimise the places in the route are an order that can be driven.
RouteHolds ==
  /\ routed \in BOOLEAN
  /\ routed =>
       /\ \A j \in Day!OnPlan : rows[j].seq \in Nat \ {0} /\ LegHolds(j)
       /\ \A j, k \in Day!OnPlan : j # k => rows[j].seq # rows[k].seq
       /\ \/ \A j, k \in Day!OnPlan : rows[j].seq < rows[k].seq => rows[j].at <= rows[k].at
          \/ \A j, k \in Day!OnPlan : rows[j].seq = rows[k].seq - 1 =>
               Day!PlannedEnd(rows[j]) + rows[k].leg <= rows[k].at + Day!Tolerance

PlanInv == RowsRun /\ RequestsRun /\ WindowsHold /\ RouteHolds

------------------------------------------------------------------------------
(* A list in an order *)

\* An instance has a Cardinality of its own, which is this one.
LEMMA InOrderIsThis ==
  \A before : Day!InOrder(before) =
    [i \in 1..Cardinality(DOMAIN before) |->
       CHOOSE k \in DOMAIN before : Cardinality(before[k]) = i - 1]
BY DEF Day!InOrder, Day!Cardinality, Cardinality

\* Of a finite set in which of any two members one comes before the other, InOrder lists
\* every member once, those before it first.
LEMMA InOrderIs ==
  ASSUME NEW before, NEW S, S = DOMAIN before, IsFiniteSet(S),
         \A k \in S : before[k] \subseteq S /\ k \notin before[k],
         \A j, k \in S : j # k => j \in before[k] \/ k \in before[j],
         \A j, k, l \in S : j \in before[k] /\ k \in before[l] => j \in before[l]
  PROVE  \E n \in Nat :
           /\ n = Cardinality(S)
           /\ Day!InOrder(before) \in [1..n -> S] /\ Len(Day!InOrder(before)) = n
           /\ \A k \in S : \E i \in 1..n : Day!InOrder(before)[i] = k
           /\ \A i, m \in 1..n : i < m => Day!InOrder(before)[i] \in before[Day!InOrder(before)[m]]
<1> DEFINE n == Cardinality(S)
           c == [k \in S |-> Cardinality(before[k])]
           r == [k \in S |-> c[k] + 1]
           list == Day!InOrder(before)
<1>0. list = [i \in 1..n |-> CHOOSE k \in S : Cardinality(before[k]) = i - 1]
  BY InOrderIsThis
<1>1. n \in Nat
  BY FS_CardinalityType
<1>2. ASSUME NEW k \in S PROVE c[k] \in Nat /\ c[k] < n
  <2>1. IsFiniteSet(before[k]) /\ c[k] <= n /\ (n = c[k] => S = before[k])
    BY FS_Subset
  <2>2. c[k] \in Nat
    BY <2>1, FS_CardinalityType
  <2>3. n # c[k]
    BY <2>1
  <2> QED BY <1>1, <2>1, <2>2, <2>3
<1>3. ASSUME NEW j \in S, NEW k \in S, j \in before[k] PROVE c[j] < c[k]
  <2>1. IsFiniteSet(before[k])
    BY FS_Subset
  <2>2. before[j] \in SUBSET before[k] /\ before[j] # before[k]
    BY <1>3
  <2>3. c[j] <= c[k] /\ c[j] # c[k]
    BY <2>1, <2>2, FS_Subset
  <2> QED BY <1>2, <2>3
<1> HIDE DEF n, c
<1>4. \A j, k \in S : j # k => c[j] # c[k]
  BY <1>2, <1>3
<1>5. r \in Injection(S, 1..n)
  <2>1. r \in [S -> 1..n]
    BY <1>1, <1>2
  <2>2. \A j, k \in S : r[j] = r[k] => j = k
    BY <1>2, <1>4
  <2> QED BY <2>1, <2>2 DEF Injection, IsInjective
<1>6. \A i \in 1..n : \E k \in S : r[k] = i
  <2>1. IsFiniteSet(1..n) /\ Cardinality(1..n) = n
    BY <1>1, FS_Interval
  <2>2. r \in Surjection(S, 1..n)
    BY <1>5, <2>1, FS_Injection DEF n
  <2> QED BY <2>2 DEF Surjection
<1>8. \A i \in 1..n : list[i] \in S /\ c[list[i]] = i - 1
  <2>1. ASSUME NEW i \in 1..n PROVE list[i] \in S /\ c[list[i]] = i - 1
    <3>1. \A k \in S : c[k] = Cardinality(before[k])
      BY DEF c
    <3>2. \E k \in S : Cardinality(before[k]) = i - 1
      <4>1. PICK k \in S : r[k] = i
        BY <1>6
      <4> QED BY <1>1, <1>2, <3>1, <4>1
    <3> QED BY <1>0, <3>1, <3>2
  <2> QED BY <2>1
<1>9. list \in [1..n -> S] /\ Len(list) = n
  BY <1>1, <1>0, <1>8
<1>10. \A k \in S : \E i \in 1..n : list[i] = k
  <2>1. ASSUME NEW k \in S PROVE \E i \in 1..n : list[i] = k
    <3>1. r[k] \in 1..n /\ c[k] = r[k] - 1
      BY <1>1, <1>2
    <3>2. list[r[k]] = k
      BY <1>4, <1>8, <3>1
    <3> QED BY <3>1, <3>2
  <2> QED BY <2>1
<1>11. ASSUME NEW i \in 1..n, NEW m \in 1..n, i < m PROVE list[i] \in before[list[m]]
  <2>1. c[list[i]] < c[list[m]]
    BY <1>1, <1>8, <1>11
  <2>2. ~(c[list[m]] < c[list[i]]) /\ list[i] # list[m]
    BY <1>2, <1>8, <2>1
  <2> QED BY <1>3, <1>8, <2>2
<1> QED BY <1>1, <1>9, <1>10, <1>11 DEF n

\* The list has every member once.
Covers(list, S) ==
  /\ Len(list) \in Nat /\ Len(list) = Cardinality(S) /\ list \in [1..Len(list) -> S]
  /\ \A k \in S : \E i \in 1..Len(list) : list[i] = k
  /\ \A i, m \in 1..Len(list) : i # m => list[i] # list[m]

LEMMA SomeJobsAreFinite ==
  ASSUME NEW S, S \subseteq Day!Jobs
  PROVE  IsFiniteSet(S) /\ S \subseteq Nat /\ Cardinality(S) \in Nat /\ Cardinality(S) <= MaxJobs
<1>1. IsFiniteSet(1..MaxJobs) /\ Cardinality(1..MaxJobs) = MaxJobs
  BY DayAssumption, FS_Interval
<1>2. IsFiniteSet(S) /\ Cardinality(S) <= MaxJobs /\ Cardinality(S) \in Nat
  BY <1>1, FS_Subset, FS_CardinalityType DEF Day!Jobs
<1>3. S \subseteq Nat
  BY DayAssumption DEF Day!Jobs
<1> QED BY <1>2, <1>3, DayAssumption

LEMMA ByTimeIs ==
  ASSUME NEW r, DOMAIN r \subseteq Day!Jobs, \A j \in DOMAIN r : r[j].at \in Nat
  PROVE  /\ Covers(Day!ByTime(r), DOMAIN r)
         /\ \A i, m \in 1..Len(Day!ByTime(r)) :
              i < m => r[Day!ByTime(r)[i]].at <= r[Day!ByTime(r)[m]].at
<1> DEFINE S == DOMAIN r
           before == [k \in S |-> {j \in S : Day!Earlier(r, j, k)}]
<1>1. IsFiniteSet(S) /\ S \subseteq Nat
  BY SomeJobsAreFinite
<1>2. \A k \in S : before[k] = {j \in S : r[j].at < r[k].at \/ (r[j].at = r[k].at /\ j < k)}
  BY DEF Day!Earlier
<1>3. Day!ByTime(r) = Day!InOrder(before)
  BY DEF Day!ByTime
<1>4. S = DOMAIN before
  OBVIOUS
<1> HIDE DEF before
<1>5. \A k \in S : before[k] \subseteq S /\ k \notin before[k]
  BY <1>1, <1>2
<1>6. \A j, k \in S : j # k => j \in before[k] \/ k \in before[j]
  BY <1>1, <1>2
<1>7. \A j, k, l \in S : j \in before[k] /\ k \in before[l] => j \in before[l]
  BY <1>1, <1>2
<1>8. PICK n \in Nat :
        /\ n = Cardinality(S)
        /\ Day!InOrder(before) \in [1..n -> S] /\ Len(Day!InOrder(before)) = n
        /\ \A k \in S : \E i \in 1..n : Day!InOrder(before)[i] = k
        /\ \A i, m \in 1..n : i < m => Day!InOrder(before)[i] \in before[Day!InOrder(before)[m]]
  BY <1>1, <1>4, <1>5, <1>6, <1>7, InOrderIs
<1> DEFINE list == Day!InOrder(before)
<1> HIDE DEF list
<1>9. \A i, m \in 1..n : i < m => list[i] # list[m]
  BY <1>5, <1>8 DEF list
<1>10. Covers(list, S)
  BY <1>8, <1>9 DEF Covers, list
<1>11. \A i, m \in 1..n : i < m => r[list[i]].at <= r[list[m]].at
  BY <1>2, <1>8 DEF list
<1> QED BY <1>3, <1>8, <1>10, <1>11 DEF list

LEMMA ListedIs ==
  ASSUME NEW r, DOMAIN r \subseteq Day!Jobs,
         \A j \in DOMAIN r : r[j].at \in Nat /\ r[j].seq \in {Day!None} \cup Nat
  PROVE  /\ Covers(Day!Listed(r), DOMAIN r)
         /\ \A i, m \in 1..Len(Day!Listed(r)) :
              i < m => Day!Rank(r[Day!Listed(r)[i]]) <= Day!Rank(r[Day!Listed(r)[m]])
<1> DEFINE S == DOMAIN r
           before == [k \in S |->
             {j \in S : \/ Day!Rank(r[j]) < Day!Rank(r[k])
                        \/ Day!Rank(r[j]) = Day!Rank(r[k]) /\ Day!Earlier(r, j, k)}]
<1>1. IsFiniteSet(S) /\ S \subseteq Nat
  BY SomeJobsAreFinite
<1>2. \A j, k \in S :
        j \in before[k] <=> (\/ Day!Rank(r[j]) < Day!Rank(r[k])
                             \/ Day!Rank(r[j]) = Day!Rank(r[k]) /\ Day!Earlier(r, j, k))
  BY Zenon
<1>e. \A j, k \in S : Day!Earlier(r, j, k) <=> (r[j].at < r[k].at \/ (r[j].at = r[k].at /\ j < k))
  BY DEF Day!Earlier
<1>3. Day!Listed(r) = Day!InOrder(before)
  BY DEF Day!Listed
<1>4. S = DOMAIN before
  OBVIOUS
<1> HIDE DEF before
<1>0. \A k \in S : Day!Rank(r[k]) \in Nat
  BY DayAssumption DEF Day!Rank
<1>5. \A k \in S : before[k] \subseteq S /\ k \notin before[k]
  <2>1. \A k \in S : before[k] \subseteq S
    BY DEF before
  <2>2. \A k \in S : k \notin before[k]
    BY <1>0, <1>1, <1>2, <1>e
  <2> QED BY <2>1, <2>2
<1>6. \A j, k \in S : j # k => j \in before[k] \/ k \in before[j]
  BY <1>0, <1>1, <1>2, <1>e
<1>7. \A j, k, l \in S : j \in before[k] /\ k \in before[l] => j \in before[l]
  BY <1>0, <1>1, <1>2, <1>e
<1>8. PICK n \in Nat :
        /\ n = Cardinality(S)
        /\ Day!InOrder(before) \in [1..n -> S] /\ Len(Day!InOrder(before)) = n
        /\ \A k \in S : \E i \in 1..n : Day!InOrder(before)[i] = k
        /\ \A i, m \in 1..n : i < m => Day!InOrder(before)[i] \in before[Day!InOrder(before)[m]]
  BY <1>1, <1>4, <1>5, <1>6, <1>7, InOrderIs
<1> DEFINE list == Day!InOrder(before)
<1> HIDE DEF list
<1>9. \A i, m \in 1..n : i < m => list[i] # list[m]
  BY <1>5, <1>8 DEF list
<1>10. Covers(list, S)
  BY <1>8, <1>9 DEF Covers, list
<1>11. \A i, m \in 1..n : i < m => Day!Rank(r[list[i]]) <= Day!Rank(r[list[m]])
  <2>1. \A i \in 1..n : list[i] \in S
    BY <1>8 DEF list
  <2>2. \A i, m \in 1..n : i < m => list[i] \in before[list[m]]
    BY <1>8 DEF list
  <2> QED BY <1>0, <1>2, <2>1, <2>2
<1> QED BY <1>3, <1>8, <1>10, <1>11 DEF list

\* What no step takes down, never comes down.
LEMMA Climbs ==
  ASSUME NEW n \in Nat, NEW f, \A i \in 1..n : f[i] \in Int, \A i \in 2..n : f[i - 1] <= f[i]
  PROVE  \A i, m \in 1..n : i < m => f[i] <= f[m]
<1> SUFFICES ASSUME NEW i \in 1..n, NEW l \in 1..n, i < l, ~(f[i] <= f[l]) PROVE FALSE
  OBVIOUS
<1> DEFINE T == {m \in 1..n : i < m /\ ~(f[i] <= f[m])}
<1>1. PICK m \in T : \A x \in T : m <= x
  <2>1. T \subseteq Nat /\ T # {}
    OBVIOUS
  <2> HIDE DEF T
  <2> QED BY <2>1, LeastIs
<1>2. m - 1 \in 1..n /\ m - 1 >= i /\ m \in 2..n
  OBVIOUS
<1>3. m - 1 \notin T
  BY <1>1
<1>4. f[i] <= f[m - 1]
  BY <1>2, <1>3
<1>5. f[m - 1] <= f[m]
  BY <1>2
<1>6. f[i] \in Int /\ f[m - 1] \in Int /\ f[m] \in Int
  BY <1>2
<1> QED BY <1>1, <1>4, <1>5, <1>6

------------------------------------------------------------------------------
(* What keeps the planner's invariant *)

LEMMA PlanBegins == Day!Init => PlanInv
<1> SUFFICES ASSUME Day!Init PROVE PlanInv
  OBVIOUS
<1>1. rows = [j \in Day!Jobs |-> Day!NoJob] /\ routed = FALSE
      /\ plan = [r \in Requests |-> Day!NoRequest]
  BY DEF Day!Init
<1>2. RowsRun
  BY <1>1 DEF RowsRun, RowRuns, Day!NoJob, Day!None, Day!Delays
<1>3. RequestsRun
  <2>1. RequestRuns([pc |-> "none", stops |-> << >>, next |-> 1, fresh |-> FALSE])
    BY DEF RequestRuns
  <2> QED BY <1>1, <2>1 DEF RequestsRun, Day!NoRequest
<1>4. WindowsHold
  BY <1>1 DEF WindowsHold, Day!OnPlan, Day!NoJob
<1> QED BY <1>1, <1>2, <1>3, <1>4 DEF PlanInv, RouteHolds

\* A job comes, is moved, worked on or leaves.
LEMMA ChangeKeepsPlan ==
  ASSUME DayInv, PlanInv, NEW taken, Day!DayChanges(taken), NEW j \in Day!Jobs, NEW g,
         rows' = [rows EXCEPT ![j] = g], RowRuns(g), g.state # "none",
         rows[j].state # "none" => g.offer = rows[j].offer,
         g.state \in {"live", "scanning"} /\ j \notin misdated' => Day!Ends(g) = Day!RealEnd(g),
         misdated \ {j} \subseteq misdated'
  PROVE  PlanInv'
<1>1. rows'[j] = g /\ \A k \in Day!Jobs : k # j => rows'[k] = rows[k]
  BY DEF DayInv, RowsAreJobs
<1>2. RowsRun'
  BY <1>1 DEF PlanInv, RowsRun, RowRuns
<1>3. ASSUME NEW r \in Requests
      PROVE  /\ plan'[r].pc = plan[r].pc /\ plan'[r].stops = plan[r].stops
             /\ plan'[r].next = plan[r].next /\ plan'[r].fresh = FALSE
             /\ DOMAIN plan'[r] = {"pc", "stops", "next", "fresh"}
  <2>1. DOMAIN plan[r] = {"pc", "stops", "next", "fresh"}
    BY DEF PlanInv, RequestsRun, RequestRuns
  <2>2. plan'[r] = [plan[r] EXCEPT !.fresh = FALSE]
    BY DEF Day!DayChanges
  <2> QED BY <2>1, <2>2
<1>4. RequestsRun'
  <2>1. plan' = [r \in Requests |-> plan'[r]]
    BY DEF Day!DayChanges
  <2>2. ASSUME NEW r \in Requests PROVE RequestRuns(plan[r])'
    <3>1. RequestRuns(plan[r])
      BY DEF PlanInv, RequestsRun
    <3> QED BY <1>3, <3>1 DEF RequestRuns, IsStop
  <2> QED BY <2>1, <2>2 DEF RequestsRun
<1>5. WindowsHold'
  <2>1. ASSUME NEW k \in Day!OnPlan', k \notin misdated' PROVE Day!Ends(rows'[k]) = Day!RealEnd(rows'[k])
    <3>1. k \in Day!Jobs /\ rows'[k].state \in {"live", "scanning"}
      BY DEF Day!OnPlan, Day!Jobs
    <3>2. CASE k = j
      BY <1>1, <2>1, <3>1, <3>2
    <3>3. CASE k # j
      <4>1. k \in Day!OnPlan \ misdated
        BY <1>1, <2>1, <3>1, <3>3 DEF Day!OnPlan
      <4>2. Day!Ends(rows[k]) = Day!RealEnd(rows[k])
        BY <4>1 DEF PlanInv, WindowsHold
      <4> QED BY <1>1, <3>1, <3>3, <4>2
    <3> QED BY <3>2, <3>3
  <2> QED BY <2>1 DEF WindowsHold, Day!Ends, Day!RealEnd, Day!SignEnds, Day!PlannedEnd, Day!None
<1>6. RouteHolds'
  BY DEF RouteHolds, Day!DayChanges
<1> QED BY <1>2, <1>4, <1>5, <1>6 DEF PlanInv

LEMMA TakeKeepsPlan ==
  ASSUME DayInv, PlanInv, NEW o \in Offers, Day!Take(o) PROVE PlanInv'
<1> DEFINE v == IF answer[o] \in {"RISKY", "TAKE_IT"}
                   /\ \A k \in Day!Anchored : rows[k].verdict # "unchecked"
                THEN answer[o] ELSE "unchecked"
           w == Day!PlannedWindow(o, o.at)
<1>1. PICK j \in Day!Jobs :
        /\ rows[j].state = "none"
        /\ rows' = [rows EXCEPT ![j] = [Day!NoJob EXCEPT !.state = "live", !.offer = o,
                      !.at = o.at, !.scanEnds = w, !.verdict = v]]
  BY Zenon DEF Day!Take
<1>2. Day!DayChanges({o}) /\ misdated' = misdated
  BY DEF Day!Take
<1>3. o.at \in Nat /\ o.sign \in Nat /\ o.scan \in Nat
  BY DayAssumption
<1>4. w = IF o.scan > 0 THEN o.at + o.sign + o.scan ELSE Day!None
  BY DEF Day!PlannedWindow
<1> HIDE DEF v, w
<1>5. PICK g : g = [Day!NoJob EXCEPT !.state = "live", !.offer = o,
                      !.at = o.at, !.scanEnds = w, !.verdict = v]
  OBVIOUS
<1>6. /\ g.state = "live" /\ g.offer = o /\ g.at = o.at /\ g.scanEnds = w
      /\ g.late = 0 /\ g.seq = Day!None /\ g.leg = Day!None
  BY <1>5 DEF Day!NoJob
<1>7. RowRuns(g)
  BY <1>3, <1>4, <1>6 DEF RowRuns, Day!None, Day!Delays
<1>8. Day!Ends(g) = Day!RealEnd(g)
  BY <1>3, <1>4, <1>6 DEF Day!Ends, Day!RealEnd, Day!PlannedEnd, Day!SignEnds, Day!None
<1> QED BY <1>1, <1>2, <1>5, <1>6, <1>7, <1>8, ChangeKeepsPlan

\* The parts of a row that stay when the job is moved or worked on.
LEMMA OldRow ==
  ASSUME DayInv, PlanInv, NEW j \in Day!Jobs
  PROVE  /\ DOMAIN rows[j] = RowFields /\ RowRuns(rows[j])
         /\ rows[j].at \in Nat /\ rows[j].offer.sign \in Nat /\ rows[j].offer.scan \in Nat
BY DayAssumption DEF DayInv, RowsAreJobs, IsRow, PlanInv, RowsRun

LEMMA MoveKeepsPlan ==
  ASSUME DayInv, PlanInv, NEW j \in Day!Jobs, Day!Move(j) PROVE PlanInv'
<1> DEFINE W(t) == Day!PlannedWindow(rows[j].offer, t)
<1>1. PICK t \in Nat :
        rows' = [rows EXCEPT ![j] = [rows[j] EXCEPT !.at = t, !.verdict = "unchecked",
                                                    !.scanEnds = W(t)]]
  BY DayAssumption DEF Day!Move
<1>2. PICK w : w = W(t)
  OBVIOUS
<1>3. w = IF rows[j].offer.scan > 0 THEN t + rows[j].offer.sign + rows[j].offer.scan ELSE Day!None
  BY <1>2 DEF Day!PlannedWindow
<1> HIDE DEF W
<1>4. PICK g : g = [rows[j] EXCEPT !.at = t, !.verdict = "unchecked", !.scanEnds = w]
  OBVIOUS
<1>5. /\ rows[j].state = "live" /\ Day!DayChanges({}) /\ misdated' = misdated \ {j}
  BY DEF Day!Move
<1>6. /\ g.state = "live" /\ g.offer = rows[j].offer /\ g.at = t /\ g.scanEnds = w
      /\ g.late = rows[j].late /\ g.seq = rows[j].seq /\ g.leg = rows[j].leg
  BY <1>4, <1>5, OldRow DEF RowFields
<1>7. RowRuns(g) /\ g.late = 0
  BY <1>3, <1>5, <1>6, OldRow DEF RowRuns, Day!None, Day!Delays
<1>8. Day!Ends(g) = Day!RealEnd(g)
  BY <1>3, <1>6, <1>7, OldRow DEF Day!Ends, Day!RealEnd, Day!PlannedEnd, Day!SignEnds, Day!None
<1> QED BY <1>1, <1>2, <1>4, <1>5, <1>6, <1>7, <1>8, ChangeKeepsPlan

LEMMA StartKeepsPlan ==
  ASSUME DayInv, PlanInv, NEW j \in Day!Jobs, Day!StartScanning(j) PROVE PlanInv'
<1> DEFINE W(late) == IF rows[j].offer.scan > 0 THEN Day!PlannedEnd(rows[j]) + late ELSE Day!None
<1>1. PICK late \in Day!Delays :
        /\ late > 0 => rows[j].offer.scan > 0
        /\ rows' = [rows EXCEPT ![j] = [rows[j] EXCEPT !.state = "scanning", !.late = late,
                                          !.verdict = "unchecked", !.scanEnds = W(late)]]
  BY DEF Day!StartScanning
<1>2. PICK w : w = W(late)
  OBVIOUS
<1>3. w = IF rows[j].offer.scan > 0
          THEN rows[j].at + rows[j].offer.sign + rows[j].offer.scan + late ELSE Day!None
  BY <1>2 DEF Day!PlannedEnd, Day!SignEnds
<1> HIDE DEF W
<1>4. PICK g : g = [rows[j] EXCEPT !.state = "scanning", !.late = late,
                                   !.verdict = "unchecked", !.scanEnds = w]
  OBVIOUS
<1>5. /\ rows[j].state = "live" /\ Day!DayChanges({}) /\ misdated' = misdated \ {j}
  BY DEF Day!StartScanning
<1>6. /\ g.state = "scanning" /\ g.offer = rows[j].offer /\ g.at = rows[j].at
      /\ g.scanEnds = w /\ g.late = late /\ g.seq = rows[j].seq /\ g.leg = rows[j].leg
  BY <1>4, OldRow DEF RowFields
<1>7. RowRuns(g)
  BY <1>1, <1>3, <1>6, OldRow DEF RowRuns, Day!None, Day!Delays
<1>8. Day!Ends(g) = Day!RealEnd(g)
  BY <1>1, <1>3, <1>6, OldRow
     DEF Day!Ends, Day!RealEnd, Day!PlannedEnd, Day!SignEnds, Day!None, Day!Delays
<1> QED BY <1>1, <1>2, <1>4, <1>5, <1>6, <1>7, <1>8, ChangeKeepsPlan

LEMMA ResumeKeepsPlan ==
  ASSUME DayInv, PlanInv, NEW j \in Day!Jobs, Day!ResumeSigning(j) PROVE PlanInv'
<1>1. PICK g : g = [rows[j] EXCEPT !.state = "live", !.late = 0, !.scanEnds = Day!None]
  OBVIOUS
<1>2. rows' = [rows EXCEPT ![j] = g] /\ Day!DayChanges({}) /\ misdated' = misdated \cup {j}
  BY <1>1 DEF Day!ResumeSigning
<1>3. /\ g.state = "live" /\ g.offer = rows[j].offer /\ g.scanEnds = Day!None
      /\ g.late = 0 /\ g.seq = rows[j].seq /\ g.leg = rows[j].leg
  BY <1>1, OldRow DEF RowFields
<1>4. RowRuns(g)
  BY <1>3, OldRow DEF RowRuns, Day!None, Day!Delays
<1> QED BY <1>2, <1>3, <1>4, ChangeKeepsPlan

LEMMA LeaveKeepsPlan ==
  ASSUME DayInv, PlanInv, NEW j \in Day!Jobs, Day!Leave(j) PROVE PlanInv'
<1>1. PICK g : g = [Day!NoJob EXCEPT !.state = "over", !.offer = rows[j].offer]
  OBVIOUS
<1>2. rows' = [rows EXCEPT ![j] = g] /\ Day!DayChanges({}) /\ misdated' = misdated \ {j}
  BY <1>1 DEF Day!Leave
<1>3. /\ g.state = "over" /\ g.offer = rows[j].offer /\ g.scanEnds = Day!None
      /\ g.late = 0 /\ g.seq = Day!None /\ g.leg = Day!None
  BY <1>1 DEF Day!NoJob
<1>4. RowRuns(g)
  BY <1>3 DEF RowRuns, Day!None, Day!Delays
<1> QED BY <1>2, <1>3, <1>4, ChangeKeepsPlan

\* The answers, and a request that reads the day or gives up.
LEMMA PlanStays ==
  ASSUME PlanInv, UNCHANGED <<rows, routed, misdated>>, RequestsRun' PROVE PlanInv'
<1>1. Day!OnPlan' = Day!OnPlan
  BY DEF Day!OnPlan
<1>2. RowsRun'
  BY DEF PlanInv, RowsRun, RowRuns
<1>3. WindowsHold' /\ RouteHolds'
  BY <1>1 DEF PlanInv, WindowsHold, RouteHolds, LegHolds, Day!Ends, Day!RealEnd, Day!SignEnds,
              Day!PlannedEnd, Day!None
<1> QED BY <1>2, <1>3 DEF PlanInv

LEMMA RouteStays ==
  ASSUME UNCHANGED rows, NEW stops, NEW stored, IsRoute(stops, stored)
  PROVE  IsRoute(stops, stored)'
<1>1. Day!OnPlan' = Day!OnPlan
  BY DEF Day!OnPlan
<1> QED BY <1>1 DEF IsRoute, Day!PlannedEnd, Day!SignEnds, Day!Tolerance

LEMMA RequestStays ==
  ASSUME UNCHANGED rows, NEW p, RequestRuns(p) PROVE RequestRuns(p)'
<1>1. p.fresh => IsRoute(p.stops, p.next - 1)'
  <2>1. PICK stops, stored : stops = p.stops /\ stored = p.next - 1
    OBVIOUS
  <2>2. p.fresh => IsRoute(stops, stored)
    BY <2>1 DEF RequestRuns
  <2> QED BY <2>1, <2>2, RouteStays
<1> QED BY <1>1 DEF RequestRuns, IsStop

LEMMA AnswersKeepPlan == ASSUME PlanInv, UNCHANGED <<rows, plan, routed, misdated>> PROVE PlanInv'
<1>1. ASSUME NEW x \in Requests PROVE RequestRuns(plan[x])'
  <2>1. PICK p : p = plan[x]
    OBVIOUS
  <2>2. RequestRuns(p)'
    BY <2>1, RequestStays DEF PlanInv, RequestsRun
  <2> QED BY <2>1, <2>2
<1>2. RequestsRun'
  BY <1>1 DEF PlanInv, RequestsRun
<1> QED BY <1>2, PlanStays

\* The other requests of a step that changes no row.
LEMMA OthersRun ==
  ASSUME PlanInv, UNCHANGED rows, NEW r, NEW x \in Requests, x # r, plan'[x] = plan[x]
  PROVE  RequestRuns(plan[x])'
<1>1. PICK p : p = plan[x]
  OBVIOUS
<1>2. RequestRuns(p)'
  BY <1>1, RequestStays DEF PlanInv, RequestsRun
<1> QED BY <1>1, <1>2

LEMMA FailKeepsPlan ==
  ASSUME PlanInv, NEW r \in Requests, Day!RequestFails(r) PROVE PlanInv'
<1>1. /\ UNCHANGED <<rows, routed, misdated>>
      /\ plan' = [plan EXCEPT ![r] = [Day!NoRequest EXCEPT !.pc = "done"]]
  BY DEF Day!RequestFails
<1>2. plan = [x \in Requests |-> plan[x]]
  BY DEF PlanInv, RequestsRun
<1>3. ASSUME NEW x \in Requests PROVE RequestRuns(plan[x])'
  <2>1. CASE x = r
    <3>1. plan'[x] = [pc |-> "done", stops |-> << >>, next |-> 1, fresh |-> FALSE]
      BY <1>1, <1>2, <2>1 DEF Day!NoRequest
    <3> QED BY <3>1 DEF RequestRuns
  <2>2. CASE x # r
    BY <1>1, <1>2, <2>2, OthersRun
  <2> QED BY <2>1, <2>2
<1>4. RequestsRun'
  BY <1>1, <1>2, <1>3 DEF RequestsRun
<1> QED BY <1>1, <1>4, PlanStays

\* A request that reads the day, when its stops are as they should be.
LEMMA OpenKeepsPlan ==
  ASSUME DayInv, PlanInv, NEW r \in Requests, NEW pc \in {"legs", "apply"}, NEW stops, NEW fresh,
         Day!Open(r, pc, stops, fresh), Len(stops) \in Nat, Len(stops) <= MaxJobs,
         stops # << >> => Len(stops) # 0,
         \A i \in 1..Len(stops) : IsStop(stops[i]),
         fresh \in BOOLEAN, fresh => pc = "apply" /\ IsRoute(stops, 0)
  PROVE  PlanInv'
<1>1. /\ UNCHANGED <<rows, routed>> /\ misdated' = misdated /\ stops # << >>
      /\ plan' = [plan EXCEPT ![r] = [pc |-> pc, stops |-> stops, next |-> 1, fresh |-> fresh]]
  BY DEF Day!Open
<1>2. plan = [x \in Requests |-> plan[x]]
  BY DEF PlanInv, RequestsRun
<1>3. ASSUME NEW x \in Requests PROVE RequestRuns(plan[x])'
  <2>1. CASE x = r
    <3>1. /\ DOMAIN plan'[x] = {"pc", "stops", "next", "fresh"} /\ plan'[x].pc = pc
          /\ plan'[x].stops = stops /\ plan'[x].next = 1 /\ plan'[x].fresh = fresh
      BY <1>1, <1>2, <2>1
    <3>2. 1 \in 1..Len(stops)
      BY <1>1
    <3>4. fresh => IsRoute(stops, 1 - 1)'
      <4>1. PICK stored : stored = 1 - 1
        OBVIOUS
      <4>2. fresh => IsRoute(stops, stored)
        BY <4>1
      <4> QED BY <1>1, <4>1, <4>2, RouteStays
    <3> QED BY <3>1, <3>2, <3>4 DEF RequestRuns, IsStop
  <2>2. CASE x # r
    BY <1>1, <1>2, <2>2, OthersRun
  <2> QED BY <2>1, <2>2
<1>4. RequestsRun'
  BY <1>1, <1>2, <1>3 DEF RequestsRun
<1> QED BY <1>1, <1>4, PlanStays

\* A drive that begins at home or at a job that was read takes no less than no time.
LEMMA DriveIs ==
  ASSUME NEW rs, DOMAIN rs \subseteq Day!Jobs, \A k \in DOMAIN rs : IsRow(rs[k]),
         NEW j \in DOMAIN rs, NEW down
  PROVE  Drive[Day!Origin(rs, j, down)][rs[j].offer.place] \in Nat
<1> DEFINE before == {k \in DOMAIN rs \ down : Day!Earlier(rs, k, j)}
           some   == [k \in before |-> rs[k]]
           list   == Day!ByTime(some)
<1>1. CASE before = {}
  <2>1. Day!Origin(rs, j, down) = Home
    BY <1>1 DEF Day!Origin
  <2> QED BY <2>1, DayAssumption DEF IsRow
<1>2. CASE before # {}
  <2>1. DOMAIN some = before /\ before \subseteq DOMAIN rs /\ before \subseteq Day!Jobs
        /\ \A k \in before : some[k].at \in Nat
    BY DEF IsRow
  <2>2. Covers(list, before)
    <3> HIDE DEF before
    <3>1. DOMAIN some = before
      OBVIOUS
    <3> HIDE DEF some
    <3> QED BY <2>1, <3>1, ByTimeIs
  <2>3. list[Len(list)] \in before
    <3> HIDE DEF list, before
    <3>1. Len(list) \in Nat /\ Len(list) # 0
      BY <1>2, <2>2 DEF Covers
    <3> QED BY <2>2, <3>1 DEF Covers
  <2>4. Day!Origin(rs, j, down) = rs[list[Len(list)]].offer.place
    BY <1>2 DEF Day!Origin
  <2>5. PICK k \in DOMAIN rs : k = list[Len(list)]
    BY <2>1, <2>3
  <2> QED BY <2>4, <2>5, DayAssumption DEF IsRow
<1> QED BY <1>1, <1>2

LEMMA OpenPlanKeepsPlan ==
  ASSUME DayInv, PlanInv, NEW r \in Requests, Day!OpenPlan(r) PROVE PlanInv'
<1> DEFINE missing == {j \in Day!OnPlan : rows[j].leg = Day!None}
           Found(down) == Day!ByTime([j \in missing \ down |-> rows[j]])
           Stops(found, down) == [i \in 1..Len(found) |->
             [job |-> found[i], at |-> rows[found[i]].at,
              leg |-> Drive[Day!Origin(Day!Rows, found[i], down)][rows[found[i]].offer.place]]]
<1>1. PICK down \in SUBSET missing : Day!Open(r, "legs", Stops(Found(down), down), FALSE)
  BY Zenon DEF Day!OpenPlan
<1>2. Day!OnPlan \subseteq Day!Jobs /\ \A j \in Day!OnPlan : IsRow(rows[j])
  BY DEF DayInv, RowsAreJobs, Day!OnPlan, Day!Jobs
<1>3. DOMAIN Day!Rows = Day!OnPlan /\ \A j \in Day!OnPlan : Day!Rows[j] = rows[j]
  BY DEF Day!Rows
<1>4. PICK found : found = Found(down)
  OBVIOUS
<1>5. Covers(found, missing \ down)
  <2>1. PICK some : some = [j \in missing \ down |-> rows[j]]
    OBVIOUS
  <2>2. DOMAIN some = missing \ down /\ DOMAIN some \subseteq Day!Jobs
        /\ \A j \in DOMAIN some : some[j].at \in Nat
    BY <1>2, <2>1 DEF IsRow
  <2>3. Covers(Day!ByTime(some), DOMAIN some)
    BY <2>2, ByTimeIs
  <2> QED BY <1>4, <2>1, <2>2, <2>3
<1>6. missing \ down \subseteq Day!OnPlan
  OBVIOUS
<1>7. Len(found) \in Nat /\ Len(found) <= MaxJobs /\ \A i \in 1..Len(found) : found[i] \in Day!OnPlan
  <2>1. Cardinality(missing \ down) <= MaxJobs
    BY <1>2, <1>6, SomeJobsAreFinite
  <2> QED BY <1>5, <1>6, <2>1 DEF Covers
<1> HIDE DEF missing, Found
<1>8. PICK stops : stops = Stops(found, down)
  OBVIOUS
<1>9. /\ Len(stops) = Len(found)
      /\ \A i \in 1..Len(found) :
           /\ stops[i].job = found[i] /\ stops[i].at = rows[found[i]].at
           /\ stops[i].leg = Drive[Day!Origin(Day!Rows, found[i], down)][rows[found[i]].offer.place]
  BY <1>7, <1>8
<1>10. ASSUME NEW i \in 1..Len(stops) PROVE IsStop(stops[i])
  <2>1. PICK j \in Day!OnPlan : j = found[i]
    BY <1>7, <1>9
  <2>2. PICK rs : rs = Day!Rows
    OBVIOUS
  <2>3. Drive[Day!Origin(rs, j, down)][rs[j].offer.place] \in Nat
    BY <1>2, <1>3, <2>2, DriveIs
  <2>4. Drive[Day!Origin(Day!Rows, j, down)][rows[j].offer.place] \in Nat
    BY <1>3, <2>2, <2>3
  <2> QED BY <1>2, <1>9, <2>1, <2>4 DEF IsStop, IsRow
<1>11. Day!Open(r, "legs", stops, FALSE)
  BY <1>1, <1>4, <1>8
<1>12. stops # << >> => Len(stops) # 0
  BY <1>7, <1>8, <1>9
<1> QED BY <1>7, <1>9, <1>10, <1>11, <1>12, OpenKeepsPlan

\* The solver's answer or the order of the times: each stop once, in an order that can be
\* driven, and as many stops as there are jobs are all of them.
LEMMA RouteIs ==
  ASSUME NEW r, DOMAIN r \subseteq Day!Jobs, \A j \in DOMAIN r : IsRow(r[j]),
         NEW down, NEW solved \in Day!Answers(r), NEW route,
         route = IF Day!IsFeasibleOrder(r, solved, down) THEN solved ELSE Day!ByTime(r)
  PROVE  /\ Len(route) \in Nat /\ Len(route) <= MaxJobs /\ route \in [1..Len(route) -> DOMAIN r]
         /\ \A i, m \in 1..Len(route) : i # m => route[i] # route[m]
         /\ \A i \in 1..Len(route) : Day!Leg(r, route, down, i) \in Nat
         /\ \/ \A i, m \in 1..Len(route) : i < m => r[route[i]].at <= r[route[m]].at
            \/ Day!IsFeasibleOrder(r, route, down)
         /\ Len(route) = Cardinality(DOMAIN r) =>
              \A k \in DOMAIN r : \E i \in 1..Len(route) : route[i] = k
<1>1. \A j \in DOMAIN r : /\ r[j].at \in Nat /\ r[j].offer \in Offers
                          /\ r[j].offer.sign \in Nat \ {0} /\ r[j].offer.scan \in Nat
  BY DayAssumption DEF IsRow
<1>2. /\ Covers(Day!ByTime(r), DOMAIN r)
      /\ \A i, m \in 1..Len(Day!ByTime(r)) :
           i < m => r[Day!ByTime(r)[i]].at <= r[Day!ByTime(r)[m]].at
  BY <1>1, ByTimeIs
<1>0. Cardinality(DOMAIN r) \in Nat /\ Cardinality(DOMAIN r) <= MaxJobs
  BY SomeJobsAreFinite
<1>3. /\ Len(route) \in Nat /\ Len(route) <= MaxJobs /\ route \in [1..Len(route) -> DOMAIN r]
      /\ \A i, m \in 1..Len(route) : i # m => route[i] # route[m]
  <2>1. CASE route = Day!ByTime(r)
    BY <1>0, <1>2, <2>1 DEF Covers
  <2>2. CASE route # Day!ByTime(r)
    <3>1. route \in Day!Orders(DOMAIN r)
      BY <2>2 DEF Day!Answers
    <3>3. PICK n \in 0..Cardinality(DOMAIN r) : route \in [1..n -> DOMAIN r] /\ Day!IsInjective(route)
      BY <3>1 DEF Day!Orders, Day!Cardinality, Cardinality
    <3>4. n \in Nat /\ n <= MaxJobs /\ Len(route) = n
      BY <1>0, <3>3, DayAssumption
    <3> QED BY <3>3, <3>4 DEF Day!IsInjective
  <2> QED BY <2>1, <2>2
<1>4. ASSUME NEW i \in 1..Len(route) PROVE Day!Leg(r, route, down, i) \in Nat
  <2>1. route[i] \in DOMAIN r /\ (i # 1 => route[i - 1] \in DOMAIN r)
    BY <1>3
  <2> QED BY <1>1, <2>1, DayAssumption DEF Day!Leg
<1>5. \/ \A i, m \in 1..Len(route) : i < m => r[route[i]].at <= r[route[m]].at
      \/ Day!IsFeasibleOrder(r, route, down)
  BY <1>2
<1>6. ASSUME Len(route) = Cardinality(DOMAIN r)
      PROVE  \A k \in DOMAIN r : \E i \in 1..Len(route) : route[i] = k
  <2>1. IsFiniteSet(DOMAIN r) /\ IsFiniteSet(1..Len(route)) /\ Cardinality(1..Len(route)) = Len(route)
    <3>1. 1 \in Int /\ Len(route) \in Int /\ Len(route) - 1 + 1 = Len(route)
          /\ (1 > Len(route) => Len(route) = 0)
      BY <1>3
    <3> QED BY <3>1, SomeJobsAreFinite, FS_Interval
  <2>2. route \in Injection(1..Len(route), DOMAIN r)
    BY <1>3 DEF Injection, IsInjective
  <2>3. route \in Surjection(1..Len(route), DOMAIN r)
    BY <1>6, <2>1, <2>2, FS_Injection
  <2> QED BY <2>3 DEF Surjection
<1> QED BY <1>3, <1>4, <1>5, <1>6

LEMMA OpenOptimiseKeepsPlan ==
  ASSUME DayInv, PlanInv, NEW r \in Requests, Day!OpenOptimise(r) PROVE PlanInv'
<1> DEFINE Stops(route, down) == [i \in 1..Len(route) |->
             [job |-> route[i], at |-> rows[route[i]].at, leg |-> Day!Leg(Day!Rows, route, down, i)]]
           Route(solved, down) ==
             IF Day!IsFeasibleOrder(Day!Rows, solved, down) THEN solved ELSE Day!ByTime(Day!Rows)
           Whole(route, down) == down = {} /\ Len(route) = Day!Cardinality(Day!OnPlan)
<1>1. PICK down \in SUBSET Day!OnPlan :
        \E route \in {Route(solved, down) : solved \in Day!Answers(Day!Rows)} :
          Day!Open(r, "apply", Stops(route, down), Whole(route, down))
  BY Zenon DEF Day!OpenOptimise
<1> HIDE DEF Stops, Whole
<1>2. PICK solved \in Day!Answers(Day!Rows) :
        Day!Open(r, "apply", Stops(Route(solved, down), down), Whole(Route(solved, down), down))
  BY <1>1
<1>3. PICK rs, route : rs = Day!Rows /\ route = Route(solved, down)
  OBVIOUS
<1>4. Day!OnPlan \subseteq Day!Jobs /\ \A j \in Day!OnPlan : IsRow(rows[j])
  BY DEF DayInv, RowsAreJobs, Day!OnPlan, Day!Jobs
<1>5. /\ DOMAIN rs = Day!OnPlan /\ \A j \in Day!OnPlan : rs[j] = rows[j]
      /\ DOMAIN rs \subseteq Day!Jobs /\ \A j \in DOMAIN rs : IsRow(rs[j])
  BY <1>3, <1>4 DEF Day!Rows
<1>6. /\ Len(route) \in Nat /\ Len(route) <= MaxJobs /\ route \in [1..Len(route) -> Day!OnPlan]
      /\ \A i, m \in 1..Len(route) : i # m => route[i] # route[m]
      /\ \A i \in 1..Len(route) : Day!Leg(rs, route, down, i) \in Nat
      /\ \/ \A i, m \in 1..Len(route) : i < m => rs[route[i]].at <= rs[route[m]].at
         \/ Day!IsFeasibleOrder(rs, route, down)
      /\ Len(route) = Cardinality(Day!OnPlan) =>
           \A k \in Day!OnPlan : \E i \in 1..Len(route) : route[i] = k
  <2>1. route = IF Day!IsFeasibleOrder(rs, solved, down) THEN solved ELSE Day!ByTime(rs)
    BY <1>3
  <2>2. solved \in Day!Answers(rs)
    BY <1>2, <1>3
  <2> HIDE DEF Route
  <2> QED BY <1>5, <2>1, <2>2, RouteIs
<1> HIDE DEF Route
<1>7. PICK stops, whole : stops = Stops(route, down) /\ whole = Whole(route, down)
  OBVIOUS
<1>8. Day!Open(r, "apply", stops, whole)
  BY <1>2, <1>3, <1>7
<1>9. /\ Len(stops) = Len(route)
      /\ \A i \in 1..Len(route) : /\ stops[i].job = route[i] /\ stops[i].at = rows[route[i]].at
                                  /\ stops[i].leg = Day!Leg(rs, route, down, i)
  BY <1>3, <1>6, <1>7 DEF Stops
<1>10. ASSUME NEW i \in 1..Len(stops) PROVE IsStop(stops[i])
  BY <1>4, <1>6, <1>9 DEF IsStop, IsRow
<1>11. stops # << >> => Len(stops) # 0
  BY <1>6, <1>7, <1>9 DEF Stops
<1>12. whole \in BOOLEAN
  BY <1>7 DEF Whole
<1>13. ASSUME whole PROVE IsRoute(stops, 0)
  <2>1. down = {} /\ Len(route) = Cardinality(Day!OnPlan)
    BY <1>7, <1>13 DEF Whole, Day!Cardinality, Cardinality
  <2>2. \A k \in Day!OnPlan : \E i \in 1..Len(stops) : stops[i].job = k
    BY <1>6, <1>9, <2>1
  <2>3. ASSUME NEW i \in 1..Len(stops)
        PROVE  /\ stops[i].job \in Day!OnPlan /\ stops[i].at = rows[stops[i].job].at
               /\ stops[i].leg = Drive[IF i = 1 THEN Home ELSE rows[stops[i - 1].job].offer.place]
                                      [rows[stops[i].job].offer.place]
               /\ \A m \in 1..Len(stops) : i # m => stops[i].job # stops[m].job
    <3>1. i # 1 => i - 1 \in 1..Len(stops) /\ route[i - 1] \in Day!OnPlan
      BY <1>6, <1>9
    <3>2. stops[i].job = route[i] /\ (i # 1 => stops[i - 1].job = route[i - 1])
      BY <1>9, <3>1
    <3>3. stops[i].leg = Drive[IF i = 1 THEN Home ELSE rs[route[i - 1]].offer.place][rs[route[i]].offer.place]
      BY <1>9, <2>1 DEF Day!Leg
    <3>4. rs[route[i]] = rows[route[i]] /\ (i # 1 => rs[route[i - 1]] = rows[route[i - 1]])
      BY <1>5, <1>6, <1>9, <3>1
    <3>5. stops[i].leg = Drive[IF i = 1 THEN Home ELSE rows[stops[i - 1].job].offer.place]
                              [rows[stops[i].job].offer.place]
      BY <3>2, <3>3, <3>4
    <3>6. \A m \in 1..Len(stops) : i # m => stops[i].job # stops[m].job
      BY <1>6, <1>9
    <3> QED BY <1>6, <1>9, <3>5, <3>6
  <2>4. \/ \A i, m \in 1..Len(stops) : i < m => stops[i].at <= stops[m].at
        \/ \A i \in 2..Len(stops) :
             Day!PlannedEnd(rows[stops[i - 1].job]) + stops[i].leg <= stops[i].at + Day!Tolerance
    <3>1. CASE \A i, m \in 1..Len(route) : i < m => rs[route[i]].at <= rs[route[m]].at
      <4>1. \A i \in 1..Len(route) : stops[i].at = rs[route[i]].at
        BY <1>5, <1>6, <1>9
      <4> QED BY <1>9, <3>1, <4>1
    <3>2. CASE Day!IsFeasibleOrder(rs, route, down)
      <4>1. ASSUME NEW i \in 2..Len(stops)
            PROVE  Day!PlannedEnd(rows[stops[i - 1].job]) + stops[i].leg <= stops[i].at + Day!Tolerance
        <5>1. i \in 2..Len(route) /\ i \in 1..Len(route) /\ i - 1 \in 1..Len(route)
          BY <1>6, <1>9
        <5>2. /\ stops[i - 1].job = route[i - 1] /\ rs[route[i - 1]] = rows[route[i - 1]]
              /\ rs[route[i]] = rows[route[i]] /\ stops[i].at = rows[route[i]].at
              /\ stops[i].leg = Day!Leg(rs, route, down, i)
          BY <1>5, <1>6, <1>9, <5>1
        <5>3. Day!PlannedEnd(rs[route[i - 1]]) + Day!Leg(rs, route, down, i)
                <= rs[route[i]].at + Day!Tolerance
          BY <3>2, <5>1 DEF Day!IsFeasibleOrder
        <5> QED BY <5>2, <5>3
      <4> QED BY <4>1
    <3> QED BY <1>6, <3>1, <3>2
  <2>5. \A i \in 1..0 : FALSE
    OBVIOUS
  <2> QED BY <2>2, <2>3, <2>4, <2>5 DEF IsRoute
<1> QED BY <1>6, <1>8, <1>9, <1>10, <1>11, <1>12, <1>13, OpenKeepsPlan

------------------------------------------------------------------------------
(* Writing the stops *)

\* The requests after one of them has written a stop.
LEMMA RequestsGoOn ==
  ASSUME PlanInv, NEW r \in Requests, NEW row, Day!WriteStop(r, row),
         plan[r].pc \in {"legs", "apply"},
         NEW stops, stops = plan[r].stops, NEW next, next = plan[r].next,
         plan[r].fresh => IsRoute(stops, next)'
  PROVE  RequestsRun'
<1>1. ASSUME NEW x \in Requests
      PROVE  plan'[x] = IF x # r THEN [plan[x] EXCEPT !.fresh = plan[x].fresh /\ rows' = rows]
                        ELSE IF plan[r].next = Len(plan[r].stops)
                             THEN [Day!NoRequest EXCEPT !.pc = "done"]
                             ELSE [plan[r] EXCEPT !.next = plan[r].next + 1]
  BY DEF Day!WriteStop
<1>2. plan' = [x \in Requests |-> plan'[x]]
  BY DEF Day!WriteStop
<1>3. ASSUME NEW x \in Requests PROVE RequestRuns(plan[x])'
  <2>0. RequestRuns(plan[x])
    BY DEF PlanInv, RequestsRun
  <2>1. CASE x # r
    <3>1. PICK f \in BOOLEAN : f = (plan[x].fresh /\ rows' = rows)
      OBVIOUS
    <3>2. plan'[x] = [plan[x] EXCEPT !.fresh = f]
      BY <1>1, <2>1, <3>1, Zenon
    <3>3. /\ DOMAIN plan'[x] = {"pc", "stops", "next", "fresh"} /\ plan'[x].pc = plan[x].pc
          /\ plan'[x].stops = plan[x].stops /\ plan'[x].next = plan[x].next /\ plan'[x].fresh = f
      BY <2>0, <3>2 DEF RequestRuns
    <3>4. ASSUME f PROVE IsRoute(plan[x].stops, plan[x].next - 1)'
      <4>2. plan[x].fresh /\ rows' = rows
        BY <3>1, <3>4
      <4>3. IsRoute(plan[x].stops, plan[x].next - 1)
        BY <2>0, <4>2 DEF RequestRuns
      <4>4. PICK s, m : s = plan[x].stops /\ m = plan[x].next - 1
        OBVIOUS
      <4>5. IsRoute(s, m)'
        BY <4>2, <4>3, <4>4, RouteStays
      <4> QED BY <3>3, <4>4, <4>5
    <3>5. f => plan[x].pc = "apply"
      BY <2>0, <3>1 DEF RequestRuns
    <3> QED BY <2>0, <3>3, <3>4, <3>5 DEF RequestRuns, IsStop
  <2>2. CASE x = r /\ plan[r].next = Len(plan[r].stops)
    <3>1. plan'[x] = [pc |-> "done", stops |-> << >>, next |-> 1, fresh |-> FALSE]
      BY <1>1, <2>2 DEF Day!NoRequest
    <3> QED BY <3>1 DEF RequestRuns
  <2>3. CASE x = r /\ plan[r].next # Len(plan[r].stops)
    <3>1. plan'[x] = [plan[r] EXCEPT !.next = plan[r].next + 1]
      BY <1>1, <2>3
    <3>2. /\ DOMAIN plan'[x] = {"pc", "stops", "next", "fresh"} /\ plan'[x].pc = plan[x].pc
          /\ plan'[x].stops = stops /\ plan'[x].next = next + 1
          /\ plan'[x].fresh = plan[x].fresh
      BY <2>0, <2>3, <3>1 DEF RequestRuns
    <3>3. /\ Len(stops) \in Nat /\ next \in 1..Len(stops) /\ next < Len(stops)
          /\ (next + 1) - 1 = next /\ next + 1 \in 1..Len(stops) /\ next + 1 \in Nat \ {0}
      BY <2>0, <2>3 DEF RequestRuns
    <3>4. plan[x].fresh => IsRoute(plan[x].stops, plan[x].next - 1)'
      BY <2>3, <3>2, <3>3
    <3> QED BY <2>0, <2>3, <3>2, <3>3, <3>4 DEF RequestRuns, IsStop
  <2> QED BY <2>1, <2>2, <2>3
<1> QED BY <1>2, <1>3 DEF RequestsRun

LEMMA PopulateKeepsPlan ==
  ASSUME DayInv, PlanInv, NEW r \in Requests, Day!Populate(r) PROVE PlanInv'
<1>1. plan[r].pc = "legs" /\ misdated' = misdated /\ routed' = (routed /\ rows' = rows)
  BY DEF Day!Populate
<1>2. PICK s : s = plan[r].stops[plan[r].next]
  OBVIOUS
<1>3. RequestRuns(plan[r])
  BY DEF PlanInv, RequestsRun
<1>4. s.leg \in Nat
  BY <1>1, <1>2, <1>3 DEF RequestRuns, IsStop
<1>5. ASSUME NEW j \in Day!Jobs
      PROVE  /\ rows'[j].state = rows[j].state /\ rows'[j].offer = rows[j].offer
             /\ rows'[j].at = rows[j].at /\ rows'[j].late = rows[j].late
             /\ rows'[j].scanEnds = rows[j].scanEnds /\ RowRuns(rows'[j])
  <2>1. DOMAIN rows[j] = RowFields /\ RowRuns(rows[j])
    BY OldRow
  <2>2. rows'[j] = rows[j] \/ rows'[j] = [rows[j] EXCEPT !.leg = s.leg]
    BY <1>2, PopulateWrites
  <2> QED BY <1>4, <2>1, <2>2 DEF RowRuns, RowFields
<1>6. RowsRun'
  BY <1>5 DEF RowsRun, RowRuns
<1>7. RequestsRun'
  <2>1. ~plan[r].fresh
    BY <1>1, <1>3 DEF RequestRuns
  <2>2. \E row : Day!WriteStop(r, row)
    BY Zenon DEF Day!Populate
  <2> QED BY <1>1, <2>1, <2>2, RequestsGoOn
<1>8. Day!OnPlan' = Day!OnPlan /\ Day!OnPlan \subseteq Day!Jobs
  BY <1>5 DEF Day!OnPlan, Day!Jobs
<1>9. WindowsHold'
  <2>1. ASSUME NEW j \in Day!OnPlan, j \notin misdated PROVE Day!Ends(rows'[j]) = Day!RealEnd(rows'[j])
    <3>1. Day!Ends(rows[j]) = Day!RealEnd(rows[j])
      BY <2>1 DEF PlanInv, WindowsHold
    <3>2. j \in Day!Jobs
      BY <1>8
    <3> QED BY <1>5, <3>1, <3>2 DEF Day!Ends, Day!RealEnd, Day!PlannedEnd, Day!SignEnds, Day!None
  <2> QED BY <1>1, <1>8, <2>1 DEF WindowsHold, Day!Ends, Day!RealEnd, Day!SignEnds,
                                  Day!PlannedEnd, Day!None
<1>10. RouteHolds'
  <2>1. CASE rows' = rows
    BY <1>1, <1>8, <2>1 DEF PlanInv, RouteHolds, LegHolds, Day!PlannedEnd, Day!SignEnds
  <2>2. CASE rows' # rows
    BY <1>1, <2>2 DEF RouteHolds
  <2> QED BY <2>1, <2>2
<1> QED BY <1>6, <1>7, <1>9, <1>10 DEF PlanInv

\* What an optimise stores of a stop that is still on the plan: its place in the route, the
\* drive from the stop before and the window as it was when the day was read.
LEMMA ApplyKeepsPlan ==
  ASSUME DayInv, PlanInv, NEW r \in Requests, Day!ApplyRoute(r) PROVE PlanInv'
<1> DEFINE p == plan[r]
           n == Len(p.stops)
           j == p.stops[p.next].job
<1>1. PICK s : s = p.stops[p.next]
  OBVIOUS
<1>2. /\ p.pc = "apply"
      /\ misdated' = IF s.job \in Day!OnPlan /\ (rows[s.job].state = "scanning" \/ rows[s.job].at # s.at)
                     THEN misdated \cup {s.job} ELSE misdated \ {s.job}
      /\ routed' = (p.fresh /\ p.next = Len(p.stops))
  BY <1>1, Zenon DEF Day!ApplyRoute
<1>3. RequestRuns(p)
  BY DEF PlanInv, RequestsRun
<1>4. /\ n \in Nat /\ n <= MaxJobs /\ p.next \in 1..n /\ p.next \in Day!Jobs
      /\ s.job \in Day!Jobs /\ s.at \in Nat /\ s.leg \in Nat
  BY <1>1, <1>2, <1>3, DayAssumption DEF RequestRuns, IsStop, Day!Jobs
<1>5. rows[s.job].offer.sign \in Nat /\ rows[s.job].offer.scan \in Nat
  BY <1>4, OldRow
<1>6. PICK e \in Nat : e = s.at + rows[s.job].offer.sign + rows[s.job].offer.scan
  BY <1>4, <1>5
<1>7. ASSUME NEW k \in Day!Jobs, k # s.job \/ k \notin Day!OnPlan PROVE rows'[k] = rows[k]
  BY <1>1, <1>7, ApplyWrites
<1>8. ASSUME s.job \in Day!OnPlan
      PROVE  /\ rows'[s.job].seq = p.next /\ rows'[s.job].leg = s.leg /\ rows'[s.job].scanEnds = e
             /\ rows'[s.job].state = rows[s.job].state /\ rows'[s.job].offer = rows[s.job].offer
             /\ rows'[s.job].at = rows[s.job].at /\ rows'[s.job].late = rows[s.job].late
  <2>1. rows'[s.job] = [rows[s.job] EXCEPT !.seq = p.next, !.leg = s.leg, !.scanEnds =
                          s.at + rows[s.job].offer.sign + rows[s.job].offer.scan]
    BY <1>1, <1>8, ApplyWrites
  <2>2. DOMAIN rows[s.job] = RowFields
    BY <1>4, OldRow
  <2> QED BY <1>6, <2>1, <2>2 DEF RowFields
<1>9. ASSUME NEW k \in Day!Jobs
      PROVE  /\ rows'[k].state = rows[k].state /\ rows'[k].offer = rows[k].offer
             /\ rows'[k].at = rows[k].at /\ rows'[k].late = rows[k].late
  BY <1>7, <1>8
<1>10. Day!OnPlan' = Day!OnPlan /\ Day!OnPlan \subseteq Day!Jobs
  BY <1>9 DEF Day!OnPlan, Day!Jobs
<1>11. RowsRun'
  <2>1. ASSUME NEW k \in Day!Jobs PROVE RowRuns(rows'[k])
    <3>1. RowRuns(rows[k])
      BY OldRow
    <3>2. CASE k = s.job /\ s.job \in Day!OnPlan
      BY <1>4, <1>8, <3>1, <3>2 DEF RowRuns
    <3>3. CASE ~(k = s.job /\ s.job \in Day!OnPlan)
      BY <1>7, <3>1, <3>3
    <3> QED BY <3>2, <3>3
  <2> QED BY <2>1 DEF RowsRun, RowRuns
<1>12. WindowsHold'
  <2>1. ASSUME NEW k \in Day!OnPlan, k \notin misdated'
        PROVE  Day!Ends(rows'[k]) = Day!RealEnd(rows'[k])
    <3>1. k \in Day!Jobs /\ rows[k].state \in {"live", "scanning"}
      BY <1>10 DEF Day!OnPlan
    <3>2. CASE k = s.job
      <4>1. rows[k].state = "live" /\ rows[k].at = s.at
        BY <1>2, <2>1, <3>1, <3>2
      <4>2. rows[k].late = 0
        BY <3>1, <4>1, OldRow DEF RowRuns
      <4> QED BY <1>4, <1>5, <1>6, <1>8, <2>1, <3>2, <4>1, <4>2
              DEF Day!Ends, Day!RealEnd, Day!PlannedEnd, Day!SignEnds, Day!None
    <3>3. CASE k # s.job
      <4>1. k \notin misdated
        BY <1>2, <2>1, <3>3
      <4>2. Day!Ends(rows[k]) = Day!RealEnd(rows[k])
        BY <2>1, <4>1 DEF PlanInv, WindowsHold
      <4> QED BY <1>7, <3>1, <3>3, <4>2
    <3> QED BY <3>2, <3>3
  <2> QED BY <1>10, <2>1 DEF WindowsHold, Day!Ends, Day!RealEnd, Day!SignEnds, Day!PlannedEnd,
                             Day!None
\* A fresh route has one stop more than before.
<1>13. PICK stops, next : stops = p.stops /\ next = p.next
  OBVIOUS
<1>14. ASSUME p.fresh PROVE IsRoute(stops, next)'
  <2> DEFINE J(i) == stops[i].job
  <2>1. /\ \A k \in Day!OnPlan : \E i \in 1..Len(stops) : J(i) = k
        /\ \A i \in 1..Len(stops) : /\ J(i) \in Day!OnPlan /\ stops[i].at = rows[J(i)].at
             /\ stops[i].leg = Drive[IF i = 1 THEN Home ELSE rows[J(i - 1)].offer.place]
                                      [rows[J(i)].offer.place]
             /\ \A m \in 1..Len(stops) : i # m => J(i) # J(m)
        /\ \/ \A i, m \in 1..Len(stops) : i < m => stops[i].at <= stops[m].at
           \/ \A i \in 2..Len(stops) : Day!PlannedEnd(rows[J(i - 1)]) + stops[i].leg
                               <= stops[i].at + Day!Tolerance
        /\ \A i \in 1..next - 1 : rows[J(i)].seq = i /\ rows[J(i)].leg = stops[i].leg
    BY <1>3, <1>13, <1>14 DEF RequestRuns, IsRoute
  <2>2. \A i \in 1..Len(stops) : /\ rows'[J(i)].offer = rows[J(i)].offer /\ rows'[J(i)].at = rows[J(i)].at
                        /\ Day!PlannedEnd(rows'[J(i)]) = Day!PlannedEnd(rows[J(i)])
    BY <1>9, <1>10, <2>1 DEF Day!PlannedEnd, Day!SignEnds
  <2>3. s.job \in Day!OnPlan /\ s.job = J(next)
    BY <1>1, <1>4, <1>13, <2>1
  <2>4. ASSUME NEW i \in 1..next PROVE rows'[J(i)].seq = i /\ rows'[J(i)].leg = stops[i].leg
    <3>1. CASE i = next
      BY <1>1, <1>8, <1>13, <2>3, <3>1
    <3>2. CASE i # next
      <4>1. i \in 1..next - 1 /\ i \in 1..Len(stops)
        BY <1>4, <1>13, <3>2
      <4>2. J(i) # s.job /\ J(i) \in Day!Jobs
        <5>1. next \in 1..Len(stops)
          BY <1>4, <1>13
        <5>2. J(i) # J(next) /\ J(i) \in Day!OnPlan
          BY <2>1, <3>2, <4>1, <5>1
        <5> QED BY <1>10, <2>3, <5>2
      <4> QED BY <1>7, <2>1, <4>1, <4>2
    <3> QED BY <3>1, <3>2
  <2>5. \A i \in 1..Len(stops) : /\ J(i) \in Day!OnPlan' /\ stops[i].at = rows'[J(i)].at
             /\ stops[i].leg = Drive[IF i = 1 THEN Home ELSE rows'[J(i - 1)].offer.place]
                                      [rows'[J(i)].offer.place]
    <3>1. ASSUME NEW i \in 1..Len(stops)
          PROVE stops[i].leg = Drive[IF i = 1 THEN Home ELSE rows'[J(i - 1)].offer.place]
                                      [rows'[J(i)].offer.place]
      <4>1. i # 1 => i - 1 \in 1..Len(stops)
        BY <1>4
      <4> QED BY <2>1, <2>2, <4>1
    <3> QED BY <1>10, <2>1, <2>2, <3>1
  <2>6. \/ \A i, m \in 1..Len(stops) : i < m => stops[i].at <= stops[m].at
        \/ \A i \in 2..Len(stops) : Day!PlannedEnd(rows'[J(i - 1)]) + stops[i].leg
                            <= stops[i].at + Day!Tolerance
    <3>1. \A i \in 2..Len(stops) : i - 1 \in 1..Len(stops)
      BY <1>4
    <3> QED BY <2>1, <2>2, <3>1
  <2> QED BY <1>10, <2>1, <2>4, <2>5, <2>6 DEF IsRoute
<1>15. RequestsRun'
  <2>1. PICK row : Day!WriteStop(r, row)
    BY Zenon DEF Day!ApplyRoute
  <2> QED BY <1>2, <1>13, <1>14, <2>1, RequestsGoOn
\* With its last stop stored, the day runs along it.
<1>16. RouteHolds'
  <2>1. CASE ~routed'
    BY <1>2, <1>3, <2>1 DEF RouteHolds, RequestRuns
  <2>2. CASE routed'
    <3>1. p.fresh /\ next = Len(stops) /\ Len(stops) \in Nat
      BY <1>2, <1>4, <1>13, <2>2
    <3>2. IsRoute(stops, Len(stops))'
      BY <1>14, <3>1
    <3> DEFINE J(i) == stops[i].job
    <3>3. /\ \A k \in Day!OnPlan' : \E i \in 1..Len(stops) : J(i) = k
          /\ \A i \in 1..Len(stops) : /\ J(i) \in Day!OnPlan' /\ stops[i].at = rows'[J(i)].at
               /\ stops[i].leg = Drive[IF i = 1 THEN Home ELSE rows'[J(i - 1)].offer.place]
                                      [rows'[J(i)].offer.place]
               /\ \A m \in 1..Len(stops) : i # m => J(i) # J(m)
          /\ \/ \A i, m \in 1..Len(stops) : i < m => stops[i].at <= stops[m].at
             \/ \A i \in 2..Len(stops) : Day!PlannedEnd(rows'[J(i - 1)]) + stops[i].leg
                                         <= stops[i].at + Day!Tolerance
          /\ \A i \in 1..Len(stops) : rows'[J(i)].seq = i /\ rows'[J(i)].leg = stops[i].leg
      BY <3>2 DEF IsRoute, Day!PlannedEnd, Day!SignEnds
    <3>4. ASSUME NEW k \in Day!OnPlan'
          PROVE  /\ rows'[k].seq \in 1..Len(stops) /\ k = J(rows'[k].seq)
                 /\ rows'[k].at = stops[rows'[k].seq].at /\ rows'[k].leg = stops[rows'[k].seq].leg
      <4>1. PICK i \in 1..Len(stops) : J(i) = k
        BY <3>3
      <4>2. rows'[k].seq = i
        BY <3>3, <4>1
      <4> QED BY <3>3, <4>1, <4>2
    <3>5. ASSUME NEW k \in Day!OnPlan' PROVE LegHolds(k)'
      <4>1. PICK i \in 1..Len(stops) : i = rows'[k].seq /\ k = J(i) /\ rows'[k].leg = stops[i].leg
        BY <3>4
      <4>2. CASE i = 1
        BY <3>3, <4>1, <4>2 DEF LegHolds
      <4>3. CASE i # 1
        <5>1. i - 1 \in 1..Len(stops)
          BY <3>1, <4>3
        <5>2. PICK l \in Day!OnPlan' : l = J(i - 1)
          BY <3>3, <5>1
        <5>3. rows'[l].seq = i - 1 /\ rows'[k].leg = Drive[rows'[l].offer.place][rows'[k].offer.place]
          <6>1. rows'[l].seq = i - 1
            BY <3>3, <5>1, <5>2
          <6>2. stops[i].leg = Drive[IF i = 1 THEN Home ELSE rows'[J(i - 1)].offer.place]
                                    [rows'[J(i)].offer.place]
            BY <3>3
          <6> QED BY <4>1, <4>3, <5>2, <6>1, <6>2
        <5>4. rows'[l].seq = rows'[k].seq - 1
          BY <4>1, <5>3
        <5> QED BY <5>2, <5>3, <5>4 DEF LegHolds
      <4> QED BY <4>2, <4>3
    <3>6. \A k, l \in Day!OnPlan' : k # l => rows'[k].seq # rows'[l].seq
      BY <3>4
    <3>7. \/ \A k, l \in Day!OnPlan' : rows'[k].seq < rows'[l].seq => rows'[k].at <= rows'[l].at
          \/ \A k, l \in Day!OnPlan' : rows'[k].seq = rows'[l].seq - 1 =>
               Day!PlannedEnd(rows'[k]) + rows'[l].leg <= rows'[l].at + Day!Tolerance
      <4>1. CASE \A i, m \in 1..Len(stops) : i < m => stops[i].at <= stops[m].at
        BY <3>4, <4>1
      <4>2. CASE \A i \in 2..Len(stops) : Day!PlannedEnd(rows'[J(i - 1)]) + stops[i].leg
                                          <= stops[i].at + Day!Tolerance
        <5>1. ASSUME NEW k \in Day!OnPlan', NEW l \in Day!OnPlan', rows'[k].seq = rows'[l].seq - 1
              PROVE  Day!PlannedEnd(rows'[k]) + rows'[l].leg <= rows'[l].at + Day!Tolerance
          <6>1. PICK i \in 1..Len(stops) : /\ i = rows'[l].seq /\ l = J(i)
                                           /\ rows'[l].leg = stops[i].leg /\ rows'[l].at = stops[i].at
            BY <3>4
          <6>2. i - 1 \in 1..Len(stops) /\ k = J(i - 1)
            BY <3>4, <5>1, <6>1
          <6>3. i \in 2..Len(stops)
            BY <3>1, <6>2
          <6> QED BY <4>2, <6>1, <6>2, <6>3
        <5> QED BY <5>1
      <4> QED BY <3>3, <4>1, <4>2
    <3>8. \A k \in Day!OnPlan' : rows'[k].seq \in Nat \ {0}
      BY <3>4
    <3> QED BY <2>2, <3>5, <3>6, <3>7, <3>8 DEF RouteHolds, Day!PlannedEnd, Day!SignEnds
  <2> QED BY <2>1, <2>2
<1> QED BY <1>11, <1>12, <1>15, <1>16 DEF PlanInv

LEMMA PlanStep == DayInv /\ PlanInv /\ [AnyNext]_allVars => PlanInv'
<1> SUFFICES ASSUME DayInv, PlanInv, [AnyNext]_allVars PROVE PlanInv'
  OBVIOUS
<1>1. CASE UNCHANGED dayVars
  BY <1>1, AnswersKeepPlan DEF dayVars
<1>2. CASE Day!Next
  <2>1. CASE \E o \in Offers : Day!Check(o) \/ Day!Expire(o)
    BY <2>1, AnswersKeepPlan DEF Day!Check, Day!Expire
  <2>2. CASE \E o \in Offers : Day!Take(o)
    BY <2>2, TakeKeepsPlan
  <2>3. CASE \E j \in Day!Jobs :
               Day!Move(j) \/ Day!StartScanning(j) \/ Day!ResumeSigning(j) \/ Day!Leave(j)
    BY <2>3, MoveKeepsPlan, StartKeepsPlan, ResumeKeepsPlan, LeaveKeepsPlan
  <2>4. CASE \E r \in Requests : Day!OpenPlan(r) \/ Day!OpenOptimise(r) \/ Day!RequestFails(r)
    BY <2>4, OpenPlanKeepsPlan, OpenOptimiseKeepsPlan, FailKeepsPlan
  <2>5. CASE \E r \in Requests : Day!Populate(r)
    BY <2>5, PopulateKeepsPlan
  <2>6. CASE \E r \in Requests : Day!ApplyRoute(r)
    BY <2>6, ApplyKeepsPlan
  <2> QED BY <1>2, <2>1, <2>2, <2>3, <2>4, <2>5, <2>6 DEF Day!Next
<1> QED BY <1>1, <1>2 DEF AnyNext, allVars

------------------------------------------------------------------------------
(* What the planner shows *)

\* What the plan lists: every job on it once, by its place in the route.
LEMMA ListIs ==
  ASSUME DayInv, PlanInv, NEW list, list = Day!Listed(Day!Rows)
  PROVE  /\ Covers(list, Day!OnPlan)
         /\ DOMAIN Day!Rows = Day!OnPlan /\ \A j \in Day!OnPlan : Day!Rows[j] = rows[j]
         /\ \A i, m \in 1..Len(list) : i < m => Day!Rank(rows[list[i]]) <= Day!Rank(rows[list[m]])
<1>1. Day!OnPlan \subseteq Day!Jobs
  BY DEF Day!OnPlan, Day!Jobs
<1>2. DOMAIN Day!Rows = Day!OnPlan /\ \A j \in Day!OnPlan : Day!Rows[j] = rows[j]
  BY DEF Day!Rows
<1>3. \A j \in Day!OnPlan : rows[j].at \in Nat /\ rows[j].seq \in {Day!None} \cup Nat
  BY <1>1, JobsAreNat DEF DayInv, RowsAreJobs, IsRow, PlanInv, RowsRun, RowRuns
<1>4. PICK r : r = Day!Rows
  OBVIOUS
<1>5. /\ DOMAIN r = Day!OnPlan /\ DOMAIN r \subseteq Day!Jobs
      /\ \A j \in DOMAIN r : r[j] = rows[j] /\ r[j].at \in Nat /\ r[j].seq \in {Day!None} \cup Nat
  BY <1>1, <1>2, <1>3, <1>4
<1>6. /\ Covers(Day!Listed(r), DOMAIN r)
      /\ \A i, m \in 1..Len(Day!Listed(r)) :
           i < m => Day!Rank(r[Day!Listed(r)[i]]) <= Day!Rank(r[Day!Listed(r)[m]])
  BY <1>5, ListedIs
<1>7. Covers(list, Day!OnPlan)
  BY <1>4, <1>5, <1>6
<1>8. \A i \in 1..Len(list) : r[list[i]] = rows[list[i]]
  BY <1>5, <1>7 DEF Covers
<1> QED BY <1>2, <1>4, <1>6, <1>7, <1>8

LEMMA RouteIsDriven == ASSUME DayInv, PlanInv PROVE Day!RouteIsDrivable
<1> SUFFICES ASSUME routed PROVE Day!RouteIsDrivable
  BY DEF Day!RouteIsDrivable
<1>1. PICK list : list = Day!Listed(Day!Rows)
  OBVIOUS
<1>2. /\ Covers(list, Day!OnPlan)
      /\ DOMAIN Day!Rows = Day!OnPlan /\ \A j \in Day!OnPlan : Day!Rows[j] = rows[j]
      /\ \A i, m \in 1..Len(list) : i < m => Day!Rank(rows[list[i]]) <= Day!Rank(rows[list[m]])
  BY <1>1, ListIs
<1>3. /\ \A j \in Day!OnPlan : rows[j].seq \in Nat \ {0} /\ LegHolds(j)
      /\ \A j, k \in Day!OnPlan : j # k => rows[j].seq # rows[k].seq
      /\ \/ \A j, k \in Day!OnPlan : rows[j].seq < rows[k].seq => rows[j].at <= rows[k].at
         \/ \A j, k \in Day!OnPlan : rows[j].seq = rows[k].seq - 1 =>
              Day!PlannedEnd(rows[j]) + rows[k].leg <= rows[k].at + Day!Tolerance
  BY DEF PlanInv, RouteHolds
<1>4. /\ Len(list) \in Nat /\ \A i \in 1..Len(list) : list[i] \in Day!OnPlan
      /\ \A k \in Day!OnPlan : \E i \in 1..Len(list) : list[i] = k
      /\ \A i, m \in 1..Len(list) : i # m => list[i] # list[m]
  BY <1>2 DEF Covers
<1>5. \A i, m \in 1..Len(list) : i < m => rows[list[i]].seq < rows[list[m]].seq
  <2>1. \A j \in Day!OnPlan : Day!Rank(rows[j]) = rows[j].seq
    BY <1>3 DEF Day!Rank, Day!None
  <2> QED BY <1>2, <1>3, <1>4, <2>1
<1>6. ASSUME \A j, k \in Day!OnPlan : rows[j].seq < rows[k].seq => rows[j].at <= rows[k].at,
             NEW i \in 1..Len(list), NEW k \in i..Len(list)
      PROVE  rows[list[i]].at <= rows[list[k]].at
  <2>1. k \in 1..Len(list)
    BY <1>4
  <2>2. CASE k = i
    <3>1. rows[list[i]].at \in Nat
      BY <1>4 DEF DayInv, RowsAreJobs, IsRow, Day!OnPlan
    <3> QED BY <2>2, <3>1
  <2>3. CASE k # i
    BY <1>4, <1>5, <1>6, <2>1, <2>3
  <2> QED BY <2>2, <2>3
<1>7. ASSUME NEW i \in 1..Len(list)
      PROVE  /\ rows[list[i]].leg = Day!Leg(Day!Rows, list, {}, i)
             /\ i # 1 => rows[list[i - 1]].seq = rows[list[i]].seq - 1
  <2>1. PICK j \in Day!OnPlan : j = list[i]
    BY <1>4
  <2>2. CASE rows[j].seq = 1 /\ rows[j].leg = Drive[Home][rows[j].offer.place]
    <3>1. i = 1
      <4>1. SUFFICES ASSUME i # 1 PROVE FALSE
        OBVIOUS
      <4>2. 1 \in 1..Len(list) /\ 1 < i
        BY <1>4, <4>1
      <4>3. rows[list[1]].seq < 1 /\ rows[list[1]].seq \in Nat \ {0}
        BY <1>3, <1>4, <1>5, <2>1, <2>2, <4>2
      <4> QED BY <4>3
    <3> QED BY <1>2, <2>1, <2>2, <3>1 DEF Day!Leg
  <2>3. CASE \E k \in Day!OnPlan : /\ rows[k].seq = rows[j].seq - 1
                                   /\ rows[j].leg = Drive[rows[k].offer.place][rows[j].offer.place]
    <3>1. PICK k \in Day!OnPlan : /\ rows[k].seq = rows[j].seq - 1
                                  /\ rows[j].leg = Drive[rows[k].offer.place][rows[j].offer.place]
      BY <2>3
    <3>2. PICK m \in 1..Len(list) : list[m] = k
      BY <1>4
    <3>3. rows[k].seq \in Nat /\ rows[j].seq \in Nat
      BY <1>3
    <3>4. m < i
      <4>1. m # i
        BY <2>1, <3>1, <3>2, <3>3
      <4>2. ~(i < m)
        BY <1>5, <2>1, <3>1, <3>2, <3>3
      <4> QED BY <1>4, <4>1, <4>2
    <3>5. m = i - 1
      <4>1. SUFFICES ASSUME m # i - 1 PROVE FALSE
        OBVIOUS
      <4>2. i - 1 \in 1..Len(list) /\ m < i - 1 /\ i - 1 < i
        BY <1>4, <3>4, <4>1
      <4>3. PICK x \in Nat : x = rows[list[i - 1]].seq
        BY <1>3, <1>4, <4>2
      <4>4. rows[k].seq < x /\ x < rows[j].seq
        BY <1>5, <2>1, <3>2, <4>2, <4>3
      <4> QED BY <3>1, <3>3, <4>4
    <3>6. i # 1
      BY <3>5
    <3> QED BY <1>2, <2>1, <3>1, <3>2, <3>5, <3>6 DEF Day!Leg
  <2> QED BY <1>3, <2>1, <2>2, <2>3 DEF LegHolds
<1>8. \/ \A i \in 1..Len(list) : \A k \in i..Len(list) : rows[list[i]].at <= rows[list[k]].at
      \/ \A i \in 2..Len(list) :
           Day!PlannedEnd(rows[list[i - 1]]) + rows[list[i]].leg <= rows[list[i]].at + Day!Tolerance
  <2>1. CASE \A j, k \in Day!OnPlan : rows[j].seq < rows[k].seq => rows[j].at <= rows[k].at
    BY <1>6, <2>1
  <2>2. CASE \A j, k \in Day!OnPlan : rows[j].seq = rows[k].seq - 1 =>
               Day!PlannedEnd(rows[j]) + rows[k].leg <= rows[k].at + Day!Tolerance
    <3>1. \A i \in 2..Len(list) : i \in 1..Len(list) /\ i - 1 \in 1..Len(list) /\ i # 1
      BY <1>4
    <3> QED BY <1>4, <1>7, <2>2, <3>1
  <2> QED BY <1>3, <2>1, <2>2
<1> QED BY <1>1, <1>7, <1>8 DEF Day!RouteIsDrivable

LEMMA SilenceHolds == ASSUME DayInv, PlanInv PROVE Day!SilentPlanFits
<1>1. PICK list : list = Day!Listed(Day!Rows)
  OBVIOUS
<1> SUFFICES ASSUME misdated = {}, Day!Conflicts(Day!Rows, list) = {}
             PROVE  /\ \A i, j \in Day!OnPlan : i # j =>
                         \/ Day!RealEnd(rows[i]) <= rows[j].at
                         \/ Day!RealEnd(rows[j]) <= rows[i].at
                    /\ \A i \in 1..Len(list) - 1 : \A j \in Day!OnPlan :
                         \/ Day!RealEnd(rows[j]) + Day!Buffer <= Day!Ends(rows[list[i]]) + Day!Buffer
                         \/ rows[list[i + 1]].at <= rows[j].at
                    /\ routed => \A i \in 1..Len(list) - 1 :
                         Day!RealEnd(rows[list[i]])
                           + Drive[rows[list[i]].offer.place][rows[list[i + 1]].offer.place]
                           <= rows[list[i + 1]].at
  BY <1>1 DEF Day!SilentPlanFits
<1>2. /\ Covers(list, Day!OnPlan)
      /\ DOMAIN Day!Rows = Day!OnPlan /\ \A j \in Day!OnPlan : Day!Rows[j] = rows[j]
  BY <1>1, ListIs
<1>3. /\ Len(list) \in Nat /\ \A i \in 1..Len(list) : list[i] \in Day!OnPlan
      /\ \A k \in Day!OnPlan : \E i \in 1..Len(list) : list[i] = k
  BY <1>2 DEF Covers
<1> DEFINE End(j) == Day!RealEnd(rows[j])
<1>4. ASSUME NEW j \in Day!OnPlan
      PROVE  /\ rows[j].at \in Nat /\ End(j) \in Nat /\ rows[j].at <= End(j)
             /\ Day!Ends(rows[j]) = End(j) /\ rows[j].leg \in {Day!None} \cup Nat
  <2>1. j \in Day!Jobs
    BY DEF Day!OnPlan, Day!Jobs
  <2>2. Day!Ends(rows[j]) = End(j)
    BY DEF PlanInv, WindowsHold
  <2>3. rows[j].late \in Nat /\ rows[j].leg \in {Day!None} \cup Nat
    BY <2>1, OldRow DEF RowRuns, Day!Delays
  <2>4. End(j) = rows[j].at + rows[j].offer.sign + rows[j].offer.scan + rows[j].late
    BY DEF Day!RealEnd, Day!PlannedEnd, Day!SignEnds
  <2> QED BY <2>1, <2>2, <2>3, <2>4, OldRow
<1> HIDE DEF End
\* No conflict is reported.
<1>5. ASSUME NEW i \in 1..Len(list) - 1
      PROVE  /\ i \in 1..Len(list) /\ i + 1 \in 1..Len(list)
             /\ End(list[i]) <= rows[list[i + 1]].at
             /\ rows[list[i + 1]].leg \in Nat =>
                  End(list[i]) + rows[list[i + 1]].leg <= rows[list[i + 1]].at
  <2>1. i \in 1..Len(list) /\ i + 1 \in 1..Len(list)
    BY <1>3
  <2>2. PICK a \in Day!OnPlan, b \in Day!OnPlan : a = list[i] /\ b = list[i + 1]
    BY <1>3, <2>1
  <2>3. ~(rows[b].at - Day!Ends(rows[a]) < (IF rows[b].leg = Day!None THEN 0 ELSE rows[b].leg))
    BY <1>2, <2>2 DEF Day!Conflicts
  <2>4. ~(rows[b].at - End(a) < (IF rows[b].leg = Day!None THEN 0 ELSE rows[b].leg))
    BY <1>4, <2>3
  <2>5. CASE rows[b].leg = Day!None
    BY <1>4, <2>1, <2>2, <2>4, <2>5 DEF Day!None
  <2>6. CASE rows[b].leg \in Nat
    <3>1. rows[b].leg # Day!None
      BY <2>6 DEF Day!None
    <3> QED BY <1>4, <2>1, <2>2, <2>4, <2>6, <3>1
  <2> QED BY <1>4, <2>5, <2>6
\* So each job on the list is over before any later one begins.
<1>6. ASSUME NEW i \in 1..Len(list), NEW m \in 1..Len(list), i < m
      PROVE  End(list[i]) <= rows[list[m]].at /\ rows[list[i + 1]].at <= rows[list[m]].at
  <2> DEFINE f == [l \in 1..Len(list) |-> rows[list[l]].at]
  <2>1. \A l \in 1..Len(list) : f[l] \in Int
    BY <1>3, <1>4
  <2>2. ASSUME NEW l \in 2..Len(list) PROVE f[l - 1] <= f[l]
    <3>1. l - 1 \in 1..Len(list) - 1 /\ l - 1 \in 1..Len(list) /\ l \in 1..Len(list)
          /\ (l - 1) + 1 = l
      BY <1>3
    <3>2. PICK a \in Day!OnPlan, b \in Day!OnPlan : a = list[l - 1] /\ b = list[l]
      BY <1>3, <3>1
    <3>3. End(a) <= rows[b].at
      BY <1>5, <3>1, <3>2
    <3>4. f[l - 1] = rows[a].at /\ f[l] = rows[b].at
      BY <3>1, <3>2
    <3> QED BY <1>4, <3>3, <3>4
  <2> HIDE DEF f
  <2>3. \A l, x \in 1..Len(list) : l < x => f[l] <= f[x]
    BY <1>3, <2>1, <2>2, Climbs
  <2>4. i \in 1..Len(list) - 1 /\ i + 1 \in 1..Len(list) /\ (i + 1 = m \/ i + 1 < m)
    BY <1>3, <1>6
  <2>5. f[i + 1] <= f[m]
    BY <2>1, <2>3, <2>4
  <2>6. PICK a \in Day!OnPlan, b \in Day!OnPlan, c \in Day!OnPlan :
          a = list[i] /\ b = list[i + 1] /\ c = list[m]
    BY <1>3, <2>4
  <2>7. End(a) <= rows[b].at /\ rows[b].at <= rows[c].at
    BY <1>5, <2>4, <2>5, <2>6 DEF f
  <2> QED BY <1>4, <2>6, <2>7
<1>7. ASSUME NEW i \in Day!OnPlan, NEW j \in Day!OnPlan, i # j
      PROVE  End(i) <= rows[j].at \/ End(j) <= rows[i].at
  <2>1. PICK l \in 1..Len(list), m \in 1..Len(list) : list[l] = i /\ list[m] = j
    BY <1>3
  <2>2. l < m \/ m < l
    BY <1>7, <2>1
  <2> QED BY <1>6, <2>1, <2>2
<1>8. ASSUME NEW i \in 1..Len(list) - 1, NEW j \in Day!OnPlan
      PROVE  \/ End(j) + Day!Buffer <= Day!Ends(rows[list[i]]) + Day!Buffer
             \/ rows[list[i + 1]].at <= rows[j].at
  <2>1. PICK m \in 1..Len(list) : list[m] = j
    BY <1>3
  <2>2. i \in 1..Len(list)
    BY <1>5
  <2>3. PICK a \in Day!OnPlan : a = list[i] /\ Day!Ends(rows[a]) = End(a)
    BY <1>3, <1>4, <2>2
  <2>4. CASE i < m
    BY <1>6, <2>1, <2>2, <2>4
  <2>5. CASE m = i
    <3>1. End(j) + 10 <= End(j) + 10
      BY <1>4
    <3> QED BY <2>1, <2>3, <2>5, <3>1 DEF Day!Buffer
  <2>6. CASE m < i
    <3>1. End(j) <= rows[a].at
      BY <1>6, <2>1, <2>2, <2>3, <2>6
    <3>2. End(j) + 10 <= End(a) + 10
      BY <1>4, <3>1
    <3> QED BY <2>3, <3>2 DEF Day!Buffer
  <2> QED BY <2>4, <2>5, <2>6
<1>9. ASSUME routed, NEW i \in 1..Len(list) - 1
      PROVE  End(list[i]) + Drive[rows[list[i]].offer.place][rows[list[i + 1]].offer.place]
               <= rows[list[i + 1]].at
  <2>1. i \in 1..Len(list) /\ i + 1 \in 1..Len(list) /\ i + 1 # 1 /\ (i + 1) - 1 = i
    BY <1>3, <1>5
  <2>2. rows[list[i + 1]].leg = Day!Leg(Day!Rows, list, {}, i + 1)
    BY <1>1, <1>9, <2>1, RouteIsDriven DEF Day!RouteIsDrivable
  <2>3. PICK a \in Day!OnPlan, b \in Day!OnPlan : a = list[i] /\ b = list[i + 1]
    BY <1>3, <2>1
  <2>4. rows[b].leg = Drive[rows[a].offer.place][rows[b].offer.place]
    BY <1>2, <2>1, <2>2, <2>3 DEF Day!Leg
  <2>5. rows[b].leg \in Nat
    BY <2>4, DayAssumption DEF DayInv, RowsAreJobs, IsRow, Day!OnPlan
  <2> QED BY <1>5, <2>3, <2>4, <2>5
<1> QED BY <1>7, <1>8, <1>9 DEF End

\* The planner can be relied on, of any day, whatever is moved, worked on and cancelled
\* between its reads and its writes and whatever routes are lost: a plan that shows no
\* conflict has none, and
THEOREM SilenceMeansFits == AnySpec => []SilentPlanFits
<1>1. AnyInit => DayInv /\ PlanInv
  BY DayBegins, PlanBegins DEF AnyInit
<1>2. DayInv /\ PlanInv => SilentPlanFits
  BY SilenceHolds DEF SilentPlanFits
<1> QED BY <1>1, <1>2, DayStep, PlanStep, PTL DEF AnySpec

\* an optimise that nobody disturbed lists the jobs in an order that can be driven, with
\* the drives between them, however the writes of overlapping requests mix.
THEOREM RoutesCanBeDriven == AnySpec => []RouteIsDrivable
<1>1. AnyInit => DayInv /\ PlanInv
  BY DayBegins, PlanBegins DEF AnyInit
<1>2. DayInv /\ PlanInv => RouteIsDrivable
  BY RouteIsDriven DEF RouteIsDrivable
<1> QED BY <1>1, <1>2, DayStep, PlanStep, PTL DEF AnySpec

------------------------------------------------------------------------------
(* The types of the day *)

\* Only jobs on the plan have a window that is misdated.
CountsHold == misdated \subseteq Day!OnPlan /\ upsets \in 0..MaxUpsets

LEMMA UpsetCounts == ASSUME CountsHold, Day!Upset PROVE upsets' \in 0..MaxUpsets
BY DayAssumption DEF CountsHold, Day!Upset

LEMMA LostCounts ==
  ASSUME CountsHold, NEW down, Day!Lost(down) PROVE upsets' \in 0..MaxUpsets
BY UpsetCounts DEF Day!Lost, CountsHold

\* A job that comes, is moved, worked on or leaves is misdated only if it stays.
LEMMA ChangeCounts ==
  ASSUME DayInv, CountsHold, NEW j \in Day!Jobs, NEW g, rows' = [rows EXCEPT ![j] = g],
         misdated' \ {j} \subseteq misdated,
         j \in misdated' => g.state \in {"live", "scanning"}
  PROVE  misdated' \subseteq Day!OnPlan'
<1>1. rows'[j] = g /\ \A k \in Day!Jobs : k # j => rows'[k] = rows[k]
  BY DEF DayInv, RowsAreJobs
<1> QED BY <1>1 DEF CountsHold, Day!OnPlan, Day!Jobs

LEMMA CountsStep == DayInv /\ PlanInv /\ CountsHold /\ [AnyNext]_allVars => CountsHold'
<1> SUFFICES ASSUME DayInv, PlanInv, CountsHold, [AnyNext]_allVars PROVE CountsHold'
  OBVIOUS
<1>1. ASSUME UNCHANGED <<rows, misdated, upsets>> PROVE CountsHold'
  BY <1>1 DEF CountsHold, Day!OnPlan
<1>2. ASSUME NEW o \in Offers, Day!Take(o) PROVE CountsHold'
  <2>1. PICK j \in Day!Jobs : rows[j].state = "none" /\ \E g : rows' = [rows EXCEPT ![j] = g]
    BY <1>2, Zenon DEF Day!Take
  <2>2. PICK g : rows' = [rows EXCEPT ![j] = g]
    BY <2>1
  <2>3. j \notin misdated
    BY <2>1 DEF CountsHold, Day!OnPlan
  <2>4. UNCHANGED <<misdated, upsets>>
    BY <1>2 DEF Day!Take
  <2> QED BY <2>2, <2>3, <2>4, ChangeCounts DEF CountsHold
<1>3. ASSUME NEW j \in Day!Jobs, Day!Move(j) PROVE CountsHold'
  <2>1. /\ \E g : rows' = [rows EXCEPT ![j] = g]
        /\ misdated' = misdated \ {j} /\ Day!Upset
    BY <1>3, Zenon DEF Day!Move
  <2> QED BY <2>1, ChangeCounts, UpsetCounts DEF CountsHold
<1>4. ASSUME NEW j \in Day!Jobs, Day!StartScanning(j) PROVE CountsHold'
  <2>1. /\ \E g : rows' = [rows EXCEPT ![j] = g]
        /\ misdated' = misdated \ {j} /\ Day!Upset
    BY <1>4, Zenon DEF Day!StartScanning
  <2> QED BY <2>1, ChangeCounts, UpsetCounts DEF CountsHold
<1>5. ASSUME NEW j \in Day!Jobs, Day!ResumeSigning(j) PROVE CountsHold'
  <2>1. PICK g : g = [rows[j] EXCEPT !.state = "live", !.late = 0, !.scanEnds = Day!None]
    OBVIOUS
  <2>2. /\ rows' = [rows EXCEPT ![j] = g] /\ misdated' = misdated \cup {j} /\ Day!Upset
    BY <1>5, <2>1 DEF Day!ResumeSigning
  <2>3. g.state = "live"
    BY <2>1, OldRow DEF RowFields
  <2> QED BY <2>2, <2>3, ChangeCounts, UpsetCounts DEF CountsHold
<1>6. ASSUME NEW j \in Day!Jobs, Day!Leave(j) PROVE CountsHold'
  <2>1. /\ \E g : rows' = [rows EXCEPT ![j] = g]
        /\ misdated' = misdated \ {j} /\ Day!Upset
    BY <1>6, Zenon DEF Day!Leave
  <2> QED BY <2>1, ChangeCounts, UpsetCounts DEF CountsHold
<1>7. ASSUME NEW r \in Requests, Day!Populate(r) \/ Day!ApplyRoute(r) PROVE CountsHold'
  <2>0. PICK s : s = plan[r].stops[plan[r].next]
    OBVIOUS
  <2>1. \A j \in Day!Jobs : rows'[j].state = rows[j].state
    <3>1. ASSUME NEW j \in Day!Jobs PROVE rows'[j].state = rows[j].state
      <4>1. CASE Day!Populate(r)
        BY <2>0, <4>1, PopulateWrites, OldRow DEF RowFields
      <4>2. CASE Day!ApplyRoute(r)
        <5>1. DOMAIN rows[j] = RowFields
          BY OldRow
        <5>2. rows'[j] = rows[j] \/ \E q, l, w :
                rows'[j] = [rows[j] EXCEPT !.seq = q, !.leg = l, !.scanEnds = w]
          <6>0. /\ j # s.job \/ j \notin Day!OnPlan => rows'[j] = rows[j]
                /\ s.job \in Day!OnPlan =>
                     rows'[s.job] = [rows[s.job] EXCEPT !.seq = plan[r].next, !.leg = s.leg,
                       !.scanEnds = s.at + rows[s.job].offer.sign + rows[s.job].offer.scan]
            BY <2>0, <4>2, ApplyWrites
          <6>1. CASE j = s.job /\ s.job \in Day!OnPlan
            <7>1. PICK q, w : q = plan[r].next
                    /\ w = s.at + rows[s.job].offer.sign + rows[s.job].offer.scan
              OBVIOUS
            <7>2. rows'[s.job] = [rows[s.job] EXCEPT !.seq = q, !.leg = s.leg, !.scanEnds = w]
              BY <6>0, <6>1, <7>1
            <7>3. rows'[j] = [rows[j] EXCEPT !.seq = q, !.leg = s.leg, !.scanEnds = w]
              BY <6>1, <7>2
            <7> QED BY <7>3, Zenon
          <6>2. CASE ~(j = s.job /\ s.job \in Day!OnPlan)
            BY <6>0, <6>2, Zenon
          <6> QED BY <6>1, <6>2
        <5> QED BY <5>1, <5>2 DEF RowFields
      <4> QED BY <1>7, <4>1, <4>2
    <3> QED BY <3>1
  <2>2. upsets' = upsets \/ Day!Upset
    BY <1>7, Zenon DEF Day!Populate, Day!ApplyRoute
  <2>3. misdated' \subseteq misdated \cup Day!OnPlan
    <3>1. CASE Day!Populate(r)
      BY <3>1 DEF Day!Populate
    <3>2. CASE Day!ApplyRoute(r)
      <4>1. \E P : misdated' = IF s.job \in Day!OnPlan /\ P
                   THEN misdated \cup {s.job} ELSE misdated \ {s.job}
        BY <2>0, <3>2, Zenon DEF Day!ApplyRoute
      <4> QED BY <4>1
    <3> QED BY <1>7, <3>1, <3>2
  <2>4. upsets' \in 0..MaxUpsets
    BY <2>2, UpsetCounts DEF CountsHold
  <2> QED BY <2>1, <2>3, <2>4 DEF CountsHold, Day!OnPlan, Day!Jobs
<1>8. ASSUME NEW r \in Requests, Day!OpenPlan(r) \/ Day!OpenOptimise(r) \/ Day!RequestFails(r)
      PROVE  CountsHold'
  <2>1. UNCHANGED <<rows, misdated>>
    BY <1>8 DEF Day!OpenPlan, Day!OpenOptimise, Day!Open, Day!RequestFails
  <2>2. Day!Upset \/ \E down : Day!Lost(down)
    BY <1>8, Zenon DEF Day!OpenPlan, Day!OpenOptimise, Day!RequestFails
  <2>3. upsets' \in 0..MaxUpsets
    BY <2>2, LostCounts, UpsetCounts
  <2> QED BY <2>1, <2>3 DEF CountsHold, Day!OnPlan
<1>9. CASE Day!Next
  BY <1>1, <1>2, <1>3, <1>4, <1>5, <1>6, <1>7, <1>8, <1>9 DEF Day!Next, Day!Check, Day!Expire
<1> QED BY <1>1, <1>9 DEF AnyNext, allVars, dayVars

\* The variables of the day stay within their types: a place in the route is one of as
\* many as there are jobs, and only a job on the plan has a window that is misdated.
THEOREM DayTypeCorrect == AnySpec => []Day!TypeOK
<1>1. AnyInit => DayInv /\ PlanInv /\ CountsHold
  <2>1. Day!Init => CountsHold
    BY DayAssumption DEF Day!Init, CountsHold
  <2> QED BY <2>1, DayBegins, PlanBegins DEF AnyInit
<1>2. DayInv /\ PlanInv /\ CountsHold => Day!TypeOK
  <2> SUFFICES ASSUME DayInv, PlanInv, CountsHold PROVE Day!TypeOK
    OBVIOUS
  <2>1. ASSUME NEW j \in Day!Jobs
        PROVE  /\ rows[j].state \in {"none", "live", "scanning", "over"} /\ rows[j].offer \in Offers
               /\ rows[j].at \in Int /\ rows[j].scanEnds \in Int /\ rows[j].late \in Day!Delays
               /\ rows[j].seq \in {Day!None} \cup Day!Jobs /\ rows[j].leg \in {Day!None} \cup Nat
               /\ rows[j].verdict \in {"unchecked", "RISKY", "TAKE_IT"}
    BY DEF DayInv, RowsAreJobs, IsRow, PlanInv, RowsRun, RowRuns
  <2>2. /\ answer \in [Offers -> {"none", "old", "DECLINE", "RISKY", "TAKE_IT"}]
        /\ left \in BOOLEAN
    BY DEF DayInv, AnswersHold
  <2>3. /\ \A r \in Requests :
             /\ plan[r].pc \in {"none", "legs", "apply", "done"} /\ plan[r].fresh \in BOOLEAN
             /\ plan[r].next \in Nat \ {0}
             /\ plan[r].pc \in {"legs", "apply"} => plan[r].next \in 1..Len(plan[r].stops)
        /\ routed \in BOOLEAN
    BY DEF PlanInv, RequestsRun, RequestRuns, RouteHolds
  <2> QED BY <2>1, <2>2, <2>3, Zenon DEF Day!TypeOK, CountsHold
<1> QED BY <1>1, <1>2, DayStep, PlanStep, CountsStep, PTL DEF AnySpec

------------------------------------------------------------------------------
(* The two together *)

\* What holds of a job by itself holds of it on its day.
THEOREM DayKeepsJob == AnySpec => Spec
<1>1. AnyInit => Init
  BY DEF AnyInit
<1>2. [AnyNext]_allVars => [Next]_vars
  BY DEF AnyNext, allVars
<1> QED BY <1>1, <1>2, PTL DEF AnySpec, Spec
==============================================================================
