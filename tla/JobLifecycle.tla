---------------------------- MODULE JobLifecycle -----------------------------
(***************************************************************************)
(* The life of one job row under concurrent API calls: JobsService         *)
(* .updateStatus, .update and .remove, and what they set off: the journal  *)
(* entry, the invoice and the calendar sync.  Each call reads the row,     *)
(* decides, and later writes by id alone; every await in between lets      *)
(* other calls run.  Jobs share nothing here, so one job is enough.        *)
(*                                                                         *)
(* Amounts on the job and on its invoice are left out.  Times are kept     *)
(* only as far as the scanback countdown needs them: "planned" is counted  *)
(* from the appointment, "anchored" from the moment scanning began.        *)
(***************************************************************************)
EXTENDS Naturals, FiniteSets

CONSTANTS Calls,       \* API calls that can be under way at once
          MaxOps,      \* bound: number of calls begun
          FaultKinds   \* faults allowed, a subset of Faults

Faults == {"journal", "invoice", "draft", "queue", "death"}

ASSUME BoundsAssumption == MaxOps \in Nat /\ FaultKinds \subseteq Faults

Statuses == {"PENDING", "PENDING_REVIEW", "CONFIRMED", "IN_PROGRESS",
             "SCANNING", "COMPLETE", "CANCELLED", "DECLINED"}

TRANSITIONS ==
  [s \in Statuses |->
     CASE s = "PENDING"        -> {"CONFIRMED", "CANCELLED"}
       [] s = "PENDING_REVIEW" -> {"CONFIRMED", "DECLINED"}
       [] s = "CONFIRMED"      -> {"IN_PROGRESS", "CANCELLED"}
       [] s = "IN_PROGRESS"    -> {"SCANNING", "COMPLETE", "CANCELLED"}
       [] s = "SCANNING"       -> {"COMPLETE", "IN_PROGRESS"}
       [] OTHER                -> {}]

VARIABLES
  job,       \* the row: status, deleted_at set, type mandates scanback,
             \* scanback minutes > 0, scanback_ends_at, timestamps set
  journal,   \* number of journal entries of the job
  invoices,  \* number of invoices of the job
  unsynced,  \* changes the calendar was not told of: "slot" (time or place), "end"
  notices,   \* kinds of notification ever queued for the job
  call,      \* per call: next step, the row as read, what was asked for
  ops,       \* calls begun
  faults,    \* history: the kinds of fault that have happened
  raced      \* history: a call wrote the row while another was about to write
             \* by an earlier read

vars == <<job, journal, invoices, unsynced, notices, call, ops, faults, raced>>

\* What a call keeps of the row it read.
Row(r) == [status |-> r.status, scanback |-> r.scanback, timed |-> r.timed]

IdleCall == [pc |-> "idle", want |-> "", timed |-> FALSE,
             seen |-> [status |-> "PENDING", scanback |-> FALSE, timed |-> FALSE]]

\* JobsService.create stores the status it was given, whatever it is, and does
\* not enqueue a sync unless that is CONFIRMED.
Init ==
  /\ job \in [status : Statuses, deleted : {FALSE}, scanback : BOOLEAN,
              timed : BOOLEAN, window : {"none", "planned"}, stamps : SUBSET {"confirmed"}]
  /\ job.window = "planned" <=> job.timed
  /\ "confirmed" \in job.stamps <=> job.status = "CONFIRMED"
  /\ journal = 0 /\ invoices = 0 /\ ops = 0
  /\ unsynced = IF job.status = "CONFIRMED" THEN {} ELSE {"slot", "end"}
  /\ notices = {} /\ faults = {} /\ raced = FALSE
  /\ call = [c \in Calls |-> IdleCall]

Begin(c) == call[c].pc = "idle" /\ ops < MaxOps /\ ops' = ops + 1

Goto(c, pc) == call' = [call EXCEPT ![c].pc = pc]
Return(c)   == call' = [call EXCEPT ![c] = IdleCall]

Fault(kind) == kind \in FaultKinds /\ faults' = faults \cup {kind}

------------------------------------------------------------------------------
(* updateStatus *)

\* Mutant of Allowed: without the scanback rule.
AllowedNoScanback(want) == ~job.deleted /\ want \in TRANSITIONS[job.status]

\* findOne and the checks that may refuse the transition.
Allowed(want) ==
  /\ ~job.deleted
  /\ want \in TRANSITIONS[job.status]
  /\ ~(want = "COMPLETE" /\ job.status = "IN_PROGRESS" /\ job.scanback)

ReadForStatus(c) ==
  /\ \/ Begin(c)
     \/ call[c].pc = "thenStatus" /\ UNCHANGED ops
  /\ \E want \in Statuses :
       /\ Allowed(want)
       /\ call' = [call EXCEPT ![c] = [@ EXCEPT !.pc = "writing", !.seen = Row(job),
                                                !.want = want]]
  /\ UNCHANGED <<job, journal, invoices, unsynced, notices, faults>>

\* The row after the status write of a call that read "seen".
WithStatus(seen, want) ==
  LET stamped == [job EXCEPT !.status = want]
      stamp(r, s) == [r EXCEPT !.stamps = @ \cup {s}]
  IN CASE want = "CONFIRMED" -> stamp(stamped, "confirmed")
       [] want = "IN_PROGRESS" ->
            IF seen.status = "SCANNING"
            THEN [stamp(stamped, "started") EXCEPT !.stamps = @ \ {"scanning"},
                                                   !.window = "none"]
            ELSE stamp(stamped, "started")
       [] want = "SCANNING" ->
            [stamp(stamped, "scanning") EXCEPT
               !.window = IF seen.timed THEN "anchored" ELSE "none"]
       [] want = "COMPLETE" -> stamp(stamped, "completed")
       [] want = "CANCELLED" -> stamp(stamped, "cancelled")
       [] OTHER -> stamped

AfterStatus(want) ==
  CASE want = "CONFIRMED" -> "sync"
    [] want = "COMPLETE"  -> "journal"
    [] want = "SCANNING"  -> "notify"

\* prisma.job.update by id: neither the status nor deleted_at is checked again.
WriteStatus(c) ==
  /\ call[c].pc = "writing"
  /\ job' = WithStatus(call[c].seen, call[c].want)
  /\ IF call[c].want \in {"CONFIRMED", "COMPLETE", "SCANNING"}
     THEN Goto(c, AfterStatus(call[c].want)) ELSE Return(c)
  /\ UNCHANGED <<journal, invoices, unsynced, notices, ops, faults>>

\* JournalService.createForCompletedJob: look for an entry, then create one.
FindJournalEntry(c) ==
  /\ call[c].pc = "journal"
  /\ Goto(c, IF journal > 0 THEN "invoice" ELSE "journalAdd")
  /\ UNCHANGED <<job, journal, invoices, unsynced, notices, ops, faults>>

AddJournalEntry(c) ==
  /\ call[c].pc = "journalAdd"
  /\ journal' = journal + 1
  /\ Goto(c, "invoice")
  /\ UNCHANGED <<job, invoices, unsynced, notices, ops, faults>>

\* Mutant of JournalThrows: the error leaves updateStatus.
JournalThrowsOut(c) ==
  /\ call[c].pc \in {"journal", "journalAdd"}
  /\ Fault("journal")
  /\ Return(c)
  /\ UNCHANGED <<job, journal, invoices, unsynced, notices, ops>>

\* An error of the journal is logged; the invoice is still generated.
JournalThrows(c) ==
  /\ call[c].pc \in {"journal", "journalAdd"}
  /\ Fault("journal")
  /\ Goto(c, "invoice")
  /\ UNCHANGED <<job, journal, invoices, unsynced, notices, ops>>

\* InvoicesService.generate, from updateStatus or from its own endpoint.
BeginGenerate(c) ==
  /\ Begin(c)
  /\ call' = [call EXCEPT ![c] = [@ EXCEPT !.pc = "invoice", !.want = ""]]
  /\ UNCHANGED <<job, journal, invoices, unsynced, notices, faults>>

Generate(c) ==
  /\ call[c].pc = "invoice"
  /\ Goto(c, IF job.deleted \/ job.status # "COMPLETE" \/ invoices > 0
             THEN "notify" ELSE "invoiceAdd")
  /\ UNCHANGED <<job, journal, invoices, unsynced, notices, ops, faults>>

\* invoice.job_id is unique: a second create finds the first and refreshes it.
AddInvoice(c) ==
  /\ call[c].pc = "invoiceAdd"
  /\ invoices' = IF invoices = 0 THEN 1 ELSE invoices
  /\ Goto(c, "notify")
  /\ UNCHANGED <<job, journal, unsynced, notices, ops, faults>>

InvoiceThrows(c) ==
  /\ call[c].pc \in {"invoice", "invoiceAdd"}
  /\ Fault("invoice")
  /\ Goto(c, "notify")
  /\ UNCHANGED <<job, journal, invoices, unsynced, notices, ops>>

\* The scanback reminder, if the notary wants it, and the ETA to the next
\* client, if there is one close enough.
Notify(c) ==
  /\ call[c].pc = "notify"
  /\ LET seen == call[c].seen
         may == (IF call[c].want = "SCANNING" /\ seen.scanback
                 THEN {"scanback"} ELSE {})
                \cup (IF call[c].want # "" /\ seen.status = "IN_PROGRESS"
                      THEN {"eta"} ELSE {})
     IN \E some \in SUBSET may : notices' = notices \cup some
  /\ Return(c)
  /\ UNCHANGED <<job, journal, invoices, unsynced, ops, faults>>

\* The calendar worker reads the row when it runs: one job covers every change
\* written before it was queued.
EnqueueSync(c) ==
  /\ call[c].pc \in {"sync", "resync"}
  /\ \/ unsynced' = {} /\ UNCHANGED faults
     \/ Fault("queue") /\ UNCHANGED unsynced
  /\ IF call[c].pc = "resync" THEN Goto(c, "thenStatus") ELSE Return(c)
  /\ UNCHANGED <<job, journal, invoices, notices, ops>>

------------------------------------------------------------------------------
(* update *)

Edits == {"time", "address", "type", "scanback"}

\* An edit changes one thing.  A new signing type brings the notary's default
\* scanback minutes, none if the type needs no scanback.
ReadForEdit(c) ==
  /\ Begin(c)
  /\ ~job.deleted
  /\ \E edit \in Edits, timed \in BOOLEAN :
       /\ edit \in {"time", "address"} => timed = job.timed
       /\ edit = "scanback" => timed # job.timed
       /\ edit = "type" /\ job.scanback => ~timed
       /\ call' = [call EXCEPT ![c] = [pc |-> "editing", seen |-> Row(job),
                                       want |-> edit, timed |-> timed]]
  /\ UNCHANGED <<job, journal, invoices, unsynced, notices, faults>>

\* Mutant of Rescheduled: a live countdown is recomputed too.
RescheduledLive(seen, edit) == edit # "address"

\* The countdown is recomputed unless the row as read was already scanning.
Rescheduled(seen, edit) == edit # "address" /\ seen.status # "SCANNING"

\* Mutant of Resynced: the sync is decided by the status read at the start.
ResyncedStale(seen, edit) == edit \in {"time", "address"} /\ seen.status = "CONFIRMED"

\* The calendar is told of a new time or place if the row is CONFIRMED as written.
Resynced(seen, edit) == edit \in {"time", "address"} /\ job.status = "CONFIRMED"

WriteEdit(c) ==
  /\ call[c].pc = "editing"
  /\ LET seen == call[c].seen  edit == call[c].want  timed == call[c].timed IN
       /\ job' = [job EXCEPT
            !.scanback = IF edit = "type" THEN ~seen.scanback ELSE @,
            !.timed    = IF timed # seen.timed THEN timed ELSE @,
            !.window   = IF ~Rescheduled(seen, edit) THEN @
                         ELSE IF timed THEN "planned" ELSE "none"]
       /\ unsynced' = unsynced \cup
            (IF edit \in {"time", "address"} THEN {"slot"} ELSE {"end"})
       /\ Goto(c, IF Resynced(seen, edit) THEN "resync" ELSE "thenStatus")
  /\ UNCHANGED <<journal, invoices, notices, ops, faults>>

\* Between the row and the queue the edit awaits syncDraftFromJob, outside any
\* try: it writes the unpaid invoice only (Invoicing), but when it throws the call
\* ends and the sync that was due is never queued.  Where none is due, an edit
\* ended so is EditDone.
DraftThrows(c) ==
  /\ call[c].pc = "resync"
  /\ Fault("draft")
  /\ Return(c)
  /\ UNCHANGED <<job, journal, invoices, unsynced, notices, ops>>

\* The edit asked for no status change, or updateStatus refuses it.
EditDone(c) ==
  /\ call[c].pc = "thenStatus"
  /\ Return(c)
  /\ UNCHANGED <<job, journal, invoices, unsynced, notices, ops, faults>>

------------------------------------------------------------------------------
(* remove: the calendar event first, for three statuses, then deleted_at *)

ReadForRemove(c) ==
  /\ Begin(c)
  /\ ~job.deleted
  /\ call' = [call EXCEPT ![c] = [@ EXCEPT !.seen = Row(job),
       !.pc = IF job.status \in {"CONFIRMED", "IN_PROGRESS", "COMPLETE"}
              THEN "unsync" ELSE "removing"]]
  /\ UNCHANGED <<job, journal, invoices, unsynced, notices, faults>>

EnqueueDelete(c) ==
  /\ call[c].pc = "unsync"
  /\ \/ notices' = notices \cup {"delete-event"} /\ UNCHANGED faults
     \/ Fault("queue") /\ UNCHANGED notices
  /\ Goto(c, "removing")
  /\ UNCHANGED <<job, journal, invoices, unsynced, ops>>

WriteDeleted(c) ==
  /\ call[c].pc = "removing"
  /\ job' = [job EXCEPT !.deleted = TRUE]
  /\ Return(c)
  /\ UNCHANGED <<journal, invoices, unsynced, notices, ops, faults>>

\* The API process dies, or a statement of the call itself throws: nothing more of
\* the call is persisted and nothing resumes it.
Die(c) ==
  /\ call[c].pc # "idle"
  /\ Fault("death")
  /\ Return(c)
  /\ UNCHANGED <<job, journal, invoices, unsynced, notices, ops>>

------------------------------------------------------------------------------
StatusStep(c) == \/ ReadForStatus(c) \/ WriteStatus(c)
                 \/ FindJournalEntry(c) \/ AddJournalEntry(c) \/ JournalThrows(c)
                 \/ BeginGenerate(c) \/ Generate(c) \/ AddInvoice(c)
                 \/ InvoiceThrows(c) \/ Notify(c) \/ EnqueueSync(c)
EditStep(c)   == ReadForEdit(c) \/ WriteEdit(c) \/ DraftThrows(c) \/ EditDone(c)
RemoveStep(c) == ReadForRemove(c) \/ EnqueueDelete(c) \/ WriteDeleted(c)

\* A call between its read of the row and the write it decides by it.
Holding(c) == call[c].pc \in {"writing", "editing", "unsync", "removing"}

Race == job' # job /\ \E c \in Calls : Holding(c) /\ call'[c] = call[c]

Next == /\ \E c \in Calls : StatusStep(c) \/ EditStep(c) \/ RemoveStep(c) \/ Die(c)
        /\ raced' = (raced \/ Race)

Spec == Init /\ [][Next]_vars

------------------------------------------------------------------------------
(* Properties *)

Stamps  == {"confirmed", "started", "scanning", "completed", "cancelled"}
RowType == [status : Statuses, deleted : BOOLEAN, scanback : BOOLEAN,
            timed : BOOLEAN, window : {"none", "planned", "anchored"},
            stamps : SUBSET Stamps]
Steps == {"idle", "writing", "journal", "journalAdd", "invoice", "invoiceAdd",
          "notify", "sync", "resync", "thenStatus", "editing", "unsync",
          "removing"}
CallType == [pc : Steps,
             seen : [status : Statuses, scanback : BOOLEAN, timed : BOOLEAN],
             want : Statuses \cup Edits \cup {""},
             timed : BOOLEAN]

\* The variables stay within their types.
TypeOK ==
  /\ job \in RowType
  /\ journal \in Nat
  /\ invoices \in {0, 1}
  /\ unsynced \subseteq {"slot", "end"}
  /\ notices \subseteq {"scanback", "eta", "delete-event"}
  /\ call \in [Calls -> CallType]
  /\ ops \in 0..MaxOps
  /\ faults \subseteq Faults
  /\ raced \in BOOLEAN

Quiet == \A c \in Calls : call[c].pc = "idle"

Completed == job.status = "COMPLETE" /\ "completed" \in job.stamps

\* A completed job is invoiced and entered in the notarial journal: once every call
\* has returned, a live job that updateStatus left COMPLETE has its invoice and a
\* completion its journal entry, whatever calls raced and whichever of the two
\* failed; only its own error or a crash leaves one out.  The journal gets one
\* entry, although the look-up and the create are two statements: only raced
\* status changes can write it twice.
CompletionOwed ==
  /\ Quiet /\ Completed /\ ~job.deleted /\ faults \cap {"invoice", "death"} = {}
       => invoices = 1
  /\ Quiet /\ "completed" \in job.stamps /\ faults \cap {"journal", "death"} = {}
       => journal > 0
  /\ ~raced => journal <= 1

\* When every call has returned, no change of time or place of a confirmed job
\* was left without a calendar sync queued after it, whichever call wrote last.
\* Only the queue, a death or the unpaid invoice's sync, awaited unprotected on the
\* way to the queue, can lose one.
CalendarFollowsSlot ==
  Quiet /\ job.status = "CONFIRMED" /\ faults \cap {"draft", "queue", "death"} = {}
    => "slot" \notin unsynced

\* "Valid forward transitions": the row only moves along TRANSITIONS, so COMPLETE,
\* CANCELLED and DECLINED are final, and a job whose type mandates scanback
\* completes from SCANNING only, until a call writes the row between another's
\* read and write.  No sequence of calls, edits of status or type included, leaves
\* the table, whatever side effects are still running.
ForwardUnlessRaced ==
  [][~raced => /\ job'.status \in TRANSITIONS[job.status] \cup {job.status}
               /\ job.scanback /\ job.status # "COMPLETE" /\ job'.status = "COMPLETE"
                    => job.status = "SCANNING"]_vars

\* While a job is scanning, its countdown runs from the moment scanning began,
\* never from the planned end of the appointment, unless the row was raced.  A
\* row created as SCANNING has no such moment.
LiveCountdown ==
  ~raced /\ job.status = "SCANNING" /\ "scanning" \in job.stamps
    => job.window # "planned"
==============================================================================
