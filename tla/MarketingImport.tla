--------------------------- MODULE MarketingImport ---------------------------
(***************************************************************************)
(* The import of leads from a spreadsheet: ImportsService (mapping and     *)
(* start), the worker ImportIngestService.runImport behind the marketing   *)
(* queue, MaintenanceTickService.recoverStuckImports, and what LeadsService*)
(* does to the same leads and messages meanwhile.                          *)
(*                                                                         *)
(* An import is queued without a job id, so that the queue may hold it     *)
(* several times; what runs it twice is kept apart only by the status read *)
(* at the start of a run.  Leads have no unique index.                     *)
(*                                                                         *)
(* A file is what its mapping makes of it: the sequence of its rows' lead  *)
(* id, email and business name, and whether there is a message.            *)
(***************************************************************************)
EXTENDS Integers, Sequences

CONSTANTS Imports, File,
          Keys, Blank,   \* the values of lead ids, emails and names, and no value
          Typed,         \* what users enter by hand: rows, of which Blank is not given
          MaxLeads,      \* leads that can ever be inserted
          Workers, Calls,
          Tasks,         \* queue jobs of one import that can wait at once
          MaxRequeues,   \* MAX_IMPORT_REQUEUES
          MaxEvents      \* calls that users begin and faults, together

RowType == [id : Keys \cup {Blank}, email : Keys \cup {Blank}, name : Keys \cup {Blank},
            text : BOOLEAN]

ASSUME BoundsAssumption == {MaxLeads, MaxRequeues, MaxEvents} \subseteq Nat
ASSUME TypedAssumption == Typed \subseteq RowType
ASSUME FileAssumption   == Imports # {} /\ \A i \in Imports : File[i] \in Seq(RowType)

VARIABLES import,      \* per import: status, age of the status, requeueCount
          queue,       \* per import, the queue's jobs
          ingest,      \* per slot: where runImport is, and what it holds
          request,     \* per API call: next step, what it is about, what it read
          recovery,    \* the maintenance tick: next step, import and count it read
          events,      \* calls begun and faults so far
          book, text,  \* the leads and their messages
          home, disturbed, complete, byHand,  \* history, see LeadBook
          overlapped   \* history: two runs were under way at once, see Overlaps

importVars == <<import, queue, ingest, request, recovery, events>>
leadVars   == <<book, text, home, disturbed, complete, byHand, overlapped>>
vars == <<importVars, leadVars>>

Book == INSTANCE LeadBook

Refs == Book!Refs
Row(i, n) == Book!Row(i, n)
Kept      == Book!Kept

NoLead   == 0
AnImport == CHOOSE i \in Imports : TRUE

NoneFound  == [n \in {} |-> NoLead]
IdleWorker == [pc |-> "idle", id |-> AnImport, task |-> 0, locked |-> FALSE,
               existing |-> NoneFound, todo |-> {}, seeking |-> 0]
IdleCall   == [pc |-> "idle", id |-> AnImport, ref |-> NoLead, read |-> "none"]
IdleTick   == [pc |-> "idle", id |-> AnImport, count |-> 0]
NoTask     == [state |-> "none", throws |-> 0, stalls |-> 0]

\* upload: the file and the import's row are stored before it can be started.
Init ==
  /\ import = [i \in Imports |-> [status |-> "UPLOADED", age |-> 0, requeues |-> 0]]
  /\ queue = [i \in Imports |-> [t \in Tasks |-> NoTask]]
  /\ ingest = [w \in Workers |-> IdleWorker]
  /\ request = [c \in Calls |-> IdleCall]
  /\ recovery = IdleTick
  /\ book = [r \in Refs |-> Book!Absent]
  /\ text = [r \in Refs |-> "none"]
  /\ events = 0
  /\ home = {} /\ disturbed = {} /\ complete = {} /\ byHand = {}
  /\ overlapped = FALSE

\* A call begins, or something fails.
Event == events < MaxEvents /\ events' = events + 1

\* A write of the status: the ages of updatedAt and startedAt begin anew.
SetStatus(i, status) ==
  import' = [import EXCEPT ![i] = [status |-> status, age |-> 0, requeues |-> @.requeues]]

------------------------------------------------------------------------------
(* The queue: three attempts, one stalled rerun, no job ids *)

MaxAttempts == 3
MaxStalls   == 1

Free(i) == {t \in Tasks : queue[i][t].state = "none"}

Add(i) ==
  \E t \in Free(i) :
    /\ \A s \in Free(i) : t <= s
    /\ queue' = [queue EXCEPT ![i][t] = [NoTask EXCEPT !.state = "waiting"]]

ToIdle(w) == ingest' = [ingest EXCEPT ![w] = IdleWorker]

\* The handler returned, or threw for the last time: the job is over.
Finish(w) ==
  /\ queue' = IF ingest[w].locked
             THEN [queue EXCEPT ![ingest[w].id][ingest[w].task] = NoTask] ELSE queue
  /\ ToIdle(w)

Rethrow(w) ==
  LET i == ingest[w].id  t == ingest[w].task IN
    IF ingest[w].locked /\ queue[i][t].throws + 1 < MaxAttempts
    THEN /\ queue' = [queue EXCEPT ![i][t].state = "waiting", ![i][t].throws = @ + 1]
         /\ ToIdle(w)
    ELSE Finish(w)

Crash(w) ==
  /\ ingest[w].pc # "idle"
  /\ Event
  /\ ToIdle(w)
  /\ UNCHANGED <<import, queue, request, recovery, leadVars>>

\* The lock of an active job is gone, with its worker or under it.
Stalled(i, t) ==
  /\ queue[i][t].state = "active"
  /\ LET holders == {w \in Workers : ingest[w].id = i /\ ingest[w].task = t /\ ingest[w].locked} IN
       /\ IF holders = {} THEN UNCHANGED events ELSE Event
       /\ ingest' = [w \in Workers |-> [ingest[w] EXCEPT !.locked = @ /\ w \notin holders]]
  /\ queue' = IF queue[i][t].stalls < MaxStalls
             THEN [queue EXCEPT ![i][t].state = "waiting", ![i][t].stalls = @ + 1]
             ELSE [queue EXCEPT ![i][t] = NoTask]
  /\ UNCHANGED <<import, request, recovery, leadVars>>

------------------------------------------------------------------------------
(* ImportsService: saveMapping, applyPreset and start *)

BeginCall(c, pc, i, read) ==
  /\ request[c].pc = "idle" /\ Event
  /\ request' = [request EXCEPT ![c] = [pc |-> pc, id |-> i, ref |-> NoLead, read |-> read]]

Goto(c, pc) == request' = [request EXCEPT ![c].pc = pc]
Return(c)   == request' = [request EXCEPT ![c] = IdleCall]

BeginMapping(c, i) ==
  /\ import[i].status \in {"UPLOADED", "MAPPED"}
  /\ BeginCall(c, "mapping", i, import[i].status)
  /\ UNCHANGED <<import, queue, ingest, recovery, leadVars>>

\* Only a status that differs from the one read is written; updatedAt is anyway.
SaveMapping(c) ==
  /\ request[c].pc = "mapping"
  /\ LET i == request[c].id IN
       IF request[c].read = "UPLOADED" THEN SetStatus(i, "MAPPED")
       ELSE import' = [import EXCEPT ![i].age = IF import[i].status = "PROCESSING" THEN @ ELSE 0]
  /\ Return(c)
  /\ UNCHANGED <<queue, ingest, recovery, events, leadVars>>

BeginStart(c, i) ==
  /\ import[i].status \in {"UPLOADED", "MAPPED", "FAILED"}
  /\ BeginCall(c, "queueing", i, import[i].status)
  /\ UNCHANGED <<import, queue, ingest, recovery, leadVars>>

SaveQueued(c) ==
  /\ request[c].pc = "queueing"
  /\ SetStatus(request[c].id, "QUEUED")
  /\ Goto(c, "adding")
  /\ UNCHANGED <<queue, ingest, recovery, events, leadVars>>

\* The add fails, or takes longer than the two seconds it is given and lands all
\* the same.
Enqueue(c) ==
  /\ request[c].pc = "adding"
  /\ \/ Add(request[c].id) /\ Return(c) /\ UNCHANGED events
     \/ Event /\ (Add(request[c].id) \/ UNCHANGED queue) /\ Goto(c, "restoring")
  /\ UNCHANGED <<import, ingest, recovery, leadVars>>

Restore(c) ==
  /\ request[c].pc = "restoring"
  /\ SetStatus(request[c].id, request[c].read)
  /\ Return(c)
  /\ UNCHANGED <<queue, ingest, recovery, events, leadVars>>

\* The API process dies, or a write throws.
CallDies(c) ==
  /\ request[c].pc # "idle"
  /\ Event
  /\ Return(c)
  /\ UNCHANGED <<import, queue, ingest, recovery, leadVars>>

------------------------------------------------------------------------------
(* ImportIngestService.runImport *)

\* The run reads the status; a finished import, and one that another run took up
\* less than ten minutes ago, is left alone and its job is over.
\* Mutant: only finished imports are left alone.
SkipsFinished(i) == import[i].status = "COMPLETED"

Skips(i) == \/ import[i].status = "COMPLETED"
            \/ import[i].status = "PROCESSING" /\ import[i].age = 0

\* Two runs the status does not keep apart: the other is about another import, has
\* not marked its own yet, is slow, or its mark was overwritten.
Overlaps(i, v) ==
  /\ ingest[v].pc # "idle"
  /\ \/ ingest[v].id # i \/ ingest[v].pc = "marking"
     \/ import[i].status # "PROCESSING" \/ import[i].age > 0

Take(w, i, t) ==
  /\ ingest[w].pc = "idle" /\ queue[i][t].state = "waiting"
  /\ IF Skips(i)
     THEN /\ queue' = [queue EXCEPT ![i][t] = NoTask]
          /\ UNCHANGED <<ingest, overlapped>>
     ELSE /\ queue' = [queue EXCEPT ![i][t].state = "active"]
          /\ ingest' = [ingest EXCEPT ![w] =
               [IdleWorker EXCEPT !.pc = "marking", !.id = i, !.task = t, !.locked = TRUE]]
          /\ overlapped' = (overlapped \/ \E v \in Workers : Overlaps(i, v))
  /\ UNCHANGED <<import, request, recovery, events, book, text, home, disturbed, complete, byHand>>

\* ... and writes PROCESSING whatever the status is by now.
Mark(w) ==
  /\ ingest[w].pc = "marking"
  /\ SetStatus(ingest[w].id, "PROCESSING")
  /\ ingest' = [ingest EXCEPT ![w].pc = "lookingUp"]
  /\ UNCHANGED <<queue, request, recovery, events, leadVars>>

MarkThrows(w) ==
  /\ ingest[w].pc = "marking"
  /\ Event
  /\ Rethrow(w)
  /\ UNCHANGED <<import, request, recovery, leadVars>>

\* The leads a row finds: by its lead id, else its email, else its business name.
Found(i, n) == {r \in Refs : Book!Matches(Row(i, n), book[r])}

\* collectExisting: of several leads with one key one that the index names first.
LeadOf(i, n) ==
  IF Found(i, n) = {} THEN NoLead
  ELSE CHOOSE r \in Found(i, n) : TRUE

Homes(i, f) == {<<i, n, f[n]>> : n \in {k \in Kept[i] : f[k] # NoLead}}

\* ingest: stage the rows, look up the leads they are about.
LookUp(w) ==
  /\ ingest[w].pc = "lookingUp"
  /\ LET i == ingest[w].id
         f == [n \in Kept[i] |-> LeadOf(i, n)]
     IN /\ ingest' = [ingest EXCEPT ![w] = [@ EXCEPT !.pc = "upserting", !.existing = f, !.todo = Kept[i]]]
        /\ home' = home \cup Homes(i, f)
  /\ UNCHANGED <<import, queue, request, recovery, events, book, text, disturbed, complete, byHand, overlapped>>

\* The writes of a batch are executed one by one in the order of the file.
IsNext(w, n) == n \in ingest[w].todo /\ \A m \in ingest[w].todo : n <= m
Done(w, n)   == ingest' = [ingest EXCEPT ![w] = [@ EXCEPT !.todo = ingest[w].todo \ {n}, !.seeking = 0]]

\* A row that found its lead overwrites it, if it is still there.
UpdateLead(w, n) ==
  /\ ingest[w].pc = "upserting" /\ ingest[w].seeking = 0
  /\ IsNext(w, n) /\ ingest[w].existing[n] # NoLead
  /\ LET r == ingest[w].existing[n]  row == Row(ingest[w].id, n) IN
       IF ~Book!Present(book[r]) THEN UNCHANGED <<book, disturbed>>
       ELSE /\ book' = [book EXCEPT ![r] = Book!Merge(@, row)]
            /\ disturbed' = disturbed \cup
                 {q \in {r} : Book!Filled(book[r].email) /\ Book!Merge(book[r], row).email # book[r].email}
  /\ Done(w, n)
  /\ UNCHANGED <<import, queue, request, recovery, events, text, home, complete, byHand, overlapped>>

\* The other rows are upserted: a lead found by the filter is left as it is ...
SeekLead(w, n) ==
  /\ ingest[w].pc = "upserting" /\ ingest[w].seeking = 0
  /\ IsNext(w, n) /\ ingest[w].existing[n] = NoLead
  /\ IF Found(ingest[w].id, n) = {}
     THEN ingest' = [ingest EXCEPT ![w].seeking = n] /\ UNCHANGED home
     ELSE /\ Done(w, n)
          /\ home' = home \cup {<<ingest[w].id, n, LeadOf(ingest[w].id, n)>>}
  /\ UNCHANGED <<import, queue, request, recovery, events, book, text, disturbed, complete, byHand, overlapped>>

\* ... and otherwise a lead is inserted, with no index that would refuse a second one.
InsertLead(w) ==
  /\ ingest[w].pc = "upserting" /\ ingest[w].seeking # 0
  /\ LET n == ingest[w].seeking  row == Row(ingest[w].id, n) IN
       \E r \in Refs :
         /\ book[r] = Book!Absent /\ \A q \in Refs : q < r => book[q] # Book!Absent
         /\ book' = [book EXCEPT ![r] = Book!Entry(row)]
         /\ home' = home \cup {<<ingest[w].id, n, r>>}
         /\ Done(w, n)
  /\ UNCHANGED <<import, queue, request, recovery, events, text, disturbed, complete, byHand, overlapped>>

\* The rows without a lead are looked up again, but for those known by name only.
\* Then each row that has a lead and a message offers it.
Resolve(w) ==
  /\ ingest[w].pc = "upserting" /\ ingest[w].todo = {}
  /\ LET i == ingest[w].id
         f == [n \in Kept[i] |->
                 IF ingest[w].existing[n] = NoLead /\ Book!Kind(Row(i, n)) # "name"
                 THEN LeadOf(i, n) ELSE ingest[w].existing[n]]
     IN /\ ingest' = [ingest EXCEPT ![w] = [@ EXCEPT !.pc = "writing", !.existing = f,
                        !.todo = {n \in Kept[i] : Row(i, n).text /\ f[n] # NoLead}]]
        /\ home' = home \cup Homes(i, f)
  /\ UNCHANGED <<import, queue, request, recovery, events, book, text, disturbed, complete, byHand, overlapped>>

\* Mutant: $set instead of $setOnInsert.
SetText(r) == text' = [text EXCEPT ![r] = "imported"]

\* A message is written only where the lead has none.
InsertText(r) == text' = [text EXCEPT ![r] = IF @ = "none" THEN "imported" ELSE @]

WriteText(w, n) ==
  /\ ingest[w].pc = "writing" /\ IsNext(w, n)
  /\ InsertText(ingest[w].existing[n])
  /\ Done(w, n)
  /\ UNCHANGED <<import, queue, request, recovery, events, book, home, disturbed, complete, byHand, overlapped>>

\* COMPLETED or COMPLETED_WITH_ERRORS, whatever the status is by now.
Complete(w) ==
  /\ ingest[w].pc = "writing" /\ ingest[w].todo = {}
  /\ SetStatus(ingest[w].id, "COMPLETED")
  /\ complete' = complete \cup {ingest[w].id}
  /\ Finish(w)
  /\ UNCHANGED <<request, recovery, events, book, text, home, disturbed, byHand, overlapped>>

\* Anything in the try block may throw, at any point of its writes; the error is
\* recorded, unless the database is what fails, and thrown on to the queue.
IngestThrows(w) ==
  /\ ingest[w].pc \in {"lookingUp", "upserting", "writing"}
  /\ Event
  /\ \/ SetStatus(ingest[w].id, "FAILED")
     \/ UNCHANGED import
  /\ Rethrow(w)
  /\ UNCHANGED <<request, recovery, leadVars>>

------------------------------------------------------------------------------
(* MaintenanceTickService.recoverStuckImports, every five minutes *)

\* Ten minutes go by, and twenty more.
Wait(i) ==
  /\ \/ import[i].status = "QUEUED" /\ import[i].age = 0
     \/ import[i].status = "PROCESSING" /\ import[i].age < 2
  /\ import' = [import EXCEPT ![i].age = @ + 1]
  /\ UNCHANGED <<queue, ingest, request, recovery, events, leadVars>>

StuckQueued(i)     == import[i].status = "QUEUED" /\ import[i].age > 0
StaleProcessing(i) == import[i].status = "PROCESSING" /\ import[i].age = 2

FindStuck(i) ==
  /\ recovery.pc = "idle"
  /\ \/ StuckQueued(i) /\ recovery' = [pc |-> "requeueing", id |-> i, count |-> import[i].requeues]
     \/ StaleProcessing(i) /\ recovery' = [IdleTick EXCEPT !.pc = "failing", !.id = i]
  /\ UNCHANGED <<import, queue, ingest, request, events, leadVars>>

\* The tick writes by id what it decided on the rows it read.
Requeue ==
  /\ recovery.pc = "requeueing" /\ recovery.count < MaxRequeues
  /\ import' = [import EXCEPT ![recovery.id] =
       [status |-> @.status, age |-> IF @.status = "PROCESSING" THEN @.age ELSE 0,
        requeues |-> @.requeues + 1]]
  /\ recovery' = [recovery EXCEPT !.pc = "adding"]
  /\ UNCHANGED <<queue, ingest, request, events, leadVars>>

\* A failed add is logged.
AddAgain ==
  /\ recovery.pc = "adding"
  /\ \/ Add(recovery.id) /\ UNCHANGED events
     \/ Event /\ UNCHANGED queue
  /\ recovery' = IdleTick
  /\ UNCHANGED <<import, ingest, request, leadVars>>

GiveUp ==
  /\ \/ recovery.pc = "requeueing" /\ recovery.count >= MaxRequeues
     \/ recovery.pc = "failing"
  /\ SetStatus(recovery.id, "FAILED")
  /\ recovery' = IdleTick
  /\ UNCHANGED <<queue, ingest, request, events, leadVars>>

------------------------------------------------------------------------------
(* LeadsService: updateMessage, create, update, remove and bulk("delete") *)

EditText(r) ==
  /\ Book!Present(book[r]) /\ text[r] # "edited"
  /\ text' = [text EXCEPT ![r] = "edited"]
  /\ Event
  /\ UNCHANGED <<import, queue, ingest, request, recovery, book, home, disturbed, complete, byHand, overlapped>>

\* create and update write what they are given, whoever has that id or email: no
\* index and no check forbids a second one.  A new lead must have a name.
CreateLead(entered) ==
  /\ Book!Filled(entered.name) /\ Event
  /\ \E r \in Refs :
       /\ book[r] = Book!Absent /\ \A q \in Refs : q < r => book[q] # Book!Absent
       /\ book' = [book EXCEPT ![r] = Book!Entry(entered)]
       /\ byHand' = byHand \cup {r}
  /\ UNCHANGED <<import, queue, ingest, request, recovery, text, home, disturbed, complete, overlapped>>

PatchLead(r, entered) ==
  /\ Book!Present(book[r]) /\ Book!Merge(book[r], entered) # book[r] /\ Event
  /\ book' = [book EXCEPT ![r] = Book!Merge(@, entered)]
  /\ disturbed' = disturbed \cup {r}
  /\ byHand' = byHand \cup {r}
  /\ UNCHANGED <<import, queue, ingest, request, recovery, text, home, complete, overlapped>>

\* remove deletes the lead, then its messages; bulk the messages, then the lead.
RemoveLead(c, r) ==
  /\ Book!Present(book[r])
  /\ request[c].pc = "idle" /\ Event
  /\ request' = [request EXCEPT ![c] = [IdleCall EXCEPT !.pc = "removing", !.ref = r]]
  /\ book' = [book EXCEPT ![r] = Book!Gone]
  /\ disturbed' = disturbed \cup {r}
  /\ UNCHANGED <<import, queue, ingest, recovery, text, home, complete, byHand, overlapped>>

RemoveTexts(c) ==
  /\ request[c].pc = "removing"
  /\ text' = [text EXCEPT ![request[c].ref] = "none"]
  /\ Return(c)
  /\ UNCHANGED <<import, queue, ingest, recovery, events, book, home, disturbed, complete, byHand, overlapped>>

BulkTexts(c, r) ==
  /\ book[r] # Book!Absent
  /\ request[c].pc = "idle" /\ Event
  /\ request' = [request EXCEPT ![c] = [IdleCall EXCEPT !.pc = "bulk", !.ref = r]]
  /\ text' = [text EXCEPT ![r] = "none"]
  /\ disturbed' = disturbed \cup {r}
  /\ UNCHANGED <<import, queue, ingest, recovery, book, home, complete, byHand, overlapped>>

BulkLeads(c) ==
  /\ request[c].pc = "bulk"
  /\ book' = [book EXCEPT ![request[c].ref] = Book!Gone]
  /\ Return(c)
  /\ UNCHANGED <<import, queue, ingest, recovery, events, text, home, disturbed, complete, byHand, overlapped>>

------------------------------------------------------------------------------
CallStep(c) == \/ SaveMapping(c) \/ SaveQueued(c) \/ Enqueue(c) \/ Restore(c)
               \/ RemoveTexts(c) \/ BulkLeads(c)

RunStep(w) == \/ Mark(w) \/ LookUp(w) \/ InsertLead(w) \/ Resolve(w) \/ Complete(w)
              \/ \E n \in ingest[w].todo : UpdateLead(w, n) \/ SeekLead(w, n) \/ WriteText(w, n)

TakeStep(w) == \E i \in Imports, t \in Tasks : Take(w, i, t)

TickStep == (\E i \in Imports : FindStuck(i)) \/ Requeue \/ AddAgain \/ GiveUp

\* What goes on without a user: calls that were begun, the queue, the tick, the clock.
SystemStep ==
  \/ \E c \in Calls : CallStep(c)
  \/ \E w \in Workers : TakeStep(w) \/ RunStep(w)
  \/ \E i \in Imports : Wait(i) \/ \E t \in Tasks : Stalled(i, t)
  \/ TickStep

UserStep ==
  \/ \E c \in Calls : \/ \E i \in Imports : BeginMapping(c, i) \/ BeginStart(c, i)
                      \/ \E r \in Refs : RemoveLead(c, r) \/ BulkTexts(c, r)
  \/ \E r \in Refs : EditText(r)
  \/ \E entered \in Typed : CreateLead(entered) \/ \E r \in Refs : PatchLead(r, entered)

FaultStep == \/ \E c \in Calls : CallDies(c)
             \/ \E w \in Workers : MarkThrows(w) \/ IngestThrows(w) \/ Crash(w)

Next == SystemStep \/ UserStep \/ FaultStep

Spec == Init /\ [][Next]_vars

\* The system does not stand still while there is something for it to do; which
\* part of it moves does not matter, and no user has to do anything.
Fairness == WF_vars(SystemStep)

------------------------------------------------------------------------------
(* Properties *)

Statuses == {"UPLOADED", "MAPPED", "QUEUED", "PROCESSING", "COMPLETED", "FAILED"}

\* The leads that rows of one import were found to be.
Findings == (UNION {[Kept[i] -> 0..MaxLeads] : i \in Imports}) \cup {NoneFound}

WorkerType ==
  [pc : {"idle", "marking", "lookingUp", "upserting", "writing"},
   id : Imports, task : Tasks \cup {0}, locked : BOOLEAN,
   existing : Findings, todo : SUBSET Nat, seeking : Nat]

CallType ==
  [pc : {"idle", "mapping", "queueing", "adding", "restoring", "removing", "bulk"},
   id : Imports, ref : 0..MaxLeads, read : Statuses \cup {"none"}]

TypeOK ==
  /\ import \in [Imports -> [status : Statuses, age : 0..2, requeues : Nat]]
  /\ ingest \in [Workers -> WorkerType]
  /\ request \in [Calls -> CallType]
  /\ recovery \in [pc : {"idle", "requeueing", "adding", "failing"}, id : Imports, count : Nat]
  /\ text \in [Refs -> {"none", "imported", "edited"}]

\* "re-imports are idempotent": however often an import is queued, retried, cut off
\* and started again, two leads never have one lead id, although no index forbids
\* it, unless two runs were under way that the status does not keep apart, or a user
\* entered or changed one of them by hand.
OneLeadPerId ==
  \A q, r \in Refs :
    q # r /\ Book!Present(book[q]) /\ Book!Present(book[r]) /\ Book!Filled(book[q].id)
      => book[q].id # book[r].id \/ overlapped \/ {q, r} \cap byHand # {}

\* The leads are the book LeadBook describes: an import overwrites no text, loses
\* no lead, and is reported complete only when its rows have found their leads.
ImplementsLeadBook == Book!Spec
==============================================================================
