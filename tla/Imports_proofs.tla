---------------------------- MODULE Imports_proofs ----------------------------
(***************************************************************************)
(* What is proved of the imports.                                          *)
(*                                                                         *)
(* Of MarketingImport, for any files, any number of imports, leads,        *)
(* workers, calls and queue jobs and any bounds: it implements the book of *)
(* leads. Most steps are stutters of the book or one of its actions as     *)
(* they stand. What needs an argument is Complete: that every row has      *)
(* found its lead, and the lead its text, must follow from what the run    *)
(* did, although users deleted leads and other runs changed emails         *)
(* meanwhile. The inductive invariant keeps, per run, which rows are       *)
(* settled (RunInv), and that a lead that a row found is still found by    *)
(* it, unless it was disturbed (HomeInv).                                  *)
(*                                                                         *)
(* Of JobImport, for any number of imports, calls, workers, reviews and    *)
(* faults: an import becomes one job. Its invariant is an order of the     *)
(* writes (JobOrder), the first run's solitude (JobFirstRun) and that an   *)
(* unraced confirmation still finds what it checked (JobReady).            *)
(***************************************************************************)
EXTENDS Imports, TLAPS

\* Row n of import i has found a lead.
Settled(i, n) == \E r \in Refs : <<i, n, r>> \in home

\* ... and its text is there, or no longer the import's affair.
HasText(i, n) ==
  \E r \in Refs : <<i, n, r>> \in home /\ (text[r] # "none" \/ r \in disturbed)

\* A run knows where the rows it found are, and has settled those not left to do.
RunInv(w) ==
  LET i == ingest[w].id  todo == ingest[w].todo  f == ingest[w].existing IN
  /\ ingest[w].pc \in {"upserting", "writing"} =>
       /\ f \in [Kept[i] -> 0..MaxLeads]
       /\ todo \subseteq Kept[i]
       /\ \A n \in Kept[i] : f[n] # NoLead => <<i, n, f[n]>> \in home
  /\ ingest[w].seeking # 0 => ingest[w].pc = "upserting" /\ ingest[w].seeking \in todo
  /\ ingest[w].pc = "upserting" => \A n \in Kept[i] \ todo : Settled(i, n)
  /\ ingest[w].pc = "writing" =>
       /\ \A n \in todo : f[n] # NoLead
       /\ \A n \in Kept[i] : Settled(i, n)
       /\ \A n \in Kept[i] : Book!Promised(Row(i, n)) => n \in todo \/ HasText(i, n)

\* A lead that a row found is in the book, and the row would find it again.
HomeInv ==
  /\ home \subseteq {h \in Imports \X Nat \X Refs : h[2] \in Kept[h[1]]}
  /\ \A i \in Imports, r \in Refs : \A n \in Kept[i] : <<i, n, r>> \in home =>
       /\ book[r] # Book!Absent
       /\ Book!Kind(Row(i, n)) # "name" =>
            r \in disturbed \/ Book!Matches(Row(i, n), book[r])

EntryType ==
  [state : {"absent", "present", "gone"}, id : Keys \cup {Blank},
   email : Keys \cup {Blank}, name : Keys \cup {Blank}]

EntryInv ==
  /\ book \in [Refs -> EntryType]
  /\ \A r \in Refs : /\ book[r].state = "absent" => book[r] = Book!Absent
                     /\ book[r].state = "gone" => book[r] = Book!Gone

\* A deletion is about a lead that was disturbed when it began.
CallInv(c) ==
  /\ request[c].pc \in {"removing", "bulk"} =>
       /\ request[c].ref \in Refs
       /\ request[c].ref \in disturbed
       /\ book[request[c].ref] # Book!Absent
  /\ request[c].pc \in {"mapping", "queueing", "adding", "restoring"} =>
       request[c].read \in Statuses

IInv ==
  /\ TypeOK
  /\ EntryInv
  /\ HomeInv
  /\ disturbed \subseteq Refs
  /\ \A c \in Calls : CallInv(c)
  /\ \A w \in Workers : RunInv(w)

------------------------------------------------------------------------------
(* Rows and leads *)

\* The rows an import keeps are rows of its file, counted from 1.
LEMMA KeptRows ==
  ASSUME NEW i \in Imports
  PROVE  /\ Kept[i] \subseteq Book!RowOf(i)
         /\ Kept[i] \subseteq Nat /\ 0 \notin Kept[i]
         /\ \A n \in Kept[i] : Row(i, n) \in RowType
<1>1. File[i] \in Seq(RowType)
  BY FileAssumption
<1>2. Kept[i] \subseteq Book!RowOf(i)
  BY DEF Kept, Book!Kept
<1>3. Book!RowOf(i) = 1..Len(File[i])
  BY <1>1 DEF Book!RowOf
<1>4. \A n \in Book!RowOf(i) : Row(i, n) \in RowType
  BY <1>1, <1>3 DEF Row, Book!Row
<1> QED BY <1>1, <1>2, <1>3, <1>4

\* A row is entered as a lead that it finds.
LEMMA EntryFound ==
  ASSUME NEW rec \in RowType
  PROVE  /\ Book!Entry(rec) \in EntryType
         /\ Book!Present(Book!Entry(rec))
         /\ Book!Matches(rec, Book!Entry(rec))
BY DEF RowType, EntryType, Book!Entry, Book!Present, Book!Matches, Book!Kind, Book!Filled

\* An update keeps the key by which another row finds the lead, but for an email
\* that it replaces.
LEMMA MergeKeeps ==
  ASSUME NEW entry \in EntryType, NEW rec \in RowType, NEW other \in RowType,
         Book!Present(entry),
         Book!Kind(rec) # "name" => Book!Matches(rec, entry),
         Book!Kind(other) # "name", Book!Matches(other, entry),
         ~(/\ Book!Filled(entry.email)
           /\ Book!Merge(entry, rec).email # entry.email)
  PROVE  Book!Matches(other, Book!Merge(entry, rec))
<1> DEFINE merged == Book!Merge(entry, rec)
<1>1. Book!Present(merged)
  BY DEF Book!Merge, Book!Present, EntryType
<1>2. Book!Filled(rec.id) => rec.id = entry.id
  BY DEF Book!Kind, Book!Matches
<1>3. merged.id = entry.id
  BY <1>2 DEF Book!Merge
<1>4. CASE Book!Filled(other.id)
  BY <1>1, <1>3, <1>4 DEF Book!Kind, Book!Matches
<1>5. CASE ~Book!Filled(other.id)
  <2>1. Book!Filled(other.email) /\ Book!Kind(other) = "email"
    BY <1>5 DEF Book!Kind
  <2>2. merged.email = entry.email
    BY <2>1 DEF Book!Matches
  <2> QED BY <1>1, <2>1, <2>2 DEF Book!Matches
<1> QED BY <1>4, <1>5

\* An update leaves a present lead present, and a lead.
LEMMA MergeTyped ==
  ASSUME NEW entry \in EntryType, NEW rec \in RowType, Book!Present(entry)
  PROVE  /\ Book!Merge(entry, rec) \in EntryType
         /\ Book!Present(Book!Merge(entry, rec))
BY DEF RowType, EntryType, Book!Merge, Book!Present

\* The states of an entry exclude each other.
LEMMA EntryStates ==
  /\ ~Book!Present(Book!Absent) /\ ~Book!Present(Book!Gone)
  /\ Book!Absent # Book!Gone
  /\ Book!Absent \in EntryType /\ Book!Gone \in EntryType
  /\ Book!Absent.state = "absent" /\ Book!Gone.state = "gone"
BY DEF Book!Absent, Book!Gone, Book!Blanked, Book!Present, EntryType

\* What a look-up returns matches; it returns nothing only if nothing matches.
LEMMA LeadFound ==
  ASSUME NEW i \in Imports, NEW n \in Kept[i]
  PROVE  /\ LeadOf(i, n) \in 0..MaxLeads
         /\ LeadOf(i, n) # NoLead =>
              LeadOf(i, n) \in Refs /\ Book!Matches(Row(i, n), book[LeadOf(i, n)])
         /\ LeadOf(i, n) = NoLead =>
              \A r \in Refs : ~Book!Matches(Row(i, n), book[r])
<1>1. Found(i, n) \subseteq Refs /\ Refs = 1..MaxLeads
  BY DEF Found, Refs, Book!Refs
<1>2. CASE Found(i, n) = {}
  BY <1>2, BoundsAssumption DEF LeadOf, NoLead, Found
<1>3. CASE Found(i, n) # {}
  <2>1. LeadOf(i, n) \in Found(i, n)
    BY <1>3 DEF LeadOf
  <2> QED BY <1>1, <2>1, BoundsAssumption DEF Found, NoLead
<1> QED BY <1>2, <1>3

------------------------------------------------------------------------------
(* Types *)

ImportType == [status : Statuses, age : 0..2, requeues : Nat]
TickType   == [pc : {"idle", "requeueing", "adding", "failing"}, id : Imports, count : Nat]

\* What a slot, a call and the tick are between two pieces of work.
LEMMA IdleTyped ==
  /\ IdleWorker \in WorkerType /\ IdleWorker.pc = "idle"
  /\ IdleCall \in CallType /\ IdleCall.pc = "idle"
  /\ IdleTick \in TickType
<1>1. AnImport \in Imports
  BY FileAssumption DEF AnImport
<1>2. NoneFound \in Findings
  BY DEF Findings
<1>3. IdleWorker \in WorkerType /\ IdleWorker.pc = "idle"
  BY <1>1, <1>2 DEF IdleWorker, WorkerType
<1>4. IdleCall \in CallType /\ IdleCall.pc = "idle"
  BY <1>1, BoundsAssumption DEF IdleCall, CallType, NoLead
<1>5. IdleTick \in TickType
  BY <1>1 DEF IdleTick, TickType
<1> QED BY <1>3, <1>4, <1>5

\* The conjuncts of TypeOK by the names the proofs use.
LEMMA Parts ==
  ASSUME TypeOK
  PROVE  /\ import \in [Imports -> ImportType] /\ ingest \in [Workers -> WorkerType]
         /\ request \in [Calls -> CallType] /\ recovery \in TickType
         /\ text \in [Refs -> {"none", "imported", "edited"}]
BY DEF TypeOK, ImportType, TickType

\* Writing a status keeps the import an import.
LEMMA StatusTyped ==
  ASSUME TypeOK, NEW i \in Imports, NEW s \in Statuses, SetStatus(i, s)
  PROVE  import' \in [Imports -> ImportType]
<1>1. [status |-> s, age |-> 0, requeues |-> import[i].requeues] \in ImportType
  BY Parts DEF ImportType
<1> QED BY <1>1, Parts DEF SetStatus

\* A run that ends, or is retried, leaves its slot idle.
LEMMA EndIdles ==
  ASSUME NEW w \in Workers, Finish(w) \/ Rethrow(w)
  PROVE  ToIdle(w)
BY DEF Finish, Rethrow

\* A slot that becomes idle keeps the type.
LEMMA WorkerIdles ==
  ASSUME TypeOK, NEW w \in Workers, ToIdle(w)
  PROVE  ingest' \in [Workers -> WorkerType]
BY IdleTyped DEF TypeOK, ToIdle

\* A call that begins, goes on or returns keeps the type.
LEMMA CallMoves ==
  ASSUME TypeOK, NEW c \in Calls,
         \/ Return(c)
         \/ \E pc \in {"adding", "restoring"} : Goto(c, pc)
         \/ \E pc \in {"mapping", "queueing"}, i \in Imports, s \in Statuses : BeginCall(c, pc, i, s)
  PROVE  request' \in [Calls -> CallType]
<1>1. CASE Return(c)
  BY <1>1, Parts, IdleTyped DEF Return
<1>2. ASSUME NEW pc \in {"adding", "restoring"}, Goto(c, pc)
      PROVE  request' \in [Calls -> CallType]
  <2>1. [request[c] EXCEPT !.pc = pc] \in CallType
    BY Parts DEF CallType
  <2> QED BY <1>2, <2>1, Parts DEF Goto
<1>3. ASSUME NEW pc \in {"mapping", "queueing"}, NEW i \in Imports, NEW s \in Statuses,
             BeginCall(c, pc, i, s)
      PROVE  request' \in [Calls -> CallType]
  <2>1. [pc |-> pc, id |-> i, ref |-> NoLead, read |-> s] \in CallType
    BY BoundsAssumption DEF CallType, NoLead
  <2> QED BY <1>3, <2>1, Parts DEF BeginCall
<1> QED BY <1>1, <1>2, <1>3

\* ... and back: TypeOK' from the types of the variables.
LEMMA TypeFromParts ==
  ASSUME import' \in [Imports -> ImportType], ingest' \in [Workers -> WorkerType],
         request' \in [Calls -> CallType], recovery' \in TickType,
         text' \in [Refs -> {"none", "imported", "edited"}]
  PROVE  TypeOK'
BY DEF TypeOK, ImportType, TickType

\* The API's part of an import.
LEMMA CallTypes ==
  ASSUME TypeOK, NEW c \in Calls, CallInv(c),
         \/ SaveMapping(c) \/ SaveQueued(c) \/ Enqueue(c) \/ Restore(c) \/ CallDies(c)
         \/ \E i \in Imports : BeginMapping(c, i) \/ BeginStart(c, i)
  PROVE  TypeOK'
<1> USE Parts
<1>1. ASSUME NEW i \in Imports, BeginMapping(c, i) \/ BeginStart(c, i)
      PROVE  TypeOK'
  <2>1. import[i].status \in Statuses
    BY DEF ImportType
  <2>2. request' \in [Calls -> CallType]
    BY <1>1, <2>1, CallMoves DEF BeginMapping, BeginStart
  <2> QED BY <1>1, <2>2, TypeFromParts DEF BeginMapping, BeginStart, leadVars
<1>2. CASE SaveMapping(c)
  <2>1. request[c].id \in Imports
    BY DEF CallType
  <2>2. CASE request[c].read = "UPLOADED"
    BY <1>2, <2>1, <2>2, CallMoves, StatusTyped, TypeFromParts
    DEF SaveMapping, Statuses, leadVars
  <2>3. CASE request[c].read # "UPLOADED"
    <3>1. import' \in [Imports -> ImportType]
      BY <1>2, <2>1, <2>3 DEF SaveMapping, ImportType
    <3> QED BY <1>2, <3>1, CallMoves, TypeFromParts DEF SaveMapping, leadVars
  <2> QED BY <2>2, <2>3
<1>3. CASE SaveQueued(c)
  <2>1. request[c].id \in Imports
    BY DEF CallType
  <2> QED BY <1>3, <2>1, CallMoves, StatusTyped, TypeFromParts DEF SaveQueued, Statuses, leadVars
<1>4. CASE Enqueue(c)
  BY <1>4, CallMoves, TypeFromParts DEF Enqueue, leadVars
<1>5. CASE Restore(c)
  <2>1. request[c].id \in Imports /\ request[c].read \in Statuses
    BY <1>5 DEF CallType, CallInv, Restore
  <2> QED BY <1>5, <2>1, CallMoves, StatusTyped, TypeFromParts DEF Restore, leadVars
<1>6. CASE CallDies(c)
  BY <1>6, CallMoves, TypeFromParts DEF CallDies, leadVars
<1> QED BY <1>1, <1>2, <1>3, <1>4, <1>5, <1>6

\* The maintenance tick's part.
LEMMA TickTypes ==
  ASSUME TypeOK,
         TickStep \/ \E i \in Imports : Wait(i)
  PROVE  TypeOK'
<1> USE Parts
<1>0. recovery.id \in Imports /\ recovery.count \in Nat
  BY DEF TickType
<1>1. ASSUME NEW i \in Imports, Wait(i) PROVE TypeOK'
  <2>1. import' \in [Imports -> ImportType]
    BY <1>1 DEF Wait, ImportType
  <2> QED BY <1>1, <2>1, TypeFromParts DEF Wait, leadVars
<1>2. ASSUME NEW i \in Imports, FindStuck(i) PROVE TypeOK'
  <2>1. [pc |-> "requeueing", id |-> i, count |-> import[i].requeues] \in TickType
    BY DEF TickType, ImportType
  <2>2. [IdleTick EXCEPT !.pc = "failing", !.id = i] \in TickType
    BY IdleTyped DEF TickType
  <2>3. recovery' \in TickType
    BY <1>2, <2>1, <2>2 DEF FindStuck
  <2> QED BY <1>2, <2>3, TypeFromParts DEF FindStuck, leadVars
<1>3. CASE Requeue
  <2> DEFINE rec == import[recovery.id]
  <2>0. [status |-> rec.status, age |-> IF rec.status = "PROCESSING" THEN rec.age ELSE 0,
         requeues |-> rec.requeues + 1] \in ImportType
    BY <1>0 DEF ImportType
  <2>1. import' \in [Imports -> ImportType]
    BY <1>0, <1>3, <2>0 DEF Requeue
  <2>2. recovery' \in TickType
    BY <1>3 DEF Requeue, TickType
  <2> QED BY <1>3, <2>1, <2>2, TypeFromParts DEF Requeue, leadVars
<1>4. CASE AddAgain
  BY <1>4, IdleTyped, TypeFromParts DEF AddAgain, leadVars
<1>5. CASE GiveUp
  BY <1>0, <1>5, IdleTyped, StatusTyped, TypeFromParts DEF GiveUp, Statuses, leadVars
<1> QED BY <1>1, <1>2, <1>3, <1>4, <1>5 DEF TickStep

\* The queue's part, and how a run begins and ends.
LEMMA QueueTypes ==
  ASSUME TypeOK,
         \/ \E i \in Imports, t \in Tasks : Stalled(i, t)
         \/ \E w \in Workers : \/ TakeStep(w) \/ Mark(w) \/ Complete(w)
                               \/ Crash(w) \/ MarkThrows(w) \/ IngestThrows(w)
  PROVE  TypeOK'
<1> USE Parts
<1>1. ASSUME NEW i \in Imports, NEW t \in Tasks, Stalled(i, t) PROVE TypeOK'
  <2>0. \A w \in Workers, l \in BOOLEAN : [ingest[w] EXCEPT !.locked = l] \in WorkerType
    BY DEF WorkerType
  <2>1. ingest' \in [Workers -> WorkerType]
    BY <1>1, <2>0 DEF Stalled, WorkerType
  <2> QED BY <1>1, <2>1, TypeFromParts DEF Stalled, leadVars
<1>2. ASSUME NEW w \in Workers, NEW i \in Imports, NEW t \in Tasks, Take(w, i, t) PROVE TypeOK'
  <2>0. [IdleWorker EXCEPT !.pc = "marking", !.id = i, !.task = t, !.locked = TRUE] \in WorkerType
    BY IdleTyped DEF WorkerType
  <2>1. ingest' \in [Workers -> WorkerType]
    BY <1>2, <2>0 DEF Take
  <2> QED BY <1>2, <2>1, TypeFromParts DEF Take
<1>3. ASSUME NEW w \in Workers,
             Mark(w) \/ Complete(w) \/ Crash(w) \/ MarkThrows(w) \/ IngestThrows(w)
      PROVE  TypeOK'
  <2>1. ingest[w].id \in Imports
    BY DEF WorkerType
  <2>2. CASE Mark(w)
    <3>1. ingest' \in [Workers -> WorkerType]
      BY <2>2 DEF Mark, WorkerType
    <3> QED BY <2>1, <2>2, <3>1, StatusTyped, TypeFromParts DEF Mark, Statuses, leadVars
  <2>3. CASE Complete(w)
    BY <2>1, <2>3, EndIdles, WorkerIdles, StatusTyped, TypeFromParts DEF Complete, Statuses
  <2>4. CASE Crash(w)
    BY <2>4, WorkerIdles, TypeFromParts DEF Crash, leadVars
  <2>5. CASE MarkThrows(w)
    BY <2>5, EndIdles, WorkerIdles, TypeFromParts DEF MarkThrows, leadVars
  <2>6. CASE IngestThrows(w)
    BY <2>1, <2>6, EndIdles, WorkerIdles, StatusTyped, TypeFromParts
    DEF IngestThrows, Statuses, leadVars
  <2> QED BY <1>3, <2>2, <2>3, <2>4, <2>5, <2>6
<1> QED BY <1>1, <1>2, <1>3 DEF TakeStep

------------------------------------------------------------------------------
(* What is left alone keeps its invariant *)

SameRun(w) == /\ ingest'[w].pc = ingest[w].pc /\ ingest'[w].id = ingest[w].id
              /\ ingest'[w].existing = ingest[w].existing
              /\ ingest'[w].todo = ingest[w].todo /\ ingest'[w].seeking = ingest[w].seeking

Early(w) == ingest'[w].pc \in {"idle", "marking", "lookingUp"} /\ ingest'[w].seeking = 0

\* What rows found is not forgotten, and a text goes only from a disturbed lead.
Keeping == /\ home \subseteq home' /\ disturbed \subseteq disturbed'
           /\ \A r \in Refs : text[r] # "none" => text'[r] # "none" \/ r \in disturbed'

\* A row that is settled, or has its text, stays so.
LEMMA RowsKept ==
  ASSUME Keeping, NEW i, NEW n
  PROVE  /\ Settled(i, n) => Settled(i, n)'
         /\ HasText(i, n) => HasText(i, n)'
BY DEF Keeping, Settled, HasText, Refs, Book!Refs

\* A run that is not touched keeps its invariant.
LEMMA RunStays ==
  ASSUME NEW w \in Workers, TypeOK, RunInv(w), Keeping, SameRun(w)
  PROVE  RunInv(w)'
<1>1. ingest[w].id \in Imports
  BY DEF TypeOK, WorkerType
<1> QED BY <1>1, RowsKept DEF RunInv, SameRun, Keeping, NoLead, Kept, Row, Book!Kept, Book!Row

\* A run that has not looked anything up yet has nothing to keep.
LEMMA RunEarly ==
  ASSUME NEW w \in Workers, Early(w)
  PROVE  RunInv(w)'
BY DEF RunInv, Early

\* A call that is not touched keeps its invariant.
LEMMA CallStays ==
  ASSUME NEW c \in Calls, CallInv(c), request'[c] = request[c],
         disturbed \subseteq disturbed',
         \A r \in Refs : book[r] # Book!Absent => book'[r] # Book!Absent
  PROVE  CallInv(c)'
BY DEF CallInv, Refs, Book!Refs, Book!Absent, Book!Blanked

\* The rows' leads are kept while the book is.
LEMMA HomeStays ==
  ASSUME HomeInv, UNCHANGED <<home, book>>, disturbed \subseteq disturbed'
  PROVE  HomeInv'
BY DEF HomeInv, Kept, Row, Refs, Book!Kept, Book!Row, Book!Refs, Book!Absent, Book!Blanked,
       Book!Kind, Book!Matches, Book!Present

\* The entries are kept while the book is.
LEMMA EntryStays ==
  ASSUME EntryInv, UNCHANGED book
  PROVE  EntryInv'
BY DEF EntryInv, EntryType, Refs, Book!Refs, Book!Absent, Book!Gone, Book!Blanked

\* A step that leaves the leads alone.
LEMMA Calm ==
  ASSUME IInv, TypeOK', UNCHANGED <<book, text, home, disturbed>>,
         \A w \in Workers : SameRun(w) \/ Early(w),
         \A c \in Calls : CallInv(c)'
  PROVE  IInv'
<1>1. Keeping
  BY DEF Keeping
<1>2. \A w \in Workers : RunInv(w)'
  BY <1>1, RunStays, RunEarly DEF IInv
<1>3. HomeInv' /\ EntryInv'
  BY HomeStays, EntryStays DEF IInv
<1>4. (disturbed \subseteq Refs)'
  BY DEF IInv, Refs, Book!Refs
<1> QED BY <1>2, <1>3, <1>4 DEF IInv

\* No call moves.
LEMMA CallsStay ==
  ASSUME IInv, UNCHANGED <<request, book, disturbed>>
  PROVE  \A c \in Calls : CallInv(c)'
BY CallStays DEF IInv

\* No run moves.
LEMMA RunsStay ==
  ASSUME UNCHANGED ingest
  PROVE  \A w \in Workers : SameRun(w) \/ Early(w)
BY DEF SameRun

\* A run ends and the others stay.
LEMMA RunEnds ==
  ASSUME TypeOK, NEW w \in Workers, ToIdle(w)
  PROVE  \A v \in Workers : SameRun(v) \/ Early(v)
<1>1. ingest'[w] = IdleWorker /\ \A v \in Workers \ {w} : ingest'[v] = ingest[v]
  BY Parts DEF ToIdle
<1>2. IdleWorker.pc = "idle" /\ IdleWorker.seeking = 0
  BY DEF IdleWorker
<1> QED BY <1>1, <1>2 DEF SameRun, Early

\* A call that is over is about nothing; the others go on as they were.
LEMMA CallsMove ==
  ASSUME IInv, NEW c \in Calls, NEW rec \in CallType,
         request' = [request EXCEPT ![c] = rec],
         rec.pc \notin {"removing", "bulk"},
         rec.pc \in {"mapping", "queueing", "adding", "restoring"} => rec.read \in Statuses,
         disturbed \subseteq disturbed',
         \A r \in Refs : book[r] # Book!Absent => book'[r] # Book!Absent
  PROVE  \A d \in Calls : CallInv(d)'
<1>1. request'[c] = rec /\ \A d \in Calls \ {c} : request'[d] = request[d]
  BY Parts DEF IInv
<1>2. CallInv(c)'
  BY <1>1 DEF CallInv, Statuses
<1>3. \A d \in Calls \ {c} : CallInv(d)'
  BY <1>1, CallStays DEF IInv
<1> QED BY <1>2, <1>3

------------------------------------------------------------------------------
(* The steps that the book of leads does not see *)

LeadsAlone == UNCHANGED <<book, text, home, disturbed, complete, byHand>>

\* A call returns.
LEMMA ReturnsIdle ==
  ASSUME IInv, NEW c \in Calls, Return(c), LeadsAlone
  PROVE  \A d \in Calls : CallInv(d)'
<1>1. IdleCall \in CallType /\ IdleCall.pc = "idle"
  BY IdleTyped
<1> QED BY <1>1, CallsMove DEF Return, LeadsAlone

\* A start goes on to add its job, or to restore the status.
LEMMA GoesOn ==
  ASSUME IInv, NEW c \in Calls, NEW pc \in {"adding", "restoring"}, Goto(c, pc), LeadsAlone,
         request[c].read \in Statuses
  PROVE  \A d \in Calls : CallInv(d)'
<1> DEFINE rec == [request[c] EXCEPT !.pc = pc]
<1>1. rec \in CallType /\ rec.pc = pc /\ rec.read = request[c].read
  BY Parts DEF IInv, CallType
<1>2. request' = [request EXCEPT ![c] = rec]
  BY DEF Goto
<1> HIDE DEF rec
<1> QED BY <1>1, <1>2, CallsMove DEF LeadsAlone

\* The API's part of an import.
LEMMA CallCalm ==
  ASSUME IInv, NEW c \in Calls,
         \/ SaveMapping(c) \/ SaveQueued(c) \/ Enqueue(c) \/ Restore(c) \/ CallDies(c)
         \/ \E i \in Imports : BeginMapping(c, i) \/ BeginStart(c, i)
  PROVE  IInv' /\ LeadsAlone
<1>1. TypeOK' /\ UNCHANGED ingest /\ LeadsAlone
  <2>1. TypeOK'
    BY CallTypes DEF IInv
  <2> QED BY <2>1 DEF SaveMapping, SaveQueued, Enqueue, Restore, CallDies, BeginMapping,
             BeginStart, leadVars, LeadsAlone
<1>2. \A d \in Calls : CallInv(d)'
  <2>1. ASSUME NEW i \in Imports, BeginMapping(c, i) \/ BeginStart(c, i)
        PROVE  \A d \in Calls : CallInv(d)'
    <3> PICK pc \in {"mapping", "queueing"} : BeginCall(c, pc, i, import[i].status)
      BY <2>1 DEF BeginMapping, BeginStart
    <3> DEFINE rec == [pc |-> pc, id |-> i, ref |-> NoLead, read |-> import[i].status]
    <3>1. import[i].status \in Statuses
      BY Parts DEF IInv, ImportType
    <3>2. rec \in CallType /\ rec.pc = pc /\ rec.read \in Statuses
      BY <3>1, BoundsAssumption DEF CallType, NoLead
    <3>3. request' = [request EXCEPT ![c] = rec]
      BY DEF BeginCall
    <3> HIDE DEF rec
    <3> QED BY <1>1, <3>2, <3>3, CallsMove DEF LeadsAlone
  <2>2. CASE SaveMapping(c) \/ Restore(c) \/ CallDies(c)
    BY <1>1, <2>2, ReturnsIdle DEF SaveMapping, Restore, CallDies
  <2>3. CASE SaveQueued(c) \/ Enqueue(c)
    <3>1. request[c].read \in Statuses
      BY <2>3 DEF IInv, CallInv, SaveQueued, Enqueue
    <3> QED BY <1>1, <2>3, <3>1, ReturnsIdle, GoesOn DEF SaveQueued, Enqueue
  <2> QED BY <2>1, <2>2, <2>3
<1> QED BY <1>1, <1>2, RunsStay, Calm DEF LeadsAlone

\* The maintenance tick and the clock.
LEMMA TickCalm ==
  ASSUME IInv, TickStep \/ \E i \in Imports : Wait(i)
  PROVE  IInv' /\ LeadsAlone
<1>1. TypeOK'
  BY TickTypes DEF IInv
<1>2. LeadsAlone /\ UNCHANGED <<ingest, request>>
  BY DEF TickStep, Wait, FindStuck, Requeue, AddAgain, GiveUp, leadVars, LeadsAlone
<1> QED BY <1>1, <1>2, RunsStay, CallsStay, Calm DEF LeadsAlone

\* A run's beginning and its failures, and the queue.
LEMMA QueueCalm ==
  ASSUME IInv,
         \/ \E i \in Imports, t \in Tasks : Stalled(i, t)
         \/ \E w \in Workers : \/ TakeStep(w) \/ Mark(w)
                               \/ Crash(w) \/ MarkThrows(w) \/ IngestThrows(w)
  PROVE  IInv' /\ LeadsAlone
<1>1. TypeOK'
  BY QueueTypes DEF IInv
<1>2. LeadsAlone /\ UNCHANGED request
  BY DEF Stalled, TakeStep, Take, Mark, Crash, MarkThrows, IngestThrows, leadVars, LeadsAlone
<1>3. \A v \in Workers : SameRun(v) \/ Early(v)
  <2>0. ingest \in [Workers -> WorkerType]
    BY Parts DEF IInv
  <2>1. ASSUME NEW i \in Imports, NEW t \in Tasks, Stalled(i, t)
        PROVE  \A v \in Workers : SameRun(v)
    BY <2>0, <2>1 DEF Stalled, SameRun, WorkerType
  <2>2. ASSUME NEW w \in Workers, NEW i \in Imports, NEW t \in Tasks, Take(w, i, t)
        PROVE  \A v \in Workers : SameRun(v) \/ Early(v)
    <3> DEFINE rec == [IdleWorker EXCEPT !.pc = "marking", !.id = i, !.task = t, !.locked = TRUE]
    <3>1. rec.pc = "marking" /\ rec.seeking = 0
      BY DEF IdleWorker
    <3>2. UNCHANGED ingest \/ ingest' = [ingest EXCEPT ![w] = rec]
      BY <2>2 DEF Take
    <3> HIDE DEF rec
    <3> QED BY <2>0, <3>1, <3>2 DEF SameRun, Early
  <2>3. ASSUME NEW w \in Workers, Mark(w)
        PROVE  \A v \in Workers : SameRun(v) \/ Early(v)
    <3>1. ingest[w].seeking = 0
      BY <2>3 DEF IInv, RunInv, Mark
    <3>2. ingest'[w].pc = "lookingUp" /\ ingest'[w].seeking = ingest[w].seeking
      BY <2>0, <2>3 DEF Mark, WorkerType
    <3>3. \A v \in Workers \ {w} : ingest'[v] = ingest[v]
      BY <2>0, <2>3 DEF Mark
    <3> QED BY <3>1, <3>2, <3>3 DEF SameRun, Early
  <2>4. ASSUME NEW w \in Workers, Crash(w) \/ MarkThrows(w) \/ IngestThrows(w)
        PROVE  \A v \in Workers : SameRun(v) \/ Early(v)
    <3>1. ToIdle(w)
      BY <2>4, EndIdles DEF Crash, MarkThrows, IngestThrows
    <3> QED BY <3>1, RunEnds DEF IInv
  <2> QED BY <2>1, <2>2, <2>3, <2>4 DEF TakeStep
<1> QED BY <1>1, <1>2, <1>3, CallsStay, Calm DEF LeadsAlone

------------------------------------------------------------------------------
(* The steps of a run that deal with leads *)

\* A run goes on with another record; the other slots keep theirs.
LEMMA RunGoesOn ==
  ASSUME IInv, NEW w \in Workers, NEW rec \in WorkerType,
         ingest' = [ingest EXCEPT ![w] = rec], RunInv(w)', Keeping
  PROVE  /\ ingest' \in [Workers -> WorkerType]
         /\ ingest'[w] = rec
         /\ \A v \in Workers : RunInv(v)'
<1>1. ingest \in [Workers -> WorkerType]
  BY Parts DEF IInv
<1>2. \A v \in Workers \ {w} : SameRun(v)
  BY <1>1 DEF SameRun
<1>3. \A v \in Workers \ {w} : RunInv(v)'
  BY <1>2, RunStays DEF IInv
<1> QED BY <1>1, <1>3

\* Rows that find leads.
LEMMA NewHomes ==
  ASSUME IInv, NEW N, home' = home \cup N,
         \A h \in N \ home : /\ h \in Imports \X Nat \X Refs /\ h[2] \in Kept[h[1]]
                             /\ Book!Matches(Row(h[1], h[2]), book[h[3]]),
         UNCHANGED <<book, text, disturbed, complete, byHand>>
  PROVE  HomeInv' /\ EntryInv' /\ Keeping /\ Book!Find
<1>1. Book!Find
  BY DEF Book!Find, Row
<1>2. Keeping
  BY DEF Keeping
<1>3. EntryInv'
  BY EntryStays DEF IInv
<1>4. home' \subseteq {h \in Imports \X Nat \X Refs : h[2] \in Kept[h[1]]}
  BY DEF IInv, HomeInv
<1>5. ASSUME NEW i \in Imports, NEW r \in Refs, NEW n \in Kept[i], <<i, n, r>> \in N \ home
      PROVE  book[r] # Book!Absent /\ Book!Matches(Row(i, n), book[r])
  BY <1>5, EntryStates DEF Book!Matches
<1>6. ASSUME NEW i \in Imports, NEW r \in Refs, NEW n \in Kept[i], <<i, n, r>> \in home'
      PROVE  /\ book[r] # Book!Absent
             /\ Book!Kind(Row(i, n)) # "name" =>
                  r \in disturbed \/ Book!Matches(Row(i, n), book[r])
  BY <1>5, <1>6 DEF IInv, HomeInv
<1>7. HomeInv'
  <2>1. (home \subseteq {h \in Imports \X Nat \X Refs : h[2] \in Kept[h[1]]})'
    BY <1>4 DEF Kept, Row, Refs, Book!Kept, Book!Row, Book!Refs
  <2>2. ASSUME NEW i \in Imports, NEW r \in Refs, NEW n \in Kept[i], <<i, n, r>> \in home'
        PROVE  (/\ book[r] # Book!Absent
                /\ Book!Kind(Row(i, n)) # "name" =>
                     r \in disturbed \/ Book!Matches(Row(i, n), book[r]))'
    <3>1. /\ book[r] # Book!Absent
          /\ Book!Kind(Row(i, n)) # "name" =>
               r \in disturbed \/ Book!Matches(Row(i, n), book[r])
      BY <1>6, <2>2
    <3> QED BY <3>1 DEF Row, Book!Row, Book!Absent, Book!Blanked, Book!Kind, Book!Matches,
               Book!Present, Book!Filled
  <2> QED BY <2>1, <2>2 DEF HomeInv, Kept, Row, Refs, Book!Kept, Book!Row, Book!Refs
<1> QED BY <1>1, <1>2, <1>3, <1>7

\* The rows of an import that a look-up found, and that a run found before.
LEMMA FoundHomes ==
  ASSUME NEW i \in Imports, NEW f \in [Kept[i] -> 0..MaxLeads],
         \A n \in Kept[i] : f[n] # NoLead =>
           <<i, n, f[n]>> \in home \/ Book!Matches(Row(i, n), book[f[n]])
  PROVE  /\ \A h \in Homes(i, f) \ home :
              /\ h \in Imports \X Nat \X Refs /\ h[2] \in Kept[h[1]]
              /\ Book!Matches(Row(h[1], h[2]), book[h[3]])
         /\ \A n \in Kept[i] : f[n] # NoLead => <<i, n, f[n]>> \in Homes(i, f) /\ f[n] \in Refs
<1>1. \A n \in Kept[i] : f[n] # NoLead => f[n] \in Refs
  BY BoundsAssumption DEF NoLead, Refs, Book!Refs
<1> QED BY <1>1, KeptRows DEF Homes

\* A look-up's result is one that the slots can hold.
LEMMA FindingsTyped ==
  ASSUME NEW i \in Imports, NEW f \in [Kept[i] -> 0..MaxLeads]
  PROVE  f \in Findings
BY DEF Findings

\* What a run that upserts, or writes, has to know.
LEMMA RunUpserts ==
  ASSUME NEW w \in Workers, NEW i \in Imports, NEW f \in [Kept[i] -> 0..MaxLeads],
         NEW todo \in SUBSET Kept[i],
         ingest'[w].pc = "upserting", ingest'[w].id = i, ingest'[w].existing = f,
         ingest'[w].todo = todo, ingest'[w].seeking \in todo \cup {0},
         \A n \in Kept[i] : f[n] # NoLead => <<i, n, f[n]>> \in home',
         \A n \in Kept[i] \ todo : Settled(i, n)'
  PROVE  RunInv(w)'
BY KeptRows DEF RunInv, Kept, Book!Kept

\* ... and a run that writes texts.
LEMMA RunWrites ==
  ASSUME NEW w \in Workers, NEW i \in Imports, NEW f \in [Kept[i] -> 0..MaxLeads],
         NEW todo \in SUBSET Kept[i],
         ingest'[w].pc = "writing", ingest'[w].id = i, ingest'[w].existing = f,
         ingest'[w].todo = todo, ingest'[w].seeking = 0,
         \A n \in Kept[i] : f[n] # NoLead => <<i, n, f[n]>> \in home',
         \A n \in todo : f[n] # NoLead,
         \A n \in Kept[i] : Settled(i, n)',
         \A n \in Kept[i] : Book!Promised(Row(i, n)) => n \in todo \/ HasText(i, n)'
  PROVE  RunInv(w)'
BY KeptRows DEF RunInv, Kept, Book!Kept, Row, Book!Row, Book!Promised, Book!Kind, Book!Filled

\* Nothing but the run's own record, the leads and their history changes.
LEMMA RunTyped ==
  ASSUME IInv, ingest' \in [Workers -> WorkerType],
         UNCHANGED <<import, request, recovery>>,
         text' \in [Refs -> {"none", "imported", "edited"}]
  PROVE  TypeOK'
BY Parts, TypeFromParts DEF IInv

\* A run looks up the leads of its rows.
LEMMA LookUpStep ==
  ASSUME IInv, NEW w \in Workers, LookUp(w)
  PROVE  IInv' /\ Book!Find
<1>1. PICK i \in Imports : i = ingest[w].id
  BY Parts DEF IInv, WorkerType
<1>2. PICK f \in [Kept[i] -> 0..MaxLeads] : f = [n \in Kept[i] |-> LeadOf(i, n)]
  BY LeadFound
<1>3. \A n \in Kept[i] : f[n] # NoLead => Book!Matches(Row(i, n), book[f[n]])
  BY <1>2, LeadFound
<1>4. PICK rec : rec = [ingest[w] EXCEPT !.pc = "upserting", !.existing = f, !.todo = Kept[i]]
  OBVIOUS
<1>5. /\ ingest' = [ingest EXCEPT ![w] = rec]
      /\ home' = home \cup Homes(i, f)
      /\ UNCHANGED <<import, request, recovery, book, text, disturbed, complete, byHand>>
  BY <1>1, <1>2, <1>4 DEF LookUp
<1>6. /\ rec.pc = "upserting" /\ rec.id = i /\ rec.existing = f /\ rec.todo = Kept[i]
      /\ rec.seeking = 0 /\ rec \in WorkerType
  <2>1. ingest[w] \in WorkerType /\ ingest[w].seeking = 0
    BY Parts DEF IInv, RunInv, LookUp
  <2> QED BY <1>1, <1>4, <2>1, FindingsTyped, KeptRows DEF WorkerType
<1>7. HomeInv' /\ EntryInv' /\ Keeping /\ Book!Find
  BY <1>3, <1>5, FoundHomes, NewHomes
<1>8. ingest'[w] = rec
  BY <1>5, Parts DEF IInv
<1>9. RunInv(w)'
  <2>1. \A n \in Kept[i] : f[n] # NoLead => <<i, n, f[n]>> \in home'
    BY <1>3, <1>5, FoundHomes
  <2> QED BY <1>6, <1>8, <2>1, RunUpserts
<1>10. ingest' \in [Workers -> WorkerType] /\ \A v \in Workers : RunInv(v)'
  BY <1>5, <1>6, <1>7, <1>9, RunGoesOn
<1>11. TypeOK'
  BY <1>5, <1>10, RunTyped, Parts DEF IInv, Refs, Book!Refs
<1>12. \A c \in Calls : CallInv(c)'
  BY <1>5, CallsStay
<1> QED BY <1>5, <1>7, <1>10, <1>11, <1>12 DEF IInv, Refs, Book!Refs

\* A run that looked the rows up again knows all leads of its rows; a promised text
\* is left to write, unless the row's lead was disturbed.
LEMMA ResolveStep ==
  ASSUME IInv, NEW w \in Workers, Resolve(w)
  PROVE  IInv' /\ Book!Find
<1>1. PICK i \in Imports : i = ingest[w].id
  BY Parts DEF IInv, WorkerType
<1>2. PICK e \in [Kept[i] -> 0..MaxLeads] :
        /\ e = ingest[w].existing
        /\ \A n \in Kept[i] : e[n] # NoLead => <<i, n, e[n]>> \in home
  BY <1>1 DEF IInv, RunInv, Resolve
<1>3. \A n \in Kept[i] : Settled(i, n)
  BY <1>1 DEF IInv, RunInv, Resolve
<1>4. PICK f \in [Kept[i] -> 0..MaxLeads] :
        f = [n \in Kept[i] |-> IF e[n] = NoLead /\ Book!Kind(Row(i, n)) # "name"
                               THEN LeadOf(i, n) ELSE e[n]]
  BY <1>2, LeadFound
<1>5. \A n \in Kept[i] : f[n] # NoLead =>
        <<i, n, f[n]>> \in home \/ Book!Matches(Row(i, n), book[f[n]])
  BY <1>2, <1>4, LeadFound
<1>6. PICK left \in SUBSET Kept[i] : left = {n \in Kept[i] : Row(i, n).text /\ f[n] # NoLead}
  OBVIOUS
<1>7. PICK rec : rec = [ingest[w] EXCEPT !.pc = "writing", !.existing = f, !.todo = left]
  OBVIOUS
<1>8. /\ ingest' = [ingest EXCEPT ![w] = rec]
      /\ home' = home \cup Homes(i, f)
      /\ UNCHANGED <<import, request, recovery, book, text, disturbed, complete, byHand>>
  BY <1>1, <1>2, <1>4, <1>6, <1>7 DEF Resolve
<1>9. ASSUME NEW n \in Kept[i], Book!Promised(Row(i, n)), f[n] = NoLead
      PROVE  HasText(i, n)
  <2>1. LeadOf(i, n) = NoLead /\ Book!Kind(Row(i, n)) # "name"
    BY <1>4, <1>9 DEF Book!Promised
  <2>2. PICK r \in Refs : <<i, n, r>> \in home
    BY <1>3 DEF Settled
  <2>3. ~Book!Matches(Row(i, n), book[r])
    BY <2>1, LeadFound
  <2>4. r \in disturbed
    BY <2>1, <2>2, <2>3 DEF IInv, HomeInv
  <2> QED BY <2>2, <2>4 DEF HasText
<1>10. /\ rec.pc = "writing" /\ rec.id = i /\ rec.existing = f /\ rec.todo = left
       /\ rec.seeking = 0 /\ rec \in WorkerType
  <2>1. ingest[w] \in WorkerType /\ ingest[w].seeking = 0
    BY Parts, KeptRows DEF IInv, RunInv, Resolve
  <2> QED BY <1>1, <1>7, <2>1, FindingsTyped, KeptRows DEF WorkerType
<1>11. HomeInv' /\ EntryInv' /\ Keeping /\ Book!Find
  BY <1>5, <1>8, FoundHomes, NewHomes
<1>12. ingest'[w] = rec
  BY <1>8, Parts DEF IInv
<1>13. RunInv(w)'
  <2>1. \A n \in Kept[i] : f[n] # NoLead => <<i, n, f[n]>> \in home'
    BY <1>5, <1>8, FoundHomes
  <2>2. \A n \in Kept[i] : Settled(i, n)'
    BY <1>3, <1>11, RowsKept
  <2>3. \A n \in Kept[i] : Book!Promised(Row(i, n)) => n \in left \/ HasText(i, n)'
    BY <1>6, <1>9, <1>11, RowsKept DEF Book!Promised
  <2> QED BY <1>6, <1>10, <1>12, <2>1, <2>2, <2>3, RunWrites
<1>14. ingest' \in [Workers -> WorkerType] /\ \A v \in Workers : RunInv(v)'
  BY <1>8, <1>10, <1>11, <1>13, RunGoesOn
<1>15. TypeOK'
  BY <1>8, <1>14, RunTyped, Parts DEF IInv, Refs, Book!Refs
<1>16. \A c \in Calls : CallInv(c)'
  BY <1>8, CallsStay
<1> QED BY <1>8, <1>11, <1>14, <1>15, <1>16 DEF IInv, Refs, Book!Refs

\* A lead that gets another entry, and what is unchanged by it.
LEMMA EntryChanges ==
  ASSUME EntryInv, NEW r \in Refs, NEW e \in EntryType, book' = [book EXCEPT ![r] = e],
         e.state = "absent" => e = Book!Absent, e.state = "gone" => e = Book!Gone
  PROVE  /\ EntryInv'
         /\ book'[r] = e
         /\ \A q \in Refs \ {r} : book'[q] = book[q]
<1>1. book'[r] = e /\ \A q \in Refs \ {r} : book'[q] = book[q]
  BY DEF EntryInv
<1>2. book' \in [Refs -> EntryType]
  BY DEF EntryInv
<1>3. \A q \in Refs : /\ book'[q].state = "absent" => book'[q] = Book!Absent
                      /\ book'[q].state = "gone" => book'[q] = Book!Gone
  BY <1>1 DEF EntryInv
<1> QED BY <1>1, <1>2, <1>3 DEF EntryInv, EntryType, Refs, Book!Refs, Book!Absent, Book!Gone,
           Book!Blanked

\* The rows that found another lead than the one that changed still find it.
LEMMA HomeChanges ==
  ASSUME HomeInv, NEW r \in Refs,
         \A q \in Refs \ {r} : book'[q] = book[q],
         \A h \in home' : /\ h \in Imports \X Nat \X Refs /\ h[2] \in Kept[h[1]]
                          /\ h[3] # r => h \in home,
         disturbed \subseteq disturbed',
         \A i \in Imports : \A n \in Kept[i] : <<i, n, r>> \in home' =>
           /\ book'[r] # Book!Absent
           /\ Book!Kind(Row(i, n)) # "name" =>
                r \in disturbed' \/ Book!Matches(Row(i, n), book'[r])
  PROVE  HomeInv'
<1>1. ASSUME NEW i \in Imports, NEW q \in Refs, NEW n \in Kept[i], <<i, n, q>> \in home', q # r
      PROVE  /\ book'[q] # Book!Absent
             /\ Book!Kind(Row(i, n)) # "name" =>
                  q \in disturbed' \/ Book!Matches(Row(i, n), book'[q])
  <2>1. <<i, n, q>> \in home
    BY <1>1
  <2> QED BY <1>1, <2>1 DEF HomeInv
<1>2. \A i \in Imports, q \in Refs : \A n \in Kept[i] : <<i, n, q>> \in home' =>
           /\ book'[q] # Book!Absent
           /\ Book!Kind(Row(i, n)) # "name" =>
                q \in disturbed' \/ Book!Matches(Row(i, n), book'[q])
  BY <1>1
<1>3. home' \subseteq {h \in Imports \X Nat \X Refs : h[2] \in Kept[h[1]]}
  OBVIOUS
<1> QED BY <1>2, <1>3 DEF HomeInv, Kept, Row, Refs, Book!Kept, Book!Row, Book!Refs,
           Book!Absent, Book!Blanked, Book!Kind, Book!Matches, Book!Present

\* A run is through with a row that has its lead.
LEMMA RowDone ==
  ASSUME IInv, NEW w \in Workers, NEW i \in Imports, i = ingest[w].id,
         ingest[w].pc = "upserting", NEW n \in ingest[w].todo, Done(w, n), Keeping,
         \E r \in Refs : <<i, n, r>> \in home'
  PROVE  ingest' \in [Workers -> WorkerType] /\ \A v \in Workers : RunInv(v)'
<1>1. PICK f \in [Kept[i] -> 0..MaxLeads] :
        f = ingest[w].existing /\ \A m \in Kept[i] : f[m] # NoLead => <<i, m, f[m]>> \in home
  BY DEF IInv, RunInv
<1>2. PICK todo \in SUBSET Kept[i] : todo = ingest[w].todo
  BY DEF IInv, RunInv
<1>3. \A m \in Kept[i] \ todo : Settled(i, m)
  BY <1>2 DEF IInv, RunInv
<1>4. PICK rec : rec = [ingest[w] EXCEPT !.todo = @ \ {n}, !.seeking = 0]
  OBVIOUS
<1>5. /\ rec.pc = "upserting" /\ rec.id = i /\ rec.existing = f /\ rec.todo = todo \ {n}
      /\ rec.seeking = 0 /\ rec \in WorkerType
  <2>1. ingest[w] \in WorkerType
    BY Parts DEF IInv
  <2> QED BY <1>1, <1>2, <1>4, <2>1 DEF WorkerType
<1>6. ingest' = [ingest EXCEPT ![w] = rec] /\ ingest'[w] = rec
  BY <1>4, Parts DEF Done, IInv
<1>7. \A m \in Kept[i] \ (todo \ {n}) : Settled(i, m)'
  <2>1. Settled(i, n)'
    BY DEF Settled, Refs, Book!Refs
  <2> QED BY <1>3, <2>1, RowsKept
<1>8. RunInv(w)'
  BY <1>1, <1>5, <1>6, <1>7, RunUpserts DEF Keeping
<1> QED BY <1>5, <1>6, <1>8, RunGoesOn

\* An update keeps what other rows find, unless it replaces the lead's email.
LEMMA UpdateStep ==
  ASSUME IInv, NEW w \in Workers, NEW n \in ingest[w].todo, UpdateLead(w, n)
  PROVE  IInv' /\ [Book!Next]_(Book!vars)
<1>1. PICK i \in Imports : i = ingest[w].id
  BY Parts DEF IInv, WorkerType
<1>2. n \in Kept[i]
  BY <1>1 DEF IInv, RunInv, UpdateLead
<1>3. PICK r \in Refs : r = ingest[w].existing[n] /\ <<i, n, r>> \in home
  <2>1. /\ ingest[w].existing[n] # NoLead /\ <<i, n, ingest[w].existing[n]>> \in home
        /\ ingest[w].existing[n] \in 0..MaxLeads
    BY <1>1, <1>2 DEF IInv, RunInv, UpdateLead
  <2> QED BY <2>1, BoundsAssumption DEF NoLead, Refs, Book!Refs
<1>4. Row(i, n) \in RowType
  BY <1>2, KeptRows
<1>5. /\ UNCHANGED <<import, request, recovery, text, home, complete, byHand>>
      /\ Done(w, n) /\ ingest[w].pc = "upserting"
  BY DEF UpdateLead
<1>6. CASE ~Book!Present(book[r])
  <2>1. UNCHANGED <<book, disturbed>>
    BY <1>1, <1>3, <1>6 DEF UpdateLead
  <2>2. Keeping
    BY <1>5, <2>1 DEF Keeping
  <2>3. ingest' \in [Workers -> WorkerType] /\ \A v \in Workers : RunInv(v)'
    BY <1>1, <1>3, <1>5, <2>2, RowDone
  <2>4. TypeOK'
    BY <1>5, <2>3, RunTyped, Parts DEF IInv, Refs, Book!Refs
  <2>5. HomeInv' /\ EntryInv' /\ \A c \in Calls : CallInv(c)'
    BY <1>5, <2>1, HomeStays, EntryStays, CallsStay DEF IInv
  <2> QED BY <1>5, <2>1, <2>3, <2>4, <2>5 DEF IInv, Refs, Book!Refs, Book!vars
<1>7. CASE Book!Present(book[r])
  <2>1. PICK e : e = Book!Merge(book[r], Row(i, n))
    OBVIOUS
  <2>2. book[r] \in EntryType
    BY DEF IInv, EntryInv
  <2>3. e \in EntryType /\ Book!Present(e)
    BY <1>4, <1>7, <2>1, <2>2, MergeTyped
  <2>4. /\ book' = [book EXCEPT ![r] = e]
        /\ disturbed' = disturbed \cup {q \in {r} : Book!Filled(book[r].email) /\ e.email # book[r].email}
    BY <1>1, <1>3, <1>7, <2>1 DEF UpdateLead
  <2>5. EntryInv' /\ book'[r] = e /\ \A q \in Refs \ {r} : book'[q] = book[q]
    BY <2>3, <2>4, EntryChanges DEF IInv, Book!Present
  <2>6. e # Book!Absent
    BY <2>3, EntryStates
  <2>7. ASSUME NEW j \in Imports, NEW m \in Kept[j], <<j, m, r>> \in home,
               Book!Kind(Row(j, m)) # "name", r \notin disturbed'
        PROVE  Book!Matches(Row(j, m), e)
    <3>1. r \notin disturbed /\ ~(Book!Filled(book[r].email) /\ e.email # book[r].email)
      BY <2>4, <2>7
    <3>2. Book!Matches(Row(j, m), book[r])
      BY <2>7, <3>1 DEF IInv, HomeInv
    <3>3. Book!Kind(Row(i, n)) # "name" => Book!Matches(Row(i, n), book[r])
      BY <1>2, <1>3, <3>1 DEF IInv, HomeInv
    <3>4. Row(j, m) \in RowType
      BY KeptRows
    <3> QED BY <1>4, <1>7, <2>1, <2>2, <2>7, <3>1, <3>2, <3>3, <3>4, MergeKeeps
  <2>8. HomeInv'
    <3>1. \A j \in Imports : \A m \in Kept[j] : <<j, m, r>> \in home' =>
            /\ book'[r] # Book!Absent
            /\ Book!Kind(Row(j, m)) # "name" =>
                 r \in disturbed' \/ Book!Matches(Row(j, m), book'[r])
      BY <1>5, <2>5, <2>6, <2>7
    <3>2. \A h \in home' : /\ h \in Imports \X Nat \X Refs /\ h[2] \in Kept[h[1]]
                           /\ h[3] # r => h \in home
      BY <1>5 DEF IInv, HomeInv
    <3>3. disturbed \subseteq disturbed'
      BY <2>4
    <3> QED BY <2>5, <3>1, <3>2, <3>3, HomeChanges DEF IInv
  <2>9. Keeping
    BY <1>5, <2>4 DEF Keeping
  <2>10. ingest' \in [Workers -> WorkerType] /\ \A v \in Workers : RunInv(v)'
    BY <1>1, <1>3, <1>5, <2>9, RowDone
  <2>11. TypeOK'
    BY <1>5, <2>10, RunTyped, Parts DEF IInv, Refs, Book!Refs
  <2>12. \A c \in Calls : CallInv(c)'
    BY <1>5, <2>4, <2>5, <2>6, CallStays DEF IInv
  <2>13. (disturbed \subseteq Refs)'
    BY <2>4 DEF IInv, Refs, Book!Refs
  <2>14. Book!Update(i, n, r)
    BY <1>3, <1>5, <1>7, <2>1, <2>4 DEF Book!Update, Row
  <2>15. Book!Next
    BY <1>2, <2>14, KeptRows DEF Book!Next, Refs
  <2> QED BY <2>5, <2>8, <2>10, <2>11, <2>12, <2>13, <2>15 DEF IInv
<1> QED BY <1>6, <1>7

\* A row that is upserted and finds a lead.
LEMMA SeekStep ==
  ASSUME IInv, NEW w \in Workers, NEW n \in ingest[w].todo, SeekLead(w, n)
  PROVE  IInv' /\ Book!Find
<1>1. PICK i \in Imports : i = ingest[w].id
  BY Parts DEF IInv, WorkerType
<1>2. n \in Kept[i]
  BY <1>1 DEF IInv, RunInv, SeekLead
<1>3. /\ UNCHANGED <<import, request, recovery, book, text, disturbed, complete, byHand>>
      /\ ingest[w].pc = "upserting"
  BY DEF SeekLead
<1>4. PICK r : r = LeadOf(i, n)
  OBVIOUS
<1>5. CASE Found(i, n) = {}
  <2>1. UNCHANGED home /\ ingest' = [ingest EXCEPT ![w].seeking = n]
    BY <1>1, <1>5 DEF SeekLead
  <2>2. HomeInv' /\ EntryInv' /\ Keeping
    BY <1>3, <2>1, HomeStays, EntryStays DEF IInv, Keeping
  <2>3. PICK f \in [Kept[i] -> 0..MaxLeads] :
          f = ingest[w].existing /\ \A m \in Kept[i] : f[m] # NoLead => <<i, m, f[m]>> \in home
    BY <1>1, <1>3 DEF IInv, RunInv
  <2>4. PICK todo \in SUBSET Kept[i] : todo = ingest[w].todo
    BY <1>1, <1>3 DEF IInv, RunInv
  <2>5. \A m \in Kept[i] \ todo : Settled(i, m)
    BY <1>1, <1>3, <2>4 DEF IInv, RunInv
  <2>6. PICK rec : rec = [ingest[w] EXCEPT !.seeking = n]
    OBVIOUS
  <2>7. /\ rec.pc = "upserting" /\ rec.id = i /\ rec.existing = f /\ rec.todo = todo
        /\ rec.seeking = n /\ rec \in WorkerType
    <3>1. ingest[w] \in WorkerType /\ n \in Nat
      BY <1>2, KeptRows, Parts DEF IInv
    <3> QED BY <1>1, <1>3, <2>3, <2>4, <2>6, <3>1 DEF WorkerType
  <2>8. ingest' = [ingest EXCEPT ![w] = rec] /\ ingest'[w] = rec
    BY <2>1, <2>6, Parts DEF IInv
  <2>9. RunInv(w)'
    BY <2>1, <2>2, <2>3, <2>4, <2>5, <2>7, <2>8, RowsKept, RunUpserts
  <2>10. ingest' \in [Workers -> WorkerType] /\ \A v \in Workers : RunInv(v)'
    BY <2>2, <2>7, <2>8, <2>9, RunGoesOn
  <2>11. TypeOK'
    BY <1>3, <2>10, RunTyped, Parts DEF IInv, Refs, Book!Refs
  <2>12. \A c \in Calls : CallInv(c)'
    BY <1>3, CallsStay
  <2> QED BY <1>3, <2>1, <2>2, <2>10, <2>11, <2>12 DEF IInv, Book!Find, Refs, Book!Refs
<1>6. CASE Found(i, n) # {}
  <2>1. r \in Refs /\ Book!Matches(Row(i, n), book[r])
    <3>1. LeadOf(i, n) \in Found(i, n)
      BY <1>6 DEF LeadOf
    <3> QED BY <1>4, <3>1 DEF Found
  <2>2. Done(w, n) /\ home' = home \cup {<<i, n, r>>}
    BY <1>1, <1>4, <1>6 DEF SeekLead
  <2>3. \A h \in {<<i, n, r>>} \ home :
          /\ h \in Imports \X Nat \X Refs /\ h[2] \in Kept[h[1]]
          /\ Book!Matches(Row(h[1], h[2]), book[h[3]])
    BY <1>2, <2>1, KeptRows
  <2>4. HomeInv' /\ EntryInv' /\ Keeping /\ Book!Find
    BY <1>3, <2>2, <2>3, NewHomes
  <2>5. ingest' \in [Workers -> WorkerType] /\ \A v \in Workers : RunInv(v)'
    BY <1>1, <1>3, <2>1, <2>2, <2>4, RowDone
  <2>6. TypeOK'
    BY <1>3, <2>5, RunTyped, Parts DEF IInv, Refs, Book!Refs
  <2>7. \A c \in Calls : CallInv(c)'
    BY <1>3, CallsStay
  <2> QED BY <1>3, <2>4, <2>5, <2>6, <2>7 DEF IInv, Refs, Book!Refs
<1> QED BY <1>5, <1>6

\* A row that finds no lead enters one, which no row knew before.
LEMMA InsertStep ==
  ASSUME IInv, NEW w \in Workers, InsertLead(w)
  PROVE  IInv' /\ Book!Next
<1>1. PICK i \in Imports : i = ingest[w].id
  BY Parts DEF IInv, WorkerType
<1>2. PICK n \in Kept[i] : n = ingest[w].seeking /\ n \in ingest[w].todo
  BY <1>1 DEF IInv, RunInv, InsertLead
<1>3. PICK e : e = Book!Entry(Row(i, n))
  OBVIOUS
<1>4. PICK r \in Refs : /\ book[r] = Book!Absent
                        /\ book' = [book EXCEPT ![r] = e]
                        /\ home' = home \cup {<<i, n, r>>}
                        /\ Done(w, n)
  BY <1>1, <1>2, <1>3 DEF InsertLead
<1>5. /\ UNCHANGED <<import, request, recovery, text, disturbed, complete, byHand>>
      /\ ingest[w].pc = "upserting"
  BY DEF InsertLead
<1>6. e \in EntryType /\ Book!Present(e) /\ Book!Matches(Row(i, n), e)
  BY <1>3, KeptRows, EntryFound
<1>7. EntryInv' /\ book'[r] = e /\ \A q \in Refs \ {r} : book'[q] = book[q]
  BY <1>4, <1>6, EntryChanges DEF IInv, Book!Present
<1>8. e # Book!Absent
  BY <1>6, EntryStates
<1>9. Keeping
  BY <1>4, <1>5 DEF Keeping
<1>10. HomeInv'
  <2>1. \A j \in Imports : \A m \in Kept[j] : <<j, m, r>> \in home' =>
          /\ book'[r] # Book!Absent
          /\ Book!Kind(Row(j, m)) # "name" =>
               r \in disturbed' \/ Book!Matches(Row(j, m), book'[r])
    <3>1. \A j \in Imports : \A m \in Kept[j] : <<j, m, r>> \notin home
      BY <1>4 DEF IInv, HomeInv
    <3> QED BY <1>4, <1>6, <1>7, <1>8, <3>1
  <2>2. \A h \in home' : /\ h \in Imports \X Nat \X Refs /\ h[2] \in Kept[h[1]]
                         /\ h[3] # r => h \in home
    BY <1>4, KeptRows DEF IInv, HomeInv
  <2> QED BY <1>5, <1>7, <2>1, <2>2, HomeChanges DEF IInv
<1>11. ingest' \in [Workers -> WorkerType] /\ \A v \in Workers : RunInv(v)'
  BY <1>1, <1>2, <1>4, <1>5, <1>9, RowDone
<1>12. TypeOK'
  BY <1>5, <1>11, RunTyped, Parts DEF IInv, Refs, Book!Refs
<1>13. \A c \in Calls : CallInv(c)'
  BY <1>5, <1>7, <1>8, CallStays DEF IInv
<1>14. (disturbed \subseteq Refs)'
  BY <1>5 DEF IInv, Refs, Book!Refs
<1>15. Book!Enter(i, n, r)
  BY <1>3, <1>4, <1>5 DEF Book!Enter, Row
<1>16. Book!Next
  BY <1>15, KeptRows DEF Book!Next, Refs
<1> QED BY <1>7, <1>10, <1>11, <1>12, <1>13, <1>14, <1>16 DEF IInv

\* A row offers its lead its text, which is taken only where there is none.
LEMMA WriteStep ==
  ASSUME IInv, NEW w \in Workers, NEW n \in ingest[w].todo, WriteText(w, n)
  PROVE  IInv' /\ [Book!Next]_(Book!vars)
<1>1. PICK i \in Imports : i = ingest[w].id
  BY Parts DEF IInv, WorkerType
<1>2. PICK f \in [Kept[i] -> 0..MaxLeads] :
        f = ingest[w].existing /\ \A m \in Kept[i] : f[m] # NoLead => <<i, m, f[m]>> \in home
  BY <1>1 DEF IInv, RunInv, WriteText
<1>3. PICK todo \in SUBSET Kept[i] :
        todo = ingest[w].todo /\ n \in todo /\ \A m \in todo : f[m] # NoLead
  BY <1>1, <1>2 DEF IInv, RunInv, WriteText
<1>4. PICK r \in Refs : r = f[n] /\ <<i, n, r>> \in home
  BY <1>2, <1>3, BoundsAssumption DEF NoLead, Refs, Book!Refs
<1>5. /\ UNCHANGED <<import, request, recovery, book, home, disturbed, complete, byHand>>
      /\ Done(w, n)
      /\ text' = [text EXCEPT ![r] = IF @ = "none" THEN "imported" ELSE @]
  BY <1>2, <1>4 DEF WriteText, InsertText
<1>6. text \in [Refs -> {"none", "imported", "edited"}]
  BY Parts DEF IInv
<1>7. Keeping /\ text'[r] # "none" /\ text' \in [Refs -> {"none", "imported", "edited"}]
  BY <1>5, <1>6 DEF Keeping
<1>8. HomeInv' /\ EntryInv'
  BY <1>5, HomeStays, EntryStays DEF IInv
<1>9. PICK rec : rec = [ingest[w] EXCEPT !.todo = ingest[w].todo \ {n}, !.seeking = 0]
  OBVIOUS
<1>10. /\ rec.pc = "writing" /\ rec.id = i /\ rec.existing = f /\ rec.todo = todo \ {n}
       /\ rec.seeking = 0 /\ rec \in WorkerType
  <2>1. ingest[w] \in WorkerType /\ ingest[w].pc = "writing"
    BY Parts DEF IInv, WriteText
  <2> QED BY <1>1, <1>2, <1>3, <1>9, <2>1 DEF WorkerType
<1>11. ingest' = [ingest EXCEPT ![w] = rec] /\ ingest'[w] = rec
  BY <1>5, <1>9, Parts DEF Done, IInv
<1>12. RunInv(w)'
  <2>1. \A m \in Kept[i] : Settled(i, m)'
    BY <1>1, <1>7, RowsKept DEF IInv, RunInv, WriteText
  <2>2. \A m \in Kept[i] : Book!Promised(Row(i, m)) => m \in todo \/ HasText(i, m)
    BY <1>1, <1>3 DEF IInv, RunInv, WriteText
  <2>3. HasText(i, n)'
    BY <1>4, <1>5, <1>7 DEF HasText, Refs, Book!Refs
  <2>4. \A m \in Kept[i] : Book!Promised(Row(i, m)) => m \in todo \ {n} \/ HasText(i, m)'
    BY <1>7, <2>2, <2>3, RowsKept
  <2> QED BY <1>2, <1>3, <1>5, <1>10, <1>11, <2>1, <2>4, RunWrites
<1>13. ingest' \in [Workers -> WorkerType] /\ \A v \in Workers : RunInv(v)'
  BY <1>7, <1>10, <1>11, <1>12, RunGoesOn
<1>14. TypeOK'
  BY <1>5, <1>7, <1>13, RunTyped
<1>15. \A c \in Calls : CallInv(c)'
  BY <1>5, CallsStay
<1>16. [Book!Next]_(Book!vars)
  <2>1. CASE text[r] = "none"
    <3>1. Book!Write(i, n, r)
      BY <1>4, <1>5, <2>1 DEF Book!Write
    <3> QED BY <1>3, <3>1, KeptRows DEF Book!Next, Refs
  <2>2. CASE text[r] # "none"
    BY <1>5, <1>6, <2>2 DEF Book!vars
  <2> QED BY <2>1, <2>2
<1> QED BY <1>5, <1>8, <1>13, <1>14, <1>15, <1>16 DEF IInv, Refs, Book!Refs

\* A run that reports its import complete has a lead for each row, and its text.
LEMMA CompleteStep ==
  ASSUME IInv, NEW w \in Workers, Complete(w)
  PROVE  IInv' /\ Book!Next
<1>1. PICK i \in Imports : i = ingest[w].id
  BY Parts DEF IInv, WorkerType
<1>2. /\ \A n \in Kept[i] : Settled(i, n)
      /\ \A n \in Kept[i] : Book!Promised(Row(i, n)) => HasText(i, n)
  BY <1>1 DEF IInv, RunInv, Complete
<1>3. UNCHANGED <<request, book, text, home, disturbed, byHand>> /\ complete' = complete \cup {i} /\ ToIdle(w)
  BY <1>1, EndIdles DEF Complete
<1>4. Book!Conclude(i)
  <2>1. \A n \in Kept[i] : \E r \in Refs :
          /\ <<i, n, r>> \in home
          /\ Book!Promised(Row(i, n)) => text[r] # "none" \/ r \in disturbed
    BY <1>2 DEF Settled, HasText
  <2> QED BY <1>3, <2>1 DEF Book!Conclude, Kept, Row, Refs
<1>5. TypeOK'
  BY QueueTypes DEF IInv
<1>6. IInv'
  BY <1>3, <1>5, RunEnds, CallsStay, Calm DEF IInv
<1> QED BY <1>4, <1>6 DEF Book!Next

------------------------------------------------------------------------------
(* What users do to leads *)

\* A step that leaves the runs and the history of the rows alone.
LEMMA LeadsMove ==
  ASSUME IInv, UNCHANGED <<import, ingest, recovery, home>>,
         request' \in [Calls -> CallType],
         text' \in [Refs -> {"none", "imported", "edited"}],
         Keeping, EntryInv', HomeInv', disturbed' \subseteq Refs,
         \A c \in Calls : CallInv(c)'
  PROVE  IInv'
<1>1. TypeOK'
  BY Parts, TypeFromParts DEF IInv
<1>2. \A w \in Workers : RunInv(w)'
  BY RunsStay, RunStays, RunEarly DEF IInv
<1>3. (disturbed \subseteq Refs)'
  BY DEF Refs, Book!Refs
<1> QED BY <1>1, <1>2, <1>3 DEF IInv

\* A call begins to delete a lead: it is disturbed from here on.
LEMMA CallDeletes ==
  ASSUME IInv, NEW c \in Calls, NEW pc \in {"removing", "bulk"}, NEW r \in Refs,
         request' = [request EXCEPT ![c] = [IdleCall EXCEPT !.pc = pc, !.ref = r]],
         disturbed' = disturbed \cup {r},
         \A q \in Refs : book[q] # Book!Absent => book'[q] # Book!Absent,
         book'[r] # Book!Absent
  PROVE  request' \in [Calls -> CallType] /\ \A d \in Calls : CallInv(d)'
<1>1. PICK rec : rec = [IdleCall EXCEPT !.pc = pc, !.ref = r]
  OBVIOUS
<1>2. rec \in CallType /\ rec.pc = pc /\ rec.ref = r
  <2>1. rec = [pc |-> pc, id |-> AnImport, ref |-> r, read |-> "none"]
    BY <1>1 DEF IdleCall
  <2>2. AnImport \in Imports /\ r \in 0..MaxLeads
    BY FileAssumption DEF AnImport, Refs, Book!Refs
  <2> QED BY <2>1, <2>2 DEF CallType
<1>3. request' \in [Calls -> CallType] /\ request'[c] = rec
  BY <1>1, <1>2, Parts DEF IInv
<1>4. \A d \in Calls \ {c} : request'[d] = request[d]
  BY Parts DEF IInv
<1>5. CallInv(c)'
  BY <1>2, <1>3 DEF CallInv, Refs, Book!Refs, Book!Absent, Book!Blanked
<1>6. \A d \in Calls \ {c} : CallInv(d)'
  BY <1>4, CallStays DEF IInv
<1> QED BY <1>3, <1>5, <1>6

\* A lead that is deleted is gone and disturbed, which is all that its rows ask.
LEMMA LeadGone ==
  ASSUME IInv, NEW r \in Refs, book' = [book EXCEPT ![r] = Book!Gone], UNCHANGED home,
         book[r] # Book!Absent, disturbed' = disturbed \cup {r}
  PROVE  /\ EntryInv' /\ HomeInv' /\ book'[r] # Book!Absent
         /\ \A q \in Refs : book[q] # Book!Absent => book'[q] # Book!Absent
<1>1. EntryInv' /\ book'[r] = Book!Gone /\ \A q \in Refs \ {r} : book'[q] = book[q]
  BY EntryStates, EntryChanges DEF IInv
<1>2. \A i \in Imports : \A n \in Kept[i] : <<i, n, r>> \in home' =>
        /\ book'[r] # Book!Absent
        /\ Book!Kind(Row(i, n)) # "name" =>
             r \in disturbed' \/ Book!Matches(Row(i, n), book'[r])
  BY <1>1, EntryStates
<1>3. \A h \in home' : /\ h \in Imports \X Nat \X Refs /\ h[2] \in Kept[h[1]]
                       /\ h[3] # r => h \in home
  BY DEF IInv, HomeInv
<1>4. HomeInv'
  BY <1>1, <1>2, <1>3, HomeChanges DEF IInv
<1> QED BY <1>1, <1>4, EntryStates

\* A user writes a lead's message.
LEMMA EditStep ==
  ASSUME IInv, NEW r \in Refs, EditText(r)
  PROVE  IInv' /\ Book!Next
<1>1. /\ UNCHANGED <<import, ingest, request, recovery, book, home, disturbed, complete, byHand>>
      /\ text' = [text EXCEPT ![r] = "edited"]
  BY DEF EditText
<1>2. text' \in [Refs -> {"none", "imported", "edited"}] /\ Keeping
  BY <1>1, Parts DEF IInv, Keeping
<1>3. EntryInv' /\ HomeInv' /\ \A c \in Calls : CallInv(c)'
  BY <1>1, EntryStays, HomeStays, CallsStay DEF IInv
<1>4. IInv'
  BY <1>1, <1>2, <1>3, LeadsMove, Parts DEF IInv
<1> QED BY <1>1, <1>4 DEF EditText, Book!Next, Book!Edit, Refs

\* remove deletes the lead ...
LEMMA RemoveStep ==
  ASSUME IInv, NEW c \in Calls, NEW r \in Refs, RemoveLead(c, r)
  PROVE  IInv' /\ Book!Next
<1>1. /\ UNCHANGED <<import, ingest, recovery, text, home, complete, byHand>>
      /\ book' = [book EXCEPT ![r] = Book!Gone] /\ Book!Present(book[r])
      /\ disturbed' = disturbed \cup {r}
      /\ request' = [request EXCEPT ![c] = [IdleCall EXCEPT !.pc = "removing", !.ref = r]]
  BY DEF RemoveLead
<1>2. book[r] # Book!Absent
  BY <1>1, EntryStates
<1>3. /\ EntryInv' /\ HomeInv' /\ book'[r] # Book!Absent
      /\ \A q \in Refs : book[q] # Book!Absent => book'[q] # Book!Absent
  BY <1>1, <1>2, LeadGone
<1>4. request' \in [Calls -> CallType] /\ \A d \in Calls : CallInv(d)'
  BY <1>1, <1>3, CallDeletes
<1>5. IInv'
  BY <1>1, <1>3, <1>4, LeadsMove, Parts DEF IInv, Keeping
<1> QED BY <1>1, <1>5 DEF Book!Next, Book!Delete, Refs

\* ... and then its messages.
LEMMA RemoveTextsStep ==
  ASSUME IInv, NEW c \in Calls, RemoveTexts(c)
  PROVE  IInv' /\ Book!Next
<1>1. PICK r \in Refs : r = request[c].ref /\ r \in disturbed
  BY DEF IInv, CallInv, RemoveTexts
<1>2. /\ UNCHANGED <<import, ingest, recovery, book, home, disturbed, complete, byHand>>
      /\ text' = [text EXCEPT ![r] = "none"] /\ Return(c)
  BY <1>1 DEF RemoveTexts
<1>3. EntryInv' /\ HomeInv'
  BY <1>2, EntryStays, HomeStays DEF IInv
<1>4. request' \in [Calls -> CallType] /\ \A d \in Calls : CallInv(d)'
  BY <1>2, CallMoves, CallsMove, IdleTyped DEF IInv, Return
<1>5. text' \in [Refs -> {"none", "imported", "edited"}] /\ Keeping
  BY <1>1, <1>2, Parts DEF IInv, Keeping
<1>6. IInv'
  BY <1>2, <1>3, <1>4, <1>5, LeadsMove DEF IInv
<1>7. Book!Erase(r)
  BY <1>1, <1>2 DEF Book!Erase
<1> QED BY <1>6, <1>7 DEF Book!Next, Refs

\* bulk deletes the messages first.
LEMMA BulkTextsStep ==
  ASSUME IInv, NEW c \in Calls, NEW r \in Refs, BulkTexts(c, r)
  PROVE  IInv' /\ Book!Next
<1>1. /\ UNCHANGED <<import, ingest, recovery, book, home, complete, byHand>>
      /\ text' = [text EXCEPT ![r] = "none"] /\ book[r] # Book!Absent
      /\ disturbed' = disturbed \cup {r}
      /\ request' = [request EXCEPT ![c] = [IdleCall EXCEPT !.pc = "bulk", !.ref = r]]
  BY DEF BulkTexts
<1>2. EntryInv' /\ HomeInv'
  BY <1>1, EntryStays, HomeStays DEF IInv
<1>3. request' \in [Calls -> CallType] /\ \A d \in Calls : CallInv(d)'
  BY <1>1, CallDeletes
<1>4. text' \in [Refs -> {"none", "imported", "edited"}] /\ Keeping
  BY <1>1, Parts DEF IInv, Keeping
<1>5. IInv'
  BY <1>1, <1>2, <1>3, <1>4, LeadsMove DEF IInv
<1> QED BY <1>1, <1>5 DEF Book!Next, Book!Erase, Refs

\* Of two calls that delete a lead, the second does nothing to the book.
LEMMA BulkLeadsStep ==
  ASSUME IInv, NEW c \in Calls, BulkLeads(c)
  PROVE  IInv' /\ [Book!Next]_(Book!vars)
<1>1. PICK r \in Refs : r = request[c].ref /\ r \in disturbed /\ book[r] # Book!Absent
  BY DEF IInv, CallInv, BulkLeads
<1>2. /\ UNCHANGED <<import, ingest, recovery, text, home, disturbed, complete, byHand>>
      /\ book' = [book EXCEPT ![r] = Book!Gone] /\ Return(c)
  BY <1>1 DEF BulkLeads
<1>3. disturbed' = disturbed \cup {r}
  BY <1>1, <1>2
<1>4. /\ EntryInv' /\ HomeInv'
      /\ \A q \in Refs : book[q] # Book!Absent => book'[q] # Book!Absent
  BY <1>1, <1>2, <1>3, LeadGone
<1>5. request' \in [Calls -> CallType] /\ \A d \in Calls : CallInv(d)'
  BY <1>2, <1>4, CallMoves, CallsMove, IdleTyped DEF IInv, Return
<1>6. IInv'
  BY <1>2, <1>4, <1>5, LeadsMove, Parts DEF IInv, Keeping
<1>7. CASE Book!Present(book[r])
  BY <1>2, <1>3, <1>6, <1>7 DEF Book!Next, Book!Delete, Refs
<1>8. CASE ~Book!Present(book[r])
  <2>1. book \in [Refs -> EntryType] /\ book[r] = Book!Gone
    BY <1>1, <1>8 DEF IInv, EntryInv, EntryType, Book!Present
  <2>2. UNCHANGED book
    BY <1>2, <2>1
  <2> QED BY <1>2, <1>6, <2>2 DEF Book!vars
<1> QED BY <1>7, <1>8

\* A lead is created where none was: no row has found it.
LEMMA CreateStep ==
  ASSUME IInv, NEW entered \in Typed, CreateLead(entered)
  PROVE  IInv' /\ Book!Next
<1>1. PICK r \in Refs : /\ book[r] = Book!Absent /\ book' = [book EXCEPT ![r] = Book!Entry(entered)]
                        /\ byHand' = byHand \cup {r}
  BY DEF CreateLead
<1>2. UNCHANGED <<import, ingest, request, recovery, text, home, disturbed, complete>>
  BY DEF CreateLead
<1>3. PICK e : e = Book!Entry(entered)
  OBVIOUS
<1>4. e \in EntryType /\ Book!Present(e)
  BY <1>3, EntryFound, TypedAssumption
<1>5. EntryInv' /\ book'[r] = e /\ \A q \in Refs \ {r} : book'[q] = book[q]
  BY <1>1, <1>3, <1>4, EntryChanges DEF IInv, Book!Present
<1>6. e # Book!Absent
  BY <1>4, EntryStates
<1>7. HomeInv'
  <2>1. \A i \in Imports : \A n \in Kept[i] : <<i, n, r>> \notin home'
    BY <1>1, <1>2 DEF IInv, HomeInv
  <2>2. \A h \in home' : /\ h \in Imports \X Nat \X Refs /\ h[2] \in Kept[h[1]]
                         /\ h[3] # r => h \in home
    BY <1>2 DEF IInv, HomeInv
  <2> QED BY <1>2, <1>5, <2>1, <2>2, HomeChanges DEF IInv
<1>8. \A c \in Calls : CallInv(c)'
  BY <1>2, <1>5, <1>6, CallStays DEF IInv
<1>9. IInv'
  BY <1>2, <1>5, <1>7, <1>8, LeadsMove, Parts DEF IInv, Keeping
<1> QED BY <1>1, <1>2, <1>9 DEF Book!Next, Book!Register, Refs

\* A lead that is changed by hand is disturbed, which is all that its rows ask.
LEMMA PatchStep ==
  ASSUME IInv, NEW r \in Refs, NEW entered \in Typed, PatchLead(r, entered)
  PROVE  IInv' /\ Book!Next
<1>1. /\ UNCHANGED <<import, ingest, request, recovery, text, home, complete>>
      /\ Book!Present(book[r]) /\ book' = [book EXCEPT ![r] = Book!Merge(book[r], entered)]
      /\ disturbed' = disturbed \cup {r} /\ byHand' = byHand \cup {r}
  BY DEF PatchLead
<1>2. PICK e : e = Book!Merge(book[r], entered)
  OBVIOUS
<1>3. e \in EntryType /\ Book!Present(e)
  BY <1>1, <1>2, MergeTyped, TypedAssumption DEF IInv, EntryInv
<1>4. EntryInv' /\ book'[r] = e /\ \A q \in Refs \ {r} : book'[q] = book[q]
  BY <1>1, <1>2, <1>3, EntryChanges DEF IInv, Book!Present
<1>5. e # Book!Absent
  BY <1>3, EntryStates
<1>6. HomeInv'
  <2>1. \A i \in Imports : \A n \in Kept[i] : <<i, n, r>> \in home' =>
          /\ book'[r] # Book!Absent
          /\ Book!Kind(Row(i, n)) # "name" =>
               r \in disturbed' \/ Book!Matches(Row(i, n), book'[r])
    BY <1>1, <1>4, <1>5
  <2>2. \A h \in home' : /\ h \in Imports \X Nat \X Refs /\ h[2] \in Kept[h[1]]
                         /\ h[3] # r => h \in home
    BY <1>1 DEF IInv, HomeInv
  <2> QED BY <1>1, <1>4, <2>1, <2>2, HomeChanges DEF IInv
<1>7. \A c \in Calls : CallInv(c)'
  BY <1>1, <1>4, <1>5, CallStays DEF IInv
<1>8. IInv'
  BY <1>1, <1>4, <1>6, <1>7, LeadsMove, Parts DEF IInv, Keeping
<1> QED BY <1>1, <1>8 DEF Book!Next, Book!Rekey, Refs

------------------------------------------------------------------------------
(* The theorems *)

\* At first no row has found a lead and the book is empty.
LEMMA Begins ==
  ASSUME Init
  PROVE  IInv /\ Book!Init
<1>1. TypeOK
  <2>1. import \in [Imports -> ImportType]
    BY DEF Init, ImportType, Statuses
  <2>2. ingest \in [Workers -> WorkerType] /\ request \in [Calls -> CallType] /\ recovery \in TickType
    BY IdleTyped DEF Init
  <2>3. text \in [Refs -> {"none", "imported", "edited"}]
    BY DEF Init
  <2> QED BY <2>1, <2>2, <2>3 DEF TypeOK, ImportType, TickType
<1>2. EntryInv
  BY EntryStates DEF Init, EntryInv
<1>3. HomeInv /\ disturbed \subseteq Refs
  BY DEF Init, HomeInv
<1>4. \A c \in Calls : CallInv(c)
  BY DEF Init, CallInv, IdleCall
<1>5. \A w \in Workers : RunInv(w)
  BY DEF Init, RunInv, IdleWorker
<1>6. Book!Init
  BY DEF Init, Book!Init, Refs
<1> QED BY <1>1, <1>2, <1>3, <1>4, <1>5, <1>6 DEF IInv

\* Every step keeps the invariant and is a step of the book, or none.
LEMMA Goes ==
  ASSUME IInv, [Next]_vars
  PROVE  IInv' /\ [Book!Next]_(Book!vars)
<1>1. ASSUME NEW c \in Calls, CallStep(c) \/ CallDies(c)
      PROVE  IInv' /\ [Book!Next]_(Book!vars)
  BY <1>1, CallCalm, RemoveTextsStep, BulkLeadsStep DEF CallStep, LeadsAlone, Book!vars
<1>2. ASSUME NEW w \in Workers, RunStep(w)
      PROVE  IInv' /\ [Book!Next]_(Book!vars)
  <2>1. CASE Mark(w)
    BY <2>1, QueueCalm DEF LeadsAlone, Book!vars
  <2>2. CASE LookUp(w) \/ Resolve(w) \/ InsertLead(w) \/ Complete(w)
    BY <2>2, LookUpStep, ResolveStep, InsertStep, CompleteStep DEF Book!Next
  <2>3. ASSUME NEW n \in ingest[w].todo, UpdateLead(w, n) \/ SeekLead(w, n) \/ WriteText(w, n)
        PROVE  IInv' /\ [Book!Next]_(Book!vars)
    BY <2>3, UpdateStep, SeekStep, WriteStep DEF Book!Next
  <2> QED BY <1>2, <2>1, <2>2, <2>3 DEF RunStep
<1>3. CASE \/ \E w \in Workers : TakeStep(w) \/ MarkThrows(w) \/ IngestThrows(w) \/ Crash(w)
           \/ \E i \in Imports, t \in Tasks : Stalled(i, t)
  BY <1>3, QueueCalm DEF LeadsAlone, Book!vars
<1>4. CASE TickStep \/ \E i \in Imports : Wait(i)
  BY <1>4, TickCalm DEF LeadsAlone, Book!vars
<1>5. CASE UserStep
  <2>1. ASSUME NEW c \in Calls, NEW i \in Imports, BeginMapping(c, i) \/ BeginStart(c, i)
        PROVE  IInv' /\ [Book!Next]_(Book!vars)
    BY <2>1, CallCalm DEF LeadsAlone, Book!vars
  <2>2. ASSUME NEW c \in Calls, NEW r \in Refs, RemoveLead(c, r) \/ BulkTexts(c, r)
        PROVE  IInv' /\ [Book!Next]_(Book!vars)
    BY <2>2, RemoveStep, BulkTextsStep
  <2>3. ASSUME NEW r \in Refs, EditText(r)
        PROVE  IInv' /\ [Book!Next]_(Book!vars)
    BY <2>3, EditStep
  <2>4. ASSUME NEW entered \in Typed,
               CreateLead(entered) \/ \E r \in Refs : PatchLead(r, entered)
        PROVE  IInv' /\ [Book!Next]_(Book!vars)
    BY <2>4, CreateStep, PatchStep
  <2> QED BY <1>5, <2>1, <2>2, <2>3, <2>4 DEF UserStep
<1>6. CASE UNCHANGED vars
  <2>1. TypeOK'
    BY <1>6, Parts, TypeFromParts DEF vars, importVars, leadVars, IInv, Refs, Book!Refs
  <2>2. UNCHANGED <<ingest, request>> /\ LeadsAlone
    BY <1>6 DEF vars, importVars, leadVars, LeadsAlone
  <2> QED BY <2>1, <2>2, RunsStay, CallsStay, Calm DEF LeadsAlone, Book!vars
<1> QED BY <1>1, <1>2, <1>3, <1>4, <1>5, <1>6 DEF Next, SystemStep, FaultStep

\* Runs know their rows' leads, and a lead a row found stays its lead unless a user
\* or another row's email disturbed it.
THEOREM Invariance == Spec => []IInv
<1>1. Init => IInv
  BY Begins
<1>2. IInv /\ [Next]_vars => IInv'
  BY Goes
<1> QED BY <1>1, <1>2, PTL DEF Spec

\* Statuses, runs, calls and texts are what the code's types say.
THEOREM TypeCorrect == Spec => []TypeOK
<1>1. IInv => TypeOK
  BY DEF IInv
<1> QED BY <1>1, Invariance, PTL

\* imports.service.ts:182 and import-ingest.service.ts: however often an import is
\* queued, retried, cut off and run beside itself, and whatever users do meanwhile,
\* it overwrites no text, loses no lead, and is reported complete only when its rows
\* have found their leads and the leads their texts.
THEOREM Implements == Spec => ImplementsLeadBook
<1>1. Init => Book!Init
  BY Begins
<1>2. IInv /\ [Next]_vars => [Book!Next]_(Book!vars)
  BY Goes
<1> QED BY <1>1, <1>2, Invariance, PTL DEF Spec, ImplementsLeadBook, Book!Spec

------------------------------------------------------------------------------
(* One lead per lead id *)

\* A row with a lead id found a lead of that id, which only a user changes.
HomeIds ==
  \A i \in Imports, r \in Refs \ byHand : \A n \in Kept[i] :
    <<i, n, r>> \in home /\ Book!Filled(Row(i, n).id) /\ Book!Present(book[r])
      => book[r].id = Row(i, n).id

\* Unless runs overlapped there is one at a time ...
SoloInv ==
  overlapped \/ \A v, w \in Workers : ingest[v].pc # "idle" /\ ingest[w].pc # "idle" => v = w

\* ... and a row whose filter found nothing would still find nothing, but for what a
\* user entered since.
SeekInv ==
  overlapped \/ \A w \in Workers :
    LET id == Row(ingest[w].id, ingest[w].seeking).id IN
      ingest[w].seeking # 0 /\ Book!Filled(id)
        => \A r \in Refs \ byHand : Book!Present(book[r]) => book[r].id # id

IdInv == IInv /\ HomeIds /\ SoloInv /\ SeekInv /\ OneLeadPerId

\* No lead is new and none has another id, but those a user enters or changes.
IdsStay ==
  /\ byHand \subseteq byHand'
  /\ \A r \in Refs \ byHand' :
       Book!Present(book'[r]) => Book!Present(book[r]) /\ book'[r].id = book[r].id

\* A run only goes on or ends, and seeks nothing new.
RunsGoOn ==
  /\ overlapped' = overlapped
  /\ \A v \in Workers :
       /\ ingest'[v].pc # "idle" => ingest[v].pc # "idle"
       /\ \/ ingest'[v].seeking = 0
          \/ ingest'[v].seeking = ingest[v].seeking /\ ingest'[v].id = ingest[v].id

\* A row that found its lead leaves it its id.
LEMMA MergeLeavesId ==
  ASSUME IInv, HomeIds, NEW w \in Workers, NEW n \in ingest[w].todo, UpdateLead(w, n)
  PROVE  IdsStay
<1> DEFINE r == ingest[w].existing[n]
           i == ingest[w].id
<1>1. /\ i \in Imports /\ n \in Kept[i] /\ <<i, n, r>> \in home /\ r \in Refs
      /\ book \in [Refs -> EntryType]
  <2>1. i \in Imports
    BY Parts DEF IInv, WorkerType
  <2>2. n \in Kept[i] /\ <<i, n, r>> \in home
    BY DEF IInv, RunInv, UpdateLead
  <2> QED BY <2>1, <2>2 DEF IInv, HomeInv, EntryInv
<1>0. byHand' = byHand
  BY DEF UpdateLead
<1>2. CASE UNCHANGED book
  BY <1>0, <1>2 DEF IdsStay
<1>3. CASE Book!Present(book[r]) /\ book' = [book EXCEPT ![r] = Book!Merge(@, Row(i, n))]
  <2>1. r \notin byHand => Book!Merge(book[r], Row(i, n)).id = book[r].id
    BY <1>1, <1>3 DEF HomeIds, Book!Merge
  <2> QED BY <1>0, <1>1, <1>3, <2>1 DEF IdsStay
<1> QED BY <1>2, <1>3 DEF UpdateLead

\* A lead that is deleted is present no more.
LEMMA DeleteLeavesIds ==
  ASSUME IInv, NEW r \in Refs, book' = [book EXCEPT ![r] = Book!Gone], UNCHANGED byHand
  PROVE  IdsStay
BY EntryStates DEF IInv, EntryInv, IdsStay

\* A run that ends.
LEMMA EndGoesOn ==
  ASSUME IInv, NEW w \in Workers, ToIdle(w), overlapped' = overlapped
  PROVE  RunsGoOn
<1>1. IdleWorker.pc = "idle" /\ IdleWorker.seeking = 0
  BY DEF IdleWorker
<1> QED BY <1>1, Parts DEF IInv, ToIdle, RunsGoOn

\* All steps but the three that begin a run, seek or insert.
LEMMA OthersGoOn ==
  ASSUME IInv, HomeIds, Next,
         ~(\E w \in Workers : TakeStep(w) \/ InsertLead(w)
             \/ \E n \in ingest[w].todo : SeekLead(w, n))
  PROVE  IdsStay /\ RunsGoOn
<1>0. ingest \in [Workers -> WorkerType]
  BY Parts DEF IInv
<1>1. ASSUME NEW c \in Calls, CallStep(c) \/ CallDies(c)
      PROVE  IdsStay /\ RunsGoOn
  <2>1. CASE BulkLeads(c)
    <3>1. request[c].ref \in Refs
      BY <2>1 DEF IInv, CallInv, BulkLeads
    <3>2. IdsStay
      BY <2>1, <3>1, DeleteLeavesIds DEF BulkLeads
    <3> QED BY <2>1, <3>2 DEF BulkLeads, RunsGoOn
  <2>2. CASE ~BulkLeads(c)
    <3>1. UNCHANGED <<ingest, book, byHand>>
      BY <1>1, <2>2 DEF CallStep, CallDies, SaveMapping, SaveQueued, Enqueue, Restore, RemoveTexts, leadVars
    <3>2. overlapped' = overlapped
      BY <1>1, <2>2, Zenon DEF CallStep, CallDies, SaveMapping, SaveQueued, Enqueue, Restore, RemoveTexts, leadVars
    <3> QED BY <3>1, <3>2 DEF RunsGoOn, IdsStay
  <2> QED BY <2>1, <2>2
<1>2. CASE TickStep \/ \E i \in Imports : Wait(i)
  <2>1. UNCHANGED <<ingest, book, byHand>>
    BY <1>2 DEF TickStep, FindStuck, Requeue, AddAgain, GiveUp, Wait, leadVars
  <2>2. overlapped' = overlapped
    BY <1>2, Zenon DEF TickStep, FindStuck, Requeue, AddAgain, GiveUp, Wait, leadVars
  <2> QED BY <2>1, <2>2 DEF RunsGoOn, IdsStay
<1>3. ASSUME NEW i \in Imports, NEW t \in Tasks, Stalled(i, t)
      PROVE  IdsStay /\ RunsGoOn
  <2>1. UNCHANGED <<book, byHand>>
    BY <1>3 DEF Stalled, leadVars
  <2>2. overlapped' = overlapped
    BY <1>3, Zenon DEF Stalled, leadVars
  <2>3. \A v \in Workers : /\ ingest'[v].pc = ingest[v].pc /\ ingest'[v].seeking = ingest[v].seeking
                           /\ ingest'[v].id = ingest[v].id
    BY <1>0, <1>3 DEF Stalled, WorkerType
  <2> QED BY <2>1, <2>2, <2>3 DEF RunsGoOn, IdsStay
<1>4. ASSUME NEW w \in Workers, MarkThrows(w) \/ IngestThrows(w) \/ Crash(w) \/ Complete(w)
      PROVE  IdsStay /\ RunsGoOn
  <2>1. ToIdle(w)
    BY <1>4, EndIdles DEF MarkThrows, IngestThrows, Crash, Complete
  <2>2. UNCHANGED <<book, byHand>>
    BY <1>4 DEF MarkThrows, IngestThrows, Crash, Complete, leadVars
  <2>3. overlapped' = overlapped
    BY <1>4, Zenon DEF MarkThrows, IngestThrows, Crash, Complete, leadVars
  <2> QED BY <2>1, <2>2, <2>3, EndGoesOn DEF IdsStay
<1>5. ASSUME NEW w \in Workers, Mark(w) \/ LookUp(w) \/ Resolve(w)
      PROVE  IdsStay /\ RunsGoOn
  <2>1. UNCHANGED <<book, byHand>>
    BY <1>5 DEF Mark, LookUp, Resolve, leadVars
  <2>2. overlapped' = overlapped
    BY <1>5, Zenon DEF Mark, LookUp, Resolve, leadVars
  <2>3. ingest[w].pc # "idle" /\ \A v \in Workers : v # w => ingest'[v] = ingest[v]
    BY <1>0, <1>5 DEF Mark, LookUp, Resolve
  <2>4. ingest'[w].seeking = ingest[w].seeking /\ ingest'[w].id = ingest[w].id
    BY <1>0, <1>5 DEF Mark, LookUp, Resolve, WorkerType
  <2> QED BY <2>1, <2>2, <2>3, <2>4 DEF RunsGoOn, IdsStay
<1>6. ASSUME NEW w \in Workers, NEW n \in ingest[w].todo, UpdateLead(w, n) \/ WriteText(w, n)
      PROVE  IdsStay /\ RunsGoOn
  <2>1. IdsStay
    <3>1. CASE UpdateLead(w, n)
      BY <3>1, MergeLeavesId
    <3>2. CASE WriteText(w, n)
      BY <3>2 DEF WriteText, IdsStay
    <3> QED BY <1>6, <3>1, <3>2
  <2>2. overlapped' = overlapped
    BY <1>6, Zenon DEF UpdateLead, WriteText
  <2>3. ingest[w].pc # "idle" /\ Done(w, n)
    BY <1>6 DEF UpdateLead, WriteText
  <2>4. ingest'[w].seeking = 0 /\ \A v \in Workers : v # w => ingest'[v] = ingest[v]
    BY <1>0, <2>3 DEF Done, WorkerType
  <2> QED BY <2>1, <2>2, <2>3, <2>4 DEF RunsGoOn
<1>7. CASE UserStep
  <2>1. ASSUME NEW c \in Calls, NEW r \in Refs, RemoveLead(c, r)
        PROVE  IdsStay /\ RunsGoOn
    BY <2>1, DeleteLeavesIds DEF RemoveLead, RunsGoOn
  <2>2. CASE /\ ~(\E c \in Calls, r \in Refs : RemoveLead(c, r))
             /\ ~(\E entered \in Typed : CreateLead(entered) \/ \E r \in Refs : PatchLead(r, entered))
    <3>1. UNCHANGED <<ingest, book, byHand>>
      BY <1>7, <2>2 DEF UserStep, BeginMapping, BeginStart, BulkTexts, EditText, leadVars
    <3>2. overlapped' = overlapped
      BY <1>7, <2>2, Zenon DEF UserStep, BeginMapping, BeginStart, BulkTexts, EditText, leadVars
    <3> QED BY <3>1, <3>2 DEF RunsGoOn, IdsStay
  <2>3. ASSUME NEW entered \in Typed,
               CreateLead(entered) \/ \E r \in Refs : PatchLead(r, entered)
        PROVE  IdsStay /\ RunsGoOn
    <3>1. PICK r \in Refs : /\ \A q \in Refs \ {r} : book'[q] = book[q]
                            /\ byHand' = byHand \cup {r}
      BY <2>3 DEF CreateLead, PatchLead, IInv, EntryInv
    <3>2. UNCHANGED ingest
      BY <2>3 DEF CreateLead, PatchLead
    <3>3. overlapped' = overlapped
      BY <2>3, Zenon DEF CreateLead, PatchLead
    <3> QED BY <3>1, <3>2, <3>3 DEF RunsGoOn, IdsStay
  <2> QED BY <2>1, <2>2, <2>3
<1> QED BY <1>1, <1>2, <1>3, <1>4, <1>5, <1>6, <1>7 DEF Next, SystemStep, FaultStep, RunStep

\* A lead that a row with an id finds has that id.
LEMMA MatchIds ==
  ASSUME NEW rec, NEW entry, Book!Matches(rec, entry), Book!Filled(rec.id)
  PROVE  entry.id = rec.id
BY DEF Book!Matches, Book!Kind

\* What the book allows keeps the ids of the leads that rows found.
LEMMA HomeIdsKept ==
  ASSUME IInv, HomeIds, [Book!Next]_(Book!vars)
  PROVE  HomeIds'
<1>0. /\ book \in [Refs -> EntryType]
      /\ home \subseteq {h \in Imports \X Nat \X Refs : h[2] \in Kept[h[1]]}
  BY DEF IInv, EntryInv, HomeInv
<1> SUFFICES ASSUME NEW i \in Imports, NEW r \in Refs \ byHand', NEW n \in Kept[i],
                    <<i, n, r>> \in home', Book!Filled(Row(i, n).id), Book!Present(book'[r])
             PROVE  book'[r].id = Row(i, n).id
  BY DEF HomeIds, Kept, Row, Refs, Book!Kept, Book!Row, Book!Refs
<1>00. r \in Refs \ byHand
  BY DEF Book!Next, Book!Find, Book!Enter, Book!Update, Book!Write, Book!Conclude, Book!Edit,
         Book!Erase, Book!Delete, Book!Register, Book!Rekey, Book!vars
<1>1. ASSUME <<i, n, r>> \in home, Book!Present(book[r]), book'[r].id = book[r].id
      PROVE  book'[r].id = Row(i, n).id
  BY <1>00, <1>1 DEF HomeIds
<1>2. CASE Book!Find
  <2>1. CASE <<i, n, r>> \in home
    BY <1>1, <1>2, <2>1 DEF Book!Find
  <2>2. CASE <<i, n, r>> \notin home
    <3>1. Book!Matches(Row(i, n), book[r]) /\ book' = book
      BY <1>2, <2>2 DEF Book!Find, Row
    <3> QED BY <3>1, MatchIds
  <2> QED BY <2>1, <2>2
<1>3. ASSUME NEW k \in Imports, NEW q \in Refs, NEW m \in Book!RowOf(k), Book!Enter(k, m, q)
      PROVE  book'[r].id = Row(i, n).id
  <2>1. CASE r = q
    <3>1. book[r] = Book!Absent /\ book'[r] = Book!Entry(Book!Row(k, m))
      BY <1>0, <1>3, <2>1 DEF Book!Enter
    <3>2. <<i, n, r>> \notin home
      BY <3>1 DEF IInv, HomeInv
    <3>3. i = k /\ n = m
      BY <1>3, <3>2 DEF Book!Enter
    <3> QED BY <3>1, <3>3 DEF Book!Entry, Row
  <2>2. CASE r # q
    <3>1. book'[r] = book[r] /\ <<i, n, r>> \in home
      BY <1>0, <1>3, <2>2 DEF Book!Enter
    <3> QED BY <1>1, <3>1
  <2> QED BY <2>1, <2>2
<1>4. ASSUME NEW k \in Imports, NEW q \in Refs, NEW m \in Book!RowOf(k), Book!Update(k, m, q)
      PROVE  book'[r].id = Row(i, n).id
  <2>1. /\ <<k, m, q>> \in home /\ Book!Present(book[q]) /\ home' = home
        /\ book' = [book EXCEPT ![q] = Book!Merge(book[q], Book!Row(k, m))]
    BY <1>4 DEF Book!Update
  <2>2. m \in Kept[k]
    BY <1>0, <2>1
  <2>3. q \notin byHand => Book!Merge(book[q], Book!Row(k, m)).id = book[q].id
    BY <2>1, <2>2 DEF HomeIds, Book!Merge, Row
  <2>4. book'[r].id = book[r].id /\ (r # q => book'[r] = book[r])
    BY <1>0, <1>00, <2>1, <2>3
  <2> QED BY <1>1, <2>1, <2>4
<1>5. ASSUME NEW q \in Refs, Book!Delete(q)
      PROVE  book'[r].id = Row(i, n).id
  <2>1. home' = home /\ r # q /\ book'[r] = book[r]
    BY <1>0, <1>5, EntryStates DEF Book!Delete
  <2> QED BY <1>1, <2>1
<1>6. CASE UNCHANGED <<book, home>>
  BY <1>1, <1>6
<1>7. ASSUME NEW q \in Refs, NEW entered \in Typed, Book!Register(q, entered) \/ Book!Rekey(q, entered)
      PROVE  book'[r].id = Row(i, n).id
  <2>1. home' = home /\ r # q /\ book'[r] = book[r]
    BY <1>0, <1>7 DEF Book!Register, Book!Rekey
  <2> QED BY <1>1, <2>1
<1> QED BY <1>2, <1>3, <1>4, <1>5, <1>6, <1>7
        DEF Book!Next, Book!Write, Book!Conclude, Book!Edit, Book!Erase, Book!vars, Refs

\* A step that lets runs go on and ids be.
LEMMA IdsKept ==
  ASSUME IInv, SoloInv, SeekInv, OneLeadPerId, IdsStay, RunsGoOn
  PROVE  SoloInv' /\ SeekInv' /\ OneLeadPerId'
<1>1. SoloInv'
  BY DEF SoloInv, RunsGoOn
<1>2. SeekInv'
  BY DEF SeekInv, RunsGoOn, IdsStay, Row, Refs, Book!Row, Book!Refs
<1>3. OneLeadPerId'
  BY DEF OneLeadPerId, RunsGoOn, IdsStay, Refs, Book!Refs
<1> QED BY <1>1, <1>2, <1>3

\* A run begins only where no other is under way, or they overlap.
LEMMA TakeKeepsIds ==
  ASSUME IInv, SoloInv, SeekInv, OneLeadPerId, NEW w \in Workers, NEW i \in Imports, NEW t \in Tasks,
         Take(w, i, t)
  PROVE  SoloInv' /\ SeekInv' /\ OneLeadPerId'
<1>0. ingest \in [Workers -> WorkerType] /\ UNCHANGED <<book, byHand>>
  BY Parts DEF IInv, Take
<1>1. CASE Skips(i)
  <2>1. UNCHANGED ingest
    BY <1>1 DEF Take
  <2>2. overlapped' = overlapped
    BY <1>1, Zenon DEF Take
  <2> QED BY <1>0, <2>1, <2>2, IdsKept DEF IdsStay, RunsGoOn
<1>2. CASE ~Skips(i)
  <2>1. /\ \A v \in Workers : v # w => ingest'[v] = ingest[v]
        /\ ingest'[w].seeking = 0 /\ ingest[w].pc = "idle"
    BY <1>0, <1>2 DEF Take, IdleWorker
  <2>2. overlapped' <=> (overlapped \/ \E v \in Workers : Overlaps(i, v))
    BY <1>2, Zenon DEF Take
  <2>3. CASE overlapped'
    BY <2>3 DEF SoloInv, SeekInv, OneLeadPerId
  <2>4. CASE ~overlapped'
    <3>1. \A v \in Workers : ingest[v].pc = "idle"
      <4>1. import[i].age \in Nat
        BY Parts DEF IInv, ImportType
      <4> QED BY <1>2, <2>2, <2>4, <4>1 DEF Overlaps, Skips
    <3>2. SoloInv'
      BY <2>1, <3>1 DEF SoloInv
    <3>3. SeekInv'
      <4>1. \A v \in Workers : ingest'[v].seeking = 0
        BY <2>1, <3>1 DEF IInv, RunInv
      <4> QED BY <4>1 DEF SeekInv
    <3>4. OneLeadPerId'
      BY <1>0, <2>2, <2>4 DEF OneLeadPerId, Refs, Book!Refs
    <3> QED BY <3>2, <3>3, <3>4
  <2> QED BY <2>3, <2>4
<1> QED BY <1>1, <1>2

\* A row is sought by the filter.
LEMMA SeekKeepsIds ==
  ASSUME IInv, SoloInv, SeekInv, OneLeadPerId, NEW w \in Workers, NEW n \in ingest[w].todo,
         SeekLead(w, n)
  PROVE  SoloInv' /\ SeekInv' /\ OneLeadPerId'
<1>0. ingest \in [Workers -> WorkerType] /\ UNCHANGED <<book, byHand>> /\ ingest[w].pc = "upserting"
  BY Parts DEF IInv, SeekLead
<1>1. overlapped' = overlapped
  BY Zenon DEF SeekLead
<1>2. CASE Done(w, n)
  <2>1. ingest'[w].seeking = 0 /\ \A v \in Workers : v # w => ingest'[v] = ingest[v]
    BY <1>0, <1>2 DEF Done, WorkerType
  <2> QED BY <1>0, <1>1, <2>1, IdsKept DEF IdsStay, RunsGoOn
<1>3. CASE Found(ingest[w].id, n) = {} /\ ingest' = [ingest EXCEPT ![w].seeking = n]
  <2>1. /\ ingest'[w].seeking = n /\ ingest'[w].id = ingest[w].id /\ ingest'[w].pc = ingest[w].pc
        /\ \A v \in Workers : v # w => ingest'[v] = ingest[v]
    BY <1>0, <1>3 DEF WorkerType
  <2>2. SoloInv'
    BY <1>0, <1>1, <2>1 DEF SoloInv
  <2>3. Book!Filled(Row(ingest[w].id, n).id) =>
          \A r \in Refs : Book!Present(book[r]) => book[r].id # Row(ingest[w].id, n).id
    BY <1>3 DEF Found, Book!Matches, Book!Kind
  <2>4. SeekInv'
    BY <1>0, <1>1, <2>1, <2>3 DEF SeekInv, Row, Refs, Book!Row, Book!Refs
  <2>5. OneLeadPerId'
    BY <1>0, <1>1 DEF OneLeadPerId, Refs, Book!Refs
  <2> QED BY <2>2, <2>4, <2>5
<1> QED BY <1>2, <1>3 DEF SeekLead

\* A lead is inserted where no other has its id.
LEMMA InsertKeepsIds ==
  ASSUME IInv, SoloInv, SeekInv, OneLeadPerId, NEW w \in Workers, InsertLead(w)
  PROVE  SoloInv' /\ SeekInv' /\ OneLeadPerId'
<1> DEFINE n == ingest[w].seeking
           rec == Row(ingest[w].id, n)
<1>0. ingest \in [Workers -> WorkerType] /\ book \in [Refs -> EntryType]
  BY Parts DEF IInv, EntryInv
<1>1. PICK r \in Refs : book' = [book EXCEPT ![r] = Book!Entry(rec)] /\ Done(w, n)
  BY DEF InsertLead
<1>2. /\ ingest[w].pc # "idle" /\ ingest[w].seeking # 0 /\ ingest'[w].seeking = 0
      /\ \A v \in Workers : v # w => ingest'[v] = ingest[v]
  BY <1>0, <1>1 DEF InsertLead, Done, WorkerType
<1>3. overlapped' = overlapped /\ byHand' = byHand
  BY Zenon DEF InsertLead
<1>4. CASE overlapped
  BY <1>3, <1>4 DEF SoloInv, SeekInv, OneLeadPerId
<1>5. CASE ~overlapped
  <2>1. \A v \in Workers : v # w => ingest[v].pc = "idle" /\ ingest[v].seeking = 0
    BY <1>2, <1>5 DEF SoloInv, IInv, RunInv
  <2>2. SoloInv' /\ SeekInv'
    BY <1>2, <2>1 DEF SoloInv, SeekInv
  <2>3. /\ book'[r].id = rec.id
        /\ \A q \in Refs : q # r => book'[q] = book[q]
    BY <1>0, <1>1 DEF Book!Entry
  <2>4. Book!Filled(rec.id) => \A q \in Refs \ byHand : Book!Present(book[q]) => book[q].id # rec.id
    BY <1>2, <1>5 DEF SeekInv
  <2>5. OneLeadPerId'
    <3> SUFFICES ASSUME NEW q \in Refs, NEW p \in Refs, q # p, Book!Present(book'[q]),
                        Book!Present(book'[p]), Book!Filled(book'[q].id), {q, p} \cap byHand = {}
                 PROVE  book'[q].id # book'[p].id
      BY <1>3 DEF OneLeadPerId, Refs, Book!Refs
    <3>1. CASE q # r /\ p # r
      BY <1>5, <2>3, <3>1 DEF OneLeadPerId
    <3>2. CASE q = r \/ p = r
      BY <2>3, <2>4, <3>2
    <3> QED BY <3>1, <3>2
  <2> QED BY <2>2, <2>5
<1> QED BY <1>4, <1>5

\* "re-imports are idempotent" (import-ingest.service.ts): however often an import is
\* queued, retried, cut off and started again, and whatever users do meanwhile, no two
\* leads have one lead id, unless two runs were under way at once.
THEOREM OneLeadForAnId == Spec => []OneLeadPerId
<1>1. Init => IdInv
  <2> SUFFICES ASSUME Init PROVE HomeIds /\ SoloInv /\ SeekInv /\ OneLeadPerId
    BY Begins DEF IdInv
  <2>1. \A w \in Workers : ingest[w].pc = "idle" /\ ingest[w].seeking = 0
    BY DEF Init, IdleWorker
  <2>2. \A r \in Refs : ~Book!Present(book[r])
    BY EntryStates DEF Init
  <2> QED BY <2>1, <2>2 DEF HomeIds, SoloInv, SeekInv, OneLeadPerId
<1>2. IdInv /\ [Next]_vars => IdInv'
  <2> SUFFICES ASSUME IInv, HomeIds, SoloInv, SeekInv, OneLeadPerId, [Next]_vars
               PROVE  HomeIds' /\ SoloInv' /\ SeekInv' /\ OneLeadPerId'
    BY Goes DEF IdInv
  <2>1. HomeIds'
    BY Goes, HomeIdsKept
  <2>2. CASE UNCHANGED vars
    <3>1. UNCHANGED <<ingest, book, byHand>>
      BY <2>2 DEF vars, importVars, leadVars
    <3>2. overlapped' = overlapped
      BY <2>2, Zenon DEF vars, leadVars
    <3> QED BY <2>1, <3>1, <3>2, IdsKept DEF IdsStay, RunsGoOn
  <2>3. CASE Next /\ \E w \in Workers : TakeStep(w) \/ InsertLead(w)
             \/ \E n \in ingest[w].todo : SeekLead(w, n)
    BY <2>1, <2>3, TakeKeepsIds, SeekKeepsIds, InsertKeepsIds DEF TakeStep
  <2>4. CASE Next /\ ~(\E w \in Workers : TakeStep(w) \/ InsertLead(w)
             \/ \E n \in ingest[w].todo : SeekLead(w, n))
    BY <2>1, <2>4, OthersGoOn, IdsKept
  <2> QED BY <2>2, <2>3, <2>4
<1>3. IdInv => OneLeadPerId
  BY DEF IdInv
<1> QED BY <1>1, <1>2, <1>3, PTL DEF Spec

------------------------------------------------------------------------------
(* The imports of jobs *)

\* The variables have their types; nothing is said here of the bounds.
JobRows  == [status : Job!Statuses \cup {"NONE"}, parsed : BOOLEAN]
JobTasks == [state : {"none", "waiting", "active", "done", "failed"},
          runs : Nat, throws : Nat, stalls : Nat]
JobSlots == [pc : {"idle", "mark", "fetch", "extract", "complete", "notify", "fail"},
          id : Emails, locked : BOOLEAN]
JobForms == [pc : {"idle", "addEmail", "addScreenshot", "create", "confirm", "decline"},
          id : Emails]

JobTyped == /\ row \in [Emails -> JobRows] /\ jobs \in [Emails -> Nat]
            /\ task \in [Emails -> JobTasks] /\ worker \in [JobWorkers -> JobSlots]
            /\ call \in [JobCalls -> JobForms] /\ raced \in [Emails -> BOOLEAN]

\* A worker has the import in hand, and has not written its details yet.
JobOn(w, i)      == worker[w].pc # "idle" /\ worker[w].id = i
JobParsing(w, i) == worker[w].pc \in {"mark", "fetch", "extract", "complete"} /\ worker[w].id = i

\* Details come first, then a confirmation, its job and its mark.
JobOrder(i) ==
  /\ row[i].status \in {"COMPLETE", "CONFIRMED"} \/ jobs[i] > 0 => row[i].parsed
  /\ \A c \in JobCalls : Job!Confirming(c, i) => row[i].parsed
  /\ row[i].status = "CONFIRMED" => jobs[i] > 0
  /\ \A c \in JobCalls : Job!Confirming(c, i) /\ call[c].pc = "confirm" => jobs[i] > 0

\* The first run has the import alone, and there are no details until it writes them.
JobFirstRun(i) ==
  task[i].runs <= 1 =>
    /\ \A v, w \in JobWorkers : JobOn(v, i) /\ JobOn(w, i) => v = w
    /\ task[i].runs = 0 => ~row[i].parsed /\ \A w \in JobWorkers : ~JobOn(w, i)
    /\ \A w \in JobWorkers : JobParsing(w, i) => ~row[i].parsed

\* An unraced confirmation still finds what it checked; an import that can be confirmed
\* after its one job was made is about to be marked.
JobReady(i) ==
  /\ \A c \in JobCalls : Job!Confirming(c, i) => row[i].status = "COMPLETE"
  /\ task[i].runs <= 1 =>
       /\ jobs[i] <= 1
       /\ jobs[i] = 1 /\ row[i].status = "COMPLETE" =>
            \E c \in JobCalls : Job!Confirming(c, i) /\ call[c].pc = "confirm"

JobUnraced(i) == ~raced[i] => JobReady(i)

JobsInv == JobTyped /\ \A i \in Emails : JobOrder(i) /\ JobFirstRun(i) /\ JobUnraced(i)

\* Without imports nothing is to be shown.
JobInv == Emails # {} => JobsInv

\* Faults are counted.
FaultsInv == faults \in Nat

------------------------------------------------------------------------------
LEMMA JobBegins == Job!Init => JobInv
<1> SUFFICES ASSUME Job!Init, Emails # {} PROVE JobsInv
  BY DEF JobInv
<1>1. Job!AnImport \in Emails
  BY DEF Job!AnImport
<1>2. JobTyped
  <2>1. row \in [Emails -> JobRows] /\ jobs \in [Emails -> Nat] /\ raced \in [Emails -> BOOLEAN]
    BY DEF Job!Init, JobRows
  <2>2. task \in [Emails -> JobTasks]
    BY DEF Job!Init, JobTasks
  <2>3. Job!IdleWorker \in JobSlots /\ Job!IdleCall \in JobForms
    BY <1>1 DEF JobSlots, JobForms, Job!IdleWorker, Job!IdleCall
  <2> QED BY <2>1, <2>2, <2>3 DEF Job!Init, JobTyped
<1>3. \A i \in Emails : JobOrder(i) /\ JobFirstRun(i) /\ JobReady(i)
  <2>1. \A i \in Emails : /\ row[i].status = "NONE" /\ ~row[i].parsed /\ jobs[i] = 0
                          /\ task[i].runs = 0
    BY DEF Job!Init
  <2>2. (\A c \in JobCalls : call[c].pc = "idle") /\ (\A w \in JobWorkers : worker[w].pc = "idle")
    BY DEF Job!Init, Job!IdleCall, Job!IdleWorker
  <2>3. \A i \in Emails : /\ \A c \in JobCalls : ~Job!Confirming(c, i)
                          /\ \A w \in JobWorkers : ~JobOn(w, i) /\ ~JobParsing(w, i)
    BY <2>2 DEF Job!Confirming, JobOn, JobParsing
  <2>4. ASSUME NEW i \in Emails PROVE JobOrder(i)
    <3>1. row[i].status \notin {"COMPLETE", "CONFIRMED"}
      BY <2>1
    <3>2. ~(jobs[i] > 0)
      BY <2>1
    <3> QED BY <2>3, <3>1, <3>2, Zenon DEF JobOrder
  <2>5. \A i \in Emails : JobFirstRun(i)
    BY <2>1, <2>3 DEF JobFirstRun
  <2>6. \A i \in Emails : JobReady(i)
    BY <2>1, <2>3 DEF JobReady
  <2> QED BY <2>4, <2>5, <2>6
<1>4. \A i \in Emails : JobUnraced(i)
  BY <1>3, Zenon DEF JobUnraced
<1> QED BY <1>2, <1>3, <1>4 DEF JobsInv

\* No race remains unrecorded.
LEMMA RacesRecorded ==
  ASSUME JobTyped, Job!Track, NEW i \in Emails
  PROVE  /\ raced' \in [Emails -> BOOLEAN]
         /\ ~raced'[i] => ~raced[i] /\ ~Job!Race(i)
<1>1. raced' = [j \in Emails |-> raced[j] \/ Job!Race(j)]
  BY DEF Job!Track
<1>2. raced'[i] = (raced[i] \/ Job!Race(i))
  BY <1>1
<1>3. raced' \in [Emails -> BOOLEAN]
  BY <1>1 DEF JobTyped
<1> QED BY <1>2, <1>3

------------------------------------------------------------------------------
(* The queue and its workers *)

\* A write of a worker: details stay, and a status that needs them has them; only a
\* run that has not written them yet makes an import ready.
Written(i) ==
  /\ row[i].parsed => row'[i].parsed
  /\ row'[i].status \in {"COMPLETE", "CONFIRMED"} => row'[i].parsed
  /\ row'[i].status = "CONFIRMED" => row[i].status = "CONFIRMED"
  /\ row'[i].status = "COMPLETE" => row[i].status = "COMPLETE" \/ \E w \in JobWorkers : JobParsing(w, i)

\* Confirmations meet what the worker wrote, or are raced.
LEMMA WorkerStep ==
  ASSUME JobsInv, Job!Track, UNCHANGED <<jobs, call>>, NEW i \in Emails, Written(i),
         task'[i].runs \in Nat, task'[i].runs >= task[i].runs
  PROVE  JobOrder(i)' /\ JobUnraced(i)'
<1>1. JobTyped /\ JobOrder(i) /\ JobFirstRun(i) /\ JobUnraced(i)
  BY DEF JobsInv
<1>2. jobs[i] \in Nat /\ task[i].runs \in Nat
  BY <1>1 DEF JobTyped, JobTasks
<1>3. \A c \in JobCalls : Job!Confirming(c, i)' <=> Job!Confirming(c, i)
  BY DEF Job!Confirming
<1>4. JobOrder(i)'
  BY <1>1, <1>3 DEF JobOrder, Written
<1>5. ASSUME ~raced'[i] PROVE JobReady(i) /\ ((\E c \in JobCalls : Job!Confirming(c, i)) => row'[i] = row[i])
  <2>1. ~raced[i] /\ ~Job!Race(i)
    BY <1>1, <1>5, RacesRecorded
  <2>2. JobReady(i)
    BY <1>1, <2>1, Zenon DEF JobUnraced
  <2> QED BY <2>1, <2>2 DEF Job!Race
<1>6. ASSUME ~raced'[i], task'[i].runs <= 1, jobs[i] = 1, row'[i].status = "COMPLETE"
      PROVE  row[i].status = "COMPLETE"
  <2>1. task[i].runs <= 1
    BY <1>2, <1>6
  <2>2. row[i].parsed
    BY <1>1, <1>6 DEF JobOrder
  <2> QED BY <1>1, <1>6, <2>1, <2>2 DEF Written, JobFirstRun
<1>7. ASSUME ~raced'[i] PROVE JobReady(i)'
  <2>1. task'[i].runs <= 1 => task[i].runs <= 1
    BY <1>2
  <2> QED BY <1>3, <1>5, <1>6, <1>7, <2>1 DEF JobReady
<1>8. JobUnraced(i)'
  BY <1>7, Zenon DEF JobUnraced
<1> QED BY <1>4, <1>8

\* A run that goes on or ends leaves the import to nobody else, and has written the
\* details when they are there.
LEMMA RunFinds ==
  ASSUME JobsInv, NEW i \in Emails, task'[i].runs = task[i].runs,
         \A w \in JobWorkers : JobOn(w, i)' => JobOn(w, i),
         \A w \in JobWorkers : JobParsing(w, i)' => JobParsing(w, i),
         row'[i].parsed => row[i].parsed \/ \E w \in JobWorkers : JobParsing(w, i) /\ ~JobParsing(w, i)'
  PROVE  JobFirstRun(i)'
<1>1. JobFirstRun(i) /\ \A w \in JobWorkers : JobParsing(w, i) => JobOn(w, i)
  BY DEF JobsInv, JobParsing, JobOn
<1>2. ASSUME task[i].runs <= 1, NEW w \in JobWorkers, JobParsing(w, i)' PROVE ~row'[i].parsed
  BY <1>1, <1>2 DEF JobFirstRun
<1> QED BY <1>1, <1>2 DEF JobFirstRun

\* The ends of a run count no new one.
LEMMA EndTyped ==
  ASSUME JobTyped, Emails # {}, NEW w \in JobWorkers, worker[w].id \in Emails, Job!Finish(w) \/ Job!Rethrow(w)
  PROVE  /\ task' \in [Emails -> JobTasks] /\ worker' \in [JobWorkers -> JobSlots]
         /\ \A i \in Emails : task'[i].runs = task[i].runs
         /\ worker'[w].pc = "idle" /\ \A v \in JobWorkers \ {w} : worker'[v] = worker[v]
<1> DEFINE k == worker[w].id
<1>1. Job!AnImport \in Emails
  BY DEF Job!AnImport
<1>2. worker' = [worker EXCEPT ![w] = Job!IdleWorker]
  BY DEF Job!Finish, Job!Rethrow
<1>3. /\ worker' \in [JobWorkers -> JobSlots]
      /\ worker'[w].pc = "idle" /\ \A v \in JobWorkers \ {w} : worker'[v] = worker[v]
  BY <1>1, <1>2 DEF JobTyped, JobSlots, Job!IdleWorker
<1>4. CASE task' = task
  BY <1>3, <1>4 DEF JobTyped
<1>5. CASE Job!Finish(w)
  <2>1. task' \in [Emails -> JobTasks] /\ \A i \in Emails : task'[i].runs = task[i].runs
    BY <1>5 DEF Job!Finish, JobTyped, JobTasks
  <2> QED BY <1>3, <2>1
<1>6. CASE Job!Rethrow(w) /\ worker[w].locked
  <2> DEFINE n == task[k].throws + 1
             s == IF n < Job!MaxAttempts THEN "waiting" ELSE "failed"
             one == [task EXCEPT ![k].throws = n]
  <2>1. n \in Nat /\ s \in {"waiting", "failed"}
    BY DEF JobTyped, JobTasks
  <2>2. task' = [one EXCEPT ![k].state = s]
    BY <1>6, Zenon DEF Job!Rethrow
  <2> HIDE DEF n, s
  <2>3. one \in [Emails -> JobTasks] /\ \A i \in Emails : one[i].runs = task[i].runs
    BY <2>1 DEF JobTyped, JobTasks
  <2> HIDE DEF one
  <2>4. task' \in [Emails -> JobTasks] /\ \A i \in Emails : task'[i].runs = one[i].runs
    BY <2>1, <2>2, <2>3 DEF JobTasks
  <2> QED BY <1>3, <2>3, <2>4
<1> QED BY <1>4, <1>5, <1>6 DEF Job!Rethrow

\* A step of a run to its next step.
LEMMA NextTyped ==
  ASSUME JobTyped, NEW w \in JobWorkers, NEW pc \in {"fetch", "extract", "complete", "notify", "fail"},
         Job!Proceed(w, pc)
  PROVE  /\ worker' \in [JobWorkers -> JobSlots]
         /\ worker'[w].pc = pc /\ worker'[w].id = worker[w].id
         /\ \A v \in JobWorkers \ {w} : worker'[v] = worker[v]
BY DEF Job!Proceed, JobTyped, JobSlots

\* A status is written, and nothing else.
LEMMA StatusWritten ==
  ASSUME JobTyped, NEW k \in Emails, NEW s \in Job!Statuses, Job!SetStatus(k, s)
  PROVE  /\ row' \in [Emails -> JobRows] /\ \A i \in Emails : row'[i].parsed = row[i].parsed
         /\ row'[k].status = s /\ \A i \in Emails \ {k} : row'[i] = row[i]
BY DEF Job!SetStatus, JobTyped, JobRows

\* The handlers of the queue.
LEMMA ParseKeeps ==
  ASSUME JobsInv, Emails # {}, NEW w \in JobWorkers, Job!ParseStep(w), Job!Track
  PROVE  JobsInv'
<1>1. UNCHANGED <<jobs, call, reviews>> /\ worker[w].pc # "idle"
  BY DEF Job!ParseStep, Job!MarkProcessing, Job!Fetch, Job!Extract, Job!FinishOutcome,
     Job!NotifyUser, Job!HandleError
<1>2. JobTyped
  BY DEF JobsInv
<1>3. PICK k \in Emails : k = worker[w].id
  BY <1>2 DEF JobTyped, JobSlots
<1>4. /\ row' \in [Emails -> JobRows] /\ \A i \in Emails \ {k} : row'[i] = row[i]
      /\ \/ row' = row
         \/ row'[k].parsed = row[k].parsed /\ row'[k].status \in {"PROCESSING", "FAILED"}
         \/ worker[w].pc = "complete" /\ row'[k] = [status |-> "COMPLETE", parsed |-> TRUE]
              /\ Job!Proceed(w, "notify")
  <2>1. CASE row' = row
    BY <1>2, <2>1 DEF JobTyped
  <2>2. CASE Job!SetStatus(k, "PROCESSING") \/ Job!SetStatus(k, "FAILED")
    <3>1. "PROCESSING" \in Job!Statuses /\ "FAILED" \in Job!Statuses
      BY DEF Job!Statuses
    <3> QED BY <1>2, <2>2, <3>1, StatusWritten
  <2>3. CASE worker[w].pc = "complete" /\ Job!Proceed(w, "notify")
             /\ row' = [row EXCEPT ![k] = [status |-> "COMPLETE", parsed |-> TRUE]]
    BY <1>2, <2>3 DEF JobTyped, JobRows, Job!Statuses
  <2> QED BY <1>3, <2>1, <2>2, <2>3 DEF Job!ParseStep, Job!MarkProcessing, Job!Fetch,
     Job!Extract, Job!FinishOutcome,
             Job!NotifyUser, Job!HandleError
<1>5. /\ task' \in [Emails -> JobTasks] /\ worker' \in [JobWorkers -> JobSlots]
      /\ \A i \in Emails : task'[i].runs = task[i].runs
      /\ \A v \in JobWorkers \ {w} : worker'[v] = worker[v]
      /\ \A i \in Emails : JobOn(w, i)' => JobOn(w, i)
      /\ \A i \in Emails : JobParsing(w, i)' => JobParsing(w, i)
      /\ worker[w].pc = "complete" => ~JobParsing(w, k)'
  <2>1. CASE Job!Finish(w) \/ Job!Rethrow(w)
    <3>1. /\ task' \in [Emails -> JobTasks] /\ worker' \in [JobWorkers -> JobSlots]
          /\ \A i \in Emails : task'[i].runs = task[i].runs
          /\ worker'[w].pc = "idle" /\ \A v \in JobWorkers \ {w} : worker'[v] = worker[v]
      BY <1>2, <1>3, <2>1, EndTyped
    <3> QED BY <3>1 DEF JobOn, JobParsing
  <2>2. ASSUME UNCHANGED task, NEW pc \in {"fetch", "extract", "complete", "notify", "fail"},
               Job!Proceed(w, pc), worker[w].pc # "complete" \/ pc \in {"notify", "fail"},
               pc \in {"fetch", "extract", "complete"} =>
                 worker[w].pc \in {"mark", "fetch", "extract", "complete"}
        PROVE  <1>5
    <3>1. /\ worker' \in [JobWorkers -> JobSlots]
          /\ worker'[w].pc = pc /\ worker'[w].id = worker[w].id
          /\ \A v \in JobWorkers \ {w} : worker'[v] = worker[v]
      BY <1>2, <2>2, NextTyped
    <3> QED BY <1>1, <1>2, <2>2, <3>1 DEF JobOn, JobParsing, JobTyped
  <2> QED BY <2>1, <2>2 DEF Job!ParseStep, Job!MarkProcessing, Job!Fetch, Job!Extract,
     Job!FinishOutcome,
             Job!NotifyUser, Job!HandleError
<1>6. ASSUME NEW i \in Emails PROVE JobOrder(i)' /\ JobFirstRun(i)' /\ JobUnraced(i)'
  <2>1. JobOrder(i) /\ (worker[w].pc = "complete" => JobParsing(w, k))
    BY <1>3 DEF JobsInv, JobParsing
  <2>2. Written(i)
    BY <1>4, <2>1 DEF Written, JobOrder
  <2>3. task'[i].runs \in Nat /\ task'[i].runs >= task[i].runs
    BY <1>2, <1>5 DEF JobTyped, JobTasks
  <2>4. JobOrder(i)' /\ JobUnraced(i)'
    BY <1>1, <2>2, <2>3, WorkerStep
  <2>5. \A v \in JobWorkers : (JobOn(v, i)' => JobOn(v, i)) /\ (JobParsing(v, i)' => JobParsing(v, i))
    BY <1>5 DEF JobOn, JobParsing
  <2>6. row'[i].parsed => row[i].parsed \/ \E v \in JobWorkers : JobParsing(v, i) /\ ~JobParsing(v, i)'
    BY <1>4, <1>5, <2>1
  <2> QED BY <1>5, <2>4, <2>5, <2>6, RunFinds
<1>7. raced' \in [Emails -> BOOLEAN]
  BY <1>2, <1>3, RacesRecorded
<1> QED BY <1>1, <1>2, <1>4, <1>5, <1>6, <1>7 DEF JobsInv, JobTyped

\* A run takes the import: the first one before anything was written.
LEMMA TakeKeeps ==
  ASSUME JobsInv, NEW w \in JobWorkers, NEW k \in Emails, Job!Take(w, k), Job!Track
  PROVE  JobsInv'
<1>1. UNCHANGED <<row, jobs, call>> /\ worker[w].pc = "idle" /\ JobTyped
  BY DEF Job!Take, JobsInv
<1>2. /\ worker' \in [JobWorkers -> JobSlots]
      /\ worker'[w].pc = "mark" /\ worker'[w].id = k
      /\ \A v \in JobWorkers \ {w} : worker'[v] = worker[v]
  BY <1>1 DEF Job!Take, JobTyped, JobSlots
<1>3. /\ task' \in [Emails -> JobTasks] /\ task'[k].runs = task[k].runs + 1
      /\ \A i \in Emails \ {k} : task'[i] = task[i]
  <2> DEFINE n == task[k].runs + 1
             one == [task EXCEPT ![k].state = "active"]
  <2>1. n \in Nat
    BY <1>1 DEF JobTyped, JobTasks
  <2>2. task' = [one EXCEPT ![k].runs = one[k].runs + 1]
    <3>1. task' = [task EXCEPT ![k].state = "active", ![k].runs = @ + 1]
      BY DEF Job!Take
    <3> QED BY <3>1, <1>1, Zenon DEF JobTyped
  <2>3. one \in [Emails -> JobTasks] /\ \A i \in Emails : one[i].runs = task[i].runs
    BY <1>1 DEF JobTyped, JobTasks
  <2>4. \A i \in Emails \ {k} : one[i] = task[i]
    OBVIOUS
  <2> HIDE DEF one
  <2> QED BY <2>2, <2>3, <2>4 DEF JobTasks
<1>4. ASSUME NEW i \in Emails PROVE JobOrder(i)' /\ JobFirstRun(i)' /\ JobUnraced(i)'
  <2>1. JobOrder(i) /\ JobFirstRun(i)
    BY DEF JobsInv
  <2>2. Written(i)
    BY <1>1, <2>1 DEF Written, JobOrder
  <2>3. task[i].runs \in Nat /\ task'[i].runs \in Nat /\ task'[i].runs >= task[i].runs
    BY <1>1, <1>3 DEF JobTyped, JobTasks
  <2>4. JobOrder(i)' /\ JobUnraced(i)'
    BY <1>1, <2>2, <2>3, WorkerStep
  <2>5. CASE i # k
    <3>1. \A v \in JobWorkers : (JobOn(v, i)' => JobOn(v, i)) /\ (JobParsing(v, i)' => JobParsing(v, i))
      BY <1>2, <2>5 DEF JobOn, JobParsing
    <3> QED BY <1>1, <1>3, <2>4, <2>5, <3>1, RunFinds
  <2>6. CASE i = k
    <3>1. task'[k].runs <= 1 => task[k].runs = 0
      BY <1>3, <2>3, <2>6
    <3>2. task'[k].runs # 0
      BY <1>3, <2>3, <2>6
    <3>3. task'[k].runs <= 1 => ~row'[k].parsed /\ \A v \in JobWorkers : JobOn(v, k)' => v = w
      BY <1>1, <1>2, <2>1, <2>6, <3>1 DEF JobFirstRun, JobOn
    <3> QED BY <2>4, <2>6, <3>2, <3>3 DEF JobFirstRun
  <2> QED BY <2>5, <2>6
<1>5. raced' \in [Emails -> BOOLEAN]
  BY <1>1, RacesRecorded
<1> QED BY <1>1, <1>2, <1>3, <1>4, <1>5 DEF JobsInv, JobTyped

\* A worker that dies and a lock that is lost write nothing.
LEMMA LossKeeps ==
  ASSUME JobsInv, Emails # {}, Job!Track,
         (\E w \in JobWorkers : Job!Crash(w)) \/ (\E i \in Emails : Job!Stalled(i))
  PROVE  JobsInv'
<1>1. UNCHANGED <<row, jobs, call>> /\ JobTyped
  BY DEF Job!Crash, Job!Stalled, JobsInv
<1>2. /\ worker' \in [JobWorkers -> JobSlots]
      /\ \A v \in JobWorkers : worker'[v].pc = "idle" \/ (worker'[v].pc = worker[v].pc /\ worker'[v].id = worker[v].id)
  <2>1. Job!AnImport \in Emails
    BY DEF Job!AnImport
  <2>2. ASSUME NEW w \in JobWorkers, Job!Crash(w) PROVE <1>2
    BY <1>1, <2>1, <2>2 DEF Job!Crash, JobTyped, JobSlots, Job!IdleWorker
  <2>3. ASSUME NEW i \in Emails, Job!Stalled(i) PROVE <1>2
    <3>1. \A v \in JobWorkers : worker'[v] = worker[v] \/ worker'[v] = [worker[v] EXCEPT !.locked = FALSE]
      BY <2>3 DEF Job!Stalled
    <3>2. worker' = [v \in JobWorkers |-> worker'[v]]
      BY <2>3 DEF Job!Stalled
    <3>3. ASSUME NEW v \in JobWorkers
          PROVE  worker'[v] \in JobSlots /\ worker'[v].pc = worker[v].pc /\ worker'[v].id = worker[v].id
      <4>1. worker[v] \in JobSlots
        BY <1>1 DEF JobTyped
      <4>2. CASE worker'[v] = worker[v]
        BY <4>1, <4>2
      <4>3. CASE worker'[v] = [worker[v] EXCEPT !.locked = FALSE]
        BY <4>1, <4>3 DEF JobSlots
      <4> QED BY <3>1, <4>2, <4>3
    <3> QED BY <3>2, <3>3
  <2> QED BY <2>2, <2>3
<1>3. task' \in [Emails -> JobTasks] /\ \A i \in Emails : task'[i].runs = task[i].runs
  <2>1. CASE task' = task
    BY <1>1, <2>1 DEF JobTyped
  <2>2. ASSUME NEW k \in Emails, Job!Stalled(k) PROVE <1>3
    <3> DEFINE n == task[k].stalls + 1
               s == IF task[k].stalls < Job!MaxStalls THEN "waiting" ELSE "failed"
               one == [task EXCEPT ![k].stalls = n]
    <3>1. n \in Nat /\ s \in {"waiting", "failed"}
      BY <1>1 DEF JobTyped, JobTasks
    <3>2. task' = [one EXCEPT ![k].state = s]
      <4>1. task' = [task EXCEPT ![k].stalls = @ + 1,
                       ![k].state = IF task[k].stalls < Job!MaxStalls THEN "waiting" ELSE "failed"]
        BY <2>2 DEF Job!Stalled
      <4> QED BY <4>1, Zenon
    <3> HIDE DEF n, s
    <3>3. one \in [Emails -> JobTasks] /\ \A i \in Emails : one[i].runs = task[i].runs
      BY <1>1, <3>1 DEF JobTyped, JobTasks
    <3> HIDE DEF one
    <3> QED BY <3>1, <3>2, <3>3 DEF JobTasks
  <2> QED BY <2>1, <2>2 DEF Job!Crash
<1>4. ASSUME NEW i \in Emails PROVE JobOrder(i)' /\ JobFirstRun(i)' /\ JobUnraced(i)'
  <2>1. Written(i)
    BY <1>1 DEF Written, JobsInv, JobOrder
  <2>2. task'[i].runs \in Nat /\ task'[i].runs >= task[i].runs
    BY <1>1, <1>3 DEF JobTyped, JobTasks
  <2>3. \A v \in JobWorkers : (JobOn(v, i)' => JobOn(v, i)) /\ (JobParsing(v, i)' => JobParsing(v, i))
    BY <1>2 DEF JobOn, JobParsing
  <2> QED BY <1>1, <1>3, <2>1, <2>2, <2>3, WorkerStep, RunFinds
<1>5. raced' \in [Emails -> BOOLEAN]
  <2>1. Job!AnImport \in Emails
    BY DEF Job!AnImport
  <2> QED BY <1>1, <2>1, RacesRecorded
<1> QED BY <1>1, <1>2, <1>3, <1>4, <1>5 DEF JobsInv, JobTyped

------------------------------------------------------------------------------
(* Calls *)

\* A call that writes no details keeps what the runs find.
LEMMA CallFinds ==
  ASSUME JobsInv, UNCHANGED worker, NEW i \in Emails, task'[i].runs = task[i].runs,
         row'[i].parsed = row[i].parsed
  PROVE  JobFirstRun(i)'
BY DEF JobsInv, JobFirstRun, JobOn, JobParsing

\* A call that is no confirmation, before and after: what it writes into the row of an
\* import races the confirmations of it.
LEMMA OtherStep ==
  ASSUME JobsInv, Job!Track, UNCHANGED jobs, NEW i \in Emails, NEW c \in JobCalls,
         ~Job!Confirming(c, i), ~Job!Confirming(c, i)',
         \A d \in JobCalls \ {c} : call'[d] = call[d],
         task'[i].runs = task[i].runs, row'[i].parsed = row[i].parsed,
         row'[i].status \in {"COMPLETE", "CONFIRMED"} => row'[i].status = row[i].status
  PROVE  JobOrder(i)' /\ JobUnraced(i)'
<1>1. JobTyped /\ JobOrder(i) /\ JobUnraced(i)
  BY DEF JobsInv
<1>2. \A d \in JobCalls : /\ Job!Confirming(d, i)' <=> Job!Confirming(d, i)
                          /\ Job!Confirming(d, i) => call'[d] = call[d]
  BY DEF Job!Confirming
<1>3. JobOrder(i)'
  BY <1>1, <1>2 DEF JobOrder
<1>4. ASSUME ~raced'[i] PROVE JobReady(i)'
  <2>1. ~raced[i] /\ ~Job!Race(i)
    BY <1>1, <1>4, RacesRecorded
  <2>2. JobReady(i)
    BY <1>1, <2>1, Zenon DEF JobUnraced
  <2>3. (\E d \in JobCalls : Job!Confirming(d, i)) => row'[i] = row[i]
    BY <1>2, <2>1 DEF Job!Race
  <2> QED BY <1>2, <2>2, <2>3 DEF JobReady
<1>5. JobUnraced(i)'
  BY <1>4, Zenon DEF JobUnraced
<1> QED BY <1>3, <1>5

\* A reception, up to the queue, and a decline, from its look to its write.
LEMMA OtherKeeps ==
  ASSUME JobsInv, Emails # {}, NEW c \in JobCalls, Job!Track,
         \/ Job!ReceiveStep(c) \/ Job!Decline(c)
         \/ \E i \in Emails : Job!CheckDecline(c, i)
         \/ Job!Die(c) /\ call[c].pc \notin {"create", "confirm"}
  PROVE  JobsInv'
<1>1. JobTyped /\ Job!AnImport \in Emails
  BY DEF JobsInv, Job!AnImport
<1>2. UNCHANGED <<jobs, worker>>
  BY DEF Job!ReceiveStep, Job!HandleInbound, Job!HandleUpload, Job!Enqueue, Job!Decline,
     Job!CheckDecline, Job!Die
<1>3. /\ call' \in [JobCalls -> JobForms] /\ \A d \in JobCalls \ {c} : call'[d] = call[d]
      /\ call[c].pc \notin {"create", "confirm"} /\ call'[c].pc \notin {"create", "confirm"}
  <2>1. PICK f \in JobForms : call' = [call EXCEPT ![c] = f] /\ f.pc \notin {"create", "confirm"}
    BY <1>1 DEF Job!ReceiveStep, Job!HandleInbound, Job!HandleUpload, Job!Enqueue,
       Job!Decline, Job!CheckDecline, Job!Die,
       Job!Begin, Job!Return, Job!IdleCall, JobForms
  <2>2. call' \in [JobCalls -> JobForms] /\ call'[c] = f /\ \A d \in JobCalls \ {c} : call'[d] = call[d]
    BY <1>1, <2>1 DEF JobTyped
  <2>3. call[c].pc \notin {"create", "confirm"}
    BY DEF Job!ReceiveStep, Job!HandleInbound, Job!HandleUpload, Job!Enqueue, Job!Decline,
       Job!CheckDecline, Job!Begin
  <2> QED BY <2>1, <2>2, <2>3
<1>4. /\ row' \in [Emails -> JobRows] /\ \A i \in Emails : row'[i].parsed = row[i].parsed
      /\ \A i \in Emails : row'[i].status \in {"COMPLETE", "CONFIRMED"} => row'[i].status = row[i].status
  <2>1. CASE row' = row
    BY <1>1, <2>1 DEF JobTyped
  <2>2. ASSUME NEW k \in Emails, NEW s \in {"QUEUED", "DECLINED"}, Job!SetStatus(k, s) PROVE <1>4
    BY <1>1, <2>2, StatusWritten DEF Job!Statuses
  <2>3. call[c].id \in Emails
    BY <1>1 DEF JobTyped, JobForms
  <2> QED BY <2>1, <2>2, <2>3 DEF Job!ReceiveStep, Job!HandleInbound, Job!HandleUpload,
     Job!Enqueue, Job!Decline,
             Job!CheckDecline, Job!Die
<1>5. task' \in [Emails -> JobTasks] /\ \A i \in Emails : task'[i].runs = task[i].runs
  <2>1. CASE task' = task
    BY <1>1, <2>1 DEF JobTyped
  <2>2. CASE task' = [task EXCEPT ![call[c].id].state = "waiting"]
    BY <1>1, <2>2 DEF JobTyped, JobTasks
  <2> QED BY <2>1, <2>2 DEF Job!ReceiveStep, Job!HandleInbound, Job!HandleUpload,
     Job!Enqueue, Job!Decline,
             Job!CheckDecline, Job!Die
<1>6. ASSUME NEW i \in Emails PROVE JobOrder(i)' /\ JobFirstRun(i)' /\ JobUnraced(i)'
  <2>1. ~Job!Confirming(c, i) /\ ~Job!Confirming(c, i)'
    BY <1>3 DEF Job!Confirming
  <2> QED BY <1>2, <1>3, <1>4, <1>5, <2>1, CallFinds, OtherStep
<1>7. raced' \in [Emails -> BOOLEAN]
  BY <1>1, RacesRecorded
<1> QED BY <1>1, <1>2, <1>3, <1>4, <1>5, <1>6, <1>7 DEF JobsInv, JobTyped

\* An unraced import was ready, and nothing raced it now.
LEMMA Unrecorded ==
  ASSUME JobsInv, Job!Track, NEW i \in Emails, ~raced'[i]
  PROVE  JobReady(i) /\ ~Job!Race(i)
<1>1. ~raced[i] /\ ~Job!Race(i)
  BY RacesRecorded DEF JobsInv
<1>2. JobUnraced(i)
  BY DEF JobsInv
<1> QED BY <1>1, <1>2, Zenon DEF JobUnraced

\* A confirmation checks, makes the job, marks the import, or is cut off.
LEMMA ConfirmKeeps ==
  ASSUME JobsInv, Emails # {}, faults \in Nat, NEW c \in JobCalls, Job!Track,
         \/ \E i \in Emails : Job!CheckConfirm(c, i)
         \/ Job!CreateJob(c) \/ Job!MarkConfirmed(c)
         \/ Job!Die(c) /\ call[c].pc \in {"create", "confirm"}
  PROVE  JobsInv'
<1>1. JobTyped /\ Job!AnImport \in Emails
  BY DEF JobsInv, Job!AnImport
<1>2. UNCHANGED <<task, worker>>
  BY DEF Job!CheckConfirm, Job!CreateJob, Job!MarkConfirmed, Job!Die
<1>3. raced' \in [Emails -> BOOLEAN]
  BY <1>1, RacesRecorded
<1>4. \A i \in Emails : JobOrder(i) /\ JobUnraced(i) /\ jobs[i] \in Nat
  BY <1>1 DEF JobsInv, JobTyped
<1>5. ASSUME NEW k \in Emails, Job!CheckConfirm(c, k) PROVE JobsInv'
  <2>1. UNCHANGED <<row, jobs>> /\ row[k].status = "COMPLETE" /\ call[c].pc = "idle"
        /\ call' = [call EXCEPT ![c] = [pc |-> "create", id |-> k]]
    BY <1>5 DEF Job!CheckConfirm, Job!Begin, Job!Confirmable
  <2>2. /\ call' \in [JobCalls -> JobForms] /\ \A d \in JobCalls \ {c} : call'[d] = call[d]
        /\ call'[c].pc = "create" /\ call'[c].id = k
    BY <1>1, <2>1 DEF JobTyped, JobForms
  <2>3. \A i \in Emails, d \in JobCalls :
          /\ Job!Confirming(d, i) => d # c
          /\ Job!Confirming(d, i)' => Job!Confirming(d, i) \/ i = k
          /\ Job!Confirming(d, i) => Job!Confirming(d, i)' /\ call'[d] = call[d]
          /\ Job!Confirming(d, i)' /\ call'[d].pc = "confirm" => Job!Confirming(d, i) /\ call[d].pc = "confirm"
    BY <2>1, <2>2 DEF Job!Confirming
  <2>4. ASSUME NEW i \in Emails PROVE JobOrder(i)' /\ JobFirstRun(i)' /\ JobUnraced(i)'
    <3>1. JobFirstRun(i)'
      BY <1>2, <2>1, CallFinds
    <3>2. JobOrder(i)'
      BY <1>4, <2>1, <2>3 DEF JobOrder
    <3>3. ASSUME ~raced'[i] PROVE JobReady(i)'
      <4>1. JobReady(i)
        BY <3>3, Unrecorded
      <4> QED BY <1>2, <2>1, <2>3, <4>1 DEF JobReady
    <3>4. JobUnraced(i)'
      BY <3>3, Zenon DEF JobUnraced
    <3> QED BY <3>1, <3>2, <3>4
  <2> QED BY <1>1, <1>2, <1>3, <2>1, <2>2, <2>4 DEF JobsInv, JobTyped
<1>6. PICK k \in Emails : k = call[c].id
  BY <1>1 DEF JobTyped, JobForms
<1>7. CASE Job!CreateJob(c)
  <2>1. UNCHANGED row /\ call[c].pc = "create" /\ Job!Goto(c, "confirm")
        /\ jobs' = [jobs EXCEPT ![k] = @ + 1]
    BY <1>6, <1>7 DEF Job!CreateJob
  <2>2. /\ call' \in [JobCalls -> JobForms] /\ \A d \in JobCalls \ {c} : call'[d] = call[d]
        /\ call'[c].pc = "confirm" /\ call'[c].id = k
    BY <1>1, <1>6, <2>1 DEF Job!Goto, JobTyped, JobForms
  <2>3. /\ jobs' \in [Emails -> Nat] /\ jobs'[k] = jobs[k] + 1
        /\ \A i \in Emails \ {k} : jobs'[i] = jobs[i]
    BY <1>1, <2>1 DEF JobTyped
  <2>4. /\ \A i \in Emails, d \in JobCalls : Job!Confirming(d, i)' <=> Job!Confirming(d, i)
        /\ Job!Confirming(c, k) /\ \A i \in Emails \ {k} : ~Job!Confirming(c, i)
    BY <1>6, <2>1, <2>2 DEF Job!Confirming
  <2>5. ASSUME NEW i \in Emails PROVE JobOrder(i)' /\ JobFirstRun(i)' /\ JobUnraced(i)'
    <3>1. JobFirstRun(i)'
      BY <1>2, <2>1, CallFinds
    <3>2. jobs[i] \in Nat /\ jobs'[i] >= jobs[i] /\ jobs'[k] > 0 /\ row[k].parsed
      BY <1>4, <2>3, <2>4 DEF JobOrder
    <3>3. JobOrder(i)'
      <4>1. CASE i = k
        BY <2>1, <2>3, <2>4, <3>2, <4>1, <1>4 DEF JobOrder
      <4>2. CASE i # k
        BY <2>1, <2>2, <2>3, <2>4, <4>2, <1>4 DEF JobOrder
      <4> QED BY <4>1, <4>2
    <3>4. ASSUME ~raced'[i] PROVE JobReady(i)'
      <4>1. JobReady(i) /\ ~Job!Race(i)
        BY <3>4, Unrecorded
      <4>2. CASE i # k
        BY <1>2, <2>1, <2>2, <2>3, <2>4, <4>1, <4>2 DEF JobReady
      <4>3. CASE i = k
        <5>1. ASSUME NEW d \in JobCalls, Job!Confirming(d, k) PROVE d = c
          <6>1. jobs'[k] # jobs[k]
            BY <1>4, <2>3
          <6> QED BY <2>2, <4>1, <4>3, <5>1, <6>1 DEF Job!Race
        <5>2. row[k].status = "COMPLETE"
          BY <2>4, <4>1, <4>3 DEF JobReady
        <5>3. task[k].runs <= 1 => jobs[k] <= 1 /\ jobs[k] # 1
          BY <2>1, <4>1, <4>3, <5>1, <5>2 DEF JobReady
        <5>4. task[k].runs <= 1 => jobs'[k] <= 1
          BY <1>4, <2>3, <5>3
        <5> QED BY <1>2, <2>1, <2>2, <2>4, <4>3, <5>2, <5>4 DEF JobReady
      <4> QED BY <4>2, <4>3
    <3>5. JobUnraced(i)'
      BY <3>4, Zenon DEF JobUnraced
    <3> QED BY <3>1, <3>3, <3>5
  <2> QED BY <1>1, <1>2, <1>3, <2>1, <2>2, <2>3, <2>5 DEF JobsInv, JobTyped
<1>8. CASE Job!MarkConfirmed(c)
  <2>1. UNCHANGED jobs /\ call[c].pc = "confirm" /\ Job!SetStatus(k, "CONFIRMED")
        /\ call' = [call EXCEPT ![c] = Job!IdleCall]
    BY <1>6, <1>8 DEF Job!MarkConfirmed, Job!Return
  <2>2. /\ call' \in [JobCalls -> JobForms] /\ \A d \in JobCalls \ {c} : call'[d] = call[d]
        /\ call'[c].pc = "idle"
    BY <1>1, <2>1 DEF Job!IdleCall, JobTyped, JobForms
  <2>3. /\ row' \in [Emails -> JobRows] /\ \A i \in Emails : row'[i].parsed = row[i].parsed
        /\ row'[k].status = "CONFIRMED" /\ \A i \in Emails \ {k} : row'[i] = row[i]
    BY <1>1, <2>1, StatusWritten DEF Job!Statuses
  <2>4. /\ \A i \in Emails, d \in JobCalls : Job!Confirming(d, i)' => Job!Confirming(d, i) /\ call'[d] = call[d]
        /\ \A i \in Emails, d \in JobCalls : Job!Confirming(d, i) /\ i # k => Job!Confirming(d, i)'
        /\ Job!Confirming(c, k)
    BY <1>6, <2>1, <2>2 DEF Job!Confirming
  <2>5. ASSUME NEW i \in Emails PROVE JobOrder(i)' /\ JobFirstRun(i)' /\ JobUnraced(i)'
    <3>1. JobFirstRun(i)'
      BY <1>2, <2>3, CallFinds
    <3>2. JobOrder(i)'
      <4>1. row[k].parsed /\ jobs[k] > 0
        BY <1>4, <2>1, <2>4 DEF JobOrder
      <4>2. CASE i = k
        BY <1>4, <2>1, <2>3, <2>4, <4>1, <4>2 DEF JobOrder
      <4>3. CASE i # k
        BY <1>4, <2>1, <2>3, <2>4, <4>3 DEF JobOrder
      <4> QED BY <4>2, <4>3
    <3>3. ASSUME ~raced'[i] PROVE JobReady(i)'
      <4>1. JobReady(i) /\ ~Job!Race(i)
        BY <3>3, Unrecorded
      <4>2. CASE i # k
        <5>1. \A d \in JobCalls : /\ Job!Confirming(d, i)' <=> Job!Confirming(d, i)
                                  /\ Job!Confirming(d, i) => call'[d] = call[d]
          BY <2>4, <4>2
        <5> QED BY <1>2, <2>1, <2>3, <4>1, <4>2, <5>1 DEF JobReady
      <4>3. CASE i = k
        <5>1. row[k].status = "COMPLETE"
          BY <2>4, <4>1, <4>3 DEF JobReady
        <5>2. \A d \in JobCalls : ~Job!Confirming(d, k)'
          BY <2>3, <2>4, <4>1, <4>3, <5>1 DEF Job!Race
        <5>3. task[k].runs <= 1 => jobs[k] <= 1
          BY <4>1, <4>3 DEF JobReady
        <5> QED BY <1>2, <2>1, <2>3, <4>3, <5>2, <5>3 DEF JobReady
      <4> QED BY <4>2, <4>3
    <3>4. JobUnraced(i)'
      BY <3>3, Zenon DEF JobUnraced
    <3> QED BY <3>1, <3>2, <3>4
  <2> QED BY <1>1, <1>2, <1>3, <2>1, <2>2, <2>3, <2>5 DEF JobsInv, JobTyped
<1>9. CASE Job!Die(c) /\ call[c].pc \in {"create", "confirm"}
  <2>1. UNCHANGED <<row, jobs>> /\ call' = [call EXCEPT ![c] = Job!IdleCall] /\ Job!Fault
    BY <1>9 DEF Job!Die, Job!Return
  <2>2. /\ call' \in [JobCalls -> JobForms] /\ \A d \in JobCalls \ {c} : call'[d] = call[d]
        /\ call'[c].pc = "idle"
    BY <1>1, <2>1 DEF Job!IdleCall, JobTyped, JobForms
  <2>3. faults' # faults
    BY <2>1 DEF Job!Fault
  <2>4. \A i \in Emails, d \in JobCalls :
          /\ Job!Confirming(d, i)' => Job!Confirming(d, i) /\ call'[d] = call[d]
          /\ Job!Confirming(d, i) /\ d # c => Job!Confirming(d, i)'
    BY <2>2 DEF Job!Confirming
  <2>5. ASSUME NEW i \in Emails PROVE JobOrder(i)' /\ JobFirstRun(i)' /\ JobUnraced(i)'
    <3>1. JobFirstRun(i)'
      BY <1>2, <2>1, CallFinds
    <3>2. JobOrder(i)'
      BY <1>4, <2>1, <2>4 DEF JobOrder
    <3>3. ASSUME ~raced'[i] PROVE JobReady(i)'
      <4>1. JobReady(i) /\ ~Job!Race(i)
        BY <3>3, Unrecorded
      <4>2. Job!Confirming(c, i) => call'[c] # call[c]
        BY <2>2 DEF Job!Confirming
      <4>3. ~(Job!Confirming(c, i) /\ call[c].pc = "confirm")
        BY <2>3, <4>1, <4>2 DEF Job!Race
      <4>4. \A d \in JobCalls : Job!Confirming(d, i) /\ call[d].pc = "confirm" =>
              Job!Confirming(d, i)' /\ call'[d].pc = "confirm"
        BY <2>2, <2>4, <4>3
      <4> QED BY <1>2, <2>1, <2>4, <4>1, <4>4 DEF JobReady
    <3>4. JobUnraced(i)'
      BY <3>3, Zenon DEF JobUnraced
    <3> QED BY <3>1, <3>2, <3>4
  <2> QED BY <1>1, <1>2, <1>3, <2>1, <2>2, <2>5 DEF JobsInv, JobTyped
<1> QED BY <1>5, <1>7, <1>8, <1>9

------------------------------------------------------------------------------
\* Faults are counted.
LEMMA FaultsCounted == FaultsInv /\ [Job!Next]_jobVars => FaultsInv'
<1> SUFFICES ASSUME faults \in Nat, [Job!Next]_jobVars PROVE faults' \in Nat
  BY DEF FaultsInv
<1>1. faults' = faults \/ Job!Fault
  BY DEF Job!Next, jobVars, Job!ReceiveStep, Job!HandleInbound, Job!HandleUpload,
     Job!Enqueue, Job!ReviewStep, Job!CheckConfirm,
     Job!CheckDecline, Job!CreateJob, Job!MarkConfirmed, Job!Decline, Job!Die,
     Job!ParseStep, Job!MarkProcessing, Job!Fetch,
     Job!Extract, Job!FinishOutcome, Job!NotifyUser, Job!HandleError, Job!Crash, Job!Take,
     Job!Stalled
<1> QED BY <1>1 DEF Job!Fault

\* Every step keeps the invariant.
LEMMA JobGoesOn == JobInv /\ FaultsInv /\ [Job!Next]_jobVars => JobInv'
<1> SUFFICES ASSUME JobsInv, Emails # {}, faults \in Nat, [Job!Next]_jobVars PROVE JobsInv'
  BY DEF JobInv, FaultsInv
<1>1. CASE UNCHANGED jobVars
  BY <1>1 DEF jobVars, JobsInv, JobTyped, JobOrder, JobFirstRun, JobUnraced, JobReady,
     Job!Confirming, JobOn, JobParsing
<1>2. CASE Job!Next
  <2>1. Job!Track
    BY <1>2 DEF Job!Next
  <2>2. \/ \E c \in JobCalls : Job!ReceiveStep(c) \/ Job!ReviewStep(c) \/ Job!Die(c)
        \/ \E w \in JobWorkers : Job!ParseStep(w) \/ Job!Crash(w) \/ \E i \in Emails : Job!Take(w, i)
        \/ \E i \in Emails : Job!Stalled(i)
    BY <1>2 DEF Job!Next
  <2> QED BY <2>1, <2>2, OtherKeeps, ConfirmKeeps, ParseKeeps, TakeKeeps,
     LossKeeps DEF Job!ReviewStep
<1> QED BY <1>1, <1>2

\* What the composition follows, it follows by the steps of JobImport.
LEMMA JobFollowed ==
  /\ AnyInit => JobInv /\ FaultsInv
  /\ [AnyNext]_allVars => [Job!Next]_jobVars
<1>1. AnyInit => JobInv /\ FaultsInv
  BY JobBegins DEF AnyInit, Job!Init, FaultsInv
<1>2. [AnyNext]_allVars => [Job!Next]_jobVars
  BY DEF AnyNext, allVars
<1> QED BY <1>1, <1>2

\* An import becomes one job, unless a confirmation of it was overtaken or cut off, or
\* the queue parsed it again: nothing but the status stands between two confirmations.
THEOREM OneJobMade == AnySpec => []OneJobPerImport
<1>1. JobInv => OneJobPerImport
  <2>1. JobsInv => \A i \in Emails : ~raced[i] => JobReady(i)
    BY Zenon DEF JobsInv, JobUnraced
  <2>2. \A i \in Emails : JobReady(i) => (task[i].runs <= 1 => jobs[i] <= 1)
    BY DEF JobReady
  <2>3. Emails = {} => OneJobPerImport
    BY DEF OneJobPerImport, Job!OneJobPerImport
  <2> QED BY <2>1, <2>2, <2>3, Zenon DEF JobInv, OneJobPerImport, Job!OneJobPerImport
<1> QED BY <1>1, JobFollowed, JobGoesOn, FaultsCounted, PTL DEF AnySpec

\* A job has parsed details behind it and a confirmed import its job, whatever crashes,
\* is run again or races.
THEOREM ConfirmedHasJob == AnySpec => []ConfirmedIsParsedJob
<1>1. JobInv => ConfirmedIsParsedJob
  BY DEF JobInv, JobsInv, JobOrder, ConfirmedIsParsedJob, Job!ConfirmedIsParsedJob
<1> QED BY <1>1, JobFollowed, JobGoesOn, FaultsCounted, PTL DEF AnySpec
==============================================================================
