------------------------------ MODULE Invoicing ------------------------------
(***************************************************************************)
(* Invoices of completed jobs: InvoicesService.generate, .markPaid,        *)
(* .update and .syncDraftFromJob with the fee edit of JobsService.update   *)
(* that calls it, the per-owner numbering, and the PDF worker with the     *)
(* object store it uploads to.  Emails are in InvoiceDelivery, the status  *)
(* of the job in JobLifecycle: here every job is COMPLETE.                 *)
(*                                                                         *)
(* A call reads, decides and writes in steps of its own; a row is written  *)
(* by id.  An invoice's amount is its pair <<subtotal, travel fee>>.       *)
(***************************************************************************)
EXTENDS Naturals, FiniteSets, FiniteSetsExt

CONSTANTS Jobs, Owner, Mileage,  \* jobs, the notary and the mileage cost of each
          Fees,                  \* fees a job or an invoice may be given
          Calls,                 \* API calls that can be under way at once
          Slots,                 \* generate-pdf jobs that can run at once
          MaxOps, MaxFaults      \* bounds: calls begun, faults

Tries == 5                       \* creates that generate attempts

ASSUME ConstantsAssumption ==
  /\ IsFiniteSet(Jobs) /\ Jobs # {}
  /\ Mileage \in [Jobs -> Nat] /\ Fees \subseteq Nat \ {0}
  /\ MaxOps \in Nat /\ MaxFaults \in Nat

VARIABLES
  fee,       \* job.fee
  invoice,   \* the invoice row of each job; number 0 when there is none
  stored,    \* the object store: the PDF under each key
  pdfQueue,  \* queued generate-pdf jobs of each invoice
  call,      \* per call: next step, job, rows as read, arguments; history: the
             \* owner's last number when generate began
  slot,      \* per worker slot: next step, job, amount as read
  ops, faults,
  raced,     \* history, per job: a call changed what another had read and was
             \* about to write by
  crossed,   \* history, per job: another render of its invoice was under way when
             \* the last one began
  cut        \* history: the jobs of which a call ended between the fee and the invoice

vars == <<fee, invoice, stored, pdfQueue, call, slot, ops, faults, raced,
          crossed, cut>>

Numbers  == 1..Cardinality(Jobs)
NoAmount == <<0, 0>>
NewRow(n, amount) ==
  [number |-> n, amount |-> amount, paid |-> FALSE, pdf |-> FALSE, pending |-> FALSE]
NoRow    == NewRow(0, NoAmount)
NoPdf    == <<"none", NoAmount>>

NewCall(pc, j, f) ==
  [pc |-> pc, job |-> j, fee |-> f, number |-> 0, tries |-> 0, since |-> 0]

AJob     == CHOOSE j \in Jobs : TRUE
IdleCall == NewCall("idle", AJob, 0)
IdleSlot == [pc |-> "idle", job |-> AJob, amount |-> NoAmount]

Init ==
  /\ fee \in [Jobs -> Fees]
  /\ invoice = [j \in Jobs |-> NoRow]
  /\ stored = [n \in Numbers |-> NoPdf]
  /\ pdfQueue = [j \in Jobs |-> 0]
  /\ call = [c \in Calls |-> IdleCall]
  /\ slot = [s \in Slots |-> IdleSlot]
  /\ ops = 0 /\ faults = 0
  /\ raced = [j \in Jobs |-> FALSE]
  /\ crossed = [j \in Jobs |-> FALSE]
  /\ cut = {}

Exists(j) == invoice[j].number # 0

Begin(c, next) ==
  /\ call[c].pc = "idle" /\ ops < MaxOps
  /\ ops' = ops + 1
  /\ call' = [call EXCEPT ![c] = next]

Goto(c, pc) == call' = [call EXCEPT ![c].pc = pc]
Return(c)   == call' = [call EXCEPT ![c] = IdleCall]

Fault == faults < MaxFaults /\ faults' = faults + 1

\* The last number among the owner's invoices, 0 if there are none.
LastNumber(o) == Max({0} \cup {invoice[j].number : j \in {k \in Jobs : Owner[k] = o}})

------------------------------------------------------------------------------
(* generate *)

\* refreshExisting queues the PDF only for a row that has none and expects none.
Refresh(j) == IF invoice[j].pdf \/ invoice[j].pending THEN "idle" ELSE "pend"

BeginGenerate(c) ==
  /\ \E j \in Jobs :
       Begin(c, [NewCall("lookup", j, fee[j]) EXCEPT !.since = LastNumber(Owner[j])])
  /\ UNCHANGED <<fee, invoice, stored, pdfQueue, slot, faults>>

LookUp(c) ==
  /\ call[c].pc = "lookup"
  /\ LET j == call[c].job
     IN Goto(c, IF Exists(j) THEN Refresh(j) ELSE "number")
  /\ UNCHANGED <<fee, invoice, stored, pdfQueue, slot, ops, faults>>

\* Mutant of NextNumber: over all owners.
NextNumberGlobal(o) == Max({0} \cup {invoice[j].number : j \in Jobs}) + 1

NextNumber(o) == LastNumber(o) + 1

PickNumber(c) ==
  /\ call[c].pc = "number"
  /\ call' = [call EXCEPT ![c].number = NextNumber(Owner[call[c].job]), ![c].pc = "create"]
  /\ UNCHANGED <<fee, invoice, stored, pdfQueue, slot, ops, faults>>

\* job_id is unique, and so is the number among one owner's invoices.
Unique(j, n) ==
  /\ ~Exists(j)
  /\ \A k \in Jobs : Owner[k] = Owner[j] => invoice[k].number # n

\* The amounts are those of the job as generate first read it.
Create(c) ==
  /\ call[c].pc = "create"
  /\ LET j == call[c].job IN
       /\ Unique(j, call[c].number)
       /\ invoice' = [invoice EXCEPT ![j] =
                         NewRow(call[c].number, <<call[c].fee, Mileage[j]>>)]
  /\ Goto(c, "pend")
  /\ UNCHANGED <<fee, stored, pdfQueue, slot, ops, faults>>

TryAgain(c) == call' = [call EXCEPT ![c].tries = @ + 1, ![c].pc = "number"]

\* A unique violation: the job's invoice appeared meanwhile, or try another number.
\* Rows only appear, so looking for the invoice again can share the step.
CreateRefused(c) ==
  /\ call[c].pc = "create"
  /\ LET j == call[c].job  last == call[c].tries + 1 = Tries IN
       /\ ~Unique(j, call[c].number)
       /\ IF Exists(j) THEN Goto(c, Refresh(j))
          ELSE IF last THEN Return(c) ELSE TryAgain(c)
  /\ UNCHANGED <<fee, invoice, stored, pdfQueue, slot, ops, faults>>

\* Mutant of AfterSync: the PDF is not rendered again.
AfterSyncNoPdf == "idle"

AfterSync == "pend"

\* The shared tail of every change: pdf_pending, then the queue.
Pend(c) ==
  /\ call[c].pc = "pend"
  /\ invoice' = [invoice EXCEPT ![call[c].job].pending = TRUE]
  /\ Goto(c, "enqueue")
  /\ UNCHANGED <<fee, stored, pdfQueue, slot, ops, faults>>

Enqueue(c) ==
  /\ call[c].pc = "enqueue"
  /\ \/ pdfQueue' = [pdfQueue EXCEPT ![call[c].job] = @ + 1] /\ UNCHANGED faults
     \/ Fault /\ UNCHANGED pdfQueue
  /\ Return(c)
  /\ UNCHANGED <<fee, invoice, stored, slot, ops>>

------------------------------------------------------------------------------
(* JobsService.update, then syncDraftFromJob *)

\* An edit of the fee, or (0) of something else the profitability depends on;
\* such an edit hands on the fee it read.
BeginJobEdit(c) ==
  /\ \E j \in Jobs, f \in Fees \cup {0} :
       Begin(c, IF f = 0 THEN NewCall("sync", j, fee[j]) ELSE NewCall("writeFee", j, f))
  /\ UNCHANGED <<fee, invoice, stored, pdfQueue, slot, faults>>

WriteFee(c) ==
  /\ call[c].pc = "writeFee"
  /\ fee' = [fee EXCEPT ![call[c].job] = call[c].fee]
  /\ Goto(c, "sync")
  /\ UNCHANGED <<invoice, stored, pdfQueue, slot, ops, faults>>

\* Mutant of SyncIdle: paid invoices are not locked.
SyncIdlePaid(row, amount) == row.number = 0 \/ row.amount = amount

\* Nothing to sync: no invoice, a paid one, or the same amount.
SyncIdle(row, amount) == row.number = 0 \/ row.paid \/ row.amount = amount

ReadForSync(c) ==
  /\ call[c].pc = "sync"
  /\ LET j == call[c].job
     IN IF SyncIdle(invoice[j], <<call[c].fee, Mileage[j]>>) THEN Return(c)
                                                             ELSE Goto(c, "writeSync")
  /\ UNCHANGED <<fee, invoice, stored, pdfQueue, slot, ops, faults>>

WriteSync(c) ==
  /\ call[c].pc = "writeSync"
  /\ LET j == call[c].job
     IN invoice' = [invoice EXCEPT ![j].amount = <<call[c].fee, Mileage[j]>>]
  /\ Goto(c, AfterSync)
  /\ UNCHANGED <<fee, stored, pdfQueue, slot, ops, faults>>

------------------------------------------------------------------------------
(* InvoicesService.update, with syncJobFee, and markPaid *)

\* An edit of the final fee, or (0) of other columns.
BeginInvoiceEdit(c) ==
  /\ \E j \in Jobs, f \in Fees \cup {0} :
       /\ Exists(j)
       /\ ~(invoice[j].paid /\ f # 0)
       /\ Begin(c, NewCall(IF f = 0 THEN "pend" ELSE "jobFee", j, f))
  /\ UNCHANGED <<fee, invoice, stored, pdfQueue, slot, faults>>

\* Mutant of SyncJobFee: the final fee is not mirrored on the job.
SyncJobFeeSkips(c) ==
  /\ call[c].pc = "jobFee"
  /\ Goto(c, "finalFee")
  /\ UNCHANGED <<fee, invoice, stored, pdfQueue, slot, ops, faults>>

SyncJobFee(c) ==
  /\ call[c].pc = "jobFee"
  /\ Goto(c, IF fee[call[c].job] = call[c].fee THEN "finalFee" ELSE "writeJobFee")
  /\ UNCHANGED <<fee, invoice, stored, pdfQueue, slot, ops, faults>>

WriteJobFee(c) ==
  /\ call[c].pc = "writeJobFee"
  /\ fee' = [fee EXCEPT ![call[c].job] = call[c].fee]
  /\ Goto(c, "finalFee")
  /\ UNCHANGED <<invoice, stored, pdfQueue, slot, ops, faults>>

WriteFinalFee(c) ==
  /\ call[c].pc = "finalFee"
  /\ invoice' = [invoice EXCEPT ![call[c].job].amount = <<call[c].fee, 0>>]
  /\ Goto(c, "pend")
  /\ UNCHANGED <<fee, stored, pdfQueue, slot, ops, faults>>

BeginMarkPaid(c) ==
  /\ \E j \in Jobs :
       /\ Exists(j) /\ ~invoice[j].paid
       /\ Begin(c, NewCall("pay", j, 0))
  /\ UNCHANGED <<fee, invoice, stored, pdfQueue, slot, faults>>

WritePaid(c) ==
  /\ call[c].pc = "pay"
  /\ invoice' = [invoice EXCEPT ![call[c].job].paid = TRUE]
  /\ Return(c)
  /\ UNCHANGED <<fee, stored, pdfQueue, slot, ops, faults>>

\* The API dies, or a statement throws: the rest of the call is not done.
CallFails(c) ==
  /\ call[c].pc # "idle"
  /\ Fault
  /\ Return(c)
  /\ UNCHANGED <<fee, invoice, stored, pdfQueue, slot, ops>>

------------------------------------------------------------------------------
(* InvoiceProcessor.handleGeneratePdf *)

Render(s) ==
  /\ slot[s].pc = "idle"
  /\ \E j \in Jobs :
       /\ pdfQueue[j] > 0
       /\ pdfQueue' = [pdfQueue EXCEPT ![j] = @ - 1]
       /\ slot' = [slot EXCEPT ![s] = [pc |-> "upload", job |-> j,
                                       amount |-> invoice[j].amount]]
  /\ UNCHANGED <<fee, invoice, stored, call, ops, faults>>

\* The object key is made of the invoice number alone.
Key(j) == invoice[j].number

Upload(s) ==
  /\ slot[s].pc = "upload"
  /\ stored' = [stored EXCEPT ![Key(slot[s].job)] = <<slot[s].job, slot[s].amount>>]
  /\ slot' = [slot EXCEPT ![s].pc = "record"]
  /\ UNCHANGED <<fee, invoice, pdfQueue, call, ops, faults>>

\* The row, then a notification: if that throws, the queue runs the job again.
Record(s) ==
  /\ slot[s].pc = "record"
  /\ LET j == slot[s].job IN
       /\ invoice' = [invoice EXCEPT ![j].pdf = TRUE, ![j].pending = FALSE]
       /\ \/ UNCHANGED <<pdfQueue, faults>>
          \/ Fault /\ pdfQueue' = [pdfQueue EXCEPT ![j] = @ + 1]
  /\ slot' = [slot EXCEPT ![s] = IdleSlot]
  /\ UNCHANGED <<fee, stored, call, ops>>

\* Any error of the upload or of the update is logged and the job succeeds.
PdfThrows(s) ==
  /\ slot[s].pc # "idle"
  /\ Fault
  /\ slot' = [slot EXCEPT ![s] = IdleSlot]
  /\ UNCHANGED <<fee, invoice, stored, pdfQueue, call, ops>>

\* The worker dies or loses its lock: the queue runs the job again.
PdfStalled(s) ==
  /\ slot[s].pc # "idle"
  /\ Fault
  /\ pdfQueue' = [pdfQueue EXCEPT ![slot[s].job] = @ + 1]
  /\ slot' = [slot EXCEPT ![s] = IdleSlot]
  /\ UNCHANGED <<fee, invoice, stored, call, ops>>

------------------------------------------------------------------------------
GenerateStep(c) == \/ BeginGenerate(c) \/ LookUp(c) \/ PickNumber(c) \/ Create(c)
                   \/ CreateRefused(c) \/ Pend(c) \/ Enqueue(c)
JobEditStep(c)  == BeginJobEdit(c) \/ WriteFee(c) \/ ReadForSync(c) \/ WriteSync(c)
InvoiceStep(c)  == \/ BeginInvoiceEdit(c) \/ SyncJobFee(c) \/ WriteJobFee(c)
                   \/ WriteFinalFee(c) \/ BeginMarkPaid(c) \/ WritePaid(c)
PdfStep(s)      == Render(s) \/ Upload(s) \/ Record(s) \/ PdfThrows(s) \/ PdfStalled(s)

\* An edit of a fee writes it in two places: the job first, then the invoice.
BetweenFees == {"sync", "writeSync", "finalFee"}

Cut(j) == \E c \in Calls : call[c].job = j /\ call[c].pc \in BetweenFees /\ CallFails(c)

\* A call that has yet to write by what it read of job j or of its invoice.
Holding(c, j) == call[c].job = j /\ call[c].pc \notin {"idle", "pend", "enqueue"}

Billed(j) == <<fee[j], invoice[j].number, invoice[j].amount, invoice[j].paid>>

Race(j) == Billed(j)' # Billed(j) /\ \E c \in Calls : Holding(c, j) /\ call'[c] = call[c]

Rendering(j) == \E s \in Slots : slot[s].pc # "idle" /\ slot[s].job = j
Starts(j)    == \E s \in Slots : slot[s].pc = "idle" /\ slot'[s].pc # "idle" /\ slot'[s].job = j

Next == /\ \/ \E c \in Calls : GenerateStep(c) \/ JobEditStep(c) \/ InvoiceStep(c) \/ CallFails(c)
           \/ \E s \in Slots : PdfStep(s)
        /\ raced' = [j \in Jobs |-> raced[j] \/ Race(j)]
        /\ crossed' = [j \in Jobs |-> IF Starts(j) THEN Rendering(j) ELSE crossed[j]]
        /\ cut' = cut \cup {j \in Jobs : Cut(j)}

Spec == Init /\ [][Next]_vars

------------------------------------------------------------------------------
(* Properties *)

Amounts == (Fees \cup {0}) \X ({0} \cup {Mileage[j] : j \in Jobs})
RowType == [number : {0} \cup Numbers, amount : Amounts, paid : BOOLEAN,
            pdf : BOOLEAN, pending : BOOLEAN]
CallType ==
  [pc : {"idle", "lookup", "number", "create", "pend", "enqueue", "writeFee", "sync",
         "writeSync", "jobFee", "writeJobFee", "finalFee", "pay"},
   job : Jobs, fee : Fees \cup {0}, number : 0..Cardinality(Jobs) + 1, tries : 0..Tries - 1,
   since : {0} \cup Numbers]

\* The variables stay within their types.
TypeOK ==
  /\ fee \in [Jobs -> Fees]
  /\ invoice \in [Jobs -> RowType]
  /\ stored \in [Numbers -> {NoPdf} \cup (Jobs \X Amounts)]
  /\ pdfQueue \in [Jobs -> Nat]
  /\ call \in [Calls -> CallType]
  /\ slot \in [Slots -> [pc : {"idle", "upload", "record"}, job : Jobs, amount : Amounts]]
  /\ ops \in 0..MaxOps
  /\ faults \in 0..MaxFaults
  /\ raced \in [Jobs -> BOOLEAN] /\ crossed \in [Jobs -> BOOLEAN] /\ cut \subseteq Jobs

NoCalls == \A c \in Calls : call[c].pc = "idle"
NoPdfWork == (\A s \in Slots : slot[s].pc = "idle") /\ (\A j \in Jobs : pdfQueue[j] = 0)

\* No invoice of another owner has the number of j's.
OwnKey(j) == \A k \in Jobs : Exists(k) /\ Owner[k] # Owner[j] => Key(k) # Key(j)

\* When all work is done and nothing failed, every invoice's PDF shows its
\* current amount and is not announced as pending, however edits, payments,
\* generates and renders interleaved, unless its last render overlapped another of
\* its own, of which either may store last, or another owner's has the same key.
PdfCurrent ==
  NoCalls /\ NoPdfWork /\ faults = 0 =>
    \A j \in Jobs : Exists(j) /\ ~crossed[j] =>
      /\ invoice[j].pdf /\ ~invoice[j].pending
      /\ OwnKey(j) => stored[Key(j)] = <<j, invoice[j].amount>>

\* An owner's numbers are consecutive from 1, in whatever order generates race: no
\* number is skipped or given twice.  And generate, which picks a fresh one after a
\* collision, loses each try to another invoice of the owner that appeared since it
\* began: it gives up only when as many appeared as it has tries.
NumbersDense ==
  /\ \A j \in Jobs : Exists(j) =>
       \A n \in 1..invoice[j].number - 1 :
         \E k \in Jobs : Owner[k] = Owner[j] /\ invoice[k].number = n
  /\ \A j, k \in Jobs : Exists(j) /\ Owner[k] = Owner[j] /\ invoice[k].number = invoice[j].number
       => k = j
  /\ \A c \in Calls : call[c].pc \in {"number", "create"} =>
       call[c].since + call[c].tries <= LastNumber(Owner[call[c].job])

\* "Paid invoices are locked": once paid, the amount never changes, unless calls
\* on that job raced.
PaidAmountLocked ==
  [][\A j \in Jobs : invoice[j].paid /\ ~raced[j]
        => invoice'[j].amount = invoice[j].amount]_vars

\* "Keep unpaid invoices (draft & sent) in sync with edited fee": when no call for
\* it is under way, an unpaid invoice bills the fee of its job, unless calls on
\* that job raced or one ended between the two rows.  Edits go through either end,
\* the job's fee or the invoice's, and no transaction holds the two writes together.
UnpaidFollowsFee ==
  \A j \in Jobs : Exists(j) /\ ~invoice[j].paid /\ ~raced[j] /\ j \notin cut
                    /\ (\A c \in Calls : call[c].pc # "idle" => call[c].job # j)
    => invoice[j].amount[1] = fee[j]
==============================================================================
