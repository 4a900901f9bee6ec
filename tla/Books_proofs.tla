---------------------------- MODULE Books_proofs -----------------------------
(***************************************************************************)
(* What is proved of the books: of Invoicing, for any jobs, owners, fees,  *)
(* calls, renders and faults; of Reports, for any rows, days, ranges,      *)
(* rates, PDF requests, edits and failed uploads.                          *)
(***************************************************************************)
EXTENDS Books, FiniteSetTheorems, TLAPS

------------------------------------------------------------------------------
(* The numbers of one owner *)

JobsOf(o) == {j \in Jobs : Owner[j] = o}

\* The owner's numbers, and 0.
NumbersOf(o) == {0} \cup {invoice[j].number : j \in JobsOf(o)}

\* They are 0 to n.
UpTo(o, n) == n \in Nat /\ NumbersOf(o) = 0..n

LEMMA LastIs ==
  ASSUME NEW o, NEW n, UpTo(o, n)
  PROVE  LastNumber(o) = n /\ NextNumber(o) = n + 1
<1>1. LastNumber(o) = Max(0..n) /\ n \in Nat
  BY DEF UpTo, NumbersOf, JobsOf, LastNumber
<1>2. Max(0..n) = n
  BY <1>1 DEF Max
<1> QED BY <1>1, <1>2 DEF NextNumber

\* As many jobs have a number.
LEMMA NumbersFit ==
  ASSUME NEW o, NEW n, UpTo(o, n), NEW free \in Jobs, invoice[free].number = 0
  PROVE  n + 1 \in Numbers
<1> DEFINE S == Jobs \ {free}
<1>1. IsFiniteSet(S) /\ Cardinality(S) = Cardinality(Jobs) - 1 /\ Cardinality(Jobs) \in Nat
  BY ConstantsAssumption, FS_RemoveElement, FS_CardinalityType
<1>2. 1..n \subseteq {invoice[j].number : j \in S}
  BY DEF UpTo, NumbersOf, JobsOf
<1>3. /\ IsFiniteSet({invoice[j].number : j \in S})
      /\ Cardinality({invoice[j].number : j \in S}) <= Cardinality(S)
  <2> DEFINE f == [j \in S |-> invoice[j].number]
             T == {invoice[j].number : j \in S}
  <2>1. f \in Surjection(S, T)
    BY DEF Surjection
  <2> HIDE DEF f, T
  <2> QED BY <1>1, <2>1, FS_Surjection DEF T
<1>4. Cardinality(1..n) = n
  BY FS_Interval DEF UpTo
<1>5. n <= Cardinality(S)
  BY <1>1, <1>2, <1>3, <1>4, FS_Subset, FS_CardinalityType DEF UpTo
<1> QED BY <1>1, <1>5 DEF UpTo, Numbers

LEMMA NumbersBound ==
  ASSUME NEW o, NEW n, UpTo(o, n)
  PROVE  n <= Cardinality(Jobs) /\ Cardinality(Jobs) \in Nat
<1> DEFINE f == [j \in Jobs |-> invoice[j].number]
           T == {invoice[j].number : j \in Jobs}
<1>1. f \in Surjection(Jobs, T)
  BY DEF Surjection
<1>2. 1..n \subseteq T
  BY DEF UpTo, NumbersOf, JobsOf
<1> HIDE DEF f, T
<1>3. IsFiniteSet(T) /\ Cardinality(T) <= Cardinality(Jobs) /\ IsFiniteSet(Jobs)
  BY <1>1, FS_Surjection, ConstantsAssumption
<1>4. Cardinality(1..n) = n
  BY FS_Interval DEF UpTo
<1> QED BY <1>2, <1>3, <1>4, FS_Subset, FS_CardinalityType DEF UpTo

------------------------------------------------------------------------------
(* What a step does to its call *)

\* Call c, and no other, becomes rec.
Becomes(c, rec) ==
  /\ call' \in [Calls -> CallType] /\ call'[c] = rec
  /\ \A b \in Calls : b # c => call'[b] = call[b]

\* It goes on to pc and keeps what it has read.
Goes(c, pc) ==
  \E rec : /\ Becomes(c, rec) /\ rec.pc = pc
           /\ rec.job = call[c].job /\ rec.fee = call[c].fee /\ rec.number = call[c].number
           /\ rec.tries = call[c].tries /\ rec.since = call[c].since

LEMMA CallPut ==
  ASSUME call \in [Calls -> CallType], NEW c \in Calls, NEW rec \in CallType,
         call' = [call EXCEPT ![c] = rec]
  PROVE  Becomes(c, rec)
BY DEF Becomes

Steps == {"idle", "lookup", "number", "create", "pend", "enqueue", "writeFee", "sync",
          "writeSync", "jobFee", "writeJobFee", "finalFee", "pay"}

LEMMA GotoEffect ==
  ASSUME call \in [Calls -> CallType], NEW c \in Calls, NEW pc \in Steps, Goto(c, pc)
  PROVE  Goes(c, pc)
<1> DEFINE rec == [call[c] EXCEPT !.pc = pc]
<1>1. call' = [call EXCEPT ![c] = rec]
  BY Zenon DEF Goto
<1>2. /\ rec \in CallType /\ rec.pc = pc
      /\ rec.job = call[c].job /\ rec.fee = call[c].fee /\ rec.number = call[c].number
      /\ rec.tries = call[c].tries /\ rec.since = call[c].since
  BY DEF CallType, Steps
<1> HIDE DEF rec
<1> QED BY <1>1, <1>2, CallPut DEF Goes

LEMMA NewIsCall ==
  ASSUME NEW pc \in Steps, NEW j \in Jobs, NEW f \in Fees \cup {0}
  PROVE  /\ NewCall(pc, j, f) \in CallType
         /\ NewCall(pc, j, f).pc = pc /\ NewCall(pc, j, f).job = j /\ NewCall(pc, j, f).fee = f
<1>1. 0 \in 0..Cardinality(Jobs) + 1 /\ 0 \in 0..Tries - 1
  BY FS_CardinalityType, ConstantsAssumption DEF Tries
<1> QED BY <1>1 DEF NewCall, CallType, Steps

LEMMA IdleIsCall == IdleCall \in CallType /\ IdleCall.pc = "idle"
<1>1. AJob \in Jobs
  BY ConstantsAssumption DEF AJob
<1> QED BY <1>1, NewIsCall DEF IdleCall, Steps

LEMMA ReturnEffect ==
  ASSUME call \in [Calls -> CallType], NEW c \in Calls, Return(c)
  PROVE  Becomes(c, IdleCall)
BY IdleIsCall, CallPut DEF Return

LEMMA BeginEffect ==
  ASSUME call \in [Calls -> CallType], NEW c \in Calls, NEW rec \in CallType, Begin(c, rec)
  PROVE  Becomes(c, rec) /\ call[c].pc = "idle"
BY CallPut DEF Begin

------------------------------------------------------------------------------
(* What a step does to a row *)

\* The invoice of j, and no other, becomes row.
Put(j, row) ==
  /\ invoice' \in [Jobs -> RowType] /\ invoice'[j] = row
  /\ \A k \in Jobs : k # j => invoice'[k] = invoice[k]

LEMMA RowPut ==
  ASSUME invoice \in [Jobs -> RowType], NEW j \in Jobs, NEW row \in RowType,
         invoice' = [invoice EXCEPT ![j] = row]
  PROVE  Put(j, row)
BY DEF Put

\* The rows keep all but their PDFs.
OnlyPdf ==
  /\ invoice' \in [Jobs -> RowType]
  /\ \A j \in Jobs : /\ invoice'[j].number = invoice[j].number
                     /\ invoice'[j].amount = invoice[j].amount
                     /\ invoice'[j].paid = invoice[j].paid

\* The invoice of j gets another amount.
Amends(j, amount) ==
  /\ invoice' \in [Jobs -> RowType]
  /\ invoice'[j].amount = amount /\ invoice'[j].number = invoice[j].number
  /\ invoice'[j].paid = invoice[j].paid
  /\ \A k \in Jobs : k # j => invoice'[k] = invoice[k]

LEMMA AmendEffect ==
  ASSUME invoice \in [Jobs -> RowType], NEW j \in Jobs, NEW amount \in Amounts,
         invoice' = [invoice EXCEPT ![j].amount = amount]
  PROVE  Amends(j, amount)
<1> DEFINE row == [invoice[j] EXCEPT !.amount = amount]
<1>1. invoice' = [invoice EXCEPT ![j] = row]
  BY Zenon
<1>2. /\ row \in RowType /\ row.amount = amount /\ row.number = invoice[j].number
      /\ row.paid = invoice[j].paid
  BY DEF RowType
<1> HIDE DEF row
<1> QED BY <1>1, <1>2, RowPut DEF Put, Amends

LEMMA AmountIs ==
  ASSUME NEW f \in Fees \cup {0}, NEW j \in Jobs
  PROVE  <<f, Mileage[j]>> \in Amounts /\ <<f, 0>> \in Amounts
BY DEF Amounts

------------------------------------------------------------------------------
(* The calls, action by action *)

Rest == UNCHANGED <<fee, invoice>>

LEMMA BeginGenerateEffect ==
  ASSUME TypeOK, NEW c \in Calls, BeginGenerate(c),
         \A j \in Jobs : LastNumber(Owner[j]) \in {0} \cup Numbers
  PROVE  /\ Rest /\ call[c].pc = "idle"
         /\ \E rec : /\ Becomes(c, rec) /\ rec.pc = "lookup" /\ rec.job \in Jobs
                     /\ rec.fee = fee[rec.job] /\ rec.tries = 0
                     /\ rec.since = LastNumber(Owner[rec.job])
<1>1. PICK j \in Jobs : Begin(c, [NewCall("lookup", j, fee[j]) EXCEPT !.since = LastNumber(Owner[j])])
  BY DEF BeginGenerate
<1> DEFINE rec == [NewCall("lookup", j, fee[j]) EXCEPT !.since = LastNumber(Owner[j])]
<1>2. NewCall("lookup", j, fee[j]) \in CallType
  BY NewIsCall DEF Steps, TypeOK
<1>3. /\ rec \in CallType /\ rec.pc = "lookup" /\ rec.job = j /\ rec.fee = fee[j]
      /\ rec.tries = 0 /\ rec.since = LastNumber(Owner[j])
  BY <1>2 DEF CallType, NewCall
<1> HIDE DEF rec
<1>4. Becomes(c, rec) /\ call[c].pc = "idle"
  BY <1>1, <1>3, BeginEffect DEF TypeOK, rec
<1> QED BY <1>3, <1>4 DEF BeginGenerate, Rest

LEMMA LookUpEffect ==
  ASSUME TypeOK, NEW c \in Calls, LookUp(c)
  PROVE  /\ Rest /\ call[c].pc = "lookup"
         /\ IF Exists(call[c].job) THEN Goes(c, "pend") \/ Goes(c, "idle") ELSE Goes(c, "number")
<1>1. Goto(c, IF Exists(call[c].job) THEN Refresh(call[c].job) ELSE "number")
  BY DEF LookUp
<1>2. call \in [Calls -> CallType] /\ {"pend", "idle", "number"} \subseteq Steps
  BY DEF TypeOK, Steps
<1>3. Refresh(call[c].job) \in {"pend", "idle"}
  BY DEF Refresh
<1>4. IF Exists(call[c].job) THEN Goes(c, "pend") \/ Goes(c, "idle") ELSE Goes(c, "number")
  BY <1>1, <1>2, <1>3, GotoEffect
<1> QED BY <1>4 DEF LookUp, Rest

LEMMA PickNumberEffect ==
  ASSUME TypeOK, NEW c \in Calls, PickNumber(c),
         NextNumber(Owner[call[c].job]) \in 0..Cardinality(Jobs) + 1
  PROVE  /\ Rest /\ call[c].pc = "number"
         /\ \E rec : /\ Becomes(c, rec) /\ rec.pc = "create" /\ rec.job = call[c].job
                     /\ rec.fee = call[c].fee /\ rec.tries = call[c].tries /\ rec.since = call[c].since
                     /\ rec.number = NextNumber(Owner[call[c].job])
<1> DEFINE n == NextNumber(Owner[call[c].job])
           one == [call[c] EXCEPT !.number = n]
           rec == [one EXCEPT !.pc = "create"]
<1>0. call \in [Calls -> CallType]
  BY DEF TypeOK
<1>1. call' = [call EXCEPT ![c] = rec]
  BY Zenon DEF PickNumber
<1> HIDE DEF n
<1>2. /\ one \in CallType /\ one.number = n /\ one.job = call[c].job /\ one.fee = call[c].fee
      /\ one.tries = call[c].tries /\ one.since = call[c].since
  BY <1>0 DEF CallType, n
<1> HIDE DEF one
<1>3. /\ rec \in CallType /\ rec.pc = "create" /\ rec.number = n /\ rec.job = call[c].job
      /\ rec.fee = call[c].fee /\ rec.tries = call[c].tries /\ rec.since = call[c].since
  BY <1>2 DEF CallType
<1> HIDE DEF rec
<1>4. Becomes(c, rec)
  BY <1>0, <1>1, <1>3, CallPut
<1> QED BY <1>3, <1>4 DEF PickNumber, Rest, n

LEMMA CreateEffect ==
  ASSUME TypeOK, NEW c \in Calls, Create(c), call[c].number \in Numbers
  PROVE  /\ call[c].pc = "create" /\ Goes(c, "pend") /\ UNCHANGED fee
         /\ Unique(call[c].job, call[c].number)
         /\ \E row : /\ Put(call[c].job, row) /\ row.number = call[c].number /\ ~row.paid
                     /\ row.amount = <<call[c].fee, Mileage[call[c].job]>>
<1> DEFINE j == call[c].job
           amount == <<call[c].fee, Mileage[j]>>
           row == NewRow(call[c].number, amount)
<1>0. /\ call \in [Calls -> CallType] /\ "pend" \in Steps /\ j \in Jobs
      /\ invoice \in [Jobs -> RowType]
  BY DEF TypeOK, Steps, CallType
<1>1. invoice' = [invoice EXCEPT ![j] = row]
  BY Zenon DEF Create
<1>2. amount \in Amounts
  BY <1>0, AmountIs DEF CallType
<1> HIDE DEF amount
<1>5. row \in RowType /\ row.number = call[c].number /\ ~row.paid /\ row.amount = amount
  BY <1>2 DEF RowType, NewRow
<1> HIDE DEF row
<1>6. Put(j, row)
  BY <1>0, <1>1, <1>5, RowPut
<1>7. Goes(c, "pend")
  BY <1>0, GotoEffect DEF Create
<1>8. call[c].pc = "create" /\ UNCHANGED fee /\ Unique(call[c].job, call[c].number)
  BY DEF Create
<1>9. /\ row.number = call[c].number /\ ~row.paid /\ row.amount = <<call[c].fee, Mileage[call[c].job]>>
  BY <1>5 DEF amount
<1> QED BY <1>6, <1>7, <1>8, <1>9

LEMMA CreateRefusedEffect ==
  ASSUME TypeOK, NEW c \in Calls, CreateRefused(c)
  PROVE  /\ Rest /\ call[c].pc = "create" /\ ~Unique(call[c].job, call[c].number)
         /\ \/ Exists(call[c].job) /\ Goes(c, "pend")
            \/ Exists(call[c].job) /\ Goes(c, "idle")
            \/ Becomes(c, IdleCall)
            \/ /\ ~Exists(call[c].job)
               /\ \E rec : /\ Becomes(c, rec) /\ rec.pc = "number" /\ rec.job = call[c].job
                           /\ rec.fee = call[c].fee /\ rec.tries = call[c].tries + 1
                           /\ rec.since = call[c].since
<1>0. call \in [Calls -> CallType] /\ {"pend", "idle"} \subseteq Steps
  BY DEF TypeOK, Steps
<1>1. /\ Rest /\ call[c].pc = "create" /\ ~Unique(call[c].job, call[c].number)
      /\ \/ Exists(call[c].job) /\ Goto(c, Refresh(call[c].job))
         \/ Return(c)
         \/ ~Exists(call[c].job) /\ call[c].tries + 1 # Tries /\ TryAgain(c)
  BY DEF CreateRefused, Rest
<1>2. CASE Exists(call[c].job) /\ Goto(c, Refresh(call[c].job))
  <2>1. Refresh(call[c].job) \in {"pend", "idle"}
    BY DEF Refresh
  <2> QED BY <1>0, <1>1, <1>2, <2>1, GotoEffect
<1>3. CASE Return(c)
  BY <1>0, <1>1, <1>3, ReturnEffect
<1>4. CASE ~Exists(call[c].job) /\ call[c].tries + 1 # Tries /\ TryAgain(c)
  <2> DEFINE one == [call[c] EXCEPT !.tries = @ + 1]
             rec == [one EXCEPT !.pc = "number"]
  <2>1. call' = [call EXCEPT ![c] = rec]
    BY <1>4, Zenon DEF TryAgain
  <2>2. call[c].tries + 1 \in 0..Tries - 1
    BY <1>0, <1>4 DEF CallType, Tries
  <2>3. /\ one \in CallType /\ one.tries = call[c].tries + 1 /\ one.job = call[c].job
        /\ one.fee = call[c].fee /\ one.since = call[c].since
    BY <1>0, <2>2 DEF CallType
  <2> HIDE DEF one
  <2>4. /\ rec \in CallType /\ rec.pc = "number" /\ rec.tries = call[c].tries + 1
        /\ rec.job = call[c].job /\ rec.fee = call[c].fee /\ rec.since = call[c].since
    BY <2>3 DEF CallType
  <2> HIDE DEF rec
  <2>5. Becomes(c, rec)
    BY <1>0, <2>1, <2>4, CallPut
  <2> QED BY <1>1, <1>4, <2>4, <2>5
<1> QED BY <1>1, <1>2, <1>3, <1>4

\* The tail of a change: no amount, number or payment is touched.
LEMMA TailEffect ==
  ASSUME TypeOK, NEW c \in Calls, Pend(c) \/ Enqueue(c)
  PROVE  /\ call[c].pc \in {"pend", "enqueue"} /\ UNCHANGED fee /\ OnlyPdf
         /\ Goes(c, "enqueue") \/ Becomes(c, IdleCall)
         /\ \A k \in Jobs : k # call[c].job => invoice'[k] = invoice[k]
<1>0. /\ call \in [Calls -> CallType] /\ "enqueue" \in Steps /\ call[c].job \in Jobs
      /\ invoice \in [Jobs -> RowType]
  BY DEF TypeOK, Steps, CallType
<1>1. CASE Pend(c)
  <2> DEFINE j == call[c].job
             row == [invoice[j] EXCEPT !.pending = TRUE]
  <2>1. invoice' = [invoice EXCEPT ![j] = row]
    BY <1>1, Zenon DEF Pend
  <2>2. /\ row \in RowType /\ row.number = invoice[j].number /\ row.amount = invoice[j].amount
        /\ row.paid = invoice[j].paid
    BY <1>0 DEF RowType
  <2> HIDE DEF row
  <2>3. Put(j, row)
    BY <1>0, <2>1, <2>2, RowPut
  <2>4. OnlyPdf /\ \A k \in Jobs : k # call[c].job => invoice'[k] = invoice[k]
    BY <2>2, <2>3 DEF Put, OnlyPdf
  <2>5. Goes(c, "enqueue")
    BY <1>0, <1>1, GotoEffect DEF Pend
  <2> QED BY <1>1, <2>4, <2>5 DEF Pend
<1>2. CASE Enqueue(c)
  <2>1. Becomes(c, IdleCall)
    BY <1>0, <1>2, ReturnEffect DEF Enqueue
  <2>2. UNCHANGED <<fee, invoice>> /\ call[c].pc = "enqueue"
    BY <1>2 DEF Enqueue
  <2> QED BY <1>0, <2>1, <2>2 DEF OnlyPdf
<1> QED BY <1>1, <1>2

LEMMA BeginJobEditEffect ==
  ASSUME TypeOK, NEW c \in Calls, BeginJobEdit(c)
  PROVE  /\ Rest /\ call[c].pc = "idle"
         /\ \E rec : /\ Becomes(c, rec) /\ rec.job \in Jobs /\ rec.fee \in Fees
                     /\ rec.pc = "writeFee" \/ (rec.pc = "sync" /\ rec.fee = fee[rec.job])
<1>1. PICK j \in Jobs, f \in Fees \cup {0} :
        Begin(c, IF f = 0 THEN NewCall("sync", j, fee[j]) ELSE NewCall("writeFee", j, f))
  BY DEF BeginJobEdit
<1>0. call \in [Calls -> CallType] /\ fee[j] \in Fees /\ {"sync", "writeFee"} \subseteq Steps
  BY DEF TypeOK, Steps
<1>2. CASE f = 0
  <2> DEFINE rec == NewCall("sync", j, fee[j])
  <2>1. rec \in CallType /\ rec.pc = "sync" /\ rec.job = j /\ rec.fee = fee[j]
    BY <1>0, NewIsCall
  <2> HIDE DEF rec
  <2>2. Becomes(c, rec) /\ call[c].pc = "idle"
    BY <1>0, <1>1, <1>2, <2>1, BeginEffect DEF rec
  <2> QED BY <1>0, <2>1, <2>2 DEF BeginJobEdit, Rest
<1>3. CASE f # 0
  <2> DEFINE rec == NewCall("writeFee", j, f)
  <2>1. rec \in CallType /\ rec.pc = "writeFee" /\ rec.job = j /\ rec.fee = f
    BY <1>0, NewIsCall
  <2> HIDE DEF rec
  <2>2. Becomes(c, rec) /\ call[c].pc = "idle"
    BY <1>0, <1>1, <1>3, <2>1, BeginEffect DEF rec
  <2> QED BY <1>0, <1>3, <2>1, <2>2 DEF BeginJobEdit, Rest
<1> QED BY <1>2, <1>3

LEMMA FeeWriteEffect ==
  ASSUME TypeOK, NEW c \in Calls, WriteFee(c) \/ WriteJobFee(c)
  PROVE  /\ UNCHANGED invoice
         /\ fee' = [fee EXCEPT ![call[c].job] = call[c].fee]
         /\ \/ call[c].pc = "writeFee" /\ Goes(c, "sync")
            \/ call[c].pc = "writeJobFee" /\ Goes(c, "finalFee")
<1>0. call \in [Calls -> CallType] /\ {"sync", "finalFee"} \subseteq Steps
  BY DEF TypeOK, Steps
<1>1. CASE WriteFee(c)
  BY <1>0, <1>1, GotoEffect DEF WriteFee
<1>2. CASE WriteJobFee(c)
  BY <1>0, <1>2, GotoEffect DEF WriteJobFee
<1> QED BY <1>1, <1>2

LEMMA ReadForSyncEffect ==
  ASSUME TypeOK, NEW c \in Calls, ReadForSync(c)
  PROVE  LET j == call[c].job  row == invoice[j] IN
         /\ Rest /\ call[c].pc = "sync"
         /\ \/ /\ Becomes(c, IdleCall)
               /\ row.number = 0 \/ row.paid \/ row.amount = <<call[c].fee, Mileage[j]>>
            \/ Goes(c, "writeSync") /\ row.number # 0 /\ ~row.paid
<1>0. call \in [Calls -> CallType] /\ "writeSync" \in Steps
  BY DEF TypeOK, Steps
<1>1. CASE SyncIdle(invoice[call[c].job], <<call[c].fee, Mileage[call[c].job]>>)
  <2>1. Becomes(c, IdleCall)
    BY <1>0, <1>1, ReturnEffect DEF ReadForSync
  <2> QED BY <1>1, <2>1 DEF ReadForSync, Rest, SyncIdle
<1>2. CASE ~SyncIdle(invoice[call[c].job], <<call[c].fee, Mileage[call[c].job]>>)
  <2>1. Goes(c, "writeSync")
    BY <1>0, <1>2, GotoEffect DEF ReadForSync
  <2> QED BY <1>2, <2>1 DEF ReadForSync, Rest, SyncIdle
<1> QED BY <1>1, <1>2

\* The two writes of an amount.
LEMMA AmountWriteEffect ==
  ASSUME TypeOK, NEW c \in Calls, WriteSync(c) \/ WriteFinalFee(c)
  PROVE  /\ UNCHANGED fee /\ call[c].pc \in {"writeSync", "finalFee"} /\ Goes(c, "pend")
         /\ \E miles : Amends(call[c].job, <<call[c].fee, miles>>)
<1>0. /\ call \in [Calls -> CallType] /\ "pend" \in Steps /\ invoice \in [Jobs -> RowType]
      /\ call[c].job \in Jobs /\ call[c].fee \in Fees \cup {0}
  BY DEF TypeOK, Steps, CallType
<1>1. CASE WriteSync(c)
  <2>1. Amends(call[c].job, <<call[c].fee, Mileage[call[c].job]>>)
    BY <1>0, <1>1, AmountIs, AmendEffect DEF WriteSync
  <2>2. Goes(c, "pend")
    BY <1>0, <1>1, GotoEffect DEF WriteSync, AfterSync
  <2> QED BY <1>1, <2>1, <2>2 DEF WriteSync
<1>2. CASE WriteFinalFee(c)
  <2>1. Amends(call[c].job, <<call[c].fee, 0>>)
    BY <1>0, <1>2, AmountIs, AmendEffect DEF WriteFinalFee
  <2>2. Goes(c, "pend")
    BY <1>0, <1>2, GotoEffect DEF WriteFinalFee
  <2> QED BY <1>2, <2>1, <2>2 DEF WriteFinalFee
<1> QED BY <1>1, <1>2

LEMMA BeginInvoiceEditEffect ==
  ASSUME TypeOK, NEW c \in Calls, BeginInvoiceEdit(c)
  PROVE  /\ Rest /\ call[c].pc = "idle"
         /\ \E rec : /\ Becomes(c, rec) /\ rec.job \in Jobs /\ Exists(rec.job)
                     /\ \/ rec.pc = "pend"
                        \/ rec.pc = "jobFee" /\ rec.fee \in Fees /\ ~invoice[rec.job].paid
<1>1. PICK j \in Jobs, f \in Fees \cup {0} :
        /\ Exists(j) /\ ~(invoice[j].paid /\ f # 0)
        /\ Begin(c, NewCall(IF f = 0 THEN "pend" ELSE "jobFee", j, f))
  BY DEF BeginInvoiceEdit
<1> DEFINE pc == IF f = 0 THEN "pend" ELSE "jobFee"
           rec == NewCall(pc, j, f)
<1>0. call \in [Calls -> CallType] /\ pc \in Steps
  BY DEF TypeOK, Steps
<1>2. rec \in CallType /\ rec.pc = pc /\ rec.job = j /\ rec.fee = f
  BY <1>0, NewIsCall
<1>3. \/ pc = "pend"
      \/ pc = "jobFee" /\ f \in Fees /\ ~invoice[j].paid
  <2>1. CASE f = 0
    BY <2>1
  <2>2. CASE f # 0
    <3>1. pc = "jobFee" /\ f \in Fees
      BY <2>2
    <3>2. ~invoice[j].paid
      BY <1>1, <2>2
    <3> QED BY <3>1, <3>2
  <2> QED BY <2>1, <2>2
<1> HIDE DEF rec, pc
<1>4. Becomes(c, rec) /\ call[c].pc = "idle"
  BY <1>0, <1>1, <1>2, BeginEffect DEF rec, pc
<1> QED BY <1>1, <1>2, <1>3, <1>4 DEF BeginInvoiceEdit, Rest

LEMMA SyncJobFeeEffect ==
  ASSUME TypeOK, NEW c \in Calls, SyncJobFee(c)
  PROVE  /\ Rest /\ call[c].pc = "jobFee"
         /\ \/ Goes(c, "finalFee") /\ fee[call[c].job] = call[c].fee
            \/ Goes(c, "writeJobFee")
<1>0. call \in [Calls -> CallType] /\ {"finalFee", "writeJobFee"} \subseteq Steps
  BY DEF TypeOK, Steps
<1> QED BY <1>0, GotoEffect DEF SyncJobFee, Rest

LEMMA BeginMarkPaidEffect ==
  ASSUME TypeOK, NEW c \in Calls, BeginMarkPaid(c)
  PROVE  /\ Rest /\ call[c].pc = "idle"
         /\ \E rec : /\ Becomes(c, rec) /\ rec.pc = "pay" /\ rec.job \in Jobs
                     /\ Exists(rec.job) /\ ~invoice[rec.job].paid
<1>1. PICK j \in Jobs : Exists(j) /\ ~invoice[j].paid /\ Begin(c, NewCall("pay", j, 0))
  BY DEF BeginMarkPaid
<1> DEFINE rec == NewCall("pay", j, 0)
<1>0. call \in [Calls -> CallType] /\ "pay" \in Steps
  BY DEF TypeOK, Steps
<1>2. rec \in CallType /\ rec.pc = "pay" /\ rec.job = j
  BY <1>0, NewIsCall
<1> HIDE DEF rec
<1>3. Becomes(c, rec) /\ call[c].pc = "idle"
  BY <1>0, <1>1, <1>2, BeginEffect DEF rec
<1> QED BY <1>1, <1>2, <1>3 DEF BeginMarkPaid, Rest

LEMMA WritePaidEffect ==
  ASSUME TypeOK, NEW c \in Calls, WritePaid(c)
  PROVE  /\ UNCHANGED fee /\ call[c].pc = "pay" /\ Becomes(c, IdleCall)
         /\ \E row : /\ Put(call[c].job, row) /\ row.paid
                     /\ row.amount = invoice[call[c].job].amount
                     /\ row.number = invoice[call[c].job].number
                     /\ row.pdf = invoice[call[c].job].pdf
                     /\ row.pending = invoice[call[c].job].pending
<1> DEFINE j == call[c].job
           row == [invoice[j] EXCEPT !.paid = TRUE]
<1>0. call \in [Calls -> CallType] /\ invoice \in [Jobs -> RowType] /\ j \in Jobs
  BY DEF TypeOK, CallType
<1>1. invoice' = [invoice EXCEPT ![j] = row]
  BY Zenon DEF WritePaid
<1>2. /\ row \in RowType /\ row.paid /\ row.amount = invoice[j].amount
      /\ row.number = invoice[j].number
      /\ row.pdf = invoice[j].pdf /\ row.pending = invoice[j].pending
  BY <1>0 DEF RowType
<1> HIDE DEF row
<1>3. Put(j, row)
  BY <1>0, <1>1, <1>2, RowPut
<1>4. Becomes(c, IdleCall) /\ UNCHANGED fee /\ call[c].pc = "pay"
  BY <1>0, ReturnEffect DEF WritePaid
<1> QED BY <1>2, <1>3, <1>4

LEMMA RecordEffect ==
  ASSUME TypeOK, NEW s \in Slots, Record(s)
  PROVE  \E row : /\ Put(slot[s].job, row) /\ row.pdf /\ ~row.pending
                  /\ row.number = invoice[slot[s].job].number
                  /\ row.amount = invoice[slot[s].job].amount
                  /\ row.paid = invoice[slot[s].job].paid
<1> DEFINE j == slot[s].job
           one == [invoice EXCEPT ![j].pdf = TRUE]
<1>0. j \in Jobs /\ invoice \in [Jobs -> RowType]
  BY DEF TypeOK
<1>1. /\ one \in [Jobs -> RowType]
      /\ \A k \in Jobs : k # j => one[k] = invoice[k]
      /\ one[j].pdf /\ one[j].number = invoice[j].number /\ one[j].amount = invoice[j].amount
      /\ one[j].paid = invoice[j].paid
  <2> DEFINE row == [invoice[j] EXCEPT !.pdf = TRUE]
  <2>1. one = [invoice EXCEPT ![j] = row]
    BY Zenon
  <2>2. /\ row \in RowType /\ row.pdf /\ row.number = invoice[j].number
        /\ row.amount = invoice[j].amount /\ row.paid = invoice[j].paid
    BY <1>0 DEF RowType
  <2> HIDE DEF row, one
  <2> QED BY <1>0, <2>1, <2>2
<1>2. invoice' = [one EXCEPT ![j].pending = FALSE]
  BY Zenon DEF Record
<1> HIDE DEF one
<1> DEFINE row == [one[j] EXCEPT !.pending = FALSE]
<1>3. invoice' = [one EXCEPT ![j] = row]
  BY <1>2, Zenon
<1>4. /\ row \in RowType /\ row.pdf /\ ~row.pending /\ row.number = invoice[j].number
      /\ row.amount = invoice[j].amount /\ row.paid = invoice[j].paid
  BY <1>0, <1>1 DEF RowType
<1> HIDE DEF row
<1>5. Put(j, row)
  BY <1>0, <1>1, <1>3, <1>4 DEF Put
<1> QED BY <1>4, <1>5

LEMMA PdfStepEffect ==
  ASSUME TypeOK, NEW s \in Slots, PdfStep(s)
  PROVE  UNCHANGED <<fee, call>> /\ OnlyPdf
<1>1. CASE Record(s)
  <2>1. UNCHANGED <<fee, call>>
    BY <1>1 DEF Record
  <2> QED BY <1>1, <2>1, RecordEffect DEF Put, OnlyPdf
<1>2. CASE Render(s) \/ Upload(s) \/ PdfThrows(s) \/ PdfStalled(s)
  BY <1>2 DEF Render, Upload, PdfThrows, PdfStalled, OnlyPdf, TypeOK
<1> QED BY <1>1, <1>2 DEF PdfStep

------------------------------------------------------------------------------
(* Numbers, and what a call knows of them *)

\* An owner's numbers are 0 to some n.
DenseInv == \A j \in Jobs : \E n : UpTo(Owner[j], n)

UniqueInv ==
  \A j, k \in Jobs :
    Exists(j) /\ Owner[k] = Owner[j] /\ invoice[k].number = invoice[j].number => k = j

PaidInv == \A j \in Jobs : invoice[j].paid => Exists(j)

\* A call past its checks works on an invoice that exists, has a fee to write, and has
\* lost each try to a number given since it began.
Knows(r) ==
  /\ r.pc \in {"pend", "enqueue", "writeSync", "jobFee", "writeJobFee", "finalFee", "pay"} => Exists(r.job)
  /\ r.pc \in {"writeFee", "jobFee", "writeJobFee"} => r.fee \in Fees
  /\ r.pc = "lookup" => r.tries = 0
  /\ r.pc \in {"lookup", "number"} => r.since + r.tries <= LastNumber(Owner[r.job])
  /\ r.pc = "create" => /\ r.since + r.tries < r.number
                        /\ r.number <= LastNumber(Owner[r.job]) + 1

KnowsInv == \A c \in Calls : Knows(call[c])

NumberPart == TypeOK /\ DenseInv /\ UniqueInv /\ PaidInv /\ KnowsInv

SameNumbers == \A j \in Jobs : invoice'[j].number = invoice[j].number

LEMMA NumbersKept ==
  ASSUME SameNumbers
  PROVE  /\ \A o : LastNumber(o)' = LastNumber(o)
         /\ \A o, n : UpTo(o, n) => UpTo(o, n)'
         /\ \A j \in Jobs : Exists(j)' = Exists(j)
<1>1. ASSUME NEW o PROVE NumbersOf(o)' = NumbersOf(o)
  BY DEF SameNumbers, NumbersOf, JobsOf
<1>2. \A o, n : UpTo(o, n) => UpTo(o, n)'
  BY <1>1 DEF UpTo
<1>3. \A o : LastNumber(o)' = LastNumber(o)
  BY <1>1 DEF LastNumber, NumbersOf, JobsOf
<1>4. \A j \in Jobs : Exists(j)' = Exists(j)
  BY DEF SameNumbers, Exists
<1> QED BY <1>2, <1>3, <1>4

\* The lemma LastIs after a step.
LEMMA LastIsNext ==
  ASSUME NEW o, NEW n, UpTo(o, n)'
  PROVE  LastNumber(o)' = n
<1>1. LastNumber(o)' = Max(0..n) /\ n \in Nat
  BY DEF UpTo, NumbersOf, JobsOf, LastNumber
<1>2. Max(0..n) = n
  BY <1>1 DEF Max
<1> QED BY <1>1, <1>2

LEMMA LastTyped ==
  ASSUME DenseInv, NEW j \in Jobs
  PROVE  /\ LastNumber(Owner[j]) \in {0} \cup Numbers /\ LastNumber(Owner[j]) \in Nat
         /\ NextNumber(Owner[j]) = LastNumber(Owner[j]) + 1
         /\ NextNumber(Owner[j]) \in 0..Cardinality(Jobs) + 1
         /\ UpTo(Owner[j], LastNumber(Owner[j]))
<1>1. PICK n : UpTo(Owner[j], n)
  BY DEF DenseInv
<1>2. n \in Nat /\ n <= Cardinality(Jobs) /\ Cardinality(Jobs) \in Nat
  BY <1>1, NumbersBound DEF UpTo
<1>3. LastNumber(Owner[j]) = n /\ NextNumber(Owner[j]) = n + 1
  BY <1>1, LastIs
<1> QED BY <1>1, <1>2, <1>3 DEF Numbers

\* A free number not above the next one is the next one.
LEMMA NumberGiven ==
  ASSUME NumberPart, NEW j \in Jobs, NEW row, Put(j, row), row.number \in Nat \ {0},
         row.number <= LastNumber(Owner[j]) + 1, Unique(j, row.number)
  PROVE  /\ LastNumber(Owner[j])' = LastNumber(Owner[j]) + 1
         /\ row.number = LastNumber(Owner[j]) + 1
         /\ DenseInv' /\ UniqueInv'
         /\ \A o : o # Owner[j] => LastNumber(o)' = LastNumber(o)
<1> DEFINE o == Owner[j]
<1>n. PICK n : n = LastNumber(o)
  OBVIOUS
<1>0. UpTo(o, n) /\ n \in Nat /\ ~Exists(j)
  BY <1>n, LastTyped DEF NumberPart, Unique
<1>1. row.number = n + 1
  <2>1. \A k \in Jobs : Owner[k] = o => invoice[k].number # row.number
    BY DEF Unique
  <2>2. row.number \notin 1..n
    BY <1>0, <2>1 DEF UpTo, NumbersOf, JobsOf
  <2> QED BY <1>0, <1>n, <2>2
<1>2. \A k \in Jobs : k # j => invoice'[k].number = invoice[k].number
  BY DEF Put
<1>3. invoice'[j].number = n + 1 /\ invoice[j].number = 0
  BY <1>0, <1>1 DEF Put, Exists
<1>4. NumbersOf(o)' = NumbersOf(o) \cup {n + 1}
  BY <1>2, <1>3 DEF NumbersOf, JobsOf
<1>5. UpTo(o, n + 1)'
  BY <1>0, <1>4 DEF UpTo
<1>6. ASSUME NEW p, p # o PROVE NumbersOf(p)' = NumbersOf(p)
  BY <1>2, <1>6 DEF NumbersOf, JobsOf
<1>7. \A p : p # o => LastNumber(p)' = LastNumber(p)
  BY <1>6 DEF LastNumber, NumbersOf, JobsOf
<1>8. DenseInv'
  BY <1>5, <1>6 DEF DenseInv, UpTo, NumberPart
<1>9. UniqueInv'
  <2> SUFFICES ASSUME NEW i \in Jobs, NEW k \in Jobs, Exists(i)', Owner[k] = Owner[i],
                      invoice'[k].number = invoice'[i].number, k # i
               PROVE  FALSE
    BY DEF UniqueInv
  <2>1. CASE i = j
    BY <1>1, <1>2, <1>3, <2>1 DEF Unique
  <2>2. CASE k = j
    BY <1>1, <1>2, <1>3, <2>2 DEF Unique
  <2>3. CASE i # j /\ k # j
    BY <1>2, <2>3 DEF NumberPart, UniqueInv, Exists
  <2> QED BY <2>1, <2>2, <2>3
<1>10. LastNumber(o)' = n + 1
  BY <1>5, LastIsNext
<1> QED BY <1>n, <1>1, <1>7, <1>8, <1>9, <1>10

\* Invoices only appear, and last numbers only grow.
Grown ==
  \A j \in Jobs : /\ Exists(j) => Exists(j)'
                  /\ LastNumber(Owner[j]) \in Nat /\ LastNumber(Owner[j])' \in Nat
                  /\ LastNumber(Owner[j]) <= LastNumber(Owner[j])'

LEMMA KnowsKept ==
  ASSUME Grown, NEW r \in CallType, Knows(r) PROVE Knows(r)'
<1>1. /\ r.job \in Jobs /\ r.since \in Nat /\ r.tries \in Nat /\ r.number \in Nat
  BY FS_CardinalityType, ConstantsAssumption DEF CallType, Numbers, Tries
<1>2. /\ Exists(r.job) => Exists(r.job)'
      /\ LastNumber(Owner[r.job]) \in Nat /\ LastNumber(Owner[r.job])' \in Nat
      /\ LastNumber(Owner[r.job]) <= LastNumber(Owner[r.job])'
  BY <1>1 DEF Grown
<1> QED BY <1>1, <1>2 DEF Knows

\* It is enough to look at the call of the step.
LEMMA KnowsStep ==
  ASSUME TypeOK, KnowsInv, Grown, NEW c \in Calls, NEW rec, Becomes(c, rec), Knows(rec)'
  PROVE  KnowsInv'
<1> SUFFICES ASSUME NEW b \in Calls PROVE (Knows(call[b]))'
  BY DEF KnowsInv
<1>1. PICK r : r = call'[b]
  OBVIOUS
<1>2. Knows(r)'
  <2>1. CASE b = c
    BY <1>1, <2>1 DEF Becomes
  <2>2. CASE b # c
    <3>1. r = call[b] /\ r \in CallType
      BY <1>1, <2>2 DEF Becomes
    <3>2. Knows(r)
      BY <3>1 DEF KnowsInv
    <3> QED BY <3>1, <3>2, KnowsKept
  <2> QED BY <2>1, <2>2
<1> QED BY <1>1, <1>2 DEF Knows

LEMMA SameGrown ==
  ASSUME DenseInv, SameNumbers PROVE Grown
BY NumbersKept, LastTyped DEF Grown

LEMMA SameKeeps ==
  ASSUME DenseInv, UniqueInv, SameNumbers PROVE DenseInv' /\ UniqueInv'
<1>1. DenseInv'
  BY NumbersKept DEF DenseInv
<1>2. UniqueInv'
  BY DEF SameNumbers, UniqueInv, Exists
<1> QED BY <1>1, <1>2

LEMMA RestSame == Rest => SameNumbers
BY DEF Rest, SameNumbers

\* A call that goes elsewhere knows what its new step asks for.
LEMMA GoesKnows ==
  ASSUME TypeOK, KnowsInv, DenseInv, SameNumbers, NEW c \in Calls, NEW pc, Goes(c, pc),
         pc \in {"pend", "enqueue", "writeSync", "jobFee", "writeJobFee", "finalFee", "pay"} => Exists(call[c].job),
         pc \in {"writeFee", "jobFee", "writeJobFee"} => call[c].fee \in Fees,
         pc = "number" => call[c].since + call[c].tries <= LastNumber(Owner[call[c].job]),
         pc \notin {"lookup", "create"}
  PROVE  KnowsInv'
<1>1. PICK rec : /\ Becomes(c, rec) /\ rec.pc = pc
                 /\ rec.job = call[c].job /\ rec.fee = call[c].fee /\ rec.number = call[c].number
                 /\ rec.tries = call[c].tries /\ rec.since = call[c].since
  BY DEF Goes
<1>2. rec.job \in Jobs
  BY <1>1 DEF TypeOK, CallType
<1>3. /\ Exists(rec.job)' = Exists(rec.job)
      /\ LastNumber(Owner[rec.job])' = LastNumber(Owner[rec.job])
  BY <1>2, NumbersKept
<1>4. Exists(rec.job) = Exists(call[c].job) /\ LastNumber(Owner[rec.job]) = LastNumber(Owner[call[c].job])
  BY <1>1
<1>5. Knows(rec)'
  BY <1>1, <1>3, <1>4 DEF Knows
<1> QED BY <1>1, <1>5, SameGrown, KnowsStep

LEMMA IdleKnows ==
  ASSUME TypeOK, KnowsInv, Grown, NEW c \in Calls, Becomes(c, IdleCall)
  PROVE  KnowsInv'
<1>1. PICK rec : rec = IdleCall
  OBVIOUS
<1>2. Knows(rec)'
  BY <1>1, IdleIsCall DEF Knows
<1> QED BY <1>1, <1>2, KnowsStep

CallStep(c) == GenerateStep(c) \/ JobEditStep(c) \/ InvoiceStep(c) \/ CallFails(c)

\* A call that ends early writes nothing.
LEMMA FailEffect ==
  ASSUME TypeOK, NEW c \in Calls, CallFails(c)
  PROVE  /\ Rest /\ Becomes(c, IdleCall) /\ UNCHANGED <<slot, stored, pdfQueue, ops>>
         /\ call[c].pc # "idle" /\ Fault
<1>1. call \in [Calls -> CallType]
  BY DEF TypeOK
<1> QED BY <1>1, ReturnEffect DEF CallFails, Rest

LEMMA FailKnows ==
  ASSUME NumberPart, NEW c \in Calls, CallFails(c) PROVE KnowsInv'
<1>1. TypeOK /\ DenseInv /\ KnowsInv
  BY DEF NumberPart
<1> QED BY <1>1, FailEffect, RestSame, SameGrown, IdleKnows

\* Each call action but Create leaves the numbers alone.
LEMMA NumbersUnchanged ==
  ASSUME TypeOK, KnowsInv, DenseInv, NEW c \in Calls, CallStep(c), ~Create(c)
  PROVE  SameNumbers
<1>1. CASE Rest
  BY <1>1, RestSame
<1>2. CASE WriteFee(c) \/ WriteJobFee(c)
  BY <1>2 DEF WriteFee, WriteJobFee, SameNumbers
<1>3. CASE Pend(c) \/ Enqueue(c)
  BY <1>3, TailEffect DEF OnlyPdf, SameNumbers
<1>4. CASE WriteSync(c) \/ WriteFinalFee(c)
  <2>1. PICK miles : Amends(call[c].job, <<call[c].fee, miles>>)
    BY <1>4, AmountWriteEffect
  <2> QED BY <2>1 DEF Amends, SameNumbers
<1>5. CASE WritePaid(c)
  BY <1>5, WritePaidEffect DEF Put, SameNumbers
<1> QED BY <1>1, <1>2, <1>3, <1>4, <1>5 DEF CallStep, GenerateStep, JobEditStep, InvoiceStep, CallFails, Rest,
           BeginGenerate, LookUp, PickNumber, CreateRefused, BeginJobEdit, ReadForSync,
           BeginInvoiceEdit, SyncJobFee, BeginMarkPaid

LEMMA CreateKnows ==
  ASSUME NumberPart, NEW c \in Calls, Create(c)
  PROVE  /\ call[c].number \in Numbers /\ KnowsInv' /\ DenseInv' /\ UniqueInv'
<1> DEFINE j == call[c].job
<1>0. call[c] \in CallType /\ j \in Jobs /\ call[c].pc = "create" /\ ~Exists(j)
  BY DEF NumberPart, TypeOK, CallType, Create, Unique
<1>n. PICK n : n = LastNumber(Owner[j])
  OBVIOUS
<1>1. n \in Nat /\ UpTo(Owner[j], n)
  BY <1>0, <1>n, LastTyped DEF NumberPart
<1>2. /\ call[c].since + call[c].tries < call[c].number /\ call[c].number <= n + 1
      /\ call[c].number \in Nat \ {0}
  <2>1. /\ call[c].since + call[c].tries < call[c].number /\ call[c].number <= n + 1
    BY <1>0, <1>n DEF NumberPart, KnowsInv, Knows
  <2>2. call[c].since \in Nat /\ call[c].tries \in Nat /\ call[c].number \in Nat
    BY <1>0, FS_CardinalityType, ConstantsAssumption DEF CallType, Numbers, Tries
  <2> QED BY <2>1, <2>2
<1>3. call[c].number \in Numbers
  <2>1. n + 1 \in Numbers
    BY <1>0, <1>1, NumbersFit DEF Exists
  <2> QED BY <1>1, <1>2, <2>1, FS_CardinalityType, ConstantsAssumption DEF Numbers
<1>4. PICK row : Put(j, row) /\ row.number = call[c].number
  BY <1>3, CreateEffect DEF NumberPart
<1>5. Goes(c, "pend") /\ Unique(j, row.number)
  BY <1>3, <1>4, CreateEffect DEF NumberPart
<1>6. DenseInv' /\ UniqueInv'
  BY <1>0, <1>2, <1>4, <1>5, <1>n, NumberGiven
<1>7. Grown
  <2> SUFFICES ASSUME NEW k \in Jobs
               PROVE  /\ Exists(k) => Exists(k)'
                      /\ LastNumber(Owner[k]) \in Nat /\ LastNumber(Owner[k])' \in Nat
                      /\ LastNumber(Owner[k]) <= LastNumber(Owner[k])'
    BY DEF Grown
  <2>1. Exists(k) => Exists(k)'
    BY <1>0, <1>2, <1>4 DEF Put, Exists
  <2>2. PICK i \in Jobs : i = j
    BY <1>0
  <2>3. \A o : o # Owner[i] => LastNumber(o)' = LastNumber(o)
    BY <1>2, <1>4, <1>5, <1>n, <2>2, NumberGiven
  <2>4. LastNumber(Owner[i])' = LastNumber(Owner[i]) + 1
    BY <1>2, <1>4, <1>5, <1>n, <2>2, NumberGiven
  <2>5. LastNumber(Owner[k]) \in Nat
    BY LastTyped DEF NumberPart
  <2>6. LastNumber(Owner[k])' = LastNumber(Owner[k]) \/ LastNumber(Owner[k])' = LastNumber(Owner[k]) + 1
    <3>1. CASE Owner[k] = Owner[i]
      BY <2>4, <3>1
    <3>2. CASE Owner[k] # Owner[i]
      BY <2>3, <3>2
    <3> QED BY <3>1, <3>2
  <2> QED BY <2>1, <2>5, <2>6
<1>8. PICK rec : Becomes(c, rec) /\ rec.pc = "pend" /\ rec.job = j
  BY <1>5 DEF Goes
<1>9. Knows(rec)'
  <2>1. Exists(rec.job)'
    BY <1>0, <1>2, <1>4, <1>8 DEF Put, Exists
  <2> QED BY <1>8, <2>1 DEF Knows
<1> QED BY <1>3, <1>6, <1>7, <1>8, <1>9, KnowsStep DEF NumberPart

\* What a call that begins, or tries again, knows.
LEMMA BecomesKnows ==
  ASSUME NumberPart, Rest, NEW c \in Calls, NEW rec, Becomes(c, rec), Knows(rec)
  PROVE  KnowsInv'
<1>1. rec \in CallType
  BY DEF Becomes
<1>2. Grown
  BY RestSame, SameGrown DEF NumberPart
<1> QED BY <1>1, <1>2, KnowsKept, KnowsStep DEF NumberPart

LEMMA GenerateKnows ==
  ASSUME NumberPart, NEW c \in Calls, GenerateStep(c), ~Create(c)
  PROVE  KnowsInv'
<1>0. /\ TypeOK /\ DenseInv /\ KnowsInv /\ call[c] \in CallType /\ call[c].job \in Jobs
      /\ call[c].since \in Nat /\ call[c].tries \in Nat /\ call[c].number \in Nat
  <2>1. /\ TypeOK /\ DenseInv /\ KnowsInv /\ call[c] \in CallType
    BY DEF NumberPart, TypeOK
  <2> QED BY <2>1, FS_CardinalityType, ConstantsAssumption DEF CallType, Numbers, Tries
<1>1. CASE BeginGenerate(c)
  <2>1. PICK rec : /\ Becomes(c, rec) /\ rec.pc = "lookup" /\ rec.job \in Jobs
                   /\ rec.tries = 0 /\ rec.since = LastNumber(Owner[rec.job])
    BY <1>0, <1>1, LastTyped, BeginGenerateEffect
  <2>2. Rest
    BY <1>0, <1>1, LastTyped, BeginGenerateEffect
  <2>3. Knows(rec)
    <3>1. LastNumber(Owner[rec.job]) \in Nat
      BY <1>0, <2>1, LastTyped
    <3>2. rec.since + rec.tries <= LastNumber(Owner[rec.job])
      BY <2>1, <3>1
    <3> QED BY <2>1, <3>2 DEF Knows
  <2> QED BY <2>1, <2>2, <2>3, BecomesKnows
<1>2. CASE LookUp(c)
  <2>1. SameNumbers /\ call[c].pc = "lookup"
    BY <1>0, <1>2, LookUpEffect, RestSame
  <2>2. call[c].since + call[c].tries <= LastNumber(Owner[call[c].job])
    BY <2>1 DEF NumberPart, KnowsInv, Knows
  <2>3. CASE Exists(call[c].job)
    <3>1. Goes(c, "pend") \/ Goes(c, "idle")
      BY <1>0, <1>2, <2>3, LookUpEffect
    <3> QED BY <1>0, <2>1, <2>3, <3>1, GoesKnows
  <2>4. CASE ~Exists(call[c].job)
    <3>1. Goes(c, "number")
      BY <1>0, <1>2, <2>4, LookUpEffect
    <3> QED BY <1>0, <2>1, <2>2, <3>1, GoesKnows
  <2> QED BY <2>3, <2>4
<1>3. CASE PickNumber(c)
  <2>1. NextNumber(Owner[call[c].job]) \in 0..Cardinality(Jobs) + 1
        /\ NextNumber(Owner[call[c].job]) = LastNumber(Owner[call[c].job]) + 1
        /\ LastNumber(Owner[call[c].job]) \in Nat
    BY <1>0, LastTyped
  <2>2. PICK rec : /\ Becomes(c, rec) /\ rec.pc = "create" /\ rec.job = call[c].job
                   /\ rec.tries = call[c].tries /\ rec.since = call[c].since
                   /\ rec.number = NextNumber(Owner[call[c].job])
    BY <1>0, <1>3, <2>1, PickNumberEffect
  <2>3. Rest /\ call[c].pc = "number"
    BY <1>0, <1>3, <2>1, PickNumberEffect
  <2>4. call[c].since + call[c].tries <= LastNumber(Owner[call[c].job])
    BY <2>3 DEF NumberPart, KnowsInv, Knows
  <2>5. Knows(rec)
    BY <1>0, <2>1, <2>2, <2>4 DEF Knows
  <2> QED BY <2>2, <2>3, <2>5, BecomesKnows
<1>4. CASE CreateRefused(c)
  <2>1. Rest /\ call[c].pc = "create" /\ ~Unique(call[c].job, call[c].number)
    BY <1>0, <1>4, CreateRefusedEffect
  <2>2. CASE Exists(call[c].job) /\ (Goes(c, "pend") \/ Goes(c, "idle"))
    BY <1>0, <2>1, <2>2, RestSame, GoesKnows
  <2>3. CASE Becomes(c, IdleCall)
    BY <1>0, <2>1, <2>3, RestSame, SameGrown, IdleKnows
  <2>4. CASE /\ ~Exists(call[c].job)
             /\ \E rec : /\ Becomes(c, rec) /\ rec.pc = "number" /\ rec.job = call[c].job
                         /\ rec.fee = call[c].fee /\ rec.tries = call[c].tries + 1
                         /\ rec.since = call[c].since
    <3>1. PICK rec : /\ Becomes(c, rec) /\ rec.pc = "number" /\ rec.job = call[c].job
                     /\ rec.tries = call[c].tries + 1 /\ rec.since = call[c].since
      BY <2>4
    <3>n. PICK n : n = LastNumber(Owner[call[c].job])
      OBVIOUS
    <3>2. n \in Nat /\ UpTo(Owner[call[c].job], n)
      BY <1>0, <3>n, LastTyped
    <3>3. /\ call[c].since + call[c].tries < call[c].number /\ call[c].number <= n + 1
      BY <2>1, <3>n DEF NumberPart, KnowsInv, Knows
    <3>4. PICK k \in Jobs : Owner[k] = Owner[call[c].job] /\ invoice[k].number = call[c].number
      BY <2>1, <2>4 DEF Unique
    <3>5. call[c].number \in 0..n
      BY <3>2, <3>4 DEF UpTo, NumbersOf, JobsOf
    <3>6. rec.since + rec.tries <= n
      BY <1>0, <3>1, <3>2, <3>3, <3>5
    <3>7. LastNumber(Owner[rec.job]) = n
      BY <3>1, <3>n
    <3>8. Knows(rec)
      BY <3>1, <3>6, <3>7 DEF Knows
    <3> QED BY <2>1, <3>1, <3>8, BecomesKnows
  <2> QED BY <1>0, <1>4, <2>2, <2>3, <2>4, CreateRefusedEffect
<1>5. CASE Pend(c) \/ Enqueue(c)
  <2>1. SameNumbers /\ call[c].pc \in {"pend", "enqueue"}
    BY <1>0, <1>5, TailEffect DEF OnlyPdf, SameNumbers
  <2>2. Exists(call[c].job)
    BY <2>1 DEF NumberPart, KnowsInv, Knows
  <2>3. CASE Goes(c, "enqueue")
    BY <1>0, <2>1, <2>2, <2>3, GoesKnows
  <2>4. CASE Becomes(c, IdleCall)
    BY <1>0, <2>1, <2>4, SameGrown, IdleKnows
  <2> QED BY <1>0, <1>5, <2>3, <2>4, TailEffect
<1> QED BY <1>1, <1>2, <1>3, <1>4, <1>5 DEF GenerateStep

LEMMA EditKnows ==
  ASSUME NumberPart, NEW c \in Calls, JobEditStep(c) \/ InvoiceStep(c)
  PROVE  KnowsInv'
<1>0. TypeOK /\ DenseInv /\ KnowsInv /\ Knows(call[c])
  BY DEF NumberPart, KnowsInv
<1>1. CASE BeginJobEdit(c)
  <2>1. PICK rec : Becomes(c, rec) /\ rec.fee \in Fees /\ rec.pc \in {"writeFee", "sync"}
    BY <1>0, <1>1, BeginJobEditEffect
  <2>2. Rest
    BY <1>0, <1>1, BeginJobEditEffect
  <2>3. Knows(rec)
    BY <2>1 DEF Knows
  <2> QED BY <2>1, <2>2, <2>3, BecomesKnows
<1>2. CASE WriteFee(c) \/ WriteJobFee(c)
  <2>1. SameNumbers
    BY <1>2 DEF WriteFee, WriteJobFee, SameNumbers
  <2>2. \/ Goes(c, "sync")
        \/ call[c].pc = "writeJobFee" /\ Goes(c, "finalFee")
    BY <1>0, <1>2, FeeWriteEffect
  <2>3. call[c].pc = "writeJobFee" => Exists(call[c].job)
    BY <1>0 DEF Knows
  <2>4. CASE Goes(c, "sync")
    BY <1>0, <2>1, <2>4, GoesKnows
  <2>5. CASE call[c].pc = "writeJobFee" /\ Goes(c, "finalFee")
    BY <1>0, <2>1, <2>3, <2>5, GoesKnows
  <2> QED BY <2>2, <2>4, <2>5
<1>3. CASE ReadForSync(c)
  <2>1. Rest /\ (Becomes(c, IdleCall) \/ (Goes(c, "writeSync") /\ invoice[call[c].job].number # 0))
    BY <1>0, <1>3, ReadForSyncEffect
  <2>2. CASE Becomes(c, IdleCall)
    BY <1>0, <2>1, <2>2, RestSame, SameGrown, IdleKnows
  <2>3. CASE Goes(c, "writeSync") /\ invoice[call[c].job].number # 0
    <3>1. Exists(call[c].job)
      BY <2>3 DEF Exists
    <3> QED BY <1>0, <2>1, <2>3, <3>1, RestSame, GoesKnows
  <2> QED BY <2>1, <2>2, <2>3
<1>4. CASE WriteSync(c) \/ WriteFinalFee(c)
  <2>1. PICK miles : Amends(call[c].job, <<call[c].fee, miles>>)
    BY <1>0, <1>4, AmountWriteEffect
  <2>2. SameNumbers
    BY <2>1 DEF Amends, SameNumbers
  <2>3. Goes(c, "pend") /\ call[c].pc \in {"writeSync", "finalFee"}
    BY <1>0, <1>4, AmountWriteEffect
  <2> QED BY <1>0, <2>2, <2>3, GoesKnows DEF Knows
<1>5. CASE BeginInvoiceEdit(c)
  <2>1. PICK rec : /\ Becomes(c, rec) /\ Exists(rec.job)
                   /\ rec.pc = "pend" \/ (rec.pc = "jobFee" /\ rec.fee \in Fees)
    BY <1>0, <1>5, BeginInvoiceEditEffect
  <2>2. Rest
    BY <1>0, <1>5, BeginInvoiceEditEffect
  <2>3. Knows(rec)
    BY <2>1 DEF Knows
  <2> QED BY <2>1, <2>2, <2>3, BecomesKnows
<1>6. CASE SyncJobFee(c)
  <2>1. Rest /\ call[c].pc = "jobFee" /\ (Goes(c, "finalFee") \/ Goes(c, "writeJobFee"))
    BY <1>0, <1>6, SyncJobFeeEffect
  <2> QED BY <1>0, <2>1, RestSame, GoesKnows DEF Knows
<1>7. CASE BeginMarkPaid(c)
  <2>1. PICK rec : Becomes(c, rec) /\ Exists(rec.job) /\ rec.pc = "pay"
    BY <1>0, <1>7, BeginMarkPaidEffect
  <2>2. Rest
    BY <1>0, <1>7, BeginMarkPaidEffect
  <2>3. Knows(rec)
    BY <2>1 DEF Knows
  <2> QED BY <2>1, <2>2, <2>3, BecomesKnows
<1>8. CASE WritePaid(c)
  <2>1. SameNumbers /\ Becomes(c, IdleCall)
    BY <1>0, <1>8, WritePaidEffect DEF Put, SameNumbers
  <2> QED BY <1>0, <2>1, SameGrown, IdleKnows
<1> QED BY <1>1, <1>2, <1>3, <1>4, <1>5, <1>6, <1>7, <1>8 DEF JobEditStep, InvoiceStep

------------------------------------------------------------------------------
(* Types *)

SlotType == [pc : {"idle", "upload", "record"}, job : Jobs, amount : Amounts]
Pdfs == {NoPdf} \cup (Jobs \X Amounts)

LEMMA IdleSlotTyped == IdleSlot \in SlotType /\ IdleSlot.pc = "idle"
<1>1. AJob \in Jobs
  BY ConstantsAssumption DEF AJob
<1>2. NoAmount \in Amounts
  BY DEF NoAmount, Amounts
<1> QED BY <1>1, <1>2 DEF IdleSlot, SlotType

LEMMA FeeTyped ==
  ASSUME NumberPart, NEW c \in Calls, WriteFee(c) \/ WriteJobFee(c)
  PROVE  fee' \in [Jobs -> Fees]
<1>1. call[c].pc \in {"writeFee", "writeJobFee"}
  BY DEF WriteFee, WriteJobFee
<1>2. call[c].fee \in Fees
  BY <1>1 DEF NumberPart, KnowsInv, Knows
<1>3. fee' = [fee EXCEPT ![call[c].job] = call[c].fee] /\ fee \in [Jobs -> Fees]
  BY FeeWriteEffect DEF NumberPart, TypeOK
<1> QED BY <1>2, <1>3

\* What the calls do to the row's types, its number and its payment.
LEMMA CallTyped ==
  ASSUME NumberPart, NEW c \in Calls, CallStep(c)
  PROVE  /\ fee' \in [Jobs -> Fees] /\ invoice' \in [Jobs -> RowType] /\ call' \in [Calls -> CallType]
         /\ DenseInv' /\ UniqueInv' /\ PaidInv' /\ KnowsInv'
<1>0. TypeOK /\ DenseInv /\ UniqueInv /\ PaidInv /\ KnowsInv
      /\ fee \in [Jobs -> Fees] /\ invoice \in [Jobs -> RowType]
  BY DEF NumberPart, TypeOK
<1>1. CASE Create(c)
  <2>1. /\ Goes(c, "pend") /\ UNCHANGED fee
        /\ \E row : Put(call[c].job, row) /\ ~row.paid
    BY <1>0, <1>1, CreateKnows, CreateEffect
  <2>2. PaidInv'
    BY <1>0, <2>1 DEF Put, PaidInv, Exists
  <2> QED BY <1>0, <1>1, <2>1, <2>2, CreateKnows DEF Goes, Becomes, Put
<1>2. CASE ~Create(c)
  <2>1. SameNumbers
    BY <1>0, <1>2, NumbersUnchanged
  <2>2. KnowsInv' /\ DenseInv' /\ UniqueInv'
    BY <1>0, <1>2, <2>1, SameKeeps, GenerateKnows, EditKnows, FailKnows DEF CallStep
  <2>3. /\ fee' \in [Jobs -> Fees] /\ invoice' \in [Jobs -> RowType] /\ call' \in [Calls -> CallType]
        /\ \A j \in Jobs : invoice'[j].paid => invoice[j].paid \/ Exists(j)
    <3>1. CASE /\ Rest
               /\ \/ BeginGenerate(c) \/ LookUp(c) \/ PickNumber(c) \/ CreateRefused(c)
                  \/ BeginJobEdit(c) \/ ReadForSync(c) \/ BeginInvoiceEdit(c) \/ SyncJobFee(c) \/ BeginMarkPaid(c)
      <4>1. \A j \in Jobs : /\ LastNumber(Owner[j]) \in {0} \cup Numbers
                            /\ NextNumber(Owner[j]) \in 0..Cardinality(Jobs) + 1
        BY <1>0, LastTyped
      <4>2. call[c].job \in Jobs
        BY <1>0 DEF TypeOK, CallType
      <4>3. CASE BeginGenerate(c) \/ LookUp(c) \/ PickNumber(c) \/ CreateRefused(c)
        BY <1>0, <3>1, <4>1, <4>2, <4>3, BeginGenerateEffect, LookUpEffect, PickNumberEffect,
           CreateRefusedEffect DEF Rest, Goes, Becomes
      <4>4. CASE BeginJobEdit(c) \/ ReadForSync(c) \/ BeginInvoiceEdit(c) \/ SyncJobFee(c) \/ BeginMarkPaid(c)
        BY <1>0, <3>1, <4>4, BeginJobEditEffect, ReadForSyncEffect, BeginInvoiceEditEffect,
           SyncJobFeeEffect, BeginMarkPaidEffect DEF Rest, Goes, Becomes
      <4> QED BY <3>1, <4>3, <4>4
    <3>6. CASE CallFails(c)
      BY <1>0, <3>6, FailEffect DEF Rest, Becomes
    <3>2. CASE WriteFee(c) \/ WriteJobFee(c)
      BY <1>0, <3>2, FeeTyped, FeeWriteEffect DEF Goes, Becomes
    <3>3. CASE Pend(c) \/ Enqueue(c)
      BY <1>0, <3>3, TailEffect DEF OnlyPdf, Goes, Becomes
    <3>4. CASE WriteSync(c) \/ WriteFinalFee(c)
      <4>1. PICK miles : Amends(call[c].job, <<call[c].fee, miles>>)
        BY <1>0, <3>4, AmountWriteEffect
      <4>2. \A j \in Jobs : invoice'[j].paid = invoice[j].paid
        BY <4>1 DEF Amends
      <4> QED BY <1>0, <3>4, <4>1, <4>2, AmountWriteEffect DEF Amends, Goes, Becomes
    <3>5. CASE WritePaid(c)
      <4>1. Exists(call[c].job)
        BY <1>0, <3>5 DEF WritePaid, KnowsInv, Knows
      <4>2. /\ invoice' \in [Jobs -> RowType] /\ Becomes(c, IdleCall) /\ UNCHANGED fee
            /\ \A j \in Jobs : j # call[c].job => invoice'[j] = invoice[j]
        BY <1>0, <3>5, WritePaidEffect DEF Put
      <4> QED BY <1>0, <4>1, <4>2 DEF Becomes
    <3> QED BY <1>2, <3>1, <3>2, <3>3, <3>4, <3>5, <3>6
         DEF CallStep, GenerateStep, JobEditStep, InvoiceStep, Rest, BeginGenerate, LookUp, PickNumber,
             CreateRefused, BeginJobEdit, ReadForSync, BeginInvoiceEdit, SyncJobFee, BeginMarkPaid
  <2>4. PaidInv'
    BY <1>0, <2>1, <2>3, NumbersKept DEF PaidInv
  <2> QED BY <2>2, <2>3, <2>4
<1> QED BY <1>1, <1>2

LEMMA SlotTyped ==
  ASSUME TypeOK, NEW s \in Slots, PdfStep(s)
  PROVE  slot' \in [Slots -> SlotType] /\ stored' \in [Numbers -> Pdfs] /\ pdfQueue' \in [Jobs -> Nat]
<1>0. /\ slot \in [Slots -> SlotType] /\ stored \in [Numbers -> Pdfs] /\ pdfQueue \in [Jobs -> Nat]
      /\ invoice \in [Jobs -> RowType] /\ slot[s].job \in Jobs /\ slot[s].amount \in Amounts
  BY DEF TypeOK, SlotType, Pdfs
<1>1. CASE Render(s)
  <2>1. PICK j \in Jobs : /\ pdfQueue[j] > 0 /\ pdfQueue' = [pdfQueue EXCEPT ![j] = @ - 1]
                          /\ slot' = [slot EXCEPT ![s] = [pc |-> "upload", job |-> j, amount |-> invoice[j].amount]]
    BY <1>1 DEF Render
  <2>2. invoice[j].amount \in Amounts
    BY <1>0 DEF RowType
  <2>3. [pc |-> "upload", job |-> j, amount |-> invoice[j].amount] \in SlotType
    BY <2>2 DEF SlotType
  <2>4. slot' \in [Slots -> SlotType]
    BY <1>0, <2>1, <2>3
  <2>5. pdfQueue' \in [Jobs -> Nat]
    BY <1>0, <2>1
  <2> QED BY <1>0, <1>1, <2>4, <2>5 DEF Render
<1>2. CASE Upload(s)
  <2> DEFINE row == [slot[s] EXCEPT !.pc = "record"]
  <2>1. slot' = [slot EXCEPT ![s] = row]
    BY <1>2, Zenon DEF Upload
  <2>2. row \in SlotType
    BY <1>0 DEF SlotType
  <2> HIDE DEF row
  <2>3. slot' \in [Slots -> SlotType]
    BY <1>0, <2>1, <2>2
  <2>4. <<slot[s].job, slot[s].amount>> \in Pdfs
    BY <1>0 DEF Pdfs
  <2>5. stored' \in [Numbers -> Pdfs]
    BY <1>0, <1>2, <2>4 DEF Upload
  <2> QED BY <1>0, <1>2, <2>3, <2>5 DEF Upload
<1>3. CASE Record(s) \/ PdfThrows(s) \/ PdfStalled(s)
  <2>1. slot' = [slot EXCEPT ![s] = IdleSlot] /\ UNCHANGED stored
    BY <1>3 DEF Record, PdfThrows, PdfStalled
  <2>2. slot' \in [Slots -> SlotType]
    BY <1>0, <2>1, IdleSlotTyped
  <2>3. UNCHANGED pdfQueue \/ pdfQueue' = [pdfQueue EXCEPT ![slot[s].job] = @ + 1]
    BY <1>3 DEF Record, PdfThrows, PdfStalled
  <2> QED BY <1>0, <2>1, <2>2, <2>3
<1> QED BY <1>1, <1>2, <1>3 DEF PdfStep

LEMMA CountsTyped ==
  ASSUME TypeOK, (\E c \in Calls : CallStep(c)) \/ (\E s \in Slots : PdfStep(s))
  PROVE  ops' \in 0..MaxOps /\ faults' \in 0..MaxFaults
<1>0. ops \in 0..MaxOps /\ faults \in 0..MaxFaults /\ MaxOps \in Nat /\ MaxFaults \in Nat
  BY ConstantsAssumption DEF TypeOK
<1>1. UNCHANGED faults \/ Fault
  BY DEF CallStep, GenerateStep, JobEditStep, InvoiceStep, PdfStep, BeginGenerate, LookUp, PickNumber, Create,
         CreateRefused, Pend, Enqueue, BeginJobEdit, WriteFee, ReadForSync, WriteSync, BeginInvoiceEdit,
         SyncJobFee, WriteJobFee, WriteFinalFee, BeginMarkPaid, WritePaid, CallFails, Render, Upload, Record,
         PdfThrows, PdfStalled
<1>2. UNCHANGED ops \/ (ops < MaxOps /\ ops' = ops + 1)
  BY DEF CallStep, GenerateStep, JobEditStep, InvoiceStep, PdfStep, BeginGenerate, LookUp, PickNumber, Create,
         CreateRefused, Pend, Enqueue, BeginJobEdit, WriteFee, ReadForSync, WriteSync, BeginInvoiceEdit,
         SyncJobFee, WriteJobFee, WriteFinalFee, BeginMarkPaid, WritePaid, CallFails, Render, Upload, Record,
         PdfThrows, PdfStalled, Begin
<1> QED BY <1>0, <1>1, <1>2 DEF Fault

LEMMA NextSteps ==
  ASSUME Next
  PROVE  /\ raced' = [j \in Jobs |-> raced[j] \/ Race(j)]
         /\ (\E c \in Calls : CallStep(c)) \/ (\E s \in Slots : PdfStep(s))
BY DEF Next, CallStep

LEMMA CallQueue ==
  ASSUME TypeOK, NEW c \in Calls, CallStep(c)
  PROVE  /\ UNCHANGED <<slot, stored>>
         /\ \/ UNCHANGED pdfQueue
            \/ /\ call[c].pc = "enqueue"
               /\ pdfQueue' = [pdfQueue EXCEPT ![call[c].job] = @ + 1]
BY DEF CallStep, GenerateStep, JobEditStep, InvoiceStep, BeginGenerate, LookUp, PickNumber, Create,
       CreateRefused, Pend, Enqueue, BeginJobEdit, WriteFee, ReadForSync, WriteSync, BeginInvoiceEdit,
       SyncJobFee, WriteJobFee, WriteFinalFee, BeginMarkPaid, WritePaid, CallFails

LEMMA PdfNumbers ==
  ASSUME NumberPart, NEW s \in Slots, PdfStep(s)
  PROVE  DenseInv' /\ UniqueInv' /\ PaidInv' /\ KnowsInv'
<1>0. TypeOK /\ DenseInv /\ UniqueInv /\ PaidInv /\ KnowsInv
  BY DEF NumberPart
<1>1. SameNumbers /\ UNCHANGED call /\ \A j \in Jobs : invoice'[j].paid = invoice[j].paid
  BY <1>0, PdfStepEffect DEF OnlyPdf, SameNumbers
<1>2. DenseInv' /\ UniqueInv'
  BY <1>0, <1>1, SameKeeps
<1>3. PaidInv'
  BY <1>0, <1>1, NumbersKept DEF PaidInv
<1>4. KnowsInv'
  <2> SUFFICES ASSUME NEW c \in Calls PROVE (Knows(call[c]))'
    BY DEF KnowsInv
  <2>1. PICK r : r = call[c]
    OBVIOUS
  <2>2. r \in CallType /\ Knows(r) /\ r = call'[c]
    BY <1>0, <1>1, <2>1 DEF TypeOK, KnowsInv
  <2>3. Knows(r)'
    BY <1>0, <1>1, <2>2, SameGrown, KnowsKept
  <2> QED BY <2>2, <2>3 DEF Knows
<1> QED BY <1>2, <1>3, <1>4

LEMMA CrossedSteps ==
  ASSUME Next
  PROVE  crossed' = [j \in Jobs |-> IF Starts(j) THEN Rendering(j) ELSE crossed[j]]
BY DEF Next

LEMMA CrossedTyped ==
  ASSUME TypeOK, Next
  PROVE  crossed' \in [Jobs -> BOOLEAN]
<1>1. \A j \in Jobs : crossed[j] \in BOOLEAN
  BY DEF TypeOK
<1>2. \A j \in Jobs : Rendering(j) \in BOOLEAN
  BY Zenon DEF Rendering
<1> QED BY <1>1, <1>2, CrossedSteps, Zenon

LEMMA NoStart ==
  ASSUME Next, NEW j \in Jobs, ~Starts(j)
  PROVE  crossed'[j] = crossed[j]
BY CrossedSteps

LEMMA NumberPartKeeps == NumberPart /\ [Next]_vars => NumberPart'
<1> SUFFICES ASSUME NumberPart, [Next]_vars PROVE NumberPart'
  OBVIOUS
<1>0. TypeOK
  BY DEF NumberPart
<1>1. CASE UNCHANGED vars
  <2>1. raced' = raced /\ crossed' = crossed /\ cut' = cut
    BY <1>1, Zenon DEF vars
  <2>2. UNCHANGED <<fee, invoice, stored, pdfQueue, call, slot, ops, faults>>
    BY <1>1 DEF vars
  <2>3. TypeOK'
    BY <1>0, <2>1, <2>2 DEF TypeOK
  <2>4. SameNumbers
    BY <2>2 DEF SameNumbers
  <2>5. DenseInv' /\ UniqueInv'
    BY <2>4, SameKeeps DEF NumberPart
  <2>6. PaidInv'
    BY <2>2, <2>4, NumbersKept DEF NumberPart, PaidInv
  <2>7. KnowsInv'
    <3> SUFFICES ASSUME NEW c \in Calls PROVE (Knows(call[c]))'
      BY DEF KnowsInv
    <3>1. PICK r : r = call[c]
      OBVIOUS
    <3>2. r \in CallType /\ Knows(r) /\ r = call'[c]
      BY <1>0, <2>2, <3>1 DEF TypeOK, NumberPart, KnowsInv
    <3>3. Knows(r)'
      BY <2>4, <3>2, SameGrown, KnowsKept DEF NumberPart
    <3> QED BY <3>2, <3>3 DEF Knows
  <2> QED BY <2>3, <2>5, <2>6, <2>7 DEF NumberPart
<1>2. CASE Next
  <2>0. cut' \subseteq Jobs
    BY <1>0, <1>2 DEF TypeOK, Next
  <2>1. raced' \in [Jobs -> BOOLEAN] /\ crossed' \in [Jobs -> BOOLEAN]
    BY <1>0, <1>2, NextSteps, CrossedTyped, Zenon
  <2>2. ops' \in 0..MaxOps /\ faults' \in 0..MaxFaults
    BY <1>0, <1>2, NextSteps, CountsTyped
  <2>3. ASSUME NEW c \in Calls, CallStep(c) PROVE NumberPart'
    <3>1. slot' \in [Slots -> SlotType] /\ stored' \in [Numbers -> Pdfs] /\ pdfQueue' \in [Jobs -> Nat]
      <4>1. slot \in [Slots -> SlotType] /\ stored \in [Numbers -> Pdfs] /\ pdfQueue \in [Jobs -> Nat]
        BY <1>0 DEF TypeOK, SlotType, Pdfs
      <4> QED BY <1>0, <2>3, <4>1, CallQueue
    <3>2. TypeOK'
      BY <2>0, <2>1, <2>2, <2>3, <3>1, CallTyped DEF TypeOK, SlotType, Pdfs
    <3> QED BY <2>3, <3>2, CallTyped DEF NumberPart
  <2>4. ASSUME NEW s \in Slots, PdfStep(s) PROVE NumberPart'
    <3>1. fee' \in [Jobs -> Fees] /\ invoice' \in [Jobs -> RowType] /\ call' \in [Calls -> CallType]
      BY <1>0, <2>4, PdfStepEffect DEF OnlyPdf, TypeOK
    <3>2. TypeOK'
      BY <1>0, <2>0, <2>1, <2>2, <2>4, <3>1, SlotTyped DEF TypeOK, SlotType, Pdfs
    <3> QED BY <2>4, <3>2, PdfNumbers DEF NumberPart
  <2> QED BY <1>2, <2>3, <2>4, NextSteps
<1> QED BY <1>1, <1>2

LEMMA NumberPartInit == Init => NumberPart
<1> SUFFICES ASSUME Init PROVE NumberPart
  OBVIOUS
<1>1. NoRow \in RowType /\ NoRow.number = 0 /\ NoRow.paid = FALSE
  <2>1. NoAmount \in Amounts
    BY DEF NoAmount, Amounts
  <2> QED BY <2>1 DEF NoRow, NewRow, RowType
<1>2. \A j \in Jobs : invoice[j] = NoRow
  BY DEF Init
<1>3. invoice \in [Jobs -> RowType] /\ \A j \in Jobs : invoice[j].number = 0 /\ ~invoice[j].paid
  <2>1. \A j \in Jobs : invoice[j].number = 0 /\ ~invoice[j].paid
    BY <1>1, <1>2
  <2> QED BY <1>1, <2>1 DEF Init
<1>4. \A c \in Calls : call[c] = IdleCall
  BY DEF Init
<1>5. call \in [Calls -> CallType] /\ \A c \in Calls : call[c].pc = "idle"
  BY <1>4, IdleIsCall DEF Init
<1>6. slot \in [Slots -> SlotType] /\ stored \in [Numbers -> Pdfs]
  BY IdleSlotTyped DEF Init, Pdfs
<1>7. pdfQueue \in [Jobs -> Nat] /\ ops \in 0..MaxOps /\ faults \in 0..MaxFaults
  BY ConstantsAssumption DEF Init
<1>8. raced \in [Jobs -> BOOLEAN] /\ crossed \in [Jobs -> BOOLEAN] /\ fee \in [Jobs -> Fees]
      /\ cut \subseteq Jobs
  BY DEF Init
<1>9. TypeOK
  BY <1>3, <1>5, <1>6, <1>7, <1>8 DEF TypeOK, SlotType, Pdfs
<1>10. DenseInv
  <2> SUFFICES ASSUME NEW j \in Jobs PROVE UpTo(Owner[j], 0)
    BY DEF DenseInv
  <2>1. NumbersOf(Owner[j]) = {0}
    BY <1>3 DEF NumbersOf, JobsOf
  <2> QED BY <2>1 DEF UpTo
<1>11. UniqueInv /\ PaidInv
  BY <1>3 DEF UniqueInv, PaidInv, Exists
<1>12. KnowsInv
  BY <1>5 DEF KnowsInv, Knows
<1> QED BY <1>9, <1>10, <1>11, <1>12 DEF NumberPart

LEMMA NumberPartHolds == Spec => []NumberPart
BY NumberPartInit, NumberPartKeeps, PTL DEF Spec

\* The variables stay within their types: no number is given beyond the jobs there are,
\* no fee is written that nobody asked for, and no call tries more often than it may.
THEOREM TypeCorrect == Spec => []TypeOK
BY NumberPartHolds, PTL DEF NumberPart

\* An owner's invoice numbers are consecutive from 1, each given once, and generate loses
\* every try to an invoice of the owner that appeared while it ran, for any number of
\* jobs, owners and calls.
THEOREM NumbersStayDense == Spec => []NumbersDense
<1>1. NumberPart => NumbersDense
  <2> SUFFICES ASSUME NumberPart PROVE NumbersDense
    OBVIOUS
  <2>1. ASSUME NEW j \in Jobs, Exists(j), NEW n \in 1..invoice[j].number - 1
        PROVE  \E k \in Jobs : Owner[k] = Owner[j] /\ invoice[k].number = n
    <3>1. PICK m : UpTo(Owner[j], m)
      BY DEF NumberPart, DenseInv
    <3>2. invoice[j].number \in 0..m
      BY <3>1 DEF UpTo, NumbersOf, JobsOf
    <3>3. n \in 0..m /\ n # 0
      BY <3>1, <3>2 DEF UpTo
    <3> QED BY <3>1, <3>3 DEF UpTo, NumbersOf, JobsOf
  <2>2. ASSUME NEW j \in Jobs, NEW k \in Jobs, Exists(j), Owner[k] = Owner[j],
               invoice[k].number = invoice[j].number
        PROVE  k = j
    BY <2>2 DEF NumberPart, UniqueInv
  <2>3. ASSUME NEW c \in Calls, call[c].pc \in {"number", "create"}
        PROVE  call[c].since + call[c].tries <= LastNumber(Owner[call[c].job])
    <3>1. Knows(call[c]) /\ call[c].job \in Jobs /\ call[c] \in CallType
      BY DEF NumberPart, KnowsInv, TypeOK, CallType
    <3>2. LastNumber(Owner[call[c].job]) \in Nat
      BY <3>1, LastTyped DEF NumberPart
    <3>3. call[c].since \in Nat /\ call[c].tries \in Nat /\ call[c].number \in Nat
      BY <3>1, FS_CardinalityType, ConstantsAssumption DEF CallType, Numbers, Tries
    <3> QED BY <2>3, <3>1, <3>2, <3>3 DEF Knows
  <2> QED BY <2>1, <2>2, <2>3 DEF NumbersDense
<1> QED BY <1>1, NumberPartHolds, PTL

------------------------------------------------------------------------------
(* What a call knows of a job nobody raced *)

\* What it read of the fee and of the payment is so until it writes.
View(r) ==
  ~raced[r.job] =>
    /\ r.pc \in {"lookup", "number", "create", "sync", "writeSync", "finalFee"} => r.fee = fee[r.job]
    /\ r.pc \in {"number", "create"} => ~Exists(r.job)
    /\ r.pc \in {"writeSync", "jobFee", "writeJobFee", "finalFee", "pay"} => ~invoice[r.job].paid

ViewInv == \A c \in Calls : View(call[c])

\* Once raced or cut short, for ever so.
Lasting == cut \subseteq cut' /\ \A j \in Jobs : raced[j] => raced'[j]

LEMMA ViewKept ==
  ASSUME Lasting, NEW r \in CallType, View(r), Billed(r.job)' = Billed(r.job)
  PROVE  View(r)'
<1>1. r.job \in Jobs
  BY DEF CallType
<1>2. /\ fee'[r.job] = fee[r.job] /\ Exists(r.job)' = Exists(r.job)
      /\ invoice'[r.job].paid = invoice[r.job].paid
  BY DEF Billed, Exists
<1> QED BY <1>1, <1>2 DEF View, Lasting

LEMMA RacedLasts ==
  ASSUME Next
  PROVE  /\ Lasting
         /\ \A j \in Jobs : Race(j) => raced'[j]
<1>1. raced' = [j \in Jobs |-> raced[j] \/ Race(j)]
  BY NextSteps
<1>2. \A j \in Jobs : raced'[j] = (raced[j] \/ Race(j))
  BY <1>1
<1>3. cut \subseteq cut'
  BY DEF Next
<1> QED BY <1>2, <1>3, Zenon DEF Lasting

\* It is enough to look at the call of the step: the others are raced, or see no change.
LEMMA ViewStep ==
  ASSUME TypeOK, ViewInv, Next, NEW c \in Calls, NEW rec, Becomes(c, rec), View(rec)'
  PROVE  ViewInv'
<1> SUFFICES ASSUME NEW b \in Calls PROVE (View(call[b]))'
  BY DEF ViewInv
<1>1. PICK r : r = call'[b]
  OBVIOUS
<1>2. View(r)'
  <2>1. CASE b = c
    BY <1>1, <2>1 DEF Becomes
  <2>2. CASE b # c
    <3>1. r = call[b] /\ r \in CallType /\ View(r) /\ r.job \in Jobs
      BY <1>1, <2>2 DEF Becomes, ViewInv, CallType
    <3>2. CASE Billed(r.job)' = Billed(r.job)
      BY <3>1, <3>2, RacedLasts, ViewKept
    <3>3. CASE Billed(r.job)' # Billed(r.job) /\ r.pc \notin {"idle", "pend", "enqueue"}
      <4>1. Holding(b, r.job) /\ call'[b] = call[b]
        BY <1>1, <3>1, <3>3 DEF Holding
      <4>2. Race(r.job)
        BY <3>3, <4>1 DEF Race
      <4>3. raced'[r.job]
        BY <3>1, <4>2, RacedLasts
      <4> QED BY <4>3 DEF View
    <3>4. CASE r.pc \in {"idle", "pend", "enqueue"}
      BY <3>4 DEF View
    <3> QED BY <3>2, <3>3, <3>4
  <2> QED BY <2>1, <2>2
<1> QED BY <1>1, <1>2 DEF View

\* Nothing is asked of a call that is done with what it read.
LEMMA DoneSees ==
  ASSUME NEW c \in Calls,
         \/ Becomes(c, IdleCall) \/ Goes(c, "idle") \/ Goes(c, "pend") \/ Goes(c, "enqueue")
  PROVE  \E rec : Becomes(c, rec) /\ View(rec)'
<1>1. PICK rec : Becomes(c, rec) /\ rec.pc \in {"idle", "pend", "enqueue"}
  BY IdleIsCall DEF Goes
<1>2. View(rec)'
  BY <1>1 DEF View
<1> QED BY <1>1, <1>2

LEMMA CallSees ==
  ASSUME NumberPart, ViewInv, Lasting, NEW c \in Calls, CallStep(c)
  PROVE  \E rec : Becomes(c, rec) /\ View(rec)'
<1>0. TypeOK /\ call[c].job \in Jobs /\ View(call[c]) /\ fee \in [Jobs -> Fees]
  BY DEF NumberPart, TypeOK, ViewInv, CallType
<1>1. CASE BeginGenerate(c)
  <2>0. \A j \in Jobs : LastNumber(Owner[j]) \in {0} \cup Numbers
    BY LastTyped DEF NumberPart
  <2>1. PICK rec : Becomes(c, rec) /\ rec.pc = "lookup" /\ rec.fee = fee[rec.job]
    BY <1>0, <1>1, <2>0, BeginGenerateEffect
  <2>2. Rest
    BY <1>0, <1>1, <2>0, BeginGenerateEffect
  <2>3. View(rec)'
    BY <2>1, <2>2 DEF Rest, View
  <2> QED BY <2>1, <2>3
<1>2. CASE LookUp(c)
  <2>1. Rest /\ call[c].pc = "lookup"
    BY <1>0, <1>2, LookUpEffect
  <2>2. CASE Exists(call[c].job)
    BY <1>0, <1>2, <2>2, LookUpEffect, DoneSees
  <2>3. CASE ~Exists(call[c].job)
    <3>1. PICK rec : Becomes(c, rec) /\ rec.pc = "number" /\ rec.job = call[c].job /\ rec.fee = call[c].fee
      BY <1>0, <1>2, <2>3, LookUpEffect DEF Goes
    <3>2. View(rec)'
      BY <1>0, <2>1, <2>3, <3>1 DEF Rest, View, Exists, Lasting
    <3> QED BY <3>1, <3>2
  <2> QED BY <2>2, <2>3
<1>3. CASE PickNumber(c)
  <2>0. NextNumber(Owner[call[c].job]) \in 0..Cardinality(Jobs) + 1
    BY <1>0, LastTyped DEF NumberPart
  <2>1. PICK rec : Becomes(c, rec) /\ rec.pc = "create" /\ rec.job = call[c].job /\ rec.fee = call[c].fee
    BY <1>0, <1>3, <2>0, PickNumberEffect
  <2>2. Rest /\ call[c].pc = "number"
    BY <1>0, <1>3, <2>0, PickNumberEffect
  <2>3. View(rec)'
    BY <1>0, <2>1, <2>2 DEF Rest, View, Exists, Lasting
  <2> QED BY <2>1, <2>3
<1>4. CASE Create(c)
  BY <1>0, <1>4, CreateKnows, CreateEffect, DoneSees
<1>5. CASE CreateRefused(c)
  <2>1. Rest /\ call[c].pc = "create"
    BY <1>0, <1>5, CreateRefusedEffect
  <2>2. CASE Goes(c, "pend") \/ Goes(c, "idle") \/ Becomes(c, IdleCall)
    BY <2>2, DoneSees
  <2>3. CASE /\ ~Exists(call[c].job)
             /\ \E rec : /\ Becomes(c, rec) /\ rec.pc = "number" /\ rec.job = call[c].job
                         /\ rec.fee = call[c].fee /\ rec.tries = call[c].tries + 1
                         /\ rec.since = call[c].since
    <3>1. PICK rec : Becomes(c, rec) /\ rec.pc = "number" /\ rec.job = call[c].job /\ rec.fee = call[c].fee
      BY <2>3
    <3>2. View(rec)'
      BY <1>0, <2>1, <2>3, <3>1 DEF Rest, View, Exists, Lasting
    <3> QED BY <3>1, <3>2
  <2> QED BY <1>0, <1>5, <2>2, <2>3, CreateRefusedEffect
<1>6. CASE Pend(c) \/ Enqueue(c)
  BY <1>0, <1>6, TailEffect, DoneSees
<1>7. CASE BeginJobEdit(c)
  <2>1. PICK rec : /\ Becomes(c, rec)
                   /\ rec.pc = "writeFee" \/ (rec.pc = "sync" /\ rec.fee = fee[rec.job])
    BY <1>0, <1>7, BeginJobEditEffect
  <2>2. Rest
    BY <1>0, <1>7, BeginJobEditEffect
  <2>3. View(rec)'
    BY <2>1, <2>2 DEF Rest, View
  <2> QED BY <2>1, <2>3
<1>8. CASE WriteFee(c) \/ WriteJobFee(c)
  <2>1. /\ UNCHANGED invoice /\ fee' = [fee EXCEPT ![call[c].job] = call[c].fee]
        /\ \/ Goes(c, "sync")
           \/ call[c].pc = "writeJobFee" /\ Goes(c, "finalFee")
    BY <1>0, <1>8, FeeWriteEffect
  <2>2. PICK rec : /\ Becomes(c, rec) /\ rec.job = call[c].job /\ rec.fee = call[c].fee
                   /\ \/ rec.pc = "sync"
                      \/ rec.pc = "finalFee" /\ call[c].pc = "writeJobFee"
    BY <2>1 DEF Goes
  <2>3. fee'[rec.job] = rec.fee
    BY <1>0, <2>1, <2>2
  <2>4. View(rec)'
    BY <1>0, <2>1, <2>2, <2>3 DEF View, Lasting
  <2> QED BY <2>2, <2>4
<1>9. CASE ReadForSync(c)
  <2>1. Rest /\ call[c].pc = "sync"
    BY <1>0, <1>9, ReadForSyncEffect
  <2>2. CASE Becomes(c, IdleCall)
    BY <2>2, DoneSees
  <2>3. CASE Goes(c, "writeSync") /\ ~invoice[call[c].job].paid
    <3>1. PICK rec : Becomes(c, rec) /\ rec.pc = "writeSync" /\ rec.job = call[c].job /\ rec.fee = call[c].fee
      BY <2>3 DEF Goes
    <3>2. View(rec)'
      BY <1>0, <2>1, <2>3, <3>1 DEF Rest, View, Lasting
    <3> QED BY <3>1, <3>2
  <2> QED BY <1>0, <1>9, <2>2, <2>3, ReadForSyncEffect
<1>10. CASE WriteSync(c) \/ WriteFinalFee(c)
  BY <1>0, <1>10, AmountWriteEffect, DoneSees
<1>11. CASE BeginInvoiceEdit(c)
  <2>1. PICK rec : /\ Becomes(c, rec)
                   /\ rec.pc = "pend" \/ (rec.pc = "jobFee" /\ ~invoice[rec.job].paid)
    BY <1>0, <1>11, BeginInvoiceEditEffect
  <2>2. Rest
    BY <1>0, <1>11, BeginInvoiceEditEffect
  <2>3. View(rec)'
    BY <2>1, <2>2 DEF Rest, View
  <2> QED BY <2>1, <2>3
<1>12. CASE SyncJobFee(c)
  <2>1. /\ Rest /\ call[c].pc = "jobFee"
        /\ \/ Goes(c, "finalFee") /\ fee[call[c].job] = call[c].fee
           \/ Goes(c, "writeJobFee")
    BY <1>0, <1>12, SyncJobFeeEffect
  <2>2. PICK rec : /\ Becomes(c, rec) /\ rec.job = call[c].job /\ rec.fee = call[c].fee
                   /\ \/ rec.pc = "finalFee" /\ fee[call[c].job] = call[c].fee
                      \/ rec.pc = "writeJobFee"
    BY <2>1 DEF Goes
  <2>3. View(rec)'
    BY <1>0, <2>1, <2>2 DEF Rest, View, Lasting
  <2> QED BY <2>2, <2>3
<1>13. CASE BeginMarkPaid(c)
  <2>1. PICK rec : Becomes(c, rec) /\ rec.pc = "pay" /\ ~invoice[rec.job].paid
    BY <1>0, <1>13, BeginMarkPaidEffect
  <2>2. Rest
    BY <1>0, <1>13, BeginMarkPaidEffect
  <2>3. View(rec)'
    BY <2>1, <2>2 DEF Rest, View
  <2> QED BY <2>1, <2>3
<1>14. CASE WritePaid(c)
  BY <1>0, <1>14, WritePaidEffect, DoneSees
<1>15. CASE CallFails(c)
  BY <1>0, <1>15, FailEffect, DoneSees
<1> QED BY <1>1, <1>2, <1>3, <1>4, <1>5, <1>6, <1>7, <1>8, <1>9, <1>10, <1>11, <1>12, <1>13, <1>14, <1>15
        DEF CallStep, GenerateStep, JobEditStep, InvoiceStep

LEMMA ViewKeeps ==
  ASSUME NumberPart, ViewInv, [Next]_vars
  PROVE  ViewInv'
<1>0. TypeOK
  BY DEF NumberPart
<1>1. CASE UNCHANGED vars
  <2>1. raced' = raced
    BY <1>1, Zenon DEF vars
  <2>2. UNCHANGED <<fee, invoice, call>>
    BY <1>1 DEF vars
  <2> QED BY <2>1, <2>2 DEF ViewInv, View, Exists
<1>2. CASE Next
  <2>1. CASE \E c \in Calls : CallStep(c)
    BY <1>0, <1>2, <2>1, RacedLasts, CallSees, ViewStep
  <2>2. CASE \E s \in Slots : PdfStep(s)
    <3>1. UNCHANGED <<fee, call>> /\ OnlyPdf
      BY <1>0, <2>2, PdfStepEffect
    <3> SUFFICES ASSUME NEW b \in Calls PROVE (View(call[b]))'
      BY DEF ViewInv
    <3>2. PICK r : r = call[b]
      OBVIOUS
    <3>3. r \in CallType /\ View(r) /\ r = call'[b] /\ r.job \in Jobs
      BY <1>0, <3>1, <3>2 DEF TypeOK, ViewInv, CallType
    <3>4. Billed(r.job)' = Billed(r.job)
      BY <3>1, <3>3 DEF OnlyPdf, Billed
    <3>5. View(r)'
      BY <1>2, <3>3, <3>4, RacedLasts, ViewKept
    <3> QED BY <3>3, <3>5 DEF View
  <2> QED BY <1>2, <2>1, <2>2, NextSteps
<1> QED BY <1>1, <1>2

ViewPart == NumberPart /\ ViewInv

LEMMA ViewPartInit == Init => ViewPart
<1> SUFFICES ASSUME Init PROVE NumberPart /\ ViewInv
  BY DEF ViewPart
<1>1. \A c \in Calls : call[c].pc = "idle"
  BY IdleIsCall DEF Init
<1> QED BY <1>1, NumberPartInit DEF ViewInv, View

LEMMA ViewPartKeeps == ViewPart /\ [Next]_vars => ViewPart'
<1> SUFFICES ASSUME NumberPart, ViewInv, [Next]_vars PROVE NumberPart' /\ ViewInv'
  BY DEF ViewPart
<1> QED BY NumberPartKeeps, ViewKeeps

LEMMA ViewPartHolds == Spec => []ViewPart
BY ViewPartInit, ViewPartKeeps, PTL DEF Spec

\* The amount writes of an unraced call are those of a call that saw the invoice unpaid.
LEMMA AmountsLocked ==
  ASSUME NumberPart, ViewInv, [Next]_vars, NEW j \in Jobs, invoice[j].paid, ~raced[j]
  PROVE  invoice'[j].amount = invoice[j].amount
<1>0. TypeOK /\ PaidInv
  BY DEF NumberPart
<1>1. CASE UNCHANGED vars
  BY <1>1 DEF vars
<1>2. ASSUME NEW s \in Slots, PdfStep(s) PROVE invoice'[j].amount = invoice[j].amount
  BY <1>0, <1>2, PdfStepEffect DEF OnlyPdf
<1>3. ASSUME NEW c \in Calls, CallStep(c) PROVE invoice'[j].amount = invoice[j].amount
  <2>1. CASE UNCHANGED invoice
    BY <2>1
  <2>2. CASE Create(c)
    <3>1. PICK row : Put(call[c].job, row)
      BY <1>0, <2>2, CreateKnows, CreateEffect
    <3>2. j # call[c].job
      BY <1>0, <2>2 DEF PaidInv, Create, Unique
    <3> QED BY <3>1, <3>2 DEF Put
  <2>3. CASE Pend(c) \/ Enqueue(c)
    BY <1>0, <2>3, TailEffect DEF OnlyPdf
  <2>4. CASE WriteSync(c) \/ WriteFinalFee(c)
    <3>1. PICK miles : Amends(call[c].job, <<call[c].fee, miles>>)
      BY <1>0, <2>4, AmountWriteEffect
    <3>2. call[c].pc \in {"writeSync", "finalFee"}
      BY <1>0, <2>4, AmountWriteEffect
    <3>3. j # call[c].job
      BY <3>2 DEF ViewInv, View
    <3> QED BY <3>1, <3>3 DEF Amends
  <2>5. CASE WritePaid(c)
    <3>1. PICK row : Put(call[c].job, row) /\ row.amount = invoice[call[c].job].amount
      BY <1>0, <2>5, WritePaidEffect
    <3> QED BY <3>1 DEF Put
  <2> QED BY <1>3, <2>1, <2>2, <2>3, <2>4, <2>5
       DEF CallStep, GenerateStep, JobEditStep, InvoiceStep, BeginGenerate, LookUp, PickNumber, CreateRefused,
           BeginJobEdit, WriteFee, WriteJobFee, ReadForSync, BeginInvoiceEdit, SyncJobFee, BeginMarkPaid,
           CallFails
<1> QED BY <1>1, <1>2, <1>3, NextSteps

\* "Paid invoices are locked": the amount of a paid invoice never changes, unless a call
\* wrote the job or the invoice between another's check and its write.
THEOREM PaidStaysLocked == Spec => PaidAmountLocked
<1>1. ViewPart /\ [Next]_vars =>
        [\A j \in Jobs : invoice[j].paid /\ ~raced[j] => invoice'[j].amount = invoice[j].amount]_vars
  BY AmountsLocked DEF ViewPart
<1> QED BY <1>1, ViewPartHolds, PTL DEF Spec, PaidAmountLocked

------------------------------------------------------------------------------
(* The amount of an unpaid invoice *)

\* It is the job's fee, or a call is about to make it so.
FeeFollowed(j) ==
  Exists(j) /\ ~invoice[j].paid /\ ~raced[j] /\ j \notin cut =>
    \/ invoice[j].amount[1] = fee[j]
    \/ \E c \in Calls : call[c].job = j /\ call[c].pc \in BetweenFees

FeeInv == \A j \in Jobs : FeeFollowed(j)

\* A step that leaves the job alone, by a call that is not about to.
LEMMA FeeUntouched ==
  ASSUME Lasting, NEW j \in Jobs, FeeFollowed(j), NEW c \in Calls, NEW rec, Becomes(c, rec),
         Billed(j)' = Billed(j), call[c].job # j \/ call[c].pc \notin BetweenFees
  PROVE  FeeFollowed(j)'
<1>1. /\ fee'[j] = fee[j] /\ Exists(j)' = Exists(j) /\ invoice'[j].amount = invoice[j].amount
      /\ invoice'[j].paid = invoice[j].paid
  BY DEF Billed, Exists
<1>2. \A b \in Calls : call[b].job = j /\ call[b].pc \in BetweenFees => call'[b] = call[b]
  BY DEF Becomes
<1> QED BY <1>1, <1>2 DEF FeeFollowed, Lasting

LEMMA RestBilled == Rest => \A j \in Jobs : Billed(j)' = Billed(j)
BY DEF Rest, Billed

LEMMA FeeByCall ==
  ASSUME NumberPart, ViewInv, FeeInv, Lasting, NEW c \in Calls, CallStep(c), NEW j \in Jobs,
         Cut(j) => j \in cut'
  PROVE  FeeFollowed(j)'
<1>0. TypeOK /\ call[c].job \in Jobs /\ FeeFollowed(j) /\ View(call[c])
      /\ fee \in [Jobs -> Fees] /\ invoice \in [Jobs -> RowType]
  BY DEF NumberPart, TypeOK, CallType, FeeInv, ViewInv
<1>1. PICK rec : Becomes(c, rec) /\ View(rec)'
  BY CallSees
<1>2. CASE Rest /\ call[c].pc \notin BetweenFees
  BY <1>0, <1>1, <1>2, RestBilled, FeeUntouched
<1>3. CASE Create(c)
  <2>1. PICK row : /\ Put(call[c].job, row)
                   /\ row.amount = <<call[c].fee, Mileage[call[c].job]>>
    BY <1>0, <1>3, CreateKnows, CreateEffect
  <2>2. UNCHANGED fee /\ call[c].pc = "create"
    BY <1>3 DEF Create
  <2>3. CASE j = call[c].job
    <3>1. invoice'[j].amount[1] = call[c].fee
      BY <2>1, <2>3 DEF Put
    <3> QED BY <1>0, <2>2, <2>3, <3>1 DEF FeeFollowed, View, Lasting
  <2>4. CASE j # call[c].job
    BY <1>0, <1>1, <2>1, <2>2, <2>4, FeeUntouched DEF Put, Billed
  <2> QED BY <2>3, <2>4
<1>4. CASE Pend(c) \/ Enqueue(c)
  <2>1. call[c].pc \notin BetweenFees /\ Billed(j)' = Billed(j)
    BY <1>0, <1>4, TailEffect DEF OnlyPdf, Billed, BetweenFees
  <2> QED BY <1>0, <1>1, <2>1, FeeUntouched
<1>5. CASE WriteFee(c) \/ WriteJobFee(c)
  <2>1. /\ UNCHANGED invoice /\ fee' = [fee EXCEPT ![call[c].job] = call[c].fee]
        /\ Goes(c, "sync") \/ Goes(c, "finalFee")
    BY <1>0, <1>5, FeeWriteEffect
  <2>2. CASE j = call[c].job
    <3>1. call'[c].job = j /\ call'[c].pc \in BetweenFees
      BY <2>1, <2>2 DEF Goes, Becomes, BetweenFees
    <3> QED BY <3>1 DEF FeeFollowed
  <2>3. CASE j # call[c].job
    <3>1. Billed(j)' = Billed(j)
      BY <1>0, <2>1, <2>3 DEF Billed
    <3> QED BY <1>0, <1>1, <2>3, <3>1, FeeUntouched
  <2> QED BY <2>2, <2>3
<1>6. CASE ReadForSync(c)
  <2>1. Rest /\ call[c].pc = "sync"
    BY <1>0, <1>6, ReadForSyncEffect
  <2>2. CASE j # call[c].job
    BY <1>0, <1>1, <2>1, <2>2, RestBilled, FeeUntouched
  <2>3. CASE j = call[c].job /\ Goes(c, "writeSync")
    <3>1. call'[c].job = j /\ call'[c].pc \in BetweenFees
      BY <2>3 DEF Goes, Becomes, BetweenFees
    <3> QED BY <3>1 DEF FeeFollowed
  <2>4. CASE /\ j = call[c].job
             /\ invoice[j].number = 0 \/ invoice[j].paid \/ invoice[j].amount = <<call[c].fee, Mileage[j]>>
    <3>1. ~raced'[j] => call[c].fee = fee[j]
      BY <1>0, <2>1, <2>4 DEF View, Lasting
    <3>2. invoice[j].amount = <<call[c].fee, Mileage[j]>> => invoice[j].amount[1] = call[c].fee
      OBVIOUS
    <3> QED BY <2>1, <2>4, <3>1, <3>2 DEF FeeFollowed, Rest, Exists
  <2> QED BY <1>0, <1>6, <2>2, <2>3, <2>4, ReadForSyncEffect
<1>7. CASE WriteSync(c) \/ WriteFinalFee(c)
  <2>1. PICK miles : Amends(call[c].job, <<call[c].fee, miles>>)
    BY <1>0, <1>7, AmountWriteEffect
  <2>2. UNCHANGED fee /\ call[c].pc \in {"writeSync", "finalFee"}
    BY <1>0, <1>7, AmountWriteEffect
  <2>3. CASE j = call[c].job
    <3>1. invoice'[j].amount[1] = call[c].fee
      BY <2>1, <2>3 DEF Amends
    <3>2. ~raced'[j] => call[c].fee = fee[j]
      BY <1>0, <2>2, <2>3 DEF View, Lasting
    <3> QED BY <2>2, <3>1, <3>2 DEF FeeFollowed
  <2>4. CASE j # call[c].job
    <3>1. Billed(j)' = Billed(j)
      BY <2>1, <2>2, <2>4 DEF Amends, Billed
    <3> QED BY <1>0, <1>1, <2>4, <3>1, FeeUntouched
  <2> QED BY <2>3, <2>4
<1>8. CASE WritePaid(c)
  <2>1. PICK row : Put(call[c].job, row) /\ row.paid
    BY <1>0, <1>8, WritePaidEffect
  <2>2. UNCHANGED fee
    BY <1>8 DEF WritePaid
  <2>3. CASE j = call[c].job
    BY <2>1, <2>3 DEF Put, FeeFollowed
  <2>4. CASE j # call[c].job
    <3>1. Billed(j)' = Billed(j)
      BY <2>1, <2>2, <2>4 DEF Put, Billed
    <3> QED BY <1>0, <1>1, <2>4, <3>1, FeeUntouched
  <2> QED BY <2>3, <2>4
<1>9. CASE CallFails(c)
  <2>1. Rest
    BY <1>0, <1>9, FailEffect
  <2>2. CASE call[c].job = j /\ call[c].pc \in BetweenFees
    <3>1. Cut(j)
      BY <1>9, <2>2 DEF Cut
    <3> QED BY <3>1 DEF FeeFollowed
  <2>3. CASE call[c].job # j \/ call[c].pc \notin BetweenFees
    BY <1>0, <1>1, <2>1, <2>3, RestBilled, FeeUntouched
  <2> QED BY <2>2, <2>3
<1> QED BY <1>2, <1>3, <1>4, <1>5, <1>6, <1>7, <1>8, <1>9
        DEF CallStep, GenerateStep, JobEditStep, InvoiceStep, Rest, BetweenFees, BeginGenerate, LookUp, PickNumber,
            CreateRefused, BeginJobEdit, BeginInvoiceEdit, SyncJobFee, BeginMarkPaid, Begin

LEMMA FeeKeeps ==
  ASSUME NumberPart, ViewInv, FeeInv, [Next]_vars
  PROVE  FeeInv'
<1>1. CASE UNCHANGED vars
  <2>1. raced' = raced
    BY <1>1, Zenon DEF vars
  <2>2. UNCHANGED <<fee, invoice, call>>
    BY <1>1 DEF vars
  <2>3. cut' = cut
    BY <1>1 DEF vars
  <2> QED BY <2>1, <2>2, <2>3 DEF FeeInv, FeeFollowed, Exists
<1>2. CASE Next
  <2>0. \A j \in Jobs : Cut(j) => j \in cut'
    BY <1>2 DEF Next
  <2>1. ASSUME NEW c \in Calls, CallStep(c) PROVE FeeInv'
    BY <1>2, <2>0, <2>1, RacedLasts, FeeByCall DEF FeeInv
  <2>2. ASSUME NEW s \in Slots, PdfStep(s) PROVE FeeInv'
    <3>1. UNCHANGED <<fee, call>> /\ OnlyPdf /\ Lasting
      BY <1>2, <2>2, PdfStepEffect, RacedLasts DEF NumberPart
    <3> QED BY <3>1 DEF FeeInv, FeeFollowed, OnlyPdf, Exists, Lasting
  <2> QED BY <1>2, <2>1, <2>2, NextSteps
<1> QED BY <1>1, <1>2

\* When no call for it is under way, an unpaid and unraced invoice bills the fee of its
\* job, whichever end it was edited from, unless one of its edits ended between the
\* job's row and the invoice's: every other early end of a call leaves the two alike.
THEOREM UnpaidBillsTheFee == Spec => []UnpaidFollowsFee
<1>1. Init => FeeInv
  <2> SUFFICES ASSUME Init PROVE FeeInv
    OBVIOUS
  <2>1. \A j \in Jobs : ~Exists(j)
    BY DEF Init, Exists, NoRow, NewRow
  <2> QED BY <2>1 DEF FeeInv, FeeFollowed
<1>2. ViewPart /\ FeeInv /\ [Next]_vars => (ViewPart /\ FeeInv)'
  <2>1. ViewPart /\ FeeInv /\ [Next]_vars => FeeInv'
    BY FeeKeeps DEF ViewPart
  <2> QED BY <2>1, ViewPartKeeps
<1>3. FeeInv => UnpaidFollowsFee
  BY DEF FeeInv, FeeFollowed, UnpaidFollowsFee, BetweenFees
<1> QED BY <1>1, <1>2, <1>3, ViewPartInit, PTL DEF Spec

------------------------------------------------------------------------------
(* The PDFs *)

\* A PDF is queued or rendered for an invoice that exists.
WorkInv ==
  /\ \A j \in Jobs : pdfQueue[j] > 0 => Exists(j)
  /\ \A s \in Slots : slot[s].pc # "idle" => Exists(slot[s].job)

\* A render of j is queued, or a call is about to queue one.
Due(j) ==
  pdfQueue[j] > 0 \/ \E c \in Calls : call[c].job = j /\ call[c].pc \in {"pend", "enqueue"}

Shown(j) == OwnKey(j) => stored[Key(j)] = <<j, invoice[j].amount>>

\* The PDF of j is current, or the render under way will make it so.
Rendered(j) ==
  /\ \A s \in Slots : slot[s].pc # "idle" /\ slot[s].job = j =>
       slot[s].amount = invoice[j].amount /\ (slot[s].pc = "record" => Shown(j))
  /\ ~Rendering(j) => invoice[j].pdf /\ ~invoice[j].pending /\ Shown(j)

PdfInv ==
  faults = 0 => \A j \in Jobs : Exists(j) /\ ~Due(j) /\ ~crossed[j] => Rendered(j)

\* A render that began alone is alone until the next one begins.
AloneInv ==
  \A j \in Jobs : ~crossed[j] =>
    \A s, t \in Slots :
      slot[s].pc # "idle" /\ slot[s].job = j /\ slot[t].pc # "idle" /\ slot[t].job = j => s = t

\* Numbers are given for good.
NumbersLast == \A k \in Jobs : Exists(k) => invoice'[k].number = invoice[k].number

LEMMA NumbersAreLasting ==
  ASSUME NumberPart, NEW c \in Calls, CallStep(c)
  PROVE  NumbersLast
<1>1. CASE Create(c)
  <2>1. PICK row : Put(call[c].job, row)
    BY <1>1, CreateKnows, CreateEffect DEF NumberPart
  <2>2. ~Exists(call[c].job)
    BY <1>1 DEF Create, Unique
  <2> QED BY <2>1, <2>2 DEF Put, NumbersLast
<1>2. CASE ~Create(c)
  BY <1>2, NumbersUnchanged DEF NumberPart, SameNumbers, NumbersLast
<1> QED BY <1>1, <1>2

LEMMA OwnKeyWas ==
  ASSUME NumbersLast, NEW j \in Jobs, Exists(j), OwnKey(j)'
  PROVE  OwnKey(j)
BY DEF NumbersLast, OwnKey, Exists, Key

SameRow(j) ==
  /\ invoice'[j].number = invoice[j].number /\ invoice'[j].amount = invoice[j].amount
  /\ invoice'[j].pdf = invoice[j].pdf /\ invoice'[j].pending = invoice[j].pending

\* A call step that changes the row of j, or takes up a render that was due, has one due.
LEMMA CallDue ==
  ASSUME NumberPart, NEW c \in Calls, CallStep(c), NEW rec, Becomes(c, rec), faults' = 0, NEW j \in Jobs
  PROVE  Due(j)' \/ (~Due(j) /\ SameRow(j))
<1>0. TypeOK /\ call[c].job \in Jobs /\ call \in [Calls -> CallType] /\ pdfQueue \in [Jobs -> Nat]
      /\ faults \in Nat
  BY DEF NumberPart, TypeOK, CallType
<1>5. ~CallFails(c)
  BY <1>0 DEF CallFails, Fault
<1>1. CASE pdfQueue[j] > 0
  BY <1>0, <1>1, CallQueue DEF Due
<1>2. CASE \E b \in Calls : b # c /\ call[b].job = j /\ call[b].pc \in {"pend", "enqueue"}
  BY <1>2 DEF Becomes, Due
<1>3. CASE call[c].job = j /\ call[c].pc \in {"pend", "enqueue"}
  <2>1. Pend(c) \/ Enqueue(c)
    BY <1>3, <1>5 DEF CallStep, GenerateStep, JobEditStep, InvoiceStep, BeginGenerate, LookUp, PickNumber, Create,
           CreateRefused, BeginJobEdit, WriteFee, WriteJobFee, ReadForSync, WriteSync, BeginInvoiceEdit,
           SyncJobFee, WriteFinalFee, BeginMarkPaid, WritePaid, Begin
  <2>2. CASE Pend(c)
    <3>1. Goes(c, "enqueue")
      BY <1>0, <2>2, GotoEffect DEF Pend, Steps
    <3> QED BY <1>3, <3>1 DEF Goes, Becomes, Due
  <2>3. CASE Enqueue(c)
    <3>1. pdfQueue' = [pdfQueue EXCEPT ![j] = @ + 1]
      BY <1>0, <1>3, <2>3 DEF Enqueue, Fault
    <3> QED BY <1>0, <3>1 DEF Due
  <2> QED BY <2>1, <2>2, <2>3
<1>4. CASE ~Due(j)
  <2>1. CASE UNCHANGED invoice
    BY <1>4, <2>1 DEF SameRow
  <2>2. CASE Create(c)
    <3>1. Goes(c, "pend") /\ \E row : Put(call[c].job, row)
      BY <1>0, <2>2, CreateKnows, CreateEffect
    <3> QED BY <1>4, <3>1 DEF Goes, Becomes, Put, Due, SameRow
  <2>3. CASE Pend(c) \/ Enqueue(c)
    <3>1. call[c].pc \in {"pend", "enqueue"} /\ \A k \in Jobs : k # call[c].job => invoice'[k] = invoice[k]
      BY <1>0, <2>3, TailEffect
    <3> QED BY <1>4, <3>1 DEF Due, SameRow
  <2>4. CASE WriteSync(c) \/ WriteFinalFee(c)
    <3>1. Goes(c, "pend") /\ \E miles : Amends(call[c].job, <<call[c].fee, miles>>)
      BY <1>0, <2>4, AmountWriteEffect
    <3> QED BY <1>4, <3>1 DEF Goes, Becomes, Amends, Due, SameRow
  <2>5. CASE WritePaid(c)
    BY <1>0, <1>4, <2>5, WritePaidEffect DEF Put, SameRow
  <2> QED BY <1>5, <2>1, <2>2, <2>3, <2>4, <2>5
       DEF CallStep, GenerateStep, JobEditStep, InvoiceStep, BeginGenerate, LookUp, PickNumber, CreateRefused,
           BeginJobEdit, WriteFee, WriteJobFee, ReadForSync, BeginInvoiceEdit, SyncJobFee, BeginMarkPaid
<1> QED BY <1>1, <1>2, <1>3, <1>4 DEF Due

LEMMA CallRenders ==
  ASSUME NumberPart, PdfInv, Next, NEW c \in Calls, CallStep(c), NEW rec, Becomes(c, rec)
  PROVE  PdfInv'
<1> SUFFICES ASSUME faults' = 0, NEW j \in Jobs, Exists(j)', ~Due(j)', ~crossed'[j] PROVE Rendered(j)'
  BY DEF PdfInv
<1>1. faults = 0
  BY DEF NumberPart, TypeOK, Fault, CallStep, GenerateStep, JobEditStep, InvoiceStep, BeginGenerate, LookUp,
         PickNumber, Create, CreateRefused, Pend, Enqueue, BeginJobEdit, WriteFee, WriteJobFee, ReadForSync,
         WriteSync, BeginInvoiceEdit, SyncJobFee, WriteFinalFee, BeginMarkPaid, WritePaid, CallFails
<1>2. ~Due(j) /\ SameRow(j)
  BY CallDue
<1>3. UNCHANGED <<slot, stored>>
  BY CallQueue DEF NumberPart
<1>4. Exists(j) /\ Rendered(j)
  <2>1. ~crossed[j]
    BY <1>3, NoStart DEF Starts
  <2> QED BY <1>1, <1>2, <2>1 DEF PdfInv, SameRow, Exists
<1>5. Shown(j) => Shown(j)'
  <2>1. OwnKey(j)' => OwnKey(j)
    BY <1>4, NumbersAreLasting, OwnKeyWas
  <2> QED BY <1>2, <1>3, <2>1 DEF Shown, SameRow, Key
<1> QED BY <1>2, <1>3, <1>4, <1>5 DEF Rendered, Rendering, SameRow

LEMMA SlotRenders ==
  ASSUME NumberPart, WorkInv, PdfInv, AloneInv, Next, NEW s \in Slots, PdfStep(s)
  PROVE  PdfInv'
<1> SUFFICES ASSUME faults' = 0, NEW j \in Jobs, Exists(j)', ~Due(j)', ~crossed'[j] PROVE Rendered(j)'
  BY DEF PdfInv
<1>0. /\ TypeOK /\ UniqueInv /\ OnlyPdf /\ UNCHANGED call
      /\ pdfQueue \in [Jobs -> Nat] /\ faults \in Nat /\ slot \in [Slots -> SlotType]
      /\ stored \in [Numbers -> Pdfs] /\ invoice \in [Jobs -> RowType]
  BY PdfStepEffect DEF NumberPart, TypeOK, SlotType, Pdfs
<1>1. /\ Exists(j) /\ \A k \in Jobs : Exists(k)' = Exists(k) /\ Key(k)' = Key(k)
      /\ OwnKey(j)' = OwnKey(j)
  BY <1>0 DEF OnlyPdf, Exists, OwnKey, Key
<1>2. faults = 0 /\ (Render(s) \/ Upload(s) \/ Record(s))
  BY <1>0 DEF PdfStep, Render, Upload, Record, PdfThrows, PdfStalled, Fault
<1>3. CASE Render(s)
  <2>1. PICK k \in Jobs : /\ pdfQueue[k] > 0 /\ pdfQueue' = [pdfQueue EXCEPT ![k] = @ - 1]
                          /\ slot' = [slot EXCEPT ![s] = [pc |-> "upload", job |-> k,
                                                          amount |-> invoice[k].amount]]
    BY <1>3 DEF Render
  <2>2. UNCHANGED <<invoice, stored>> /\ slot[s].pc = "idle"
    BY <1>3 DEF Render
  <2>3. /\ slot'[s].pc = "upload" /\ slot'[s].job = k /\ slot'[s].amount = invoice[k].amount
        /\ \A t \in Slots : t # s => slot'[t] = slot[t]
    BY <1>0, <2>1
  <2>4. CASE k = j
    <3>1. Starts(j)
      BY <2>2, <2>3, <2>4 DEF Starts
    <3>2. ~Rendering(j)
      BY <3>1, CrossedSteps
    <3> QED BY <2>2, <2>3, <2>4, <3>2 DEF Rendered, Rendering
  <2>5. CASE k # j
    <3>1. ~Due(j)
      BY <1>0, <2>1, <2>5 DEF Due
    <3>2. ~Starts(j)
      BY <2>3, <2>5 DEF Starts
    <3>3. Rendered(j)
      BY <1>1, <1>2, <3>1, <3>2, NoStart DEF PdfInv
    <3> QED BY <1>1, <2>2, <2>3, <2>5, <3>3 DEF Rendered, Rendering, Shown
  <2> QED BY <2>4, <2>5
<1>4. ASSUME Upload(s) \/ Record(s) PROVE ~crossed[j] /\ Rendered(j) /\ UNCHANGED pdfQueue
  <2>1. UNCHANGED pdfQueue
    BY <1>0, <1>2, <1>4 DEF Upload, Record, Fault
  <2>2. \A t \in Slots : slot'[t].pc # "idle" => slot[t].pc # "idle"
    BY <1>0, <1>4, IdleSlotTyped DEF Upload, Record, SlotType
  <2>3. ~crossed[j]
    BY <2>2, NoStart DEF Starts
  <2> QED BY <1>0, <1>1, <1>2, <2>1, <2>3 DEF PdfInv, Due
<1>5. CASE Upload(s)
  <2> DEFINE k == slot[s].job
  <2>1. /\ k \in Jobs /\ slot[s].pc = "upload" /\ Exists(k) /\ Key(k) \in Numbers
        /\ stored' = [stored EXCEPT ![Key(k)] = <<k, slot[s].amount>>]
        /\ UNCHANGED invoice
    BY <1>0, <1>5 DEF Upload, SlotType, WorkInv, Exists, Key, RowType
  <2>2. /\ slot'[s].pc = "record" /\ slot'[s].job = k /\ slot'[s].amount = slot[s].amount
        /\ \A t \in Slots : t # s => slot'[t] = slot[t]
    BY <1>0, <1>5 DEF Upload, SlotType
  <2>3. CASE k = j
    <3>1. slot[s].amount = invoice[j].amount
      BY <1>4, <1>5, <2>1, <2>3 DEF Rendered
    <3>2. Shown(j)'
      BY <1>0, <1>1, <2>1, <2>3, <3>1 DEF Shown
    <3>3. \A t \in Slots : slot[t].pc # "idle" /\ slot[t].job = j => t = s
      BY <1>4, <1>5, <2>1, <2>3 DEF AloneInv
    <3> QED BY <2>1, <2>2, <2>3, <3>1, <3>2, <3>3 DEF Rendered, Rendering
  <2>4. CASE k # j
    <3>1. OwnKey(j) => Key(k) # Key(j)
      BY <1>0, <1>1, <2>1, <2>4 DEF UniqueInv, OwnKey, Key
    <3>2. Shown(j) => Shown(j)'
      BY <1>0, <1>1, <2>1, <3>1 DEF Shown
    <3> QED BY <1>4, <1>5, <2>1, <2>2, <2>4, <3>2 DEF Rendered, Rendering
  <2> QED BY <2>3, <2>4
<1>6. CASE Record(s)
  <2> DEFINE k == slot[s].job
  <2>1. PICK row : /\ Put(k, row) /\ row.pdf /\ ~row.pending
                   /\ row.number = invoice[k].number /\ row.amount = invoice[k].amount
    BY <1>0, <1>6, RecordEffect
  <2>2. k \in Jobs /\ slot[s].pc = "record" /\ UNCHANGED stored
    BY <1>0, <1>6 DEF Record, SlotType
  <2>3. slot'[s].pc = "idle" /\ \A t \in Slots : t # s => slot'[t] = slot[t]
    BY <1>0, <1>6, IdleSlotTyped DEF Record
  <2>4. Shown(j) => Shown(j)'
    BY <1>1, <2>1, <2>2 DEF Put, Shown
  <2>5. CASE k = j
    <3>1. Shown(j)
      BY <1>4, <1>6, <2>2, <2>5 DEF Rendered
    <3>2. \A t \in Slots : slot[t].pc # "idle" /\ slot[t].job = j => t = s
      BY <1>4, <1>6, <2>2, <2>5 DEF AloneInv
    <3> QED BY <2>1, <2>3, <2>4, <2>5, <3>1, <3>2 DEF Put, Rendered, Rendering
  <2>6. CASE k # j
    BY <1>4, <1>6, <2>1, <2>3, <2>4, <2>6 DEF Put, Rendered, Rendering
  <2> QED BY <2>5, <2>6
<1> QED BY <1>2, <1>3, <1>5, <1>6

LEMMA AloneKeeps ==
  ASSUME TypeOK, AloneInv, [Next]_vars
  PROVE  AloneInv'
<1>0. slot \in [Slots -> SlotType]
  BY DEF TypeOK, SlotType
<1>1. CASE UNCHANGED vars
  <2>1. crossed' = crossed /\ slot' = slot
    BY <1>1, Zenon DEF vars
  <2> QED BY <2>1 DEF AloneInv
<1>2. ASSUME Next, NEW c \in Calls, CallStep(c) PROVE AloneInv'
  <2>1. slot' = slot
    BY <1>2, CallQueue
  <2> QED BY <1>2, <2>1, NoStart DEF AloneInv, Starts
<1>3. ASSUME Next, NEW s \in Slots, PdfStep(s) PROVE AloneInv'
  <2> SUFFICES ASSUME NEW j \in Jobs, ~crossed'[j], NEW t \in Slots, NEW u \in Slots,
                      slot'[t].pc # "idle", slot'[t].job = j, slot'[u].pc # "idle", slot'[u].job = j
               PROVE  t = u
    BY DEF AloneInv
  <2>1. \A v \in Slots : v # s => slot'[v] = slot[v]
    BY <1>0, <1>3 DEF PdfStep, Render, Upload, Record, PdfThrows, PdfStalled
  <2>2. CASE Starts(j)
    <3>1. ~Rendering(j) /\ slot'[s].job = j
      BY <1>3, <2>1, <2>2, CrossedSteps DEF Starts
    <3> QED BY <2>1, <3>1 DEF Rendering
  <2>3. CASE ~Starts(j)
    <3>1. ~crossed[j]
      BY <1>3, <2>3, NoStart
    <3>2. slot'[s].pc # "idle" /\ slot'[s].job = j => slot[s].pc # "idle" /\ slot[s].job = j
      BY <1>0, <1>3, <2>3, IdleSlotTyped
      DEF Starts, PdfStep, Render, Upload, Record, PdfThrows, PdfStalled, SlotType
    <3> QED BY <2>1, <3>1, <3>2 DEF AloneInv
  <2> QED BY <2>2, <2>3
<1> QED BY <1>1, <1>2, <1>3, NextSteps

LEMMA WorkKeeps ==
  ASSUME NumberPart, WorkInv, [Next]_vars
  PROVE  WorkInv'
<1>0. TypeOK /\ KnowsInv /\ pdfQueue \in [Jobs -> Nat] /\ slot \in [Slots -> SlotType]
  BY DEF NumberPart, TypeOK, SlotType
<1>1. CASE UNCHANGED vars
  BY <1>1 DEF vars, WorkInv, Exists
<1>2. ASSUME NEW c \in Calls, CallStep(c) PROVE WorkInv'
  <2>1. \A k \in Jobs : Exists(k) => Exists(k)'
    BY <1>2, NumbersAreLasting DEF NumbersLast, Exists
  <2>2. \A s \in Slots : slot[s].job \in Jobs
    BY <1>0 DEF SlotType
  <2>3. call[c].pc = "enqueue" => Exists(call[c].job)
    BY <1>0 DEF KnowsInv, Knows
  <2> QED BY <1>0, <1>2, <2>1, <2>2, <2>3, CallQueue DEF WorkInv
<1>3. ASSUME NEW s \in Slots, PdfStep(s) PROVE WorkInv'
  <2>1. \A k \in Jobs : Exists(k)' = Exists(k)
    BY <1>0, <1>3, PdfStepEffect DEF OnlyPdf, Exists
  <2>2. CASE Render(s)
    <3>1. PICK k \in Jobs : /\ pdfQueue[k] > 0 /\ pdfQueue' = [pdfQueue EXCEPT ![k] = @ - 1]
                            /\ slot' = [slot EXCEPT ![s] = [pc |-> "upload", job |-> k,
                                                            amount |-> invoice[k].amount]]
      BY <2>2 DEF Render
    <3>2. \A j \in Jobs : pdfQueue'[j] > 0 => pdfQueue[j] > 0
      BY <1>0, <3>1
    <3>3. \A t \in Slots : t # s => slot'[t] = slot[t]
      BY <1>0, <3>1
    <3>4. slot'[s].job = k
      BY <1>0, <3>1
    <3>5. \A t \in Slots : slot[t].job \in Jobs
      BY <1>0 DEF SlotType
    <3> QED BY <2>1, <3>1, <3>2, <3>3, <3>4, <3>5 DEF WorkInv
  <2>3. CASE Upload(s)
    <3>1. /\ pdfQueue' = pdfQueue
          /\ \A t \in Slots : /\ slot'[t].job = slot[t].job
                              /\ slot'[t].pc # "idle" => slot[t].pc # "idle"
      BY <1>0, <2>3 DEF Upload, SlotType
    <3> QED BY <1>0, <2>1, <3>1 DEF WorkInv, SlotType
  <2>4. CASE Record(s) \/ PdfThrows(s) \/ PdfStalled(s)
    <3>1. /\ slot' = [slot EXCEPT ![s] = IdleSlot] /\ slot[s].pc # "idle"
          /\ \/ pdfQueue' = pdfQueue
             \/ pdfQueue' = [pdfQueue EXCEPT ![slot[s].job] = @ + 1]
      BY <2>4 DEF Record, PdfThrows, PdfStalled
    <3>2. \A j \in Jobs : pdfQueue'[j] > 0 => pdfQueue[j] > 0 \/ j = slot[s].job
      BY <1>0, <3>1
    <3>3. \A t \in Slots : slot'[t].pc # "idle" => slot'[t] = slot[t]
      BY <1>0, <3>1, IdleSlotTyped
    <3>4. \A t \in Slots : slot[t].job \in Jobs
      BY <1>0 DEF SlotType
    <3> QED BY <2>1, <3>1, <3>2, <3>3, <3>4 DEF WorkInv
  <2> QED BY <1>3, <2>2, <2>3, <2>4 DEF PdfStep
<1> QED BY <1>1, <1>2, <1>3, NextSteps

LEMMA PdfKeeps ==
  ASSUME ViewPart, WorkInv, AloneInv, PdfInv, [Next]_vars
  PROVE  PdfInv'
<1>0. NumberPart /\ ViewInv
  BY DEF ViewPart
<1>1. CASE UNCHANGED vars
  <2>1. crossed' = crossed
    BY <1>1, Zenon DEF vars
  <2>2. UNCHANGED <<invoice, stored, pdfQueue, call, slot, faults>>
    BY <1>1 DEF vars
  <2> QED BY <2>1, <2>2 DEF PdfInv, Rendered, Rendering, Shown, OwnKey, Due, Exists, Key
<1>2. ASSUME Next, NEW c \in Calls, CallStep(c) PROVE PdfInv'
  <2>1. PICK rec : Becomes(c, rec)
    BY <1>0, <1>2, RacedLasts, CallSees
  <2> QED BY <1>0, <1>2, <2>1, CallRenders
<1>3. ASSUME Next, NEW s \in Slots, PdfStep(s) PROVE PdfInv'
  BY <1>0, <1>3, SlotRenders
<1> QED BY <1>1, <1>2, <1>3, NextSteps

PdfPart == ViewPart /\ WorkInv /\ AloneInv /\ PdfInv

\* When all work is done and nothing failed, every invoice's PDF shows its current amount
\* and is not announced as pending, unless its last render overlapped another of its own
\* or another owner's has the same key.
THEOREM PdfsCatchUp == Spec => []PdfCurrent
<1>1. Init => PdfPart
  <2> SUFFICES ASSUME Init PROVE WorkInv /\ AloneInv /\ PdfInv
    BY ViewPartInit DEF PdfPart
  <2>1. \A j \in Jobs : ~Exists(j) /\ pdfQueue[j] = 0
    BY DEF Init, Exists, NoRow, NewRow
  <2>2. \A s \in Slots : slot[s].pc = "idle"
    BY IdleSlotTyped DEF Init
  <2> QED BY <2>1, <2>2 DEF WorkInv, AloneInv, PdfInv
<1>2. PdfPart /\ [Next]_vars => PdfPart'
  <2> SUFFICES ASSUME PdfPart, [Next]_vars PROVE PdfPart'
    OBVIOUS
  <2>1. NumberPart /\ TypeOK
    BY DEF PdfPart, ViewPart, NumberPart
  <2> QED BY <2>1, ViewPartKeeps, WorkKeeps, AloneKeeps, PdfKeeps DEF PdfPart
<1>3. PdfPart => PdfCurrent
  BY DEF PdfPart, PdfInv, PdfCurrent, NoCalls, NoPdfWork, Due, Rendered, Rendering, Shown
<1> QED BY <1>1, <1>2, <1>3, PTL DEF Spec

------------------------------------------------------------------------------
(* The reports *)

JobRow == [status : {"open", "complete", "deleted"}, at : Nat, miles : Nat, cost : Nat]

PdfData == [income : SUBSET (Signings \X Nat), auto : SUBSET (Signings \X Nat),
            manual : SUBSET Entries, spent : SUBSET Expenses, acts : SUBSET Acts, rate : Nat]

PdfCall == [range : Asked, rebuild : BOOLEAN, todo : SUBSET Report!Parts, perMile : Nat,
            data : PdfData, clean : BOOLEAN]

\* The rows of the books are what the forms let through.
RowsInv ==
  /\ job \in [Signings -> JobRow]
  /\ entry \in [Entries -> Nat] /\ expense \in [Expenses -> Nat] /\ act \in [Acts -> Nat]
  /\ rate \in Nat
  /\ pricing.miles \in Nat /\ pricing.perMile \in Nat

PdfTypes ==
  /\ request \in [Requests -> PdfCall]
  /\ kept \in [Asked -> PdfData \cup {Report!NoPdf}] /\ stale \in [Asked -> BOOLEAN]

\* What a request that nothing overtook has read is what the books say.
IsCurrent(x) ==
  /\ "rate" \notin x.todo => x.perMile = rate
  /\ "income" \notin x.todo => x.data.income = Report!Income(x.range)
  /\ "auto" \notin x.todo => x.data.auto = Report!Auto(x.range, rate)
  /\ "manual" \notin x.todo => x.data.manual = Report!Manual(x.range)
  /\ "spent" \notin x.todo => x.data.spent = Report!Spent(x.range)
  /\ "lastRate" \notin x.todo => x.data.rate = rate

ReadInv == \A c \in Requests :
  /\ request[c].rebuild => "fetch" \notin request[c].todo
  /\ request[c].clean /\ request[c].todo # {} => IsCurrent(request[c])

ReportsInv == RowsInv /\ PdfTypes /\ ReadInv /\ RebuiltIsCurrent

LEMMA ReadingIs ==
  ASSUME RowsInv, NEW r, NEW p \in Nat
  PROVE  /\ Report!Income(r) \in SUBSET (Signings \X Nat)
         /\ Report!Auto(r, p) \in SUBSET (Signings \X Nat)
         /\ Report!Manual(r) \in SUBSET Entries /\ Report!Spent(r) \in SUBSET Expenses
         /\ Report!Notarial(r) \in SUBSET Acts
<1>1. \A j \in Signings : job[j].cost \in Nat /\ job[j].miles \in Nat
  BY DEF RowsInv, JobRow
<1>2. ASSUME NEW j \in Signings PROVE Report!Deduction(j, p) \in Nat
  <2>1. PICK m \in Nat, k \in Nat : m = job[j].miles /\ k = job[j].cost
    BY <1>1
  <2>2. 2 * m * p \in Nat
    OBVIOUS
  <2> QED BY <2>1, <2>2 DEF Report!Deduction
<1>3. Report!Income(r) \in SUBSET (Signings \X Nat)
  BY <1>1 DEF Report!Income
<1>4. Report!Auto(r, p) \in SUBSET (Signings \X Nat)
  BY <1>2 DEF Report!Auto
<1>5. /\ Report!Manual(r) \in SUBSET Entries /\ Report!Spent(r) \in SUBSET Expenses
      /\ Report!Notarial(r) \in SUBSET Acts
  BY DEF Report!Manual, Report!Spent, Report!Notarial
<1> QED BY <1>3, <1>4, <1>5

LEMMA DaysAreNat ==
  /\ Report!Instants \subseteq Nat /\ Days \subseteq Nat
  /\ \A d \in Days : 2 * d \in Nat
<1>1. \A d \in Days : d \in Nat /\ 2 * d \in Nat /\ 2 * d + 1 \in Nat
  BY ReportsAssumption
<1> QED BY <1>1 DEF Report!Instants

LEMMA BlankIs == /\ Report!Blank \in PdfData /\ Report!IdleCall \in PdfCall
                 /\ Report!IdleCall.todo = {}
                 /\ Report!ARange \in Asked
<1>1. Report!ARange \in Asked
  BY ReportsAssumption DEF Report!ARange
<1>2. Report!Blank \in PdfData
  BY DEF Report!Blank, PdfData
<1>3. Report!IdleCall \in PdfCall /\ Report!IdleCall.todo = {}
  BY <1>1, <1>2 DEF Report!IdleCall, PdfCall
<1> QED BY <1>1, <1>2, <1>3

LEMMA ReportsBegin == BooksInit => ReportsInv
<1> SUFFICES ASSUME BooksInit PROVE ReportsInv
  OBVIOUS
<1>1. /\ rate \in Nat /\ job \in [Signings -> Report!JobRows]
      /\ entry \in [Entries -> Nat] /\ expense \in [Expenses -> Nat] /\ act \in [Acts -> Nat]
  BY ReportsAssumption, DaysAreNat DEF BooksInit, Report!Init
<1>2. Report!JobRows \subseteq JobRow
  <2>1. ASSUME NEW m \in Miles PROVE m \in Nat /\ 2 * m * rate \in Nat
    <3>1. PICK n \in Nat, p \in Nat : n = m /\ p = rate
      BY <1>1, ReportsAssumption
    <3>2. 2 * n * p \in Nat
      OBVIOUS
    <3> QED BY <3>1, <3>2
  <2> QED BY <2>1, DaysAreNat DEF Report!JobRows, JobRow
<1>3. RowsInv
  <2>1. pricing.miles = 0 /\ pricing.perMile = 0
    BY DEF BooksInit, Report!Init, Report!NoPricing
  <2> QED BY <1>1, <1>2, <2>1 DEF RowsInv
<1>4. /\ request = [c \in Requests |-> Report!IdleCall]
      /\ kept = [r \in Asked |-> Report!NoPdf] /\ stale = [r \in Asked |-> TRUE]
  BY DEF BooksInit, Report!Init
<1>5. PdfTypes
  BY <1>4, BlankIs DEF PdfTypes
<1>6. ReadInv
  BY <1>4, BlankIs DEF ReadInv
<1>7. RebuiltIsCurrent
  BY <1>4 DEF RebuiltIsCurrent, Report!RebuiltIsCurrent
<1> QED BY <1>3, <1>5, <1>6, <1>7 DEF ReportsInv

\* The books change: whatever a request has read, and what is stored, may be old.
LEMMA OvertakenKeeps == ASSUME ReportsInv, RowsInv', Report!Overtaken PROVE ReportsInv'
<1>1. /\ stale' = [r \in Asked |-> TRUE] /\ kept' = kept
      /\ request' = [c \in Requests |-> [request[c] EXCEPT !.clean = request[c].todo = {}]]
  BY DEF Report!Overtaken
<1>2. ASSUME NEW c \in Requests
      PROVE  /\ request'[c] \in PdfCall /\ request'[c].todo = request[c].todo
             /\ request'[c].rebuild = request[c].rebuild
             /\ request'[c].clean => request[c].todo = {}
  <2>1. PICK b \in BOOLEAN : b = (request[c].todo = {})
    OBVIOUS
  <2>2. request[c] \in PdfCall
    BY DEF ReportsInv, PdfTypes
  <2>3. request'[c] = [request[c] EXCEPT !.clean = b]
    BY <1>1, <2>1
  <2>4. request'[c] \in PdfCall /\ request'[c].todo = request[c].todo
    BY <2>2, <2>3 DEF PdfCall
  <2>5. request'[c].rebuild = request[c].rebuild
    BY <2>2, <2>3, Zenon DEF PdfCall
  <2>6. request'[c].clean = b
    BY <2>2, <2>3, Zenon DEF PdfCall
  <2> QED BY <2>1, <2>4, <2>5, <2>6
<1>3. PdfTypes'
  BY <1>1, <1>2 DEF PdfTypes, ReportsInv
<1>4. ReadInv'
  BY <1>2 DEF ReadInv, ReportsInv
<1>5. RebuiltIsCurrent'
  BY <1>1 DEF RebuiltIsCurrent, Report!RebuiltIsCurrent
<1> QED BY <1>3, <1>4, <1>5 DEF ReportsInv

\* An edit of a job's miles begins: no row changes.
LEMMA ReportsRest ==
  ASSUME ReportsInv, UNCHANGED <<job, entry, expense, act, rate, kept, request, stale>>,
         pricing'.miles \in Nat, pricing'.perMile \in Nat
  PROVE  ReportsInv'
<1>1. RowsInv' /\ PdfTypes'
  BY DEF ReportsInv, RowsInv, PdfTypes
<1>2. \A r, p : /\ Report!Income(r)' = Report!Income(r) /\ Report!Auto(r, p)' = Report!Auto(r, p)
                /\ Report!Manual(r)' = Report!Manual(r) /\ Report!Spent(r)' = Report!Spent(r)
                /\ Report!Notarial(r)' = Report!Notarial(r)
  BY DEF Report!Income, Report!Auto, Report!Manual, Report!Spent, Report!Notarial,
         Report!Counted, Report!Deduction
<1>3. ReadInv'
  BY DEF ReportsInv, ReadInv, IsCurrent, Report!Income, Report!Auto, Report!Manual, Report!Spent,
         Report!Counted, Report!Deduction
<1>4. RebuiltIsCurrent'
  BY DEF ReportsInv, RebuiltIsCurrent, Report!RebuiltIsCurrent, Report!Report,
         Report!Income, Report!Auto, Report!Manual, Report!Spent, Report!Notarial,
         Report!Counted, Report!Deduction
<1> QED BY <1>1, <1>3, <1>4 DEF ReportsInv

LEMMA BookStepKeeps == ASSUME ReportsInv, Report!BookStep PROVE ReportsInv'
<1>1. /\ job \in [Signings -> JobRow]
      /\ entry \in [Entries -> Nat] /\ expense \in [Expenses -> Nat] /\ act \in [Acts -> Nat]
      /\ rate \in Nat /\ pricing.miles \in Nat /\ pricing.perMile \in Nat
  BY DEF ReportsInv, RowsInv
<1>2. ASSUME NEW j \in Signings, NEW g \in JobRow, job' = [job EXCEPT ![j] = g],
             UNCHANGED <<entry, expense, act, rate, pricing>>, Report!Overtaken
      PROVE  ReportsInv'
  <2>1. RowsInv'
    BY <1>1, <1>2 DEF RowsInv
  <2> QED BY <1>2, <2>1, OvertakenKeeps
<1>3. CASE \E j \in Signings : Report!CompleteJob(j) \/ Report!RemoveJob(j)
  <2>1. PICK j \in Signings, s \in {"complete", "deleted"} :
          /\ job' = [job EXCEPT ![j] = [job[j] EXCEPT !.status = s]]
          /\ UNCHANGED <<entry, expense, act, rate, pricing>> /\ Report!Overtaken
    BY <1>3 DEF Report!CompleteJob, Report!RemoveJob
  <2>2. [job[j] EXCEPT !.status = s] \in JobRow
    BY <1>1 DEF JobRow
  <2> QED BY <1>2, <2>1, <2>2
<1>4. CASE \E j \in Signings, d \in Days : Report!MoveJob(j, d)
  <2>1. PICK j \in Signings, d \in Days :
          /\ job' = [job EXCEPT ![j] = [job[j] EXCEPT !.at = 2 * d + (job[j].at % 2)]]
          /\ UNCHANGED <<entry, expense, act, rate, pricing>> /\ Report!Overtaken
    BY <1>4 DEF Report!MoveJob
  <2>2. 2 * d + (job[j].at % 2) \in Nat
    BY <1>1, ReportsAssumption DEF JobRow
  <2>3. [job[j] EXCEPT !.at = 2 * d + (job[j].at % 2)] \in JobRow
    BY <1>1, <2>2 DEF JobRow
  <2> QED BY <1>2, <2>1, <2>3
<1>5. CASE \E j \in Signings, m \in Miles : Report!BeginPricing(j, m)
  <2>1. PICK j \in Signings, m \in Miles :
          /\ pricing' = [job |-> j, miles |-> m, perMile |-> rate]
          /\ UNCHANGED <<job, entry, expense, act, rate, kept, request, stale>>
    BY <1>5 DEF Report!BeginPricing, Report!books
  <2>2. pricing'.miles \in Nat /\ pricing'.perMile \in Nat
    BY <1>1, <2>1, ReportsAssumption
  <2> QED BY <2>1, <2>2, ReportsRest
<1>6. CASE Report!WritePricing
  <2> DEFINE x == pricing.job
             m == pricing.miles
             cost == 2 * pricing.miles * pricing.perMile
             one == [job EXCEPT ![x] = [job[x] EXCEPT !.miles = m]]
             two == [one EXCEPT ![x] = [one[x] EXCEPT !.cost = cost]]
  <2>1. /\ job' = [job EXCEPT ![pricing.job].miles = pricing.miles,
                              ![pricing.job].cost = 2 * pricing.miles * pricing.perMile]
        /\ pricing' = Report!NoPricing
        /\ UNCHANGED <<entry, expense, act, rate>> /\ Report!Overtaken
    BY <1>6 DEF Report!WritePricing
  <2>2. job' = two
    BY <2>1, Zenon
  <2>3. m \in Nat /\ cost \in Nat
    <3>1. PICK n \in Nat, p \in Nat : n = pricing.miles /\ p = pricing.perMile
      BY <1>1
    <3>2. 2 * n * p \in Nat
      OBVIOUS
    <3> QED BY <3>1, <3>2
  <2> HIDE DEF m, cost, x
  <2>4. one \in [Signings -> JobRow]
    <3>1. x \in Signings => [job[x] EXCEPT !.miles = m] \in JobRow
      BY <1>1, <2>3 DEF JobRow
    <3> QED BY <1>1, <3>1
  <2> HIDE DEF one
  <2>5. two \in [Signings -> JobRow]
    <3>1. x \in Signings => [one[x] EXCEPT !.cost = cost] \in JobRow
      BY <2>3, <2>4 DEF JobRow
    <3> QED BY <2>4, <3>1
  <2>6. pricing'.miles = 0 /\ pricing'.perMile = 0
    BY <2>1 DEF Report!NoPricing
  <2> HIDE DEF two
  <2>7. RowsInv'
    <3>1. job' \in [Signings -> JobRow]
      BY <2>2, <2>5
    <3>2. UNCHANGED <<entry, expense, act, rate>>
      BY <2>1
    <3> QED BY <1>1, <2>6, <3>1, <3>2 DEF RowsInv
  <2> QED BY <2>1, <2>7, OvertakenKeeps
<1>7. CASE \E m \in Entries, t \in Report!Instants \cup {0} : Report!WriteEntry(m, t)
  <2>1. PICK m \in Entries, t \in Nat :
          /\ entry' = [entry EXCEPT ![m] = t]
          /\ UNCHANGED <<job, expense, act, rate, pricing>> /\ Report!Overtaken
    BY <1>7, DaysAreNat DEF Report!WriteEntry
  <2>2. RowsInv'
    BY <1>1, <2>1 DEF RowsInv
  <2> QED BY <2>1, <2>2, OvertakenKeeps
<1>8. CASE \E e \in Expenses, d \in Days \cup {0} : Report!WriteExpense(e, d)
  <2>1. PICK e \in Expenses, d \in Nat :
          /\ expense' = [expense EXCEPT ![e] = d]
          /\ UNCHANGED <<job, entry, act, rate, pricing>> /\ Report!Overtaken
    BY <1>8, DaysAreNat DEF Report!WriteExpense
  <2>2. RowsInv'
    BY <1>1, <2>1 DEF RowsInv
  <2> QED BY <2>1, <2>2, OvertakenKeeps
<1>9. CASE \E a \in Acts, d \in Days \cup {0} : Report!WriteAct(a, d)
  <2>1. PICK a \in Acts, d \in Nat :
          /\ act' = [act EXCEPT ![a] = d]
          /\ UNCHANGED <<job, entry, expense, rate, pricing>> /\ Report!Overtaken
    BY <1>9, DaysAreNat DEF Report!WriteAct
  <2>2. RowsInv'
    BY <1>1, <2>1 DEF RowsInv
  <2> QED BY <2>1, <2>2, OvertakenKeeps
<1>10. CASE \E p \in Rates : Report!SetRate(p)
  <2>1. /\ rate' \in Nat
        /\ UNCHANGED <<job, entry, expense, act, pricing>> /\ Report!Overtaken
    BY <1>10, ReportsAssumption DEF Report!SetRate
  <2>2. RowsInv'
    BY <1>1, <2>1 DEF RowsInv
  <2> QED BY <2>1, <2>2, OvertakenKeeps
<1> QED BY <1>3, <1>4, <1>5, <1>6, <1>7, <1>8, <1>9, <1>10 DEF Report!BookStep

\* A step of one request.
LEMMA RequestMoves ==
  ASSUME ReportsInv, UNCHANGED Report!books, UNCHANGED pricing,
         NEW c \in Requests, NEW x \in PdfCall, request' = [request EXCEPT ![c] = x],
         x.rebuild => "fetch" \notin x.todo,
         x.clean /\ x.todo # {} => IsCurrent(x),
         kept' \in [Asked -> PdfData \cup {Report!NoPdf}], stale' \in [Asked -> BOOLEAN],
         RebuiltIsCurrent'
  PROVE  ReportsInv'
<1>1. UNCHANGED <<job, entry, expense, act, rate, pricing>>
  BY DEF Report!books
<1>2. RowsInv'
  BY <1>1 DEF ReportsInv, RowsInv
<1>3. request' \in [Requests -> PdfCall] /\ request'[c] = x
      /\ \A e \in Requests : e # c => request'[e] = request[e]
  BY DEF ReportsInv, PdfTypes
<1>4. PdfTypes'
  BY <1>3 DEF PdfTypes
<1>5. \A y : IsCurrent(y) => IsCurrent(y)'
  BY <1>1 DEF IsCurrent, Report!Income, Report!Auto, Report!Manual, Report!Spent,
              Report!Counted, Report!Deduction
<1>6. ASSUME NEW e \in Requests
      PROVE  /\ request'[e].rebuild => "fetch" \notin request'[e].todo
             /\ request'[e].clean /\ request'[e].todo # {} => IsCurrent(request[e])'
  <2>1. PICK y \in PdfCall : y = request'[e]
    BY <1>3
  <2>2. /\ y.rebuild => "fetch" \notin y.todo
        /\ y.clean /\ y.todo # {} => IsCurrent(y)
    <3>1. CASE e = c
      BY <1>3, <2>1, <3>1
    <3>2. CASE e # c
      <4>1. y = request[e]
        BY <1>3, <2>1, <3>2
      <4> QED BY <4>1 DEF ReportsInv, ReadInv
    <3> QED BY <3>1, <3>2
  <2>3. y.clean /\ y.todo # {} => IsCurrent(y)'
    BY <1>5, <2>2
  <2> QED BY <2>1, <2>2, <2>3 DEF IsCurrent
<1>7. ReadInv'
  BY <1>6 DEF ReadInv
<1> QED BY <1>2, <1>4, <1>7 DEF ReportsInv

\* What a reading makes of a request.
Advanced(q, t, d, p) == [q EXCEPT !.todo = t, !.data = d, !.perMile = p]

LEMMA CallReads ==
  ASSUME NEW q \in PdfCall, NEW t \in SUBSET Report!Parts, NEW d \in PdfData, NEW p \in Nat,
         NEW x, x = Advanced(q, t, d, p)
  PROVE  /\ x \in PdfCall /\ x.todo = t /\ x.data = d /\ x.perMile = p /\ x.range = q.range
         /\ x.clean = q.clean /\ x.rebuild = q.rebuild
<1> DEFINE one == [q EXCEPT !.todo = t]
           two == [one EXCEPT !.data = d]
           three == [two EXCEPT !.perMile = p]
<1>1. x = three
  BY Zenon DEF Advanced
<1>2. /\ one \in PdfCall /\ one.todo = t /\ one.range = q.range
  BY DEF PdfCall
<1>3. one.clean = q.clean /\ one.rebuild = q.rebuild
  BY Zenon DEF PdfCall
<1> HIDE DEF one
<1>4. /\ two \in PdfCall /\ two.todo = t /\ two.range = q.range /\ two.data = d
  BY <1>2 DEF PdfCall
<1>5. two.clean = q.clean /\ two.rebuild = q.rebuild
  BY <1>2, <1>3, Zenon DEF PdfCall
<1> HIDE DEF two
<1>6. /\ three \in PdfCall /\ three.todo = t /\ three.range = q.range /\ three.data = d
      /\ three.perMile = p
  BY <1>4 DEF PdfCall
<1>7. three.clean = q.clean /\ three.rebuild = q.rebuild
  BY <1>4, <1>5, Zenon DEF PdfCall
<1> HIDE DEF three
<1> QED BY <1>1, <1>6, <1>7, Zenon

LEMMA ReadingKeeps ==
  ASSUME ReportsInv, NEW c \in Requests, NEW part \in Report!Parts,
         NEW d \in PdfData, NEW p \in Nat, Report!Reading(c, part, d, p),
         \A x \in PdfCall :
           /\ IsCurrent(request[c]) /\ x.range = request[c].range
           /\ x.todo = request[c].todo \ {part} /\ x.data = d /\ x.perMile = p
           => IsCurrent(x)
  PROVE  ReportsInv'
<1>1. PICK q \in PdfCall : q = request[c]
  BY DEF ReportsInv, PdfTypes
<1>2. PICK t \in SUBSET Report!Parts : t = q.todo \ {part}
  BY DEF PdfCall
<1>3. PICK x : x = Advanced(q, t, d, p)
  OBVIOUS
<1>4. /\ x \in PdfCall /\ x.todo = q.todo \ {part} /\ x.data = d /\ x.perMile = p
      /\ x.range = q.range /\ x.clean = q.clean /\ x.rebuild = q.rebuild
  <2>1. /\ x \in PdfCall /\ x.todo = t /\ x.data = d /\ x.perMile = p
        /\ x.range = q.range /\ x.clean = q.clean /\ x.rebuild = q.rebuild
    BY <1>3, CallReads
  <2> QED BY <1>2, <2>1
<1>5. request' = [request EXCEPT ![c] = x]
  <2>1. request' = [request EXCEPT ![c].todo = request[c].todo \ {part}, ![c].data = d,
                                   ![c].perMile = p]
    BY Zenon DEF Report!Reading
  <2> DEFINE y == [request[c] EXCEPT !.todo = request[c].todo \ {part}, !.data = d, !.perMile = p]
  <2>2. x = y
    BY <1>1, <1>2, <1>3 DEF Advanced
  <2>3. request \in [Requests -> PdfCall]
    BY DEF ReportsInv, PdfTypes
  <2>4. request' = [request EXCEPT ![c] = y]
    BY <2>1, <2>3
  <2> QED BY <2>2, <2>4
<1>6. part \in q.todo /\ UNCHANGED <<kept, stale>>
      /\ UNCHANGED Report!books /\ UNCHANGED pricing
  BY <1>1 DEF Report!Reading, Report!May
<1>7. x.rebuild => "fetch" \notin x.todo
  BY <1>1, <1>4 DEF ReportsInv, ReadInv
<1>8. ASSUME x.clean PROVE IsCurrent(x)
  <2>1. request[c].clean /\ request[c].todo # {}
    BY <1>1, <1>4, <1>6, <1>8
  <2>2. IsCurrent(request[c])
    BY <2>1 DEF ReportsInv, ReadInv
  <2> QED BY <1>1, <1>4, <2>2
<1>9. RebuiltIsCurrent'
  BY <1>6 DEF ReportsInv, RebuiltIsCurrent, Report!RebuiltIsCurrent, Report!Report, Report!books,
         Report!Income, Report!Auto, Report!Manual, Report!Spent, Report!Notarial,
         Report!Counted, Report!Deduction
<1>10. kept' \in [Asked -> PdfData \cup {Report!NoPdf}] /\ stale' \in [Asked -> BOOLEAN]
  BY <1>6 DEF ReportsInv, PdfTypes
<1> QED BY <1>4, <1>5, <1>6, <1>7, <1>8, <1>9, <1>10, RequestMoves

\* Of a request that nothing overtook, each read is of the books as they are.
LEMMA DataReads ==
  ASSUME NEW v \in PdfData, NEW r, NEW p \in Nat, RowsInv
  PROVE  /\ [v EXCEPT !.income = Report!Income(r)] \in PdfData
         /\ [v EXCEPT !.auto = Report!Auto(r, p)] \in PdfData
         /\ [v EXCEPT !.manual = Report!Manual(r)] \in PdfData
         /\ [v EXCEPT !.spent = Report!Spent(r)] \in PdfData
         /\ [v EXCEPT !.acts = Report!Notarial(r)] \in PdfData
         /\ [v EXCEPT !.rate = rate] \in PdfData
<1>1. PICK i \in SUBSET (Signings \X Nat), a \in SUBSET (Signings \X Nat), m \in SUBSET Entries,
           s \in SUBSET Expenses, n \in SUBSET Acts, k \in Nat :
        /\ i = Report!Income(r) /\ a = Report!Auto(r, p) /\ m = Report!Manual(r)
        /\ s = Report!Spent(r) /\ n = Report!Notarial(r) /\ k = rate
  <2>1. rate \in Nat
    BY DEF RowsInv
  <2> QED BY <2>1, ReadingIs
<1>2. [v EXCEPT !.income = i] \in PdfData /\ [v EXCEPT !.auto = a] \in PdfData
  BY DEF PdfData
<1>3. [v EXCEPT !.manual = m] \in PdfData /\ [v EXCEPT !.spent = s] \in PdfData
  BY DEF PdfData
<1>4. [v EXCEPT !.acts = n] \in PdfData /\ [v EXCEPT !.rate = k] \in PdfData
  BY DEF PdfData
<1> QED BY <1>1, <1>2, <1>3, <1>4

LEMMA ReadsKeep ==
  ASSUME ReportsInv, NEW c \in Requests,
         \/ Report!ReadEarnings(c) \/ Report!ReadRate(c) \/ Report!ReadAuto(c)
         \/ Report!ReadManual(c) \/ Report!ReadExpenses(c) \/ Report!CountActs(c)
         \/ Report!ReadLastRate(c)
  PROVE  ReportsInv'
<1>1. PICK q \in PdfCall : q = request[c]
  BY DEF ReportsInv, PdfTypes
<1>2. RowsInv /\ rate \in Nat
  BY DEF ReportsInv, RowsInv
<1>3. q.data \in PdfData /\ q.perMile \in Nat
  BY DEF PdfCall
<1>4. PICK v \in PdfData, p \in Nat : v = q.data /\ p = q.perMile
  BY <1>3
<1>5. CASE Report!ReadEarnings(c)
  <2>1. PICK d \in PdfData : d = [v EXCEPT !.income = Report!Income(q.range)]
    BY <1>2, DataReads
  <2>2. Report!Reading(c, "income", d, p)
    BY <1>1, <1>4, <1>5, <2>1 DEF Report!ReadEarnings
  <2>3. /\ d.income = Report!Income(q.range) /\ d.auto = v.auto /\ d.manual = v.manual
        /\ d.spent = v.spent /\ d.rate = v.rate
    BY <2>1 DEF PdfData
  <2>4. \A x \in PdfCall :
          /\ IsCurrent(request[c]) /\ x.range = request[c].range
          /\ x.todo = request[c].todo \ {"income"} /\ x.data = d /\ x.perMile = p
          => IsCurrent(x)
    BY <1>1, <1>4, <2>3 DEF IsCurrent
  <2> QED BY <2>2, <2>4, ReadingKeeps DEF Report!Parts
<1>6. CASE Report!ReadRate(c)
  <2>1. PICK k \in Nat : k = rate
    BY <1>2
  <2>2. Report!Reading(c, "rate", v, k)
    BY <1>1, <1>4, <1>6, <2>1 DEF Report!ReadRate
  <2>3. \A x \in PdfCall :
          /\ IsCurrent(request[c]) /\ x.range = request[c].range
          /\ x.todo = request[c].todo \ {"rate"} /\ x.data = v /\ x.perMile = k
          => IsCurrent(x)
    BY <1>1, <1>4, <2>1 DEF IsCurrent
  <2> QED BY <2>2, <2>3, ReadingKeeps DEF Report!Parts
<1>7. CASE Report!ReadAuto(c)
  <2>1. PICK d \in PdfData : d = [v EXCEPT !.auto = Report!Auto(q.range, p)]
    BY <1>2, DataReads
  <2>2. Report!Reading(c, "auto", d, p)
    BY <1>1, <1>4, <1>7, <2>1 DEF Report!ReadAuto
  <2>3. /\ d.auto = Report!Auto(q.range, p) /\ d.income = v.income /\ d.manual = v.manual
        /\ d.spent = v.spent /\ d.rate = v.rate
    BY <2>1 DEF PdfData
  <2>4. "rate" \notin q.todo
    BY <1>1, <2>2 DEF Report!Reading, Report!May
  <2>5. \A x \in PdfCall :
          /\ IsCurrent(request[c]) /\ x.range = request[c].range
          /\ x.todo = request[c].todo \ {"auto"} /\ x.data = d /\ x.perMile = p
          => IsCurrent(x)
    BY <1>1, <1>4, <2>3, <2>4 DEF IsCurrent
  <2> QED BY <2>2, <2>5, ReadingKeeps DEF Report!Parts
<1>8. CASE Report!ReadManual(c)
  <2>1. PICK d \in PdfData : d = [v EXCEPT !.manual = Report!Manual(q.range)]
    BY <1>2, DataReads
  <2>2. Report!Reading(c, "manual", d, p)
    BY <1>1, <1>4, <1>8, <2>1 DEF Report!ReadManual
  <2>3. /\ d.manual = Report!Manual(q.range) /\ d.income = v.income /\ d.auto = v.auto
        /\ d.spent = v.spent /\ d.rate = v.rate
    BY <2>1 DEF PdfData
  <2>4. \A x \in PdfCall :
          /\ IsCurrent(request[c]) /\ x.range = request[c].range
          /\ x.todo = request[c].todo \ {"manual"} /\ x.data = d /\ x.perMile = p
          => IsCurrent(x)
    BY <1>1, <1>4, <2>3 DEF IsCurrent
  <2> QED BY <2>2, <2>4, ReadingKeeps DEF Report!Parts
<1>9. CASE Report!ReadExpenses(c)
  <2>1. PICK d \in PdfData : d = [v EXCEPT !.spent = Report!Spent(q.range)]
    BY <1>2, DataReads
  <2>2. Report!Reading(c, "spent", d, p)
    BY <1>1, <1>4, <1>9, <2>1 DEF Report!ReadExpenses
  <2>3. /\ d.spent = Report!Spent(q.range) /\ d.income = v.income /\ d.auto = v.auto
        /\ d.manual = v.manual /\ d.rate = v.rate
    BY <2>1 DEF PdfData
  <2>4. \A x \in PdfCall :
          /\ IsCurrent(request[c]) /\ x.range = request[c].range
          /\ x.todo = request[c].todo \ {"spent"} /\ x.data = d /\ x.perMile = p
          => IsCurrent(x)
    BY <1>1, <1>4, <2>3 DEF IsCurrent
  <2> QED BY <2>2, <2>4, ReadingKeeps DEF Report!Parts
<1>10. CASE Report!CountActs(c)
  <2>1. PICK d \in PdfData : d = [v EXCEPT !.acts = Report!Notarial(q.range)]
    BY <1>2, DataReads
  <2>2. Report!Reading(c, "acts", d, p)
    BY <1>1, <1>4, <1>10, <2>1 DEF Report!CountActs
  <2>3. /\ d.income = v.income /\ d.auto = v.auto /\ d.manual = v.manual
        /\ d.spent = v.spent /\ d.rate = v.rate
    BY <2>1 DEF PdfData
  <2>4. \A x \in PdfCall :
          /\ IsCurrent(request[c]) /\ x.range = request[c].range
          /\ x.todo = request[c].todo \ {"acts"} /\ x.data = d /\ x.perMile = p
          => IsCurrent(x)
    BY <1>1, <1>4, <2>3 DEF IsCurrent
  <2> QED BY <2>2, <2>4, ReadingKeeps DEF Report!Parts
<1>11. CASE Report!ReadLastRate(c)
  <2>1. PICK d \in PdfData : d = [v EXCEPT !.rate = rate]
    BY <1>2, DataReads
  <2>2. Report!Reading(c, "lastRate", d, p)
    BY <1>1, <1>4, <1>11, <2>1 DEF Report!ReadLastRate
  <2>3. /\ d.rate = rate /\ d.income = v.income /\ d.auto = v.auto /\ d.manual = v.manual
        /\ d.spent = v.spent
    BY <2>1 DEF PdfData
  <2>4. \A x \in PdfCall :
          /\ IsCurrent(request[c]) /\ x.range = request[c].range
          /\ x.todo = request[c].todo \ {"lastRate"} /\ x.data = d /\ x.perMile = p
          => IsCurrent(x)
    BY <1>1, <1>4, <2>3 DEF IsCurrent
  <2> QED BY <2>2, <2>4, ReadingKeeps DEF Report!Parts
<1> QED BY <1>5, <1>6, <1>7, <1>8, <1>9, <1>10, <1>11

\* What a request that nothing overtook stores is the report on the books as they are.
LEMMA PrintedIs ==
  ASSUME NEW q \in PdfCall, q.todo = {"store"}, IsCurrent(q)
  PROVE  Report!Printed(q.data) = Report!Printed(Report!Report(q.range))
<1>1. PICK v \in PdfData : v = q.data
  BY DEF PdfCall
<1>2. /\ v.income = Report!Income(q.range) /\ v.auto = Report!Auto(q.range, rate)
      /\ v.manual = Report!Manual(q.range) /\ v.spent = Report!Spent(q.range) /\ v.rate = rate
  BY <1>1 DEF IsCurrent
<1>3. Report!Printed(v) = [income |-> v.income, auto |-> v.auto, manual |-> v.manual,
                           spent |-> v.spent, acts |-> {}, rate |-> v.rate]
  <2>1. PICK w \in PdfData : w = [v EXCEPT !.acts = {}]
    BY DEF PdfData
  <2>2. /\ w.income = v.income /\ w.auto = v.auto /\ w.manual = v.manual
        /\ w.spent = v.spent /\ w.acts = {} /\ w.rate = v.rate
    BY <2>1 DEF PdfData
  <2>3. w = [income |-> w.income, auto |-> w.auto, manual |-> w.manual,
             spent |-> w.spent, acts |-> w.acts, rate |-> w.rate]
    BY DEF PdfData
  <2> QED BY <2>1, <2>2, <2>3 DEF Report!Printed
<1>4. Report!Printed(Report!Report(q.range)) =
        [income |-> Report!Income(q.range), auto |-> Report!Auto(q.range, rate),
         manual |-> Report!Manual(q.range), spent |-> Report!Spent(q.range), acts |-> {},
         rate |-> rate]
  BY DEF Report!Printed, Report!Report
<1> QED BY <1>1, <1>2, <1>3, <1>4

LEMMA BeginKeeps ==
  ASSUME ReportsInv, NEW c \in Requests, NEW r \in Asked, NEW rebuild \in BOOLEAN,
         Report!BeginPdf(c, r, rebuild)
  PROVE  ReportsInv'
<1>1. PICK t \in SUBSET Report!Parts : t = Report!ToDo(rebuild)
  BY DEF Report!ToDo
<1>2. /\ rebuild => "fetch" \notin t
      /\ {"rate", "income", "auto", "manual", "spent", "lastRate"} \subseteq t
  BY <1>1 DEF Report!ToDo, Report!Parts
<1> DEFINE one == [Report!IdleCall EXCEPT !.range = r]
           two == [one EXCEPT !.rebuild = rebuild]
           x == [two EXCEPT !.todo = t]
<1>3. request' = [request EXCEPT ![c] = x]
  BY <1>1, Zenon DEF Report!BeginPdf
<1>4. one \in PdfCall
  BY BlankIs DEF PdfCall
<1> HIDE DEF one
<1>5. two \in PdfCall /\ two.rebuild = rebuild
  BY <1>4, Zenon DEF PdfCall
<1> HIDE DEF two
<1>6. /\ x \in PdfCall /\ x.todo = t
      /\ x.rebuild = rebuild
  <2>1. x \in PdfCall /\ x.todo = t
    BY <1>5 DEF PdfCall
  <2>2. x.rebuild = rebuild
    BY <1>5, Zenon DEF PdfCall
  <2> QED BY <2>1, <2>2
<1> HIDE DEF x
<1>7. UNCHANGED <<kept, stale>> /\ UNCHANGED Report!books /\ UNCHANGED pricing
  BY DEF Report!BeginPdf
<1>8. x.rebuild => "fetch" \notin x.todo
  BY <1>2, <1>6
<1>9. IsCurrent(x)
  BY <1>2, <1>6 DEF IsCurrent
<1>10. RebuiltIsCurrent'
  BY <1>7 DEF ReportsInv, RebuiltIsCurrent, Report!RebuiltIsCurrent, Report!Report, Report!books,
         Report!Income, Report!Auto, Report!Manual, Report!Spent, Report!Notarial,
         Report!Counted, Report!Deduction
<1>11. kept' \in [Asked -> PdfData \cup {Report!NoPdf}] /\ stale' \in [Asked -> BOOLEAN]
  BY <1>7 DEF ReportsInv, PdfTypes
<1> QED BY <1>3, <1>6, <1>7, <1>8, <1>9, <1>10, <1>11, RequestMoves

\* A request ends; what it leaves in the store is right where it is not called stale.
LEMMA EndKeeps ==
  ASSUME ReportsInv, NEW c \in Requests, request' = [request EXCEPT ![c] = Report!IdleCall],
         UNCHANGED Report!books, UNCHANGED pricing,
         NEW r \in Asked, NEW pdf \in PdfData \cup {Report!NoPdf}, NEW old \in BOOLEAN,
         kept' = [kept EXCEPT ![r] = pdf], stale' = [stale EXCEPT ![r] = old],
         ~old => pdf = Report!Printed(Report!Report(r))
  PROVE  ReportsInv'
<1>1. /\ kept \in [Asked -> PdfData \cup {Report!NoPdf}] /\ stale \in [Asked -> BOOLEAN]
  BY DEF ReportsInv, PdfTypes
<1>2. /\ kept' \in [Asked -> PdfData \cup {Report!NoPdf}] /\ stale' \in [Asked -> BOOLEAN]
  BY <1>1
<1>3. \A s \in Asked : ~stale'[s] => kept'[s] = Report!Printed(Report!Report(s))
  BY <1>1 DEF ReportsInv, RebuiltIsCurrent, Report!RebuiltIsCurrent
<1>4. \A s : Report!Printed(Report!Report(s))' = Report!Printed(Report!Report(s))
  BY DEF Report!books, Report!Printed, Report!Report,
         Report!Income, Report!Auto, Report!Manual, Report!Spent, Report!Notarial,
         Report!Counted, Report!Deduction
<1>5. RebuiltIsCurrent'
  BY <1>3, <1>4 DEF RebuiltIsCurrent, Report!RebuiltIsCurrent
<1>6. Report!IdleCall \in PdfCall /\ Report!IdleCall.todo = {}
  BY BlankIs
<1> QED BY <1>2, <1>5, <1>6, RequestMoves

LEMMA FetchKeeps ==
  ASSUME ReportsInv, NEW c \in Requests, Report!FetchTaxPdf(c) PROVE ReportsInv'
<1>1. PICK q \in PdfCall : q = request[c]
  BY DEF ReportsInv, PdfTypes
<1>2. /\ "fetch" \in q.todo /\ q.range \in Asked
      /\ UNCHANGED Report!books /\ UNCHANGED pricing /\ UNCHANGED kept
  BY <1>1 DEF Report!FetchTaxPdf, PdfCall
<1>3. ~q.rebuild
  BY <1>1, <1>2 DEF ReportsInv, ReadInv
<1>4. CASE Report!Finish(c, TRUE)
  <2>1. stale' = stale
    <3>1. stale' = [stale EXCEPT ![q.range] = stale[q.range]]
      BY <1>1, <1>3, <1>4 DEF Report!Finish
    <3> QED BY <3>1 DEF ReportsInv, PdfTypes
  <2>2. request' = [request EXCEPT ![c] = Report!IdleCall]
    BY <1>4 DEF Report!Finish
  <2>3. PICK pdf \in PdfData \cup {Report!NoPdf}, old \in BOOLEAN :
          pdf = kept[q.range] /\ old = stale[q.range]
    BY <1>2 DEF ReportsInv, PdfTypes
  <2>4. kept' = [kept EXCEPT ![q.range] = pdf] /\ stale' = [stale EXCEPT ![q.range] = old]
    BY <1>2, <2>1, <2>3 DEF ReportsInv, PdfTypes
  <2>5. ~old => pdf = Report!Printed(Report!Report(q.range))
    BY <1>2, <2>3 DEF ReportsInv, RebuiltIsCurrent, Report!RebuiltIsCurrent
  <2> QED BY <1>2, <2>2, <2>3, <2>4, <2>5, EndKeeps
<1>5. CASE /\ request' = [request EXCEPT ![c] = [request[c] EXCEPT !.todo = request[c].todo \ {"fetch"}]]
           /\ UNCHANGED stale
  <2>1. PICK x : x = [q EXCEPT !.todo = q.todo \ {"fetch"}]
    OBVIOUS
  <2>2. /\ x \in PdfCall /\ x.todo = q.todo \ {"fetch"} /\ x.range = q.range
        /\ x.data = q.data /\ x.perMile = q.perMile
    BY <2>1 DEF PdfCall
  <2>3. x.clean = q.clean
    BY <2>1, Zenon DEF PdfCall
  <2>4. request' = [request EXCEPT ![c] = x]
    BY <1>1, <1>5, <2>1
  <2>5. x.clean => IsCurrent(x)
    <3>1. q.clean => IsCurrent(q)
      BY <1>1, <1>2 DEF ReportsInv, ReadInv
    <3> QED BY <2>2, <2>3, <3>1 DEF IsCurrent
  <2>6. RebuiltIsCurrent'
    BY <1>2, <1>5 DEF ReportsInv, RebuiltIsCurrent, Report!RebuiltIsCurrent, Report!Report,
           Report!books, Report!Income, Report!Auto, Report!Manual, Report!Spent,
           Report!Notarial, Report!Counted, Report!Deduction
  <2>7. kept' \in [Asked -> PdfData \cup {Report!NoPdf}] /\ stale' \in [Asked -> BOOLEAN]
    BY <1>2, <1>5 DEF ReportsInv, PdfTypes
  <2>8. "fetch" \notin x.todo
    BY <2>2
  <2> QED BY <1>2, <2>2, <2>4, <2>5, <2>6, <2>7, <2>8, RequestMoves
<1> QED BY <1>4, <1>5 DEF Report!FetchTaxPdf

LEMMA StoreKeeps ==
  ASSUME ReportsInv, NEW c \in Requests, Report!StoreTaxPdf(c) PROVE ReportsInv'
<1>1. PICK q \in PdfCall : q = request[c]
  BY DEF ReportsInv, PdfTypes
<1>2. /\ q.todo = {"store"} /\ q.range \in Asked /\ q.data \in PdfData
      /\ UNCHANGED Report!books /\ UNCHANGED pricing
  BY <1>1 DEF Report!StoreTaxPdf, Report!May, PdfCall
<1>3. request' = [request EXCEPT ![c] = Report!IdleCall]
  BY DEF Report!StoreTaxPdf, Report!Finish
<1>4. stale[q.range] \in BOOLEAN /\ kept[q.range] \in PdfData \cup {Report!NoPdf}
      /\ stale \in [Asked -> BOOLEAN] /\ kept \in [Asked -> PdfData \cup {Report!NoPdf}]
  BY <1>2 DEF ReportsInv, PdfTypes
<1>5. Report!Printed(q.data) \in PdfData
  BY <1>2 DEF Report!Printed, PdfData
<1>6. ~stale[q.range] => kept[q.range] = Report!Printed(Report!Report(q.range))
  BY <1>2 DEF ReportsInv, RebuiltIsCurrent, Report!RebuiltIsCurrent
\* Finish sets the mark on a rebuild only.
<1>7. ASSUME NEW saved \in BOOLEAN, Report!Finish(c, saved)
      PROVE  \E old \in BOOLEAN :
               /\ stale' = [stale EXCEPT ![q.range] = old]
               /\ ~old => (q.clean /\ saved) \/ ~stale[q.range]
  <2>1. CASE q.rebuild
    <3>1. PICK old \in BOOLEAN : old = ~(q.clean /\ saved)
      OBVIOUS
    <3>2. stale' = [stale EXCEPT ![q.range] = old]
      BY <1>1, <1>7, <2>1, <3>1 DEF Report!Finish
    <3> QED BY <3>1, <3>2
  <2>2. CASE ~q.rebuild
    <3>1. stale' = [stale EXCEPT ![q.range] = stale[q.range]]
      BY <1>1, <1>7, <2>2 DEF Report!Finish
    <3> QED BY <1>4, <3>1
  <2> QED BY <2>1, <2>2
<1>8. CASE kept' = [kept EXCEPT ![q.range] = Report!Printed(q.data)] /\ q.clean
           /\ Report!Finish(c, TRUE)
  <2>1. IsCurrent(q)
    BY <1>1, <1>2, <1>8 DEF ReportsInv, ReadInv
  <2>2. Report!Printed(q.data) = Report!Printed(Report!Report(q.range))
    BY <1>2, <2>1, PrintedIs
  <2>3. PICK old \in BOOLEAN : stale' = [stale EXCEPT ![q.range] = old]
    BY <1>7, <1>8
  <2>4. PICK pdf \in PdfData : pdf = Report!Printed(q.data)
    BY <1>5
  <2> QED BY <1>2, <1>3, <1>8, <2>2, <2>3, <2>4, EndKeeps
<1>9. CASE kept' = [kept EXCEPT ![q.range] = Report!Printed(q.data)]
           /\ stale' = [stale EXCEPT ![q.range] = TRUE]
  <2>1. PICK pdf \in PdfData : pdf = Report!Printed(q.data)
    BY <1>5
  <2> QED BY <1>2, <1>3, <1>9, <2>1, EndKeeps
<1>10. CASE Report!Finish(c, FALSE) /\ UNCHANGED kept
  <2>1. PICK old \in BOOLEAN :
          /\ stale' = [stale EXCEPT ![q.range] = old]
          /\ ~old => ~stale[q.range]
    BY <1>7, <1>10
  <2>2. PICK pdf \in PdfData \cup {Report!NoPdf} : pdf = kept[q.range]
    BY <1>4
  <2>3. kept' = [kept EXCEPT ![q.range] = pdf]
    BY <1>4, <1>10, <2>2
  <2>4. ~old => pdf = Report!Printed(Report!Report(q.range))
    BY <1>6, <2>1, <2>2
  <2> QED BY <1>2, <1>3, <2>1, <2>3, <2>4, EndKeeps
<1>11. \/ kept' = [kept EXCEPT ![q.range] = Report!Printed(q.data)] /\ q.clean /\ Report!Finish(c, TRUE)
       \/ /\ kept' = [kept EXCEPT ![q.range] = Report!Printed(q.data)]
          /\ stale' = [stale EXCEPT ![q.range] = TRUE]
       \/ Report!Finish(c, FALSE) /\ UNCHANGED kept
  BY <1>1 DEF Report!StoreTaxPdf
<1> QED BY <1>8, <1>9, <1>10, <1>11

LEMMA PdfStepKeeps == ASSUME ReportsInv, NEW c \in Requests, Report!PdfStep(c) PROVE ReportsInv'
BY BeginKeeps, FetchKeeps, ReadsKeep, StoreKeeps DEF Report!PdfStep

LEMMA ReportsStep == ReportsInv /\ [BooksNext]_bookVars => ReportsInv'
<1> SUFFICES ASSUME ReportsInv, [BooksNext]_bookVars PROVE ReportsInv'
  OBVIOUS
<1>1. CASE UNCHANGED reportVars
  <2>1. pricing.miles \in Nat /\ pricing.perMile \in Nat
    BY DEF ReportsInv, RowsInv
  <2> QED BY <1>1, <2>1, ReportsRest DEF reportVars
<1>2. CASE Report!Next
  BY <1>2, BookStepKeeps, PdfStepKeeps DEF Report!Next
<1> QED BY <1>1, <1>2 DEF BooksNext, bookVars

\* However requests and edits of the books interleave, what a rebuild has stored is the
\* report on the books as they are, until they change or an upload fails.
THEOREM RebuildsShowTheBooks == BooksSpec => []RebuiltIsCurrent
<1>1. BooksSpec => []ReportsInv
  BY ReportsBegin, ReportsStep, PTL DEF BooksSpec
<1>2. ReportsInv => RebuiltIsCurrent
  BY DEF ReportsInv
<1> QED BY <1>1, <1>2, PTL

\* A range and two adjoining ranges that make it: what falls into the one and the others.
LEMMA InstantsSplit ==
  ASSUME NEW a \in Nat, NEW d \in Nat, NEW b \in Nat, NEW t \in Nat, a <= d, d < b
  PROVE  LET r == <<a, b>>  one == <<a, d>>  two == <<d + 1, b>> IN
         /\ Report!InMileage(r, t) <=> Report!InMileage(one, t) \/ Report!InMileage(two, t)
         /\ ~(Report!InMileage(one, t) /\ Report!InMileage(two, t))
         /\ Report!InActs(r, t) <=> Report!InActs(one, t) \/ Report!InActs(two, t)
         /\ ~(Report!InActs(one, t) /\ Report!InActs(two, t))
         /\ ~(Report!InEarnings(one, t) /\ Report!InEarnings(two, t))
         /\ Report!InExpenses(r, t) <=> Report!InExpenses(one, t) \/ Report!InExpenses(two, t)
BY DEF Report!InMileage, Report!InActs, Report!InEarnings, Report!InExpenses,
       Report!From, Report!DayAfter

LEMMA RowsAddUp == RowsInv => PartsAddUp
<1> SUFFICES ASSUME RowsInv, NEW r \in Report!Ranges, NEW d \in Days, r[1] <= d, d < r[2]
             PROVE  LET one == <<r[1], d>>  two == <<d + 1, r[2]>> IN
               /\ Report!Auto(r, rate) = Report!Auto(one, rate) \cup Report!Auto(two, rate)
               /\ Report!Auto(one, rate) \cap Report!Auto(two, rate) = {}
               /\ Report!Manual(r) = Report!Manual(one) \cup Report!Manual(two)
               /\ Report!Manual(one) \cap Report!Manual(two) = {}
               /\ Report!Notarial(r) = Report!Notarial(one) \cup Report!Notarial(two)
               /\ Report!Notarial(one) \cap Report!Notarial(two) = {}
               /\ Report!Income(one) \cap Report!Income(two) = {}
               /\ Report!Spent(r) = Report!Spent(one) \cup Report!Spent(two)
  BY DEF PartsAddUp, Report!PartsAddUp
<1>1. PICK a \in Nat, b \in Nat : r = <<a, b>> /\ a <= d /\ d < b
  <2>1. r \in Nat \X Nat
    BY DaysAreNat DEF Report!Ranges
  <2>2. r = <<r[1], r[2]>> /\ r[1] \in Nat /\ r[2] \in Nat
    BY <2>1
  <2> QED BY <2>2
<1>2. d \in Nat
  BY DaysAreNat
<1>3. PICK one, two : one = <<a, d>> /\ two = <<d + 1, b>>
  OBVIOUS
<1>4. ASSUME NEW t \in Nat
      PROVE  /\ Report!InMileage(r, t) <=> Report!InMileage(one, t) \/ Report!InMileage(two, t)
             /\ ~(Report!InMileage(one, t) /\ Report!InMileage(two, t))
             /\ Report!InActs(r, t) <=> Report!InActs(one, t) \/ Report!InActs(two, t)
             /\ ~(Report!InActs(one, t) /\ Report!InActs(two, t))
             /\ ~(Report!InEarnings(one, t) /\ Report!InEarnings(two, t))
             /\ Report!InExpenses(r, t) <=> Report!InExpenses(one, t) \/ Report!InExpenses(two, t)
  BY <1>1, <1>2, <1>3, InstantsSplit
<1>5. /\ \A j \in Signings : job[j].at \in Nat
      /\ \A m \in Entries : entry[m] \in Nat
      /\ \A e \in Expenses : expense[e] \in Nat
      /\ \A n \in Acts : act[n] \in Nat
  BY DEF RowsInv, JobRow
<1>6. /\ Report!Auto(r, rate) = Report!Auto(one, rate) \cup Report!Auto(two, rate)
      /\ Report!Auto(one, rate) \cap Report!Auto(two, rate) = {}
  BY <1>4, <1>5 DEF Report!Auto
<1>7. /\ Report!Manual(r) = Report!Manual(one) \cup Report!Manual(two)
      /\ Report!Manual(one) \cap Report!Manual(two) = {}
  BY <1>4, <1>5 DEF Report!Manual
<1>8. /\ Report!Notarial(r) = Report!Notarial(one) \cup Report!Notarial(two)
      /\ Report!Notarial(one) \cap Report!Notarial(two) = {}
  BY <1>4, <1>5 DEF Report!Notarial
<1>9. Report!Income(one) \cap Report!Income(two) = {}
  BY <1>4, <1>5 DEF Report!Income
<1>10. Report!Spent(r) = Report!Spent(one) \cup Report!Spent(two)
  BY <1>4, <1>5 DEF Report!Spent
<1>11. one = <<r[1], d>> /\ two = <<d + 1, r[2]>>
  BY <1>1, <1>3
<1> QED BY <1>6, <1>7, <1>8, <1>9, <1>10, <1>11

\* Whatever happens to the books, the report on a range is the reports on its parts:
\* each mile and each act in one of them, no income twice, no expense left out.
THEOREM ReportsAddUp == BooksSpec => []PartsAddUp
<1>1. BooksSpec => []ReportsInv
  BY ReportsBegin, ReportsStep, PTL DEF BooksSpec
<1>2. ReportsInv => PartsAddUp
  BY RowsAddUp DEF ReportsInv
<1> QED BY <1>1, <1>2, PTL

------------------------------------------------------------------------------
(* The two together *)

\* What holds of the invoices by themselves holds of them in the books.
THEOREM BooksKeepInvoices == BooksSpec => Spec
<1>1. BooksInit => Init
  BY DEF BooksInit
<1>2. [BooksNext]_bookVars => [Next]_vars
  BY DEF BooksNext, bookVars
<1> QED BY <1>1, <1>2, PTL DEF BooksSpec, Spec
==============================================================================
