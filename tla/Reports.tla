------------------------------- MODULE Reports --------------------------------
(***************************************************************************)
(* A notary's books and the reports made of them: ReportsService with the  *)
(* expenses, the manual mileage and the edits of a job's miles, and the    *)
(* tax PDF that is kept in the object store under its range.               *)
(*                                                                         *)
(* Days are numbered from New Year 2026, a Thursday; day d begins at       *)
(* instant 2 * d, and 2 * d + 1 is any later time of that day.  The server *)
(* runs in UTC, where a plain date is the first instant of its day.        *)
(* Amounts: a job earns a fee the reports only add up, so that a sum is    *)
(* told by the rows it is made of.                                         *)
(***************************************************************************)
EXTENDS Naturals, FiniteSets, FiniteSetsExt

CONSTANTS Jobs, Entries, Expenses, Acts,  \* rows of the books
          Days,                           \* days that rows may have
          Rates, Miles,                   \* IRS rates, one-way miles of a job
          Asked,                          \* ranges whose PDF is asked for
          Calls,                          \* PDF requests under way at once
          MaxEdits, MaxPdfs, MaxFaults    \* bounds: edits, PDF requests, faults

VARIABLES
  job,      \* status, appointment_time, mileage_miles and mileage_cost of each job
  entry,    \* manual mileage entries: the instant, 0 when deleted
  expense,  \* expenses: the day, 0 when deleted
  act,      \* journal entries: the day, 0 when deleted
  rate,     \* irs_rate_per_mile
  pricing,  \* an edit of a job's miles that has read the rate
  stored,   \* the object store: the PDF of each range
  call,     \* per PDF request: what it has yet to read and what it has read
  edits, pdfs, faults,
  stale     \* history, per range: the books or a failed upload have overtaken
            \* what the last rebuild was to store

books == <<job, entry, expense, act, rate>>
vars  == <<books, pricing, stored, call, edits, pdfs, faults, stale>>

Instants == {2 * d : d \in Days} \cup {2 * d + 1 : d \in Days}
DayOf(t) == t \div 2
Ranges   == {r \in Days \X Days : r[1] <= r[2]}

------------------------------------------------------------------------------
(* The calendar: New Year is a Thursday, weeks begin on Sunday *)

MonthStart == <<0, 31, 59>>
Month(d)   == Max({m \in 1..3 : MonthStart[m] < d})
DateOf(d)  == d - MonthStart[Month(d)]
FirstWeekday(m) == (MonthStart[m] + 4) % 7

\* The key of the period of an earnings report that a day belongs to.  The week is
\* that of the month, and the month is not part of it.
PeriodKey(groupBy, d) ==
  IF groupBy = "week" THEN (DateOf(d) + FirstWeekday(Month(d)) + 6) \div 7 ELSE Month(d)

------------------------------------------------------------------------------
(* What a report counts *)

From(r)     == 2 * r[1]
DayAfter(r) == 2 * (r[2] + 1)

Counted(j) == job[j].status = "complete"

\* The earnings end with the first instant of the last day.
InEarnings(r, t) == From(r) <= t /\ t <= 2 * r[2]

\* Mutant of InMileage: the day after counts too.
InMileageToo(r, t) == From(r) <= t /\ t <= DayAfter(r)

InMileage(r, t) == From(r) <= t /\ t < DayAfter(r)

InActs(r, d)    == From(r) <= 2 * d /\ 2 * d < DayAfter(r)

\* The expenses of the day after count as well.
InExpenses(r, d) == From(r) <= 2 * d /\ 2 * d <= DayAfter(r)

Income(r) == {<<j, job[j].cost>> : j \in {k \in Jobs : Counted(k) /\ InEarnings(r, job[k].at)}}

\* The cost of the job, or a round trip at the rate as read when it has none.
Deduction(j, perMile) == IF job[j].cost > 0 THEN job[j].cost ELSE 2 * job[j].miles * perMile

Auto(r, perMile) ==
  {<<j, Deduction(j, perMile)>> :
     j \in {k \in Jobs : Counted(k) /\ job[k].miles > 0 /\ InMileage(r, job[k].at)}}
Manual(r)  == {m \in Entries : entry[m] # 0 /\ InMileage(r, entry[m])}
Spent(r)   == {e \in Expenses : expense[e] # 0 /\ InExpenses(r, expense[e])}
Notarial(r) == {a \in Acts : act[a] # 0 /\ InActs(r, act[a])}

\* The periods of an earnings report: the jobs under each key.
Periods(r, groupBy) ==
  LET key(x) == PeriodKey(groupBy, DayOf(job[x[1]].at)) IN
    {{x \in Income(r) : key(x) = key(y)} : y \in Income(r)}

Report(r) == [income |-> Income(r), auto |-> Auto(r, rate), manual |-> Manual(r),
              spent |-> Spent(r), acts |-> Notarial(r), rate |-> rate]

\* What generateScheduleCPdf prints of a report: all but the acts.
Printed(report) == [report EXCEPT !.acts = {}]

Blank == [income |-> {}, auto |-> {}, manual |-> {}, spent |-> {}, acts |-> {}, rate |-> 0]
NoPdf == [Blank EXCEPT !.income = {"none"}]

ARange   == CHOOSE r \in Asked : TRUE
IdleCall == [range |-> ARange, rebuild |-> FALSE, todo |-> {}, perMile |-> 0,
             data |-> Blank, clean |-> TRUE]
NoPricing == [job |-> "none", miles |-> 0, perMile |-> 0]
Parts == {"fetch", "income", "rate", "auto", "manual", "spent", "acts", "lastRate", "store"}

JobRows == {[status |-> s, at |-> t, miles |-> m, cost |-> 2 * m * rate] :
              s \in {"complete", "open"}, t \in Instants, m \in Miles}

\* The books as other modules left them; nothing has been reported.
Init ==
  /\ rate \in Rates
  /\ job \in [Jobs -> JobRows]
  /\ entry \in [Entries -> Instants]
  /\ expense \in [Expenses -> Days]
  /\ act \in [Acts -> Days]
  /\ pricing = NoPricing
  /\ stored = [r \in Asked |-> NoPdf]
  /\ call = [c \in Calls |-> IdleCall]
  /\ edits = 0 /\ pdfs = 0 /\ faults = 0
  /\ stale = [r \in Asked |-> TRUE]

------------------------------------------------------------------------------
(* The books change *)

Edit == edits < MaxEdits /\ edits' = edits + 1

\* What was stored, and what is being read, may now be old.
Overtaken ==
  /\ stale' = [r \in Asked |-> TRUE]
  /\ call' = [c \in Calls |-> [call[c] EXCEPT !.clean = call[c].todo = {}]]
  /\ UNCHANGED <<stored, pdfs, faults>>

CompleteJob(j) ==
  /\ job[j].status = "open"
  /\ job' = [job EXCEPT ![j].status = "complete"]
  /\ Edit /\ Overtaken
  /\ UNCHANGED <<entry, expense, act, rate, pricing>>

RemoveJob(j) ==
  /\ job[j].status # "deleted"
  /\ job' = [job EXCEPT ![j].status = "deleted"]
  /\ Edit /\ Overtaken
  /\ UNCHANGED <<entry, expense, act, rate, pricing>>

\* updateJobMileage with another date: the time of day is kept.
MoveJob(j, d) ==
  /\ job[j].status # "deleted"
  /\ job' = [job EXCEPT ![j].at = 2 * d + (@ % 2)]
  /\ Edit /\ Overtaken
  /\ UNCHANGED <<entry, expense, act, rate, pricing>>

\* updateJobMileage and JobsService.update read the rate, then write by it.
BeginPricing(j, m) ==
  /\ pricing = NoPricing /\ job[j].status # "deleted"
  /\ pricing' = [job |-> j, miles |-> m, perMile |-> rate]
  /\ Edit
  /\ UNCHANGED <<books, stored, call, pdfs, faults, stale>>

WritePricing ==
  /\ pricing # NoPricing
  /\ job' = [job EXCEPT ![pricing.job].miles = pricing.miles,
                        ![pricing.job].cost = 2 * pricing.miles * pricing.perMile]
  /\ pricing' = NoPricing
  /\ Overtaken
  /\ UNCHANGED <<entry, expense, act, rate, edits>>

\* Entries, expenses and acts are created, changed or, with no time, deleted.
WriteEntry(m, t) ==
  /\ entry' = [entry EXCEPT ![m] = t]
  /\ Edit /\ Overtaken
  /\ UNCHANGED <<job, expense, act, rate, pricing>>

WriteExpense(e, d) ==
  /\ expense' = [expense EXCEPT ![e] = d]
  /\ Edit /\ Overtaken
  /\ UNCHANGED <<job, entry, act, rate, pricing>>

WriteAct(a, d) ==
  /\ act' = [act EXCEPT ![a] = d]
  /\ Edit /\ Overtaken
  /\ UNCHANGED <<job, entry, expense, rate, pricing>>

SetRate(p) ==
  /\ rate' = p
  /\ Edit /\ Overtaken
  /\ UNCHANGED <<job, entry, expense, act, pricing>>

------------------------------------------------------------------------------
(* taxPdf *)

\* Mutant of ToDo: a rebuild looks for the stored PDF too.
ToDoCached(rebuild) == Parts

\* A rebuild does not look for the stored PDF.
ToDo(rebuild) == IF rebuild THEN Parts \ {"fetch"} ELSE Parts

BeginPdf(c, r, rebuild) ==
  /\ call[c].todo = {} /\ pdfs < MaxPdfs
  /\ call' = [call EXCEPT ![c] = [IdleCall EXCEPT !.range = r, !.rebuild = rebuild,
                                                  !.todo = ToDo(rebuild)]]
  /\ pdfs' = pdfs + 1
  /\ UNCHANGED <<books, pricing, stored, edits, faults, stale>>

\* What a rebuild leaves in the store is no longer stale if nothing overtook it.
Finish(c, saved) ==
  /\ call' = [call EXCEPT ![c] = IdleCall]
  /\ stale' = [stale EXCEPT ![call[c].range] =
       IF call[c].rebuild THEN ~(call[c].clean /\ saved) ELSE @]

\* An object that is not there, or a store that cannot be reached: make the PDF.
FetchTaxPdf(c) ==
  /\ "fetch" \in call[c].todo
  /\ \/ stored[call[c].range] # NoPdf /\ Finish(c, TRUE) /\ UNCHANGED faults
     \/ /\ IF stored[call[c].range] = NoPdf THEN UNCHANGED faults
           ELSE faults < MaxFaults /\ faults' = faults + 1
        /\ call' = [call EXCEPT ![c].todo = @ \ {"fetch"}]
        /\ UNCHANGED stale
  /\ UNCHANGED <<books, pricing, stored, edits, pdfs>>

\* The next part is read: earnings, mileage and expenses side by side, the mileage
\* with the rate first, then the acts, then the rate that is printed.
May(c, part) ==
  /\ part \in call[c].todo /\ "fetch" \notin call[c].todo
  /\ CASE part = "auto"     -> "rate" \notin call[c].todo
       [] part = "manual"   -> "auto" \notin call[c].todo
       [] part = "acts"     -> call[c].todo \subseteq {"acts", "lastRate", "store"}
       [] part = "lastRate" -> call[c].todo \subseteq {"lastRate", "store"}
       [] part = "store"    -> call[c].todo = {"store"}
       [] OTHER -> TRUE

Reading(c, part, data, perMile) ==
  /\ May(c, part)
  /\ call' = [call EXCEPT ![c].todo = @ \ {part}, ![c].data = data, ![c].perMile = perMile]
  /\ UNCHANGED <<books, pricing, stored, edits, pdfs, faults, stale>>

ReadEarnings(c) ==
  Reading(c, "income", [call[c].data EXCEPT !.income = Income(call[c].range)], call[c].perMile)
ReadRate(c) ==
  Reading(c, "rate", call[c].data, rate)
ReadAuto(c) ==
  Reading(c, "auto", [call[c].data EXCEPT !.auto = Auto(call[c].range, call[c].perMile)],
          call[c].perMile)
ReadManual(c) ==
  Reading(c, "manual", [call[c].data EXCEPT !.manual = Manual(call[c].range)], call[c].perMile)
ReadExpenses(c) ==
  Reading(c, "spent", [call[c].data EXCEPT !.spent = Spent(call[c].range)], call[c].perMile)
CountActs(c) ==
  Reading(c, "acts", [call[c].data EXCEPT !.acts = Notarial(call[c].range)], call[c].perMile)
ReadLastRate(c) ==
  Reading(c, "lastRate", [call[c].data EXCEPT !.rate = rate], call[c].perMile)

\* A failed upload is logged; the request succeeds and the old PDF stays.
StoreTaxPdf(c) ==
  /\ May(c, "store")
  /\ \/ /\ stored' = [stored EXCEPT ![call[c].range] = Printed(call[c].data)]
        /\ IF call[c].clean THEN Finish(c, TRUE)
           ELSE /\ call' = [call EXCEPT ![c] = IdleCall]
                /\ stale' = [stale EXCEPT ![call[c].range] = TRUE]
        /\ UNCHANGED faults
     \/ /\ faults < MaxFaults /\ faults' = faults + 1
        /\ Finish(c, FALSE)
        /\ UNCHANGED stored
  /\ UNCHANGED <<books, pricing, edits, pdfs>>

------------------------------------------------------------------------------
BookStep ==
  \/ \E j \in Jobs : \/ CompleteJob(j) \/ RemoveJob(j)
                     \/ \E d \in Days : MoveJob(j, d)
                     \/ \E m \in Miles : BeginPricing(j, m)
  \/ WritePricing
  \/ \E m \in Entries, t \in Instants \cup {0} : WriteEntry(m, t)
  \/ \E e \in Expenses, d \in Days \cup {0} : WriteExpense(e, d)
  \/ \E a \in Acts, d \in Days \cup {0} : WriteAct(a, d)
  \/ \E p \in Rates : SetRate(p)

PdfStep(c) ==
  \/ \E r \in Asked, rebuild \in BOOLEAN : BeginPdf(c, r, rebuild)
  \/ FetchTaxPdf(c) \/ ReadEarnings(c) \/ ReadRate(c) \/ ReadAuto(c) \/ ReadManual(c)
  \/ ReadExpenses(c) \/ CountActs(c) \/ ReadLastRate(c) \/ StoreTaxPdf(c)

Next == BookStep \/ \E c \in Calls : PdfStep(c)

Spec == Init /\ [][Next]_vars

------------------------------------------------------------------------------
(* Properties *)

\* "Schedule C tax report PDF (cached; pass regenerate=true to rebuild)": after a
\* rebuild the stored PDF shows the books as they are, part by part, however it and
\* other requests interleaved, until the books change, or unless they changed under
\* a request or the upload failed.
RebuiltIsCurrent ==
  \A r \in Asked : ~stale[r] => stored[r] = Printed(Report(r))

\* A range that is reported in two adjoining parts: each mile driven and each act is
\* counted in just one of them, no income twice, and no expense left out.  (Income of
\* the day the first part ends with may be left out, an expense of the next day
\* counted twice.)
PartsAddUp ==
  \A r \in Ranges : \A d \in Days :
    r[1] <= d /\ d < r[2] =>
      LET one == <<r[1], d>>  two == <<d + 1, r[2]>> IN
        /\ Auto(r, rate) = Auto(one, rate) \cup Auto(two, rate)
        /\ Auto(one, rate) \cap Auto(two, rate) = {}
        /\ Manual(r) = Manual(one) \cup Manual(two) /\ Manual(one) \cap Manual(two) = {}
        /\ Notarial(r) = Notarial(one) \cup Notarial(two)
        /\ Notarial(one) \cap Notarial(two) = {}
        /\ Income(one) \cap Income(two) = {}
        /\ Spent(r) = Spent(one) \cup Spent(two)

\* "Earnings report grouped by period", by the week: no two jobs of a period are a
\* week or more apart.
WeeksAreWeeks ==
  \A r \in Ranges : \A P \in Periods(r, "week") : \A x, y \in P :
    DayOf(job[x[1]].at) <= DayOf(job[y[1]].at) + 6
==============================================================================
