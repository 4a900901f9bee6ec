------------------------------ MODULE Campaign -------------------------------
(***************************************************************************)
(* One marketing campaign: the admin's requests (CampaignsService), the    *)
(* dispatch, send and maintenance ticks, the send-email job, and the       *)
(* leads' bounces, unsubscribes and replies.                               *)
(*                                                                         *)
(* A dispatch writes one row per lead and step; rows of different          *)
(* dispatches are different documents.  Time is left out: a campaign or a  *)
(* row whose hour has not come is one that no tick has picked yet.  The    *)
(* campaign stops on reply, which is the default.  A lead's status is what *)
(* tells one lead from another here: the statuses of a lead that is not    *)
(* written to yet count as NEW, IN_SEQUENCE as CONTACTED.                  *)
(***************************************************************************)
EXTENDS Naturals, FiniteSets

CONSTANTS Leads, Steps,
          Workers,      \* sends that can be under way at once
          Ticks,        \* dispatch ticks that can overlap
          DailyLimit,   \* of the provider
          Attempts,     \* of a send-email job
          MaxDispatch,  \* dispatches of the campaign
          MaxFaults     \* errors, crashes, lost jobs, late requeues, overlapping ticks,
                        \* and interventions of an admin or a lead

ASSUME BoundsAssumption ==
  DailyLimit \in Nat /\ Attempts \in Nat \ {0} /\ MaxDispatch \in Nat /\ MaxFaults \in Nat

VARIABLES campaign,   \* status of the campaign
          built,      \* dispatches begun
          row,        \* status and campaignStatus of each recipient row
          due,        \* rows the send tick has found
          jobs,       \* waiting send-email jobs
          worker,     \* per send: next step, its job and what it has read
          tick,       \* per dispatch tick: next step, the audience it resolved
          api,        \* the status an admin's request is about to write
          check,      \* the maintenance tick: the campaign found, its rows counted
          lead,       \* status of each lead
          excluded,   \* leads with excludeFromSend
          suppressed, \* leads whose address is on the suppression list
          provider,   \* status, sentToday, whether sentTodayDate is today
          mails,      \* history: mails sent per lead and step
          today,      \* history: mails sent since midnight
          faults,
          twice,      \* history: mailings a fault or a race may have repeated
          lost,       \* history: mailings dropped while the campaign was not running
          stopped,    \* history: leads that replied, left, bounced or were excluded,
                      \* and were not taken back since
          raced,      \* history: leads that did so while a send of theirs was past its gate
          overrun,    \* history: sends overlapped, or one was not counted
          revived     \* history: mailings queued since the maintenance tick counted

vars == <<campaign, built, row, due, jobs, worker, tick, api, check, lead, excluded,
          suppressed, provider, mails, today, faults, twice, lost, stopped, raced, overrun,
          revived>>

Dispatches == 1..MaxDispatch
Rows       == Dispatches \X Leads \X Steps
Mailings   == Leads \X Steps
LeadOf(r)    == r[2]
MailingOf(r) == <<r[2], r[3]>>

Active == {"QUEUED", "SENDING"}
Stops  == {"REPLIED", "UNSUBSCRIBED", "BOUNCED", "EXCLUDED"}
NoRow  == [status |-> "NONE", running |-> TRUE]
ARow   == CHOOSE r \in Rows : TRUE
IdleWorker == [pc |-> "idle", row |-> ARow, tries |-> 0, sent |-> 0, sameDay |-> TRUE,
               becomes |-> "CONTACTED"]
IdleTick   == [pc |-> "idle", audience |-> {}]
Idle(w) == worker[w].pc = "idle"

Init ==
  /\ campaign = "DRAFT" /\ built = 0
  /\ row = [r \in Rows |-> NoRow]
  /\ due = {} /\ jobs = {}
  /\ worker = [w \in Workers |-> IdleWorker]
  /\ tick = [t \in Ticks |-> IdleTick]
  /\ api = "idle" /\ check = "idle"
  /\ lead = [l \in Leads |-> "NEW"]
  /\ excluded = {} /\ suppressed = {}
  /\ provider = [status |-> "ACTIVE", sent |-> 0, dated |-> TRUE]
  /\ mails = [m \in Mailings |-> 0] /\ today = 0
  /\ faults = 0
  /\ twice = {} /\ lost = {} /\ stopped = {} /\ raced = {} /\ overrun = FALSE /\ revived = {}

rows    == <<row, due>>
sends   == <<jobs, worker>>
people  == <<lead, excluded, suppressed>>
history == <<mails, today, twice, lost, stopped, raced, overrun>>

\* Every fault, and every intervention of an admin or a lead, is counted.
Fault == faults < MaxFaults /\ faults' = faults + 1

SetRows(S, status) == row' = [r \in Rows |-> IF r \in S THEN [row[r] EXCEPT !.status = status] ELSE row[r]]
WithStatus(S) == {r \in Rows : row[r].status \in S}

(***************************************************************************)
(* Requests of the admin.  Each reads the campaign's status, changes the   *)
(* rows, and writes the status without looking again.                      *)
(***************************************************************************)
Sendable == {l \in Leads : l \notin excluded \cup suppressed}

Request(op, from) ==
  /\ api = "idle" /\ campaign \in from
  /\ api' = op

BeginSchedule ==
  /\ Request("SCHEDULED", {"DRAFT", "SCHEDULED"})
  /\ provider.status = "ACTIVE" /\ Sendable # {}
  /\ IF campaign = "SCHEDULED" THEN Fault ELSE UNCHANGED faults
  /\ UNCHANGED row

BeginPause ==
  /\ Request("PAUSED", {"RUNNING"}) /\ Fault
  /\ row' = [r \in Rows |-> IF row[r].status = "QUEUED" THEN [row[r] EXCEPT !.running = FALSE] ELSE row[r]]

BeginResume ==
  /\ Request("RUNNING", {"PAUSED"}) /\ UNCHANGED faults
  /\ row' = [r \in Rows |-> IF row[r].status = "QUEUED" THEN [row[r] EXCEPT !.running = TRUE] ELSE row[r]]

BeginCancel ==
  /\ Request("CANCELLED", {"SCHEDULED", "RUNNING", "PAUSED"}) /\ Fault
  /\ row' = [r \in Rows |-> IF row[r].status \in Active
                              THEN [status |-> "CANCELLED", running |-> FALSE] ELSE row[r]]

Begin ==
  /\ BeginSchedule \/ BeginPause \/ BeginResume \/ BeginCancel
  /\ UNCHANGED <<campaign, built, due, sends, tick, check, people, provider, history>>

WriteStatus ==
  /\ api # "idle"
  /\ campaign' = api /\ api' = "idle"
  /\ UNCHANGED <<built, rows, sends, tick, check, people, provider, history, faults>>

Remove ==
  /\ api = "idle" /\ campaign = "DRAFT"
  /\ campaign' = "REMOVED"
  /\ UNCHANGED <<built, rows, sends, tick, api, check, people, provider, history, faults>>

(***************************************************************************)
(* The dispatch tick.                                                      *)
(***************************************************************************)
UnchangedByTick == UNCHANGED <<due, sends, api, check, people, provider>>

\* The find of one tick; the loop over other campaigns may come between it
\* and the dispatch.  A DISPATCHING campaign is taken once it is 10 minutes old.
FindDue(t) ==
  /\ tick[t].pc = "idle" /\ campaign \in {"SCHEDULED", "DISPATCHING"}
  /\ tick' = [tick EXCEPT ![t] = [pc |-> "found", audience |-> {}]]
  /\ IF \E u \in Ticks : tick[u].pc # "idle" THEN Fault ELSE UNCHANGED faults
  /\ UnchangedByTick /\ UNCHANGED <<campaign, built, row, history>>

Dispatching == {t \in Ticks : tick[t].pc \notin {"idle", "found"}}

SkipDue(t) ==
  /\ tick[t].pc = "found" /\ Dispatching # {}
  /\ tick' = [tick EXCEPT ![t] = IdleTick]
  /\ UnchangedByTick /\ UNCHANGED <<campaign, built, row, history, faults>>

StartDispatch(t) ==
  /\ tick[t].pc = "found" /\ Dispatching = {} /\ built < MaxDispatch
  /\ campaign' = "DISPATCHING" /\ built' = built + 1
  /\ tick' = [tick EXCEPT ![t].pc = "clear"]
  /\ UnchangedByTick /\ UNCHANGED <<row, history, faults>>

\* Mutant of Partial: a dispatch done again keeps the rows under way.
PartialQueued == WithStatus({"QUEUED"})

Partial == WithStatus(Active)

\* Rows under way are deleted with the queued ones; a send that has read its
\* row goes on without it.
Clear(t) ==
  /\ tick[t].pc = "clear"
  /\ SetRows(Partial, "NONE")
  /\ twice' = twice \cup {MailingOf(worker[w].row) : w \in {v \in Workers : ~Idle(v)}}
                    \cup {m \in Mailings : mails[m] > 0}
  /\ lost' = IF api = "idle" /\ campaign = "DISPATCHING" THEN lost
             ELSE lost \cup {MailingOf(r) : r \in Partial}
  /\ tick' = [tick EXCEPT ![t].pc = "resolve"]
  /\ UnchangedByTick
  /\ UNCHANGED <<campaign, built, mails, today, stopped, raced, overrun, faults>>

Fails(status) == IF status \in {"SCHEDULED", "DISPATCHING"} THEN "FAILED" ELSE status

\* The provider is looked up, then the audience: a provider that is not
\* active puts the campaign off, and nobody to send to fails it.
Resolve(t) ==
  /\ tick[t].pc = "resolve"
  /\ \/ /\ provider.status = "GONE" /\ campaign' = Fails(campaign)
        /\ tick' = [tick EXCEPT ![t] = IdleTick]
     \/ /\ provider.status = "PAUSED" /\ campaign' = "SCHEDULED"
        /\ tick' = [tick EXCEPT ![t] = IdleTick]
     \/ /\ provider.status = "ACTIVE" /\ Sendable = {} /\ campaign' = "FAILED"
        /\ tick' = [tick EXCEPT ![t] = IdleTick]
     \/ /\ provider.status = "ACTIVE" /\ Sendable # {} /\ campaign' = campaign
        /\ tick' = [tick EXCEPT ![t] = [pc |-> "insert", audience |-> Sendable]]
  /\ UnchangedByTick /\ UNCHANGED <<built, row, history, faults>>

NewRows(t) ==
  {r \in Rows : r[1] = built /\ LeadOf(r) \in tick[t].audience /\ row[r].status = "NONE"}

\* One batch of rows; a row can be claimed as soon as it is there.
Insert(t) ==
  /\ tick[t].pc = "insert"
  /\ \E S \in SUBSET NewRows(t) :
       /\ S # {} \/ NewRows(t) = {}
       /\ row' = [r \in Rows |-> IF r \in S THEN [status |-> "QUEUED", running |-> TRUE] ELSE row[r]]
       /\ tick' = [tick EXCEPT ![t].pc = IF S = NewRows(t) THEN "flip" ELSE @]
  /\ UnchangedByTick /\ UNCHANGED <<campaign, built, history, faults>>

Flip(t) ==
  /\ tick[t].pc = "flip"
  /\ campaign' = "RUNNING"
  /\ tick' = [tick EXCEPT ![t] = IdleTick]
  /\ UnchangedByTick /\ UNCHANGED <<built, row, history, faults>>

DispatchThrows(t) ==
  /\ t \in Dispatching /\ Fault
  /\ campaign' = Fails(campaign)
  /\ tick' = [tick EXCEPT ![t] = IdleTick]
  /\ UnchangedByTick /\ UNCHANGED <<built, row, history>>

(***************************************************************************)
(* The send tick: finds due rows of the provider, then claims them one by  *)
(* one and enqueues a job for each.                                        *)
(***************************************************************************)
SentToday == IF provider.dated THEN provider.sent ELSE 0

FindRows ==
  /\ due = {} /\ provider.status = "ACTIVE" /\ SentToday < DailyLimit
  /\ \E S \in SUBSET {r \in Rows : row[r].status = "QUEUED" /\ row[r].running} :
       S # {} /\ due' = S
  /\ provider' = [provider EXCEPT !.sent = SentToday, !.dated = TRUE]
  /\ UNCHANGED <<campaign, built, row, sends, tick, api, check, people, history, faults>>

\* The enqueue may be given up after two seconds.
ClaimRow(r) ==
  /\ r \in due /\ due' = due \ {r}
  /\ IF row[r].status = "QUEUED"
       THEN /\ row' = [row EXCEPT ![r].status = "SENDING"]
            /\ \/ jobs' = jobs \cup {[row |-> r, tries |-> 0]} /\ UNCHANGED faults
               \/ Fault /\ UNCHANGED jobs
       ELSE UNCHANGED <<row, jobs, faults>>
  /\ UNCHANGED <<campaign, built, worker, tick, api, check, people, provider, history>>

(***************************************************************************)
(* The send-email job.                                                     *)
(***************************************************************************)
Job(w) == [row |-> worker[w].row, tries |-> worker[w].tries]
SetWorker(w, pc) == worker' = [worker EXCEPT ![w].pc = pc]
Drop(w) == worker' = [worker EXCEPT ![w] = IdleWorker]
UnchangedBySend == UNCHANGED <<campaign, built, due, tick, api, check, excluded, suppressed>>

Take(w) ==
  /\ Idle(w)
  /\ \E j \in jobs :
       /\ jobs' = jobs \ {j}
       /\ IF row[j.row].status = "SENDING"
            THEN worker' = [worker EXCEPT ![w] = [pc |-> "gate", row |-> j.row, tries |-> j.tries,
                                                  sent |-> 0, sameDay |-> TRUE,
                                                  becomes |-> "CONTACTED"]]
            ELSE UNCHANGED worker
  /\ UnchangedBySend /\ UNCHANGED <<row, lead, provider, history, faults>>

\* Writes by the row's id: nothing happens when a dispatch has deleted it.
PutRow(r, status) ==
  row' = IF row[r].status = "NONE" THEN row ELSE [row EXCEPT ![r].status = status]

\* Mutant of GateCloses: replies do not stop the campaign.
GateNoReply(r) == campaign # "RUNNING" \/ LeadOf(r) \in suppressed \cup excluded

GateCloses(r) ==
  \/ campaign # "RUNNING"
  \/ LeadOf(r) \in suppressed \cup excluded
  \/ lead[LeadOf(r)] = "REPLIED"

Skip(w) ==
  LET r == worker[w].row IN
  /\ worker[w].pc = "gate" /\ GateCloses(r)
  /\ PutRow(r, "SKIPPED")
  /\ lead' = IF campaign = "RUNNING" /\ LeadOf(r) \in suppressed
               THEN [lead EXCEPT ![LeadOf(r)] = "UNSUBSCRIBED"] ELSE lead
  /\ lost' = IF campaign = "RUNNING" THEN lost ELSE lost \cup {MailingOf(r)}
  /\ Drop(w)
  /\ UnchangedBySend
  /\ UNCHANGED <<jobs, provider, mails, today, twice, stopped, raced, overrun, faults>>

NoProvider(w) ==
  LET r == worker[w].row IN
  /\ worker[w].pc = "gate" /\ ~GateCloses(r) /\ provider.status = "GONE"
  /\ PutRow(r, "FAILED")
  /\ Drop(w)
  /\ UnchangedBySend /\ UNCHANGED <<jobs, lead, provider, history, faults>>

\* Mutant of Full: the daily budget is left to the send tick.
FullPaused == provider.status = "PAUSED"

Full == provider.status = "PAUSED" \/ SentToday >= DailyLimit

\* Put off by 15 minutes, or to the next day.
Reschedule(w) ==
  LET r == worker[w].row IN
  /\ worker[w].pc = "gate" /\ ~GateCloses(r) /\ provider.status # "GONE" /\ Full
  /\ PutRow(r, "QUEUED")
  /\ Drop(w)
  /\ UnchangedBySend /\ UNCHANGED <<jobs, lead, provider, history, faults>>

\* The text of a step's email was deleted after the dispatch.
NoDraft(w) ==
  LET r == worker[w].row IN
  /\ worker[w].pc = "gate" /\ ~GateCloses(r) /\ provider.status = "ACTIVE" /\ ~Full
  /\ Fault
  /\ PutRow(r, "SKIPPED")
  /\ lost' = lost \cup {MailingOf(r)}
  /\ Drop(w)
  /\ UnchangedBySend
  /\ UNCHANGED <<jobs, lead, provider, mails, today, twice, stopped, raced, overrun>>

PastGate(v) == worker[v].pc \in {"mail", "record", "count"}

Pass(w) ==
  LET r == worker[w].row IN
  /\ worker[w].pc = "gate" /\ ~GateCloses(r) /\ provider.status = "ACTIVE" /\ ~Full
  /\ worker' = [worker EXCEPT ![w].pc = "mail", ![w].sent = SentToday, ![w].sameDay = TRUE,
                   ![w].becomes = IF lead[LeadOf(r)] = "CONVERTED" THEN "CONVERTED" ELSE "CONTACTED"]
  /\ overrun' = (overrun \/ \E v \in Workers \ {w} : PastGate(v))
  /\ UnchangedBySend /\ UNCHANGED <<jobs, row, lead, provider, mails, today, twice, lost, stopped, raced, faults>>

Mail(w) ==
  /\ worker[w].pc = "mail"
  /\ mails' = [mails EXCEPT ![MailingOf(worker[w].row)] = @ + 1] /\ today' = today + 1
  /\ SetWorker(w, "record")
  /\ UnchangedBySend /\ UNCHANGED <<jobs, row, lead, provider, twice, lost, stopped, raced, overrun, faults>>

Record(w) ==
  /\ worker[w].pc = "record"
  /\ PutRow(worker[w].row, "SENT")
  /\ SetWorker(w, "count")
  /\ UnchangedBySend /\ UNCHANGED <<jobs, lead, provider, history, faults>>

\* The counter becomes what was read at the gate plus one, under the gate's
\* date.  The lead becomes CONTACTED, whatever it is by now, unless it had
\* converted at the gate: there it had not replied.
Account(w) ==
  LET l == LeadOf(worker[w].row) IN
  /\ worker[w].pc = "count"
  /\ provider' = [provider EXCEPT !.sent = worker[w].sent + 1, !.dated = worker[w].sameDay]
  /\ lead' = [lead EXCEPT ![l] = worker[w].becomes]
  /\ Drop(w)
  /\ UnchangedBySend /\ UNCHANGED <<jobs, row, history, faults>>

\* Mutant of FinalAttempt: one attempt too many.
FinalAttemptLate(w) == worker[w].tries >= Attempts

FinalAttempt(w) == worker[w].tries >= Attempts - 1

\* The last attempt marks the row FAILED, whatever it says by then; an
\* earlier one leaves it to the retry.
SendThrows(w) ==
  LET r == worker[w].row IN
  /\ PastGate(w) /\ Fault
  /\ IF FinalAttempt(w)
       THEN PutRow(r, "FAILED") /\ UNCHANGED jobs
       ELSE jobs' = jobs \cup {[Job(w) EXCEPT !.tries = @ + 1]} /\ UNCHANGED row
  /\ twice' = IF worker[w].pc = "record" THEN twice \cup {MailingOf(r)} ELSE twice
  /\ overrun' = (overrun \/ worker[w].pc \in {"record", "count"})
  /\ Drop(w)
  /\ UnchangedBySend /\ UNCHANGED <<lead, provider, mails, today, lost, stopped, raced>>

\* The process dies: Bull gives its jobs to the next one.
Crash ==
  /\ Fault
  /\ jobs' = jobs \cup {Job(w) : w \in {v \in Workers : ~Idle(v)}}
  /\ worker' = [w \in Workers |-> IdleWorker]
  /\ tick' = [t \in Ticks |-> IdleTick] /\ due' = {} /\ check' = "idle"
  /\ twice' = twice \cup {MailingOf(worker[w].row) : w \in {v \in Workers : worker[v].pc = "record"}}
  /\ overrun' = (overrun \/ \E w \in Workers : worker[w].pc \in {"record", "count"})
  /\ UNCHANGED <<campaign, built, row, api, people, provider, mails, today, lost, stopped, raced>>

(***************************************************************************)
(* The maintenance tick.  A row that is SENDING for ten minutes has most   *)
(* often lost its job; if the job is only late, that is a fault.           *)
(***************************************************************************)
Late(r) == (\E j \in jobs : j.row = r) \/ \E w \in Workers : ~Idle(w) /\ worker[w].row = r

Requeue(r) ==
  /\ row[r].status = "SENDING" /\ r \notin due
  /\ row' = [row EXCEPT ![r].status = "QUEUED"]
  /\ IF Late(r) THEN Fault /\ twice' = twice \cup {MailingOf(r)} ELSE UNCHANGED <<faults, twice>>
  /\ UNCHANGED <<campaign, built, due, sends, tick, api, check, people, provider,
                 mails, today, lost, stopped, raced, overrun>>

\* Mutant of Unsettled: rows under way are taken for done.
UnsettledQueued == WithStatus({"QUEUED"})

Unsettled == WithStatus(Active)

\* The running campaigns are found, the rows of one are counted, and it is
\* completed if there are none and it is running still.
FindRunning ==
  /\ check = "idle" /\ campaign = "RUNNING"
  /\ check' = "found"
  /\ UNCHANGED <<campaign, built, rows, sends, tick, api, people, provider, history, faults>>

Count ==
  /\ check = "found"
  /\ check' = IF Unsettled = {} THEN "counted" ELSE "idle"
  /\ UNCHANGED <<campaign, built, rows, sends, tick, api, people, provider, history, faults>>

\* A mailing queued since the count is forgotten with the campaign.
Complete ==
  /\ check = "counted" /\ check' = "idle"
  /\ IF campaign = "RUNNING" THEN campaign' = "COMPLETED" /\ lost' = lost \cup revived
                             ELSE UNCHANGED <<campaign, lost>>
  /\ UNCHANGED <<built, rows, sends, tick, api, people, provider, mails, today, twice,
                 stopped, raced, overrun, faults>>

(***************************************************************************)
(* The leads, and the provider.                                            *)
(***************************************************************************)
Stopping(l) ==
  /\ Fault
  /\ stopped' = stopped \cup {l}
  /\ raced' = IF \E w \in Workers : PastGate(w) /\ LeadOf(worker[w].row) = l
                THEN raced \cup {l} ELSE raced
  /\ UNCHANGED <<campaign, built, due, sends, tick, api, check, provider, mails, today, twice, lost, overrun>>

SkipQueued(l, S) ==
  row' = [r \in Rows |-> IF r \in S THEN [row[r] EXCEPT !.status = "BOUNCED"]
                         ELSE IF LeadOf(r) = l /\ row[r].status = "QUEUED"
                         THEN [row[r] EXCEPT !.status = "SKIPPED"] ELSE row[r]]

\* The list, the lead and the queued rows; a row under way stops at its gate.
Unsubscribe(l) ==
  /\ l \notin suppressed
  /\ suppressed' = suppressed \cup {l}
  /\ lead' = [lead EXCEPT ![l] = "UNSUBSCRIBED"]
  /\ SkipQueued(l, {})
  /\ UNCHANGED excluded
  /\ Stopping(l)

\* A hard bounce is that of the row with its message, or of the lead's last
\* SENT row.
Bounce(l) ==
  /\ l \notin suppressed
  /\ \E r \in WithStatus({"SENT"}) : LeadOf(r) = l /\ SkipQueued(l, {r})
  /\ suppressed' = suppressed \cup {l}
  /\ lead' = [lead EXCEPT ![l] = "BOUNCED"]
  /\ UNCHANGED excluded
  /\ Stopping(l)

\* Bulk status REPLIED, or a PATCH.
Reply(l) ==
  /\ lead[l] # "REPLIED"
  /\ lead' = [lead EXCEPT ![l] = "REPLIED"]
  /\ UNCHANGED <<row, excluded, suppressed>>
  /\ Stopping(l)

\* Bulk exclude; a PATCH or an import sets the flag only.
Exclude(l) ==
  /\ l \notin excluded
  /\ excluded' = excluded \cup {l}
  /\ lead' \in {lead, [lead EXCEPT ![l] = "EXCLUDED"]}
  /\ UNCHANGED <<row, suppressed>>
  /\ Stopping(l)

\* What was held against a lead is taken back; the rows skipped meanwhile stay so.
Lifting(l) ==
  /\ Fault
  /\ IF l \notin stopped \/ l \in suppressed' \cup excluded' \/ lead'[l] = "REPLIED"
       THEN UNCHANGED <<stopped, lost>>
       ELSE stopped' = stopped \ {l} /\ lost' = lost \cup ({l} \X Steps)
  /\ UNCHANGED <<campaign, built, rows, sends, tick, api, check, provider,
                 mails, today, twice, raced, overrun>>

\* The address is taken off the list.
Resubscribe(l) ==
  /\ l \in suppressed
  /\ suppressed' = suppressed \ {l}
  /\ lead' = IF lead[l] \in {"UNSUBSCRIBED", "BOUNCED"}
               THEN [lead EXCEPT ![l] = IF \E s \in Steps : mails[<<l, s>>] > 0 THEN "CONTACTED" ELSE "NEW"]
               ELSE lead
  /\ UNCHANGED excluded
  /\ Lifting(l)

\* Bulk include; a PATCH, or a later import of the lead, clears the flag only.
Include(l) ==
  /\ l \in excluded
  /\ excluded' = excluded \ {l}
  /\ lead' \in {lead, [lead EXCEPT ![l] = IF @ = "EXCLUDED" THEN "NEW" ELSE @]}
  /\ UNCHANGED suppressed
  /\ Lifting(l)

\* Bulk status or a PATCH with another status, or a conversion, whose status is
\* written over that of a lead who replied.
Restate(l) ==
  /\ \E s \in {"NEW", "CONVERTED"} : lead[l] # s /\ lead' = [lead EXCEPT ![l] = s]
  /\ UNCHANGED <<excluded, suppressed>>
  /\ Lifting(l)

UpdateProvider ==
  /\ \/ provider.status = "ACTIVE" /\ Fault /\ provider' \in {[provider EXCEPT !.status = s] : s \in {"PAUSED", "GONE"}}
     \/ provider.status = "PAUSED" /\ provider' = [provider EXCEPT !.status = "ACTIVE"] /\ UNCHANGED faults
  /\ UNCHANGED <<campaign, built, rows, sends, tick, api, check, people, history>>

Midnight ==
  /\ provider.dated
  /\ IF \E w \in Workers : PastGate(w) THEN Fault ELSE SentToday >= DailyLimit /\ UNCHANGED faults
  /\ provider' = [provider EXCEPT !.dated = FALSE]
  /\ worker' = [w \in Workers |-> [worker[w] EXCEPT !.sameDay = FALSE]]
  /\ today' = 0
  /\ overrun' = (overrun \/ \E w \in Workers : PastGate(w))
  /\ UNCHANGED <<campaign, built, rows, jobs, tick, api, check, people, mails, twice, lost, stopped, raced>>

AdminRequest == Begin \/ WriteStatus \/ Remove
Dispatch(t) ==
  FindDue(t) \/ SkipDue(t) \/ StartDispatch(t) \/ Clear(t) \/ Resolve(t) \/ Insert(t) \/ Flip(t)
SendTick == FindRows \/ \E r \in Rows : ClaimRow(r)
Send(w) ==
  \/ Take(w) \/ Skip(w) \/ NoProvider(w) \/ Reschedule(w) \/ Pass(w)
  \/ NoDraft(w) \/ Mail(w) \/ Record(w) \/ Account(w)
LeadChange(l) ==
  \/ Unsubscribe(l) \/ Bounce(l) \/ Reply(l) \/ Exclude(l)
  \/ Resubscribe(l) \/ Include(l) \/ Restate(l)
Maintenance == FindRunning \/ Count \/ Complete \/ \E r \in Rows : Requeue(r)

\* The mailings that a step queues anew.
Queued == {MailingOf(r) : r \in {q \in Rows : /\ row[q].status \notin Active
                                             /\ row'[q].status \in Active}}

Step ==
  \/ AdminRequest
  \/ \E t \in Ticks : Dispatch(t) \/ DispatchThrows(t)
  \/ SendTick
  \/ \E w \in Workers : Send(w) \/ SendThrows(w)
  \/ Crash
  \/ Maintenance
  \/ \E l \in Leads : LeadChange(l)
  \/ UpdateProvider \/ Midnight

Next == Step /\ revived' = IF check = "counted" /\ check' = "counted" THEN revived \cup Queued ELSE {}

Spec == Init /\ [][Next]_vars

-----------------------------------------------------------------------------
Campaigns == {"DRAFT", "SCHEDULED", "DISPATCHING", "RUNNING", "PAUSED",
              "COMPLETED", "CANCELLED", "FAILED", "REMOVED"}

RowStatuses == Active \cup {"NONE", "SENT", "SKIPPED", "FAILED", "CANCELLED", "BOUNCED"}

\* Every row belongs to a dispatch that was begun, and so do the job of a row
\* and the send under way.
TypeOK ==
  /\ campaign \in Campaigns /\ built \in 0..MaxDispatch
  /\ row \in [Rows -> [status : RowStatuses, running : BOOLEAN]]
  /\ due \subseteq Rows /\ jobs \subseteq [row : Rows, tries : 0..(Attempts - 1)]
  /\ worker \in [Workers -> [pc : {"idle", "gate", "mail", "record", "count"}, row : Rows \cup {ARow},
                             tries : 0..(Attempts - 1), sent : Nat, sameDay : BOOLEAN,
                             becomes : {"CONTACTED", "CONVERTED"}]]
  /\ tick \in [Ticks -> [pc : {"idle", "found", "clear", "resolve", "insert", "flip"},
                         audience : SUBSET Leads]]
  /\ api \in {"idle", "SCHEDULED", "PAUSED", "RUNNING", "CANCELLED"}
  /\ check \in {"idle", "found", "counted"}
  /\ lead \in [Leads -> Stops \cup {"NEW", "CONTACTED", "CONVERTED"}]
  /\ excluded \subseteq Leads /\ suppressed \subseteq Leads
  /\ provider \in [status : {"ACTIVE", "PAUSED", "GONE"}, sent : Nat, dated : BOOLEAN]
  /\ mails \in [Mailings -> Nat] /\ today \in Nat /\ faults \in 0..MaxFaults
  /\ twice \subseteq Mailings /\ lost \subseteq Mailings
  /\ stopped \subseteq Leads /\ raced \subseteq Leads /\ overrun \in BOOLEAN
  /\ revived \subseteq Mailings
  /\ \A r \in Rows : row[r].status # "NONE" => r[1] <= built
  /\ \A j \in jobs : j.row[1] <= built
  /\ \A w \in Workers : ~Idle(w) => worker[w].row \in Rows /\ worker[w].row[1] <= built

\* A lead gets each email of the campaign once, unless its SENT was not
\* recorded, its row was requeued under a late job, or a dispatch came after
\* the mail or under a send: a dispatch that crashed half-way and is done
\* again mails nobody twice.
MailedOnce == \A m \in Mailings : mails[m] > 1 => m \in twice

\* When the campaign is COMPLETED every mailing was sent, or failed, or its
\* lead had left the audience, or its text was deleted, or a send of it met the
\* campaign paused or in dispatch, or it was queued between the count of the
\* maintenance tick and its write: no row is forgotten by the pacing, the
\* retries or the requeues.
NoneForgotten ==
  campaign = "COMPLETED" =>
    \A m \in Mailings :
      \/ mails[m] > 0 \/ m \in lost \/ m[1] \in stopped
      \/ \E r \in WithStatus({"FAILED", "CANCELLED"}) : MailingOf(r) = m

\* A lead that replied, unsubscribed, bounced or was excluded is not mailed as
\* long as nobody takes that back, unless a send of its had passed the gate by
\* then: neither the worker's own writes of the lead's status nor a second
\* reason that is taken back undo the first.
StopHeeded ==
  [][\A m \in Mailings : mails'[m] > mails[m] => m[1] \notin stopped \ raced]_vars

\* The provider's daily limit holds as long as no two sends overlap, none is
\* cut by midnight and none fails after its mail.
BudgetKept == overrun \/ today <= DailyLimit
==============================================================================
