---------------------------- MODULE CalendarSync -----------------------------
(***************************************************************************)
(* The Google Calendar event of one confirmed job: JobsService.update and  *)
(* .remove, the calendar-sync queue, and CalendarSyncProcessor, which      *)
(* keeps no event id but looks the event up by time and address.           *)
(*                                                                         *)
(* A slot is a time and a place.  No other event mentions the address, and *)
(* the calendar stays connected.  The job is called a signing here, beside *)
(* the jobs of Booking.  A request to Google is one step, whose answer may *)
(* come back as an error.                                                  *)
(***************************************************************************)
EXTENDS Naturals, FiniteSets

CONSTANTS Slots,       \* times and places the job can have
          Near,        \* pairs of slots of one place, at most an hour apart
          Edits,       \* API calls that can be under way at once
          Workers,     \* slots of the queue's workers
          MaxTasks,    \* queue jobs, the first of them added by the creation
          MaxEvents,   \* events that Google can create
          MaxFaults    \* errors of Google or Redis, crashes, expired locks

\* What the constants must satisfy.
BoundsAssumption ==
  MaxTasks \in Nat \ {0} /\ MaxEvents \in Nat \ {0} /\ MaxFaults \in Nat
NearAssumption ==
  \A s \in Slots : <<s, s>> \in Near

VARIABLES signing,   \* whether the row is live, and its slot
          events,    \* the slot of each event on the calendar
          tasks,     \* the queue's jobs, in the order they were added
          worker,    \* per slot: next step, task, and what it has read
          edit,      \* per call: next step
          token,     \* whether Google still accepts the access token
          ops, faults,
          overtaken, \* history: calls or tasks overlapped, or one overtook another
          blind,     \* history: a look-up came back empty for an error
          lost       \* history: a task was not enqueued, or given up, or a removal
                     \* did not write the row after its task

syncVars == <<signing, events, tasks, worker, edit, token, ops, faults, overtaken, blind, lost>>

Events == 1..MaxEvents
Tasks  == 1..MaxTasks

MaxAttempts == 3
MaxStalls   == 1

ASlot == CHOOSE s \in Slots : TRUE
NoTask     == [kind |-> "sync-job", state |-> "none", throws |-> 0, stalls |-> 0]
IdleWorker == [pc |-> "idle", task |-> 1, slot |-> ASlot, event |-> 0,
               retried |-> FALSE, locked |-> FALSE]

\* The job was just created as CONFIRMED.
SyncInit ==
  /\ signing \in [live : {TRUE}, slot : Slots]
  /\ events = [e \in Events |-> "none"]
  /\ tasks = [k \in Tasks |-> IF k = 1 THEN [NoTask EXCEPT !.state = "waiting"] ELSE NoTask]
  /\ worker = [w \in Workers |-> IdleWorker]
  /\ edit = [c \in Edits |-> "idle"]
  /\ token = "accepted"
  /\ ops = 0 /\ faults = 0
  /\ overtaken = FALSE /\ blind = FALSE /\ lost = FALSE

Fault == faults < MaxFaults /\ faults' = faults + 1

Proceed(w, pc) == worker' = [worker EXCEPT ![w].pc = pc]

------------------------------------------------------------------------------
(* JobsService *)

\* A failed add is logged.
Enqueue(kind) ==
  \/ \E k \in Tasks :
       /\ tasks[k].state = "none" /\ \A j \in 1..(k - 1) : tasks[j].state # "none"
       /\ tasks' = [tasks EXCEPT ![k] = [NoTask EXCEPT !.kind = kind, !.state = "waiting"]]
       /\ UNCHANGED <<faults, lost>>
  \/ Fault /\ lost' = TRUE /\ UNCHANGED tasks

Begin(c, pc) ==
  /\ edit[c] = "idle" /\ signing.live
  /\ ops < MaxTasks - 1 /\ ops' = ops + 1
  /\ edit' = [edit EXCEPT ![c] = pc]

\* A new time or place of a CONFIRMED job.
WriteEdit(c) ==
  /\ Begin(c, "addSync")
  /\ \E s \in Slots \ {signing.slot} : signing' = [signing EXCEPT !.slot = s]
  /\ UNCHANGED <<events, tasks, worker, token, faults, blind, lost>>

EnqueueSync(c) ==
  /\ edit[c] = "addSync"
  /\ Enqueue("sync-job")
  /\ edit' = [edit EXCEPT ![c] = "idle"]
  /\ UNCHANGED <<signing, events, worker, token, ops, blind>>

BeginRemove(c) ==
  /\ Begin(c, "addDelete")
  /\ UNCHANGED <<signing, events, tasks, worker, token, faults, blind, lost>>

\* Mutant of EnqueueDelete: the event is left to the sync of an edit.
SkipDelete(c) ==
  /\ edit[c] = "addDelete"
  /\ edit' = [edit EXCEPT ![c] = "remove"]
  /\ UNCHANGED <<signing, events, tasks, worker, token, ops, faults, blind, lost>>

\* remove waits two seconds for the add, which may land after the row is written.
EnqueueDelete(c) ==
  /\ edit[c] \in {"addDelete", "flush"}
  /\ Enqueue("delete-event")
  /\ edit' = [edit EXCEPT ![c] = IF @ = "flush" THEN "idle" ELSE "remove"]
  /\ UNCHANGED <<signing, events, worker, token, ops, blind>>

\* Mutant of WriteDeleted: the appointment is cleared with the deletion.
WriteDeletedClears(c) ==
  /\ edit[c] = "remove"
  /\ signing' = [live |-> FALSE, slot |-> "none"]
  /\ edit' = [edit EXCEPT ![c] = "idle"]
  /\ UNCHANGED <<events, tasks, worker, token, ops, faults, blind, lost>>

WriteDeleted(c) ==
  /\ edit[c] \in {"addDelete", "remove"}
  /\ signing' = [signing EXCEPT !.live = FALSE]
  /\ edit' = [edit EXCEPT ![c] = IF @ = "remove" THEN "idle" ELSE "flush"]
  /\ UNCHANGED <<events, tasks, worker, token, ops, faults, blind, lost>>

\* The call ends with its statement: the row's write throws, or the API dies.  What
\* it was still to do is not done: the task of an edit, and the deletion whose task
\* is queued already.  A removal that has done nothing yet leaves nothing undone.
CallFails(c) ==
  /\ edit[c] # "idle"
  /\ Fault
  /\ edit' = [edit EXCEPT ![c] = "idle"]
  /\ lost' = (lost \/ edit[c] # "addDelete")
  /\ UNCHANGED <<signing, events, tasks, worker, token, ops, blind>>

------------------------------------------------------------------------------
(* The queue: three attempts with a pause between them, one stalled rerun *)

Fresh(k) == tasks[k].state = "waiting" /\ tasks[k].throws = 0 /\ tasks[k].stalls = 0

\* Fresh tasks are taken in order, repeated ones whenever their pause is over.
Take(w, k) ==
  /\ worker[w].pc = "idle" /\ tasks[k].state = "waiting"
  /\ Fresh(k) => \A j \in 1..(k - 1) : ~Fresh(j)
  /\ tasks' = [tasks EXCEPT ![k].state = "active"]
  /\ worker' = [worker EXCEPT ![w] = [IdleWorker EXCEPT !.pc = "read", !.task = k, !.locked = TRUE]]
  /\ UNCHANGED <<signing, events, edit, token, ops, faults, blind, lost>>

Finish(w) ==
  /\ tasks' = [tasks EXCEPT ![worker[w].task].state = IF worker[w].locked THEN "done" ELSE @]
  /\ worker' = [worker EXCEPT ![w] = IdleWorker]

Rethrow(w) ==
  /\ LET k == worker[w].task  throws == tasks[k].throws + 1 IN
       /\ tasks' = IF ~worker[w].locked THEN tasks
                   ELSE [tasks EXCEPT ![k].throws = throws,
                           ![k].state = IF throws < MaxAttempts THEN "waiting" ELSE "failed"]
       /\ lost' = (lost \/ (worker[w].locked /\ throws = MaxAttempts))
  /\ worker' = [worker EXCEPT ![w] = IdleWorker]

Crash(w) ==
  /\ worker[w].pc # "idle"
  /\ Fault
  /\ worker' = [worker EXCEPT ![w] = IdleWorker]
  /\ UNCHANGED <<signing, events, tasks, edit, token, ops, blind, lost>>

\* The lock of an active task is gone, with its worker or under it.
Stalled(k) ==
  /\ tasks[k].state = "active"
  /\ LET holders == {w \in Workers : worker[w].task = k /\ worker[w].locked} IN
       /\ IF holders = {} THEN UNCHANGED faults ELSE Fault
       /\ worker' = [w \in Workers |-> IF w \in holders THEN [worker[w] EXCEPT !.locked = FALSE]
                                       ELSE worker[w]]
  /\ tasks' = [tasks EXCEPT ![k].stalls = @ + 1,
                 ![k].state = IF tasks[k].stalls < MaxStalls THEN "waiting" ELSE "failed"]
  /\ lost' = (lost \/ tasks[k].stalls = MaxStalls)
  /\ UNCHANGED <<signing, events, edit, token, ops, blind>>

------------------------------------------------------------------------------
(* handleSyncJob and handleDeleteEvent *)

\* The row is found by id, deleted or not.
ReadJob(w) ==
  /\ worker[w].pc = "read"
  /\ worker' = [worker EXCEPT ![w].pc = "search", ![w].slot = signing.slot]
  /\ UNCHANGED <<signing, events, tasks, edit, token, ops, faults, blind, lost>>

\* Mutant of Matching: only the event at the very slot is recognised.
MatchingExact(s) == {e \in Events : events[e] = s}

\* The events the search returns: within an hour, same address.
Matching(s) == {e \in Events : events[e] # "none" /\ <<s, events[e]>> \in Near}

\* findMatchingEvent returns null for an error, a rejected token included.
Search(w) ==
  /\ worker[w].pc = "search"
  /\ \/ /\ token = "accepted"
        /\ \/ \E e \in Matching(worker[w].slot) :
                worker' = [worker EXCEPT ![w].pc = "request", ![w].event = e]
           \/ Matching(worker[w].slot) = {}
              /\ worker' = [worker EXCEPT ![w].pc = "request", ![w].event = 0]
        /\ UNCHANGED <<faults, blind>>
     \/ /\ \/ token = "rejected" /\ UNCHANGED faults
           \/ token = "accepted" /\ Fault
        /\ blind' = TRUE
        /\ worker' = [worker EXCEPT ![w].pc = "request", ![w].event = 0]
  /\ UNCHANGED <<signing, events, tasks, edit, token, ops, lost>>

\* The row, the access token or Google cannot be reached.
HandlerThrows(w) ==
  /\ worker[w].pc \in {"read", "search"}
  /\ Fault /\ Rethrow(w)
  /\ UNCHANGED <<signing, events, edit, token, ops, blind>>

\* Nothing to delete.
NoEvent(w) ==
  /\ worker[w].pc = "request" /\ worker[w].event = 0
  /\ tasks[worker[w].task].kind = "delete-event"
  /\ Finish(w)
  /\ UNCHANGED <<signing, events, edit, token, ops, faults, blind, lost>>

\* POST without an event, PUT or DELETE with one; an event that is gone by now
\* refuses the PUT.
Apply(w) ==
  LET k == worker[w].task  e == worker[w].event  s == worker[w].slot IN
    CASE tasks[k].kind = "delete-event" -> e # 0 /\ events' = [events EXCEPT ![e] = "none"]
      [] tasks[k].kind = "sync-job" /\ e # 0 ->
           events[e] # "none" /\ events' = [events EXCEPT ![e] = s]
      [] OTHER -> \E f \in Events : events[f] = "none" /\ events' = [events EXCEPT ![f] = s]

Request(w) ==
  /\ worker[w].pc = "request" /\ token = "accepted"
  /\ Apply(w)
  /\ Proceed(w, "finish")
  /\ UNCHANGED <<signing, tasks, edit, token, ops, faults, blind, lost>>

\* 401: the token is refreshed once and the same request repeated.
RequestRejected(w) ==
  /\ worker[w].pc = "request" /\ token = "rejected" /\ ~worker[w].retried
  /\ tasks[worker[w].task].kind = "sync-job" \/ worker[w].event # 0
  /\ \/ /\ token' = "accepted"
        /\ worker' = [worker EXCEPT ![w].retried = TRUE]
        /\ UNCHANGED <<tasks, faults, lost>>
     \/ Fault /\ Rethrow(w) /\ UNCHANGED token
  /\ UNCHANGED <<signing, events, edit, ops, blind>>

\* Any other error, or an answer that never came although Google had acted.
RequestThrows(w) ==
  /\ worker[w].pc = "request"
  /\ tasks[worker[w].task].kind = "sync-job" \/ worker[w].event # 0
  /\ \/ Fault /\ (UNCHANGED events \/ Apply(w))
     \/ /\ tasks[worker[w].task].kind = "sync-job"
        /\ worker[w].event # 0 /\ events[worker[w].event] = "none"
        /\ UNCHANGED <<events, faults>>
     \/ token = "rejected" /\ worker[w].retried /\ UNCHANGED <<events, faults>>
  /\ Rethrow(w)
  /\ UNCHANGED <<signing, edit, token, ops, blind>>

Done(w) ==
  /\ worker[w].pc = "finish"
  /\ Finish(w)
  /\ UNCHANGED <<signing, events, edit, token, ops, faults, blind, lost>>

\* Google stops accepting an access token that has not expired.
RejectToken ==
  /\ token = "accepted"
  /\ Fault
  /\ token' = "rejected"
  /\ UNCHANGED <<signing, events, tasks, worker, edit, ops, blind, lost>>

------------------------------------------------------------------------------
ApiStep(c)     == \/ WriteEdit(c) \/ EnqueueSync(c) \/ BeginRemove(c) \/ EnqueueDelete(c)
                  \/ WriteDeleted(c) \/ CallFails(c)
HandlerStep(w) == \/ ReadJob(w) \/ Search(w) \/ HandlerThrows(w) \/ NoEvent(w) \/ Request(w)
                  \/ RequestRejected(w) \/ RequestThrows(w) \/ Done(w)

\* A second call begins beside another, or a task is taken while an earlier one
\* is unfinished or any other handler, though without its lock, still runs.
Overtake ==
  \/ \E c, d \in Edits : c # d /\ edit'[c] # "idle" /\ edit'[d] # "idle"
  \/ \E w \in Workers :
       /\ worker[w].pc = "idle" /\ worker'[w].pc # "idle"
       /\ \/ \E v \in Workers \ {w} : worker[v].pc # "idle"
          \/ \E j \in 1..(worker'[w].task - 1) : tasks[j].state \in {"waiting", "active"}

SyncNext ==
  /\ \/ \E c \in Edits : ApiStep(c)
     \/ \E w \in Workers : HandlerStep(w) \/ Crash(w) \/ \E k \in Tasks : Take(w, k)
     \/ (\E k \in Tasks : Stalled(k)) \/ RejectToken
  /\ overtaken' = (overtaken \/ Overtake)

SyncSpec == SyncInit /\ [][SyncNext]_syncVars

------------------------------------------------------------------------------
(* Properties *)

\* The variables stay within their types.
SyncTypeOK ==
  /\ signing \in [live : BOOLEAN, slot : Slots]
  /\ events \in [Events -> Slots \cup {"none"}]
  /\ tasks \in [Tasks -> [kind : {"sync-job", "delete-event"},
                          state : {"none", "waiting", "active", "done", "failed"},
                          throws : 0..MaxAttempts, stalls : 0..(MaxStalls + 1)]]
  /\ worker \in [Workers -> [pc : {"idle", "read", "search", "request", "finish"},
                             task : Tasks, slot : Slots, event : 0..MaxEvents,
                             retried : BOOLEAN, locked : BOOLEAN]]
  /\ edit \in [Edits -> {"idle", "addSync", "addDelete", "remove", "flush"}]
  /\ token \in {"accepted", "rejected"}
  /\ ops \in 0..(MaxTasks - 1) /\ faults \in 0..MaxFaults
  /\ {overtaken, blind, lost} \subseteq BOOLEAN

Shown == {e \in Events : events[e] # "none"}

\* "Find existing event to update (avoids duplicates on edit)": the job never has
\* two events on the calendar.
NoDuplicateEvents == Cardinality(Shown) <= 1

\* The same as far as the code keeps it: an edit during a sync, a retry of a
\* request that Google did carry out and a rerun after a crash make no second
\* event, until a look-up fails, or two tasks overlap or change their order.
OneEvent == ~overtaken /\ ~blind => NoDuplicateEvents

Settled == /\ \A k \in Tasks : tasks[k].state \in {"none", "done"}
           /\ \A c \in Edits : edit[c] = "idle"

\* When nothing is left to do, the calendar shows a live job at its present time
\* and place and nothing of a removed one, although a sync may have read the row
\* before it was edited; only the exceptions of OneEvent, a task that was never
\* enqueued or given up, and a removal that fails between its task and the row,
\* which keeps a live job without its event, leave it otherwise.
CalendarShowsJob ==
  Settled /\ ~overtaken /\ ~blind /\ ~lost =>
    IF signing.live THEN \E e \in Events : Shown = {e} /\ events[e] = signing.slot
    ELSE Shown = {}
==============================================================================
