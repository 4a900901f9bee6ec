------------------------------- MODULE Reminders -------------------------------
(***************************************************************************)
(* Reminders about one signing: NotificationCronService queues the         *)
(* notary's reminder and the client's a day ahead, JobsService             *)
(* .dispatchClientEta the client's "on the way" email when an earlier      *)
(* signing is completed, and NotificationProcessor sends them.  Signings   *)
(* share no row and no queue id.                                           *)
(*                                                                         *)
(* Only the time left to the signing matters.  It is counted in the bands  *)
(* the code's windows cut it into: the reminder a day ahead is queued in   *)
(* the band 24h to 24h05 and sent from 23h to 25h, the notary's is queued  *)
(* in the last five minutes of the lead time and sent in its last ten, the *)
(* "on the way" email fits just before the signing.  Preferences are on.   *)
(***************************************************************************)
EXTENDS Naturals, FiniteSets

CONSTANTS Slots,      \* times the signing can be at, counted in bands
          LastMoment, \* bound: the clock stops here
          MaxMoves,   \* bound: times the signing is moved
          MaxEarlier, \* bound: earlier signings completed
          MaxFaults   \* bound: number of faults

Kinds == {"client", "notary", "eta"}

\* Bands of time left in which a reminder is queued, and in which it is sent.
QueueBand == [k \in Kinds |-> CASE k = "client" -> {5} [] k = "notary" -> {2} [] k = "eta" -> {1}]
SendBand  == [k \in Kinds |-> CASE k = "client" -> 4..6 [] k = "notary" -> 1..2 [] k = "eta" -> {1}]

\* Queue ids: the kind and the time the signing was at; an "on the way" email has
\* no id of its own and is told apart by a number.
Ids == [kind : {"client", "notary"}, key : Slots]
         \cup [kind : {"eta"}, key : 1..MaxEarlier]

VARIABLES
  signing,  \* the job row: confirmed, and at which time
  now,      \* the clock
  rows,     \* kinds of which a notification row exists
  jobs,     \* per id: state in the queue, attempts that failed, times found stalled
  sender,   \* the worker's next step and the id it works on
  adding,   \* what the cron or dispatchClientEta is about to add, a set of ids
  moves,    \* how often the signing was moved
  earlier,  \* earlier signings completed just before this one
  reminded, \* history: emails of each kind that left a provider
  raced,    \* history: kinds queued or under way when the signing was moved
  faults    \* faults so far

vars == <<signing, now, rows, jobs, sender, adding, moves, earlier, reminded, raced, faults>>

Attempts == 3
Absent   == [state |-> "none", throws |-> 0, stalls |-> 0]

Idle == [pc |-> "idle", id |-> [kind |-> "eta", key |-> 0]]

Left == IF signing.at > now THEN signing.at - now ELSE 0

Init ==
  /\ signing \in [confirmed : BOOLEAN, at : Slots]
  /\ now = 0 /\ moves = 0 /\ earlier = 0 /\ faults = 0
  /\ rows = {} /\ raced = {} /\ adding = {}
  /\ jobs = [i \in Ids |-> Absent]
  /\ sender = Idle
  /\ reminded = [k \in Kinds |-> 0]

Fault == faults < MaxFaults /\ faults' = faults + 1

\* Reminders of kind k on their way.
Open(k) == \/ \E i \in Ids : i.kind = k /\ jobs[i].state \in {"waiting", "active"}
           \/ \E i \in adding : i.kind = k

------------------------------------------------------------------------------
(* The cron and dispatchClientEta *)

\* Mutant of Wanted: no look at the notification rows.
WantedAgain(k) == signing.confirmed /\ Left \in QueueBand[k]

Wanted(k) == signing.confirmed /\ Left \in QueueBand[k] /\ k \notin rows

CronFind(k) ==
  /\ k \in {"client", "notary"}
  /\ Wanted(k)
  /\ ~\E i \in adding : i.kind = k
  /\ adding' = adding \cup {[kind |-> k, key |-> signing.at]}
  /\ UNCHANGED <<signing, now, rows, jobs, sender, moves, earlier, reminded, raced, faults>>

\* JobsService.dispatchClientEta after an earlier signing was completed just before
\* this one: nothing keeps a second one from announcing the notary again.
CompleteEarlier ==
  /\ signing.confirmed /\ Left \in QueueBand["eta"]
  /\ earlier < MaxEarlier
  /\ earlier' = earlier + 1
  /\ adding' = adding \cup {[kind |-> "eta", key |-> earlier']}
  /\ UNCHANGED <<signing, now, rows, jobs, sender, moves, reminded, raced, faults>>

\* Adding an id the queue still knows does nothing.
Add ==
  \E i \in adding :
    /\ adding' = adding \ {i}
    /\ \/ /\ jobs' = [jobs EXCEPT ![i].state = IF @ = "none" THEN "waiting" ELSE @]
          /\ UNCHANGED faults
       \/ Fault /\ UNCHANGED jobs
    /\ UNCHANGED <<signing, now, rows, sender, moves, earlier, reminded, raced>>

------------------------------------------------------------------------------
(* NotificationProcessor *)

Take ==
  /\ sender = Idle
  /\ \E i \in Ids :
       /\ jobs[i].state = "waiting"
       /\ jobs' = [jobs EXCEPT ![i].state = "active"]
       /\ sender' = [pc |-> "reading", id |-> i]
  /\ UNCHANGED <<signing, now, rows, adding, moves, earlier, reminded, raced, faults>>

Finish ==
  /\ jobs' = [jobs EXCEPT ![sender.id].state = "over"]
  /\ sender' = Idle

\* The handler throws: the default job options give a job three attempts.
Throw ==
  LET n == jobs[sender.id].throws + 1 IN
    /\ jobs' = [jobs EXCEPT ![sender.id] =
                  [@ EXCEPT !.throws = n, !.state = IF n < Attempts THEN "waiting" ELSE "over"]]
    /\ sender' = Idle

\* The window is checked against the signing as it is now, not as it was queued.
Fits(k) == signing.confirmed /\ Left \in SendBand[k]

Read ==
  /\ sender.pc = "reading"
  /\ \/ ~Fits(sender.id.kind) /\ Finish /\ UNCHANGED faults
     \/ /\ Fits(sender.id.kind) /\ sender' = [sender EXCEPT !.pc = "mailing"]
        /\ UNCHANGED <<jobs, faults>>
     \/ Fault /\ Throw
  /\ UNCHANGED <<signing, now, rows, adding, moves, earlier, reminded, raced>>

\* The email is sent; or every provider throws, one fault at least; or the first
\* throws after sending and the second sends it again.
Mail ==
  /\ sender.pc = "mailing"
  /\ \/ /\ reminded' = [reminded EXCEPT ![sender.id.kind] = @ + 1]
        /\ sender' = [sender EXCEPT !.pc = "recording"]
        /\ UNCHANGED <<jobs, faults>>
     \/ /\ Fault
        /\ reminded' = [reminded EXCEPT ![sender.id.kind] = @ + 2]
        /\ sender' = [sender EXCEPT !.pc = "recording"]
        /\ UNCHANGED jobs
     \/ /\ Fault /\ Throw
        /\ \E n \in 0..1 : reminded' = [reminded EXCEPT ![sender.id.kind] = @ + n]
  /\ UNCHANGED <<signing, now, rows, adding, moves, earlier, raced>>

\* notification.create: its error fails the job, after the email.
Record ==
  /\ sender.pc = "recording"
  /\ \/ rows' = rows \cup {sender.id.kind} /\ Finish /\ UNCHANGED faults
     \/ Fault /\ Throw /\ UNCHANGED rows
  /\ UNCHANGED <<signing, now, adding, moves, earlier, reminded, raced>>

\* The process dies; the queue runs a stalled job once more.
Crash ==
  /\ Fault
  /\ sender # Idle \/ adding # {}
  /\ adding' = {} /\ sender' = Idle
  /\ jobs' = [i \in Ids |->
                IF jobs[i].state # "active" THEN jobs[i]
                ELSE IF jobs[i].stalls = 0
                     THEN [jobs[i] EXCEPT !.state = "waiting", !.stalls = 1]
                     ELSE [jobs[i] EXCEPT !.state = "over"]]
  /\ UNCHANGED <<signing, now, rows, moves, earlier, reminded, raced>>

\* The queue forgets a job that is over, after a hundred others.
Forget ==
  /\ adding = {}
  /\ \E i \in Ids : jobs[i].state = "over" /\ jobs' = [jobs EXCEPT ![i] = Absent]
  /\ UNCHANGED <<signing, now, rows, sender, adding, moves, earlier, reminded, raced, faults>>

------------------------------------------------------------------------------
(* The notary and the clock *)

\* The signing is moved to another time.
Move ==
  /\ signing.confirmed /\ moves < MaxMoves
  /\ moves' = moves + 1
  /\ \E t \in Slots \ {signing.at} : signing' = [signing EXCEPT !.at = t]
  /\ raced' = raced \cup {k \in Kinds : Open(k)}
  /\ UNCHANGED <<now, rows, jobs, sender, adding, earlier, reminded, faults>>

\* It is begun, cancelled or deleted.
Leave ==
  /\ signing.confirmed
  /\ signing' = [signing EXCEPT !.confirmed = FALSE]
  /\ UNCHANGED <<now, rows, jobs, sender, adding, moves, earlier, reminded, raced, faults>>

\* Once it is no longer confirmed, nothing looks at the clock again.
Tick ==
  /\ signing.confirmed /\ now < LastMoment
  /\ now' = now + 1
  /\ UNCHANGED <<signing, rows, jobs, sender, adding, moves, earlier, reminded, raced, faults>>

Next == \/ \E k \in Kinds : CronFind(k)
        \/ CompleteEarlier \/ Add
        \/ Take \/ Read \/ Mail \/ Record \/ Crash \/ Forget
        \/ Move \/ Leave \/ Tick

Spec == Init /\ [][Next]_vars

------------------------------------------------------------------------------
(* Properties *)

TypeOK ==
  /\ signing \in [confirmed : BOOLEAN, at : Slots]
  /\ now \in 0..LastMoment
  /\ rows \subseteq Kinds /\ raced \subseteq Kinds /\ adding \subseteq Ids
  /\ jobs \in [Ids -> [state : {"none", "waiting", "active", "over"},
                       throws : 0..Attempts, stalls : 0..1]]
  /\ sender = Idle \/ sender \in [pc : {"reading", "mailing", "recording"}, id : Ids]
  /\ moves \in 0..MaxMoves /\ earlier \in 0..MaxEarlier /\ faults \in Nat
  /\ reminded \in [Kinds -> Nat]

\* The client's reminder and the notary's go out once each, however often the cron
\* fires and however late the worker is, and still once when the signing is moved
\* to another time afterwards; once more for a fault, or when the signing is
\* moved while a reminder is queued, because the queue id holds the time.  "On
\* the way" is sent once for every earlier signing completed.
RemindedOnce ==
  /\ \A k \in {"client", "notary"} :
       reminded[k] <= 1 + faults + (IF k \in raced THEN moves ELSE 0)
  /\ reminded["eta"] <= earlier + faults
==============================================================================
