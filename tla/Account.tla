------------------------------- MODULE Account --------------------------------
(***************************************************************************)
(* User accounts from registration to the purge: AuthService.register and  *)
(* the password reset, UserSettingsService's signing defaults, the ways an *)
(* account is deleted, suspended and restored, and SoftDeletePurgeService. *)
(*                                                                         *)
(* A deleted row is due when its retention is over.  What an account owns  *)
(* is one job with its invoice, one booking the job was made from, and one *)
(* note, for the expenses, mileage entries and journal entries that are    *)
(* deleted and purged alike.  No code deletes a booking or an invoice.     *)
(***************************************************************************)
EXTENDS Naturals, FiniteSets

CONSTANTS Users, Types,       \* accounts by email, signing types
          Tokens,             \* password reset tokens
          Calls,              \* requests under way at once
          MaxOps, MaxFaults   \* bounds: requests, faults

VARIABLES
  account,   \* the user row: none, live, deleted, or due for the purge
  sequence,  \* users with a row of email_sequences
  defaults,  \* the signing types that have defaults, of each user
  owned,     \* the rows of each user
  token,     \* of each reset token: its user and whether it is open, used or gone
  night,     \* the next step of the purge
  call,      \* per request: next step and arguments
  ops, faults,
  chosen,    \* history: the signing types last asked for, of each user
  uses,      \* history: passwords set with each token
  raced      \* history: users two of whose requests overlapped, or one was cut off

vars == <<account, sequence, defaults, owned, token, night, call, ops, faults, chosen,
          uses, raced>>

AUser    == CHOOSE u \in Users : TRUE
AToken   == CHOOSE t \in Tokens : TRUE
IdleCall == [pc |-> "idle", user |-> AUser, types |-> {}, token |-> AToken]
Nothing  == [job |-> "none", invoice |-> "none", booking |-> "none", note |-> "none"]
NoToken  == [state |-> "none", user |-> AUser]

\* Some have registered before, with or without an email sequence.
Init ==
  /\ account \in [Users -> {"none", "live"}]
  /\ sequence \in SUBSET {u \in Users : account[u] = "live"}
  /\ defaults = [u \in Users |-> IF account[u] = "live" THEN Types ELSE {}]
  /\ owned = [u \in Users |-> IF account[u] = "live" THEN [k \in DOMAIN Nothing |-> "live"]
                              ELSE Nothing]
  /\ token = [t \in Tokens |-> NoToken]
  /\ night = "idle"
  /\ call = [c \in Calls |-> IdleCall]
  /\ ops = 0 /\ faults = 0
  /\ chosen = defaults
  /\ uses = [t \in Tokens |-> 0]
  /\ raced = {}

Fault == faults < MaxFaults /\ faults' = faults + 1

Busy(u) == \E c \in Calls : call[c].pc # "idle" /\ call[c].user = u

Begin(c, next) ==
  /\ call[c].pc = "idle" /\ ops < MaxOps
  /\ ops' = ops + 1
  /\ call' = [call EXCEPT ![c] = next]
  /\ raced' = IF Busy(next.user) THEN raced \cup {next.user} ELSE raced

Goto(c, pc) == call' = [call EXCEPT ![c].pc = pc]
Return(c)   == call' = [call EXCEPT ![c] = IdleCall]

\* A failed database call, or the death of the process, cuts a request off.
Cut(c) ==
  /\ call[c].pc # "idle"
  /\ Fault
  /\ Return(c)
  /\ raced' = raced \cup {call[c].user}
  /\ UNCHANGED <<account, sequence, defaults, owned, token, night, ops, chosen, uses>>

------------------------------------------------------------------------------
(* register *)

BeginRegister(c) ==
  /\ \E u \in Users :
       /\ account[u] = "none"
       /\ Begin(c, [IdleCall EXCEPT !.pc = "create", !.user = u, !.types = Types])
  /\ UNCHANGED <<account, sequence, defaults, owned, token, night, faults, chosen, uses>>

\* The email is unique.
CreateUser(c) ==
  /\ call[c].pc = "create"
  /\ LET u == call[c].user IN
       IF account[u] # "none" THEN Return(c) /\ UNCHANGED <<account, chosen>>
       ELSE /\ account' = [account EXCEPT ![u] = "live"]
            /\ chosen' = [chosen EXCEPT ![u] = Types]
            /\ Goto(c, "seed")
  /\ UNCHANGED <<sequence, defaults, owned, token, night, ops, faults, uses, raced>>

\* One type after the other, in registration and in the settings.
UpsertSigningDefault(c) ==
  /\ call[c].pc \in {"seed", "upsert"}
  /\ LET u == call[c].user IN \E t \in call[c].types :
       /\ account[u] # "none"
       /\ defaults' = [defaults EXCEPT ![u] = @ \cup {t}]
       /\ call' = [call EXCEPT ![c].types = @ \ {t}]
  /\ UNCHANGED <<account, sequence, owned, token, night, ops, faults, chosen, uses, raced>>

\* The last step of a registration; a failed sequence is logged and nothing else.
StartSequence(c) ==
  /\ call[c].pc = "seed" /\ call[c].types = {}
  /\ \/ /\ account[call[c].user] # "none"
        /\ sequence' = sequence \cup {call[c].user}
        /\ UNCHANGED faults
     \/ Fault /\ UNCHANGED sequence
  /\ Return(c)
  /\ UNCHANGED <<account, defaults, owned, token, night, ops, chosen, uses, raced>>

UpsertsDone(c) ==
  /\ call[c].pc = "upsert" /\ call[c].types = {}
  /\ Return(c)
  /\ UNCHANGED <<account, sequence, defaults, owned, token, night, ops, faults, chosen,
                 uses, raced>>

------------------------------------------------------------------------------
(* updateSettings with signing_defaults *)

BeginSync(c) ==
  /\ \E u \in Users, S \in SUBSET Types :
       /\ account[u] = "live"
       /\ Begin(c, [IdleCall EXCEPT !.pc = "deleteTypes", !.user = u, !.types = S])
       /\ chosen' = [chosen EXCEPT ![u] = S]
  /\ UNCHANGED <<account, sequence, defaults, owned, token, night, faults, uses>>

\* Mutant of Deselected: nothing is deselected.
DeselectedNone(has, selected) == {}

Deselected(has, selected) == has \ selected

DeleteTypes(c) ==
  /\ call[c].pc = "deleteTypes"
  /\ LET u == call[c].user
     IN defaults' = [defaults EXCEPT ![u] = @ \ Deselected(@, call[c].types)]
  /\ Goto(c, "upsert")
  /\ UNCHANGED <<account, sequence, owned, token, night, ops, faults, chosen, uses, raced>>

------------------------------------------------------------------------------
(* forgotPassword and resetPassword; an open token may expire at any time, which is to
   say that it is not used *)

\* Its row is there.
Issued(t) == token[t].state \in {"open", "used"}

ForgotPassword(t) ==
  /\ token[t].state = "none"
  /\ \E u \in Users : /\ account[u] # "none"
                      /\ token' = [token EXCEPT ![t] = [state |-> "open", user |-> u]]
  /\ UNCHANGED <<account, sequence, defaults, owned, night, call, ops, faults, chosen, uses,
                 raced>>

\* Mutant of Valid: used tokens are found as well.
ValidUsed(t) == token[t].state \in {"open", "used"}

Valid(t) == token[t].state = "open"

ValidateToken(c) ==
  /\ \E t \in Tokens :
       /\ Valid(t)
       /\ Begin(c, [IdleCall EXCEPT !.pc = "password", !.user = token[t].user, !.token = t])
  /\ UNCHANGED <<account, sequence, defaults, owned, token, night, faults, chosen, uses>>

UpdatePassword(c) ==
  /\ call[c].pc = "password" /\ account[call[c].user] # "none"
  /\ uses' = [uses EXCEPT ![call[c].token] = @ + 1]
  /\ Goto(c, "consume")
  /\ UNCHANGED <<account, sequence, defaults, owned, token, night, ops, faults, chosen, raced>>

ConsumeToken(c) ==
  /\ call[c].pc = "consume" /\ Issued(call[c].token)
  /\ token' = [token EXCEPT ![call[c].token].state = "used"]
  /\ Return(c)
  /\ UNCHANGED <<account, sequence, defaults, owned, night, ops, faults, chosen, uses, raced>>

\* The row a request goes on with has been purged: it fails.
Gone(c) ==
  /\ call[c].pc \in {"seed", "upsert", "password", "consume"}
  /\ \/ account[call[c].user] = "none"
     \/ call[c].pc = "consume" /\ ~Issued(call[c].token)
  /\ Return(c)
  /\ UNCHANGED <<account, sequence, defaults, owned, token, night, ops, faults, chosen, uses,
                 raced>>

------------------------------------------------------------------------------
(* Deletion: each is a look at the row and a write by id *)

\* softDeleteAccount, or an admin's suspendUser.
DeleteAccount(u) ==
  /\ account[u] = "live" /\ ops < MaxOps
  /\ ops' = ops + 1
  /\ account' = [account EXCEPT ![u] = "deleted"]
  /\ UNCHANGED <<sequence, defaults, owned, token, night, call, faults, chosen, uses, raced>>

RestoreUser(u) ==
  /\ account[u] \in {"deleted", "due"} /\ ops < MaxOps
  /\ ops' = ops + 1
  /\ account' = [account EXCEPT ![u] = "live"]
  /\ UNCHANGED <<sequence, defaults, owned, token, night, call, faults, chosen, uses, raced>>

RemoveRow(u, k) ==
  /\ account[u] = "live" /\ owned[u][k] = "live" /\ ops < MaxOps
  /\ ops' = ops + 1
  /\ owned' = [owned EXCEPT ![u][k] = "deleted"]
  /\ UNCHANGED <<account, sequence, defaults, token, night, call, faults, chosen, uses, raced>>

Later(s) == IF s = "deleted" THEN "due" ELSE s

\* SOFT_DELETE_RETENTION_DAYS go by; a purge takes the date once, when it begins.
RetentionPasses ==
  /\ night = "idle"
  /\ account' = [u \in Users |-> Later(account[u])]
  /\ owned' = [u \in Users |-> [k \in DOMAIN owned[u] |-> Later(owned[u][k])]]
  /\ <<account, owned>>' # <<account, owned>>
  /\ UNCHANGED <<sequence, defaults, token, night, call, ops, faults, chosen, uses, raced>>

------------------------------------------------------------------------------
(* purge: one statement after the other, and the first error ends it *)

BeginPurge ==
  /\ night = "idle"
  /\ night' = "jobs"
  /\ UNCHANGED <<account, sequence, defaults, owned, token, call, ops, faults, chosen, uses,
                 raced>>

\* Mutant of AfterNotes: the users are not purged.
AfterNotesEnd == "idle"

AfterNotes == "users"

\* A statement ends, or fails and ends the run.
Statement(rows, next) ==
  \/ owned' = rows /\ night' = next /\ UNCHANGED faults
  \/ Fault /\ night' = "idle" /\ UNCHANGED owned

\* No invoice is ever deleted: that of a job goes with it.
PurgeJobs ==
  /\ night = "jobs"
  /\ Statement([u \in Users |->
       IF owned[u].job = "due" THEN [owned[u] EXCEPT !.job = "none", !.invoice = "none"]
       ELSE owned[u]], "bookings")
  /\ UNCHANGED <<account, sequence, defaults, token, call, ops, chosen, uses, raced>>

\* Mutant of BookingIsDue: bookings without a job, deleted or not.
BookingIsDueAny(o) == o.job = "none"

\* No booking is ever deleted.
BookingIsDue(o) == o.booking = "due" /\ o.job = "none"

PurgeBookings ==
  /\ night = "bookings"
  /\ Statement([u \in Users |->
       IF BookingIsDue(owned[u]) THEN [owned[u] EXCEPT !.booking = "none"] ELSE owned[u]],
       "notes")
  /\ UNCHANGED <<account, sequence, defaults, token, call, ops, chosen, uses, raced>>

PurgeNotes ==
  /\ night = "notes"
  /\ Statement([u \in Users |->
       IF owned[u].note = "due" THEN [owned[u] EXCEPT !.note = "none"] ELSE owned[u]],
       AfterNotes)
  /\ UNCHANGED <<account, sequence, defaults, token, call, ops, chosen, uses, raced>>

Due == {u \in Users : account[u] = "due"}

\* Everything of a user goes with it but the email sequence, which forbids it: one
\* such row fails the statement for all users.
Forbidden == Due \cap sequence # {}

PurgeUsers ==
  /\ night = "users" /\ night' = "idle"
  /\ \/ /\ ~Forbidden
        /\ account'  = [u \in Users |-> IF u \in Due THEN "none" ELSE account[u]]
        /\ defaults' = [u \in Users |-> IF u \in Due THEN {} ELSE defaults[u]]
        /\ chosen'   = [u \in Users |-> IF u \in Due THEN {} ELSE chosen[u]]
        /\ owned'    = [u \in Users |-> IF u \in Due THEN Nothing ELSE owned[u]]
        /\ token'    = [t \in Tokens |-> IF Issued(t) /\ token[t].user \in Due
                                       THEN [token[t] EXCEPT !.state = "gone"] ELSE token[t]]
        /\ UNCHANGED faults
     \/ /\ IF Forbidden THEN UNCHANGED faults ELSE Fault
        /\ UNCHANGED <<account, defaults, chosen, owned, token>>
  /\ UNCHANGED <<sequence, call, ops, uses, raced>>

------------------------------------------------------------------------------
CallStep(c) ==
  \/ BeginRegister(c) \/ CreateUser(c) \/ UpsertSigningDefault(c) \/ UpsertsDone(c)
  \/ StartSequence(c) \/ BeginSync(c) \/ DeleteTypes(c)
  \/ ValidateToken(c) \/ UpdatePassword(c) \/ ConsumeToken(c) \/ Gone(c) \/ Cut(c)

RowStep ==
  \/ \E t \in Tokens : ForgotPassword(t)
  \/ \E u \in Users : \/ DeleteAccount(u) \/ RestoreUser(u)
                      \/ \E k \in {"job", "note"} : RemoveRow(u, k)
  \/ RetentionPasses

PurgeStep == BeginPurge \/ PurgeJobs \/ PurgeBookings \/ PurgeNotes \/ PurgeUsers

Next == (\E c \in Calls : CallStep(c)) \/ RowStep \/ PurgeStep

\* The purge runs every night.
Fairness == WF_vars(PurgeStep)

Spec == Init /\ [][Next]_vars /\ Fairness

------------------------------------------------------------------------------
(* Properties *)

\* "All other data is retained for the purge window": only what was deleted itself
\* and is due ever goes, with what belongs to it: a due account takes all it has, a
\* due job its invoice.
PurgeTakesTheDeleted ==
  [][\A u \in Users :
       account[u] # "due" =>
         /\ account[u] # "none" => account'[u] # "none"
         /\ \A k \in {"job", "booking", "note"} :
              owned[u][k] # "none" /\ owned'[u][k] = "none" => owned[u][k] = "due"
         /\ owned[u].invoice # "none" /\ owned'[u].invoice = "none" => owned[u].job = "due"
         /\ \A t \in Tokens : Issued(t) /\ token[t].user = u => Issued(t)']_vars

\* "Replace the full set of signing defaults ... deselected types must take effect":
\* when no request of a user is under way the defaults are those last asked for, or
\* all types after registration; and a reset token sets one password; unless
\* requests of that user overlapped or were cut off.
RequestsTakeEffect ==
  \A u \in Users \ raced :
    /\ ~Busy(u) => defaults[u] = chosen[u]
    /\ \A t \in Tokens : token[t].user = u => uses[t] <= 1

\* A due account is purged, or restored in time, whatever statement fails, as long
\* as no due account has an email sequence.
DueIsPurged ==
  \A u \in Users : account[u] = "due" ~> account[u] # "due" \/ Forbidden

\* "Soft-delete the account: flags it for purge": a deleted account whose retention
\* is over is purged or restored.
DeletedIsPurged ==
  \A u \in Users : account[u] = "due" ~> account[u] # "due"
==============================================================================
