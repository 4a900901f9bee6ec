------------------------------- MODULE Mailings --------------------------------
(***************************************************************************)
(* The application's own emails that no request waits for: the onboarding  *)
(* sequence (EmailSequence) and the reminders about signings (Reminders).  *)
(* Both go through TransactionalEmailService and meet the same outages,    *)
(* and share nothing else.                                                 *)
(*                                                                         *)
(* A behaviour follows one of two accounts: one whose sequence may still   *)
(* be started and that has no signing, or one whose sequence is over and   *)
(* that has a signing.                                                     *)
(***************************************************************************)
EXTENDS Naturals, FiniteSets

CONSTANTS LastDay, SequenceFaults, SigningFaults, Slots, LastMoment, MaxMoves, MaxEarlier

ASSUME BoundsAssumption ==
  /\ LastDay \in Nat \ {0} /\ Slots \subseteq Nat /\ LastMoment \in Nat
  /\ {SequenceFaults, SigningFaults, MaxMoves, MaxEarlier} \subseteq Nat

VARIABLES account, row, queue, call, cron, worker, mails,
          signing, now, rows, jobs, sender, adding, moves, earlier, reminded, raced,
          faults

Sequence == INSTANCE EmailSequence WITH MaxFaults <- SequenceFaults
Signing  == INSTANCE Reminders WITH MaxFaults <- SigningFaults

sequenceVars == <<account, row, queue, call, cron, worker, mails>>
signingVars  == <<signing, now, rows, jobs, sender, adding, moves, earlier, reminded, raced>>
vars == <<sequenceVars, signingVars, faults>>

Init ==
  /\ Sequence!Init /\ Signing!Init
  /\ signing.confirmed <=> row = Sequence!Over

Next == \/ Sequence!Next /\ UNCHANGED signingVars
        \/ Signing!Next /\ UNCHANGED sequenceVars

\* The sequence keeps its fairness; no reminder has to be sent.
Spec == Init /\ [][Next]_vars /\ Sequence!Fairness

------------------------------------------------------------------------------
(* Properties *)

TypeOK == Sequence!TypeOK /\ Signing!TypeOK

\* However the cron, the schedule, retries and crashes meet, an account gets a
\* day's email at most twice, once from each of its two sources, and once more
\* for every fault.
TwicePerDay == Sequence!TwicePerDay

\* A sequence that was started is completed, whichever call, cron run, job or mark
\* is lost, unless the account is suspended or the cron's own job of a day failed.
EveryDaySent == Sequence!EveryDaySent

\* A reminder is sent once, also when the signing is moved after it, and once more
\* for a fault or a move while it is queued.
RemindedOnce == Signing!RemindedOnce
==============================================================================
