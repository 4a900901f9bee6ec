------------------------------- MODULE MCAgenda ------------------------------
(* An instance of Agenda for TLC. *)
EXTENDS Agenda, TLC

\* What follows a race of calendar tasks is not explored: no property of the calendar
\* says anything of it.
InOrder == ~overtaken

Symmetry == Permutations(Calls) \cup Permutations(Edits) \cup Permutations(Workers)

ShortAndLong == [v \in Services |-> IF v = "GENERAL" THEN 30 ELSE 80]

\* The evening before the date, and two times of its morning.
AroundMidnight == {-90, 120, 150}
TwoDaysBefore  == -(2 * Day)

\* Times of one place within an hour.
AllNear == Slots \X Slots
==============================================================================
