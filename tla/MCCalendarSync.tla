--------------------------- MODULE MCCalendarSync ----------------------------
(* An instance of CalendarSync for TLC. *)
EXTENDS CalendarSync

\* Times of one place within an hour.
AllNear == Slots \X Slots
==============================================================================
