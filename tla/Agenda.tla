-------------------------------- MODULE Agenda --------------------------------
(***************************************************************************)
(* The notary's agenda to others: the booking page (Booking), where        *)
(* clients take the free times, and the Google calendar (CalendarSync),    *)
(* which shows each job.  A calendar task concerns one job whatever booked *)
(* it, so a behaviour follows either the bookings or the event of one job. *)
(***************************************************************************)
EXTENDS Booking, CalendarSync

VARIABLE followed

agendaVars == <<followed, vars, syncVars>>

AgendaInit ==
  /\ followed \in {"bookings", "calendar"}
  /\ Init /\ SyncInit
  /\ followed = "bookings" => signing.slot = ASlot

AgendaNext ==
  /\ UNCHANGED followed
  /\ \/ followed = "bookings" /\ Next /\ UNCHANGED syncVars
     \/ followed = "calendar" /\ SyncNext /\ UNCHANGED vars

\* The properties are those of Booking and of CalendarSync.
AgendaSpec == AgendaInit /\ [][AgendaNext]_agendaVars
==============================================================================
