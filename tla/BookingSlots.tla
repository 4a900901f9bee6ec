---------------------------- MODULE BookingSlots -----------------------------
(***************************************************************************)
(* The slot arithmetic of BookingService.  Times and durations are whole   *)
(* minutes; minute 0 is the midnight that begins the date asked for.  A    *)
(* block is a record with its start and its end: a live job, or a booking  *)
(* under review.                                                           *)
(***************************************************************************)
EXTENDS Integers

Day       == 24 * 60
SlotStep  == 30
LookBack  == 6 * 60   \* how far before the date computeSlots reads
WindowPad == 240      \* how far around a candidate isSlotBlockTaken reads

\* [s, e) and the block o, kept apart by the buffer on either side, collide.
OverlapsBlock(s, e, buffer, o) == ~(e + buffer <= o.start \/ s >= o.end + buffer)

\* The end of a job's block: its minutes, or its stored ends if they are later.
JobBlockEnd(start, mins, ends) ==
  IF start + mins >= ends THEN start + mins ELSE ends

\* The blocks isSlotBlockTaken reads for a candidate at s.
InWindow(o, s, block, buffer) ==
  /\ s - (buffer + WindowPad) <= o.start
  /\ o.start < s + block + (buffer + WindowPad)

IsSlotBlockTaken(occupied, s, block, buffer) ==
  \E o \in occupied : InWindow(o, s, block, buffer)
                      /\ OverlapsBlock(s, s + block, buffer, o)

\* Minimum notice, and the advance limit when it is not 0.
Bookable(t, now, notice, limit) ==
  /\ now <= t /\ now + notice <= t
  /\ limit > 0 => t <= now + limit

\* Mutant of ComputeSlots: it reads the blocks that start on the date only.
ComputeSlotsSameDay(occupied, open, close, block, buffer, now, notice, limit) ==
  {t \in {open + SlotStep * k : k \in 0..((close - block - open) \div SlotStep)} :
     /\ Bookable(t, now, notice, limit)
     /\ \A o \in occupied : 0 <= o.start /\ o.start < Day
                            => ~OverlapsBlock(t, t + block, buffer, o)}

\* Every half hour of the active hours that the block fits in, is bookable and
\* meets none of the blocks that start between LookBack and the next midnight.
ComputeSlots(occupied, open, close, block, buffer, now, notice, limit) ==
  {t \in {open + SlotStep * k : k \in 0..((close - block - open) \div SlotStep)} :
     /\ Bookable(t, now, notice, limit)
     /\ \A o \in occupied : -LookBack <= o.start /\ o.start < Day
                            => ~OverlapsBlock(t, t + block, buffer, o)}
==============================================================================
