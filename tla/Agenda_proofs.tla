---------------------------- MODULE Agenda_proofs -----------------------------
(***************************************************************************)
(* What is proved of the notary's agenda.                                  *)
(*                                                                         *)
(* Of Booking, for any number of bookings, calls, services and jobs        *)
(* entered by hand, and any settings: RowInv is inductive; BInv is too,    *)
(* and says that no time is promised twice, with blocks no longer than the *)
(* window that isSlotBlockTaken reads.                                     *)
(*                                                                         *)
(* Of CalendarSync, for every number of API calls, workers, tasks, events  *)
(* and faults: the tasks follow the order of the writes (OrderInv), one    *)
(* handler has the job in hand (EventInv), and what the last task shows is *)
(* the job (ShowInv).                                                      *)
(***************************************************************************)
EXTENDS Agenda, FiniteSetTheorems, TLAPS

\* No service takes longer than the window reaches.
ShortBlocks == \A v \in Services : Block[v] <= WindowPad

\* The active hours and the buffer stay clear of the next midnight, and the
\* buffer of what computeSlots does not look back at.
RoomyDay == Close + Buffer <= Day /\ Buffer <= LookBack - WindowPad

------------------------------------------------------------------------------
(* The arithmetic of blocks *)

\* Two blocks collide whichever of them is the candidate.
LEMMA OverlapSymmetric ==
  ASSUME NEW a, NEW b, a.start \in Int, a.end \in Int, b.start \in Int, b.end \in Int,
         OverlapsBlock(a.start, a.end, Buffer, b)
  PROVE  OverlapsBlock(b.start, b.end, Buffer, a)
BY SettingsAssumption DEF OverlapsBlock

\* A block of at most WindowPad minutes that collides with a candidate starts
\* in the window that is read for it.
LEMMA WindowSuffices ==
  ASSUME NEW o, o.start \in Int, o.end \in Int, o.end - o.start <= WindowPad,
         NEW s \in Int, NEW m \in Nat, OverlapsBlock(s, s + m, Buffer, o)
  PROVE  InWindow(o, s, m, Buffer)
BY SettingsAssumption DEF OverlapsBlock, InWindow, WindowPad

\* A slot of the active hours ends within them.
LEMMA SlotFits ==
  ASSUME NEW B \in Nat, NEW k \in 0..((Close - B - Open) \div SlotStep)
  PROVE  /\ Open + SlotStep * k \in Int
         /\ Open + SlotStep * k >= Open /\ Open + SlotStep * k + B <= Close
BY SettingsAssumption DEF SlotStep, Day

------------------------------------------------------------------------------
(* Types *)

\* What the types say of one booking, its block and one call.
LEMMA Typed ==
  ASSUME TypeOK, NEW b \in Ids
  PROVE  /\ booking[b] \in BookingType
         /\ booking[b].start \in Int /\ booking[b].service \in Services
         /\ Block[booking[b].service] \in Nat \ {0}
         /\ BookingBlock(b).start = booking[b].start
         /\ BookingBlock(b).end = booking[b].start + Block[booking[b].service]
         /\ BookingBlock(b).end \in Int
<1>1. booking[b] \in BookingType
  BY DEF TypeOK
<1>2. booking[b].start \in Int /\ booking[b].service \in Services
  BY <1>1, SettingsAssumption DEF BookingType
<1>3. Block[booking[b].service] \in Nat \ {0}
  BY <1>2, SettingsAssumption
<1> QED BY <1>1, <1>2, <1>3 DEF BookingBlock

\* The initial values and the idle call are typed.
LEMMA Defaults ==
  /\ NoBooking \in BookingType /\ IdleCall \in CallType
  /\ AnId \in Ids /\ AStart \in Starts /\ AService \in Services
BY SettingsAssumption
DEF NoBooking, IdleCall, BookingType, CallType, AnId, AStart, AService

\* A step of a call leaves every call typed.
LEMMA CallTyped ==
  ASSUME TypeOK, NEW c \in Calls, CreateStep(c) \/ ApproveStep(c) \/ RefuseStep(c)
  PROVE  call' \in [Calls -> CallType]
<1>1. \A d \in CallType, pc \in {"confirm"} : [d EXCEPT !.pc = pc] \in CallType
  BY DEF CallType
<1>2. \A b \in Ids, pc \in {"approve", "decline", "cancel"} :
        [IdleCall EXCEPT !.pc = pc, !.id = b] \in CallType
  BY Defaults DEF CallType, IdleCall
<1>3. \A t \in Starts, v \in Services :
        [IdleCall EXCEPT !.pc = "insert", !.start = t, !.service = v, !.seen = Made] \in CallType
  BY Defaults DEF CallType, IdleCall, Made
<1>4. PICK d \in CallType : call' = [call EXCEPT ![c] = d]
  <2> USE DEF TypeOK
  <2>1. CASE CheckSlot(c)
    BY <1>3, <2>1 DEF CheckSlot
  <2>2. CASE CheckApprove(c) \/ CheckDecline(c) \/ CheckCancel(c)
    BY <1>2, <2>2 DEF CheckApprove, CheckDecline, CheckCancel
  <2>3. CASE Return(c)
    BY <2>3, Defaults DEF Return
  <2>4. CASE Goto(c, "confirm")
    BY <1>1, <2>4 DEF Goto
  <2> QED BY <2>1, <2>2, <2>3, <2>4 DEF CreateStep, ApproveStep, RefuseStep, Insert,
             SerializationAbort, RecheckApprove, Confirm, ConfirmRefused, Decline, Cancel
<1> QED BY <1>4 DEF TypeOK

\* Every step keeps the types.
LEMMA TypeStep == TypeOK /\ [Next]_vars => TypeOK'
<1> DEFINE JobType == [state : {"none", "live", "gone"}, start : Int, end : Int]
<1> SUFFICES ASSUME TypeOK, Next PROVE TypeOK'
  BY DEF TypeOK, vars
<1>1. raced' \in [Ids -> BOOLEAN]
  BY DEF Next, Race, TypeOK
<1>2. GoneJob \in JobType
  BY DEF GoneJob
<1>3. ASSUME NEW c \in Calls, CreateStep(c) \/ ApproveStep(c) \/ RefuseStep(c)
      PROVE  TypeOK'
  <2>1. call' \in [Calls -> CallType]
    BY <1>3, CallTyped
  <2>2. call[c] \in CallType
    BY DEF TypeOK
  <2>3. CASE Insert(c)
    <3>1. PICK b \in Ids : booking' = [booking EXCEPT ![b] =
            [status |-> "PENDING_REVIEW", start |-> call[c].start, service |-> call[c].service]]
      BY <2>3 DEF Insert, Made
    <3>2. booking' \in [Ids -> BookingType]
      BY <2>2, <3>1 DEF TypeOK, BookingType, CallType
    <3> QED BY <1>1, <2>1, <2>3, <3>2 DEF Insert, TypeOK
  <2>4. CASE Confirm(c)
    <3> DEFINE b == call[c].id
    <3>1. b \in Ids
      BY <2>2 DEF CallType
    <3>2. [state |-> "live", start |-> booking[b].start, end |-> BookingBlock(b).end] \in JobType
      BY <3>1, Typed
    <3>3. job' \in [Ids \cup Manual -> JobType]
      BY <2>4, <3>2 DEF Confirm, TypeOK
    <3>4. [booking[b] EXCEPT !.status = "CONFIRMED"] \in BookingType
      BY <3>1, Typed DEF BookingType
    <3>5. booking' \in [Ids -> BookingType]
      BY <2>4, <3>1, <3>4 DEF Confirm, TypeOK
    <3>6. confirmations' \in [Ids -> Nat]
      BY <2>4, <3>1 DEF Confirm, TypeOK
    <3> QED BY <1>1, <2>1, <3>3, <3>5, <3>6 DEF TypeOK
  <2>5. CASE Decline(c) \/ Cancel(c)
    <3>1. call[c].id \in Ids
      BY <2>2 DEF CallType
    <3>2. PICK st \in {"DECLINED", "CANCELLED_BY_CLIENT"} :
            booking' = [booking EXCEPT ![call[c].id] = [booking[call[c].id] EXCEPT !.status = st]]
      BY <2>5 DEF Decline, Cancel
    <3>3. [booking[call[c].id] EXCEPT !.status = st] \in BookingType
      BY <3>1, Typed DEF BookingType
    <3>4. booking' \in [Ids -> BookingType]
      BY <3>1, <3>2, <3>3 DEF TypeOK
    <3>5. job' \in [Ids \cup Manual -> JobType]
      BY <1>2, <2>5 DEF Decline, Cancel, TypeOK
    <3> QED BY <1>1, <2>1, <2>5, <3>4, <3>5 DEF Decline, Cancel, TypeOK
  <2>6. CASE UNCHANGED <<booking, job, confirmations>>
    BY <1>1, <2>1, <2>6 DEF TypeOK
  <2> QED BY <1>3, <2>3, <2>4, <2>5, <2>6 DEF CreateStep, ApproveStep, RefuseStep, CheckSlot,
             SerializationAbort, CheckApprove, RecheckApprove, ConfirmRefused, CheckDecline, CheckCancel
<1>4. ASSUME NEW j \in Ids \cup Manual, (j \in Manual /\ AddManualJob(j)) \/ ReleaseJob(j)
      PROVE  TypeOK'
  <2>1. PICK d \in JobType : job' = [job EXCEPT ![j] = d]
    <3>1. \A t \in Starts, m \in ManualMins :
            [state |-> "live", start |-> t, end |-> JobBlockEnd(t, m, t + m)] \in JobType
      BY SettingsAssumption DEF JobBlockEnd
    <3> QED BY <1>2, <1>4, <3>1 DEF AddManualJob, ReleaseJob
  <2>2. job' \in [Ids \cup Manual -> JobType]
    BY <2>1 DEF TypeOK
  <2>3. UNCHANGED <<booking, call, confirmations>>
    BY <1>4 DEF AddManualJob, ReleaseJob
  <2> QED BY <1>1, <2>2, <2>3 DEF TypeOK
<1> QED BY <1>3, <1>4 DEF Next

\* The initial state is typed.
LEMMA TypeInit == Init => TypeOK
BY Defaults DEF Init, TypeOK, NoJob

\* The variables stay within their types.
THEOREM TypeCorrect == Spec => []TypeOK
<1> QED BY TypeInit, TypeStep, PTL DEF Spec

------------------------------------------------------------------------------
(* What the reviews of a booking leave behind *)

\* A call holds only bookings that were made, and has seen only such.
MadeInv ==
  /\ \A b \in Ids : booking[b].status = "NONE" => job[b].state = "none"
  /\ \A c \in Calls : /\ call[c].seen \subseteq Made
                     /\ \A b \in Ids : Holding(c, b) => b \in Made

\* The confirmations of a booking are the job it got.
ConfirmInv ==
  \A b \in Ids : confirmations[b] = IF job[b].state = "none" THEN 0 ELSE 1

\* A booking's live job is at the booking's time.
JobInv ==
  \A b \in Ids : job[b].state = "live" =>
    job[b].start = BookingBlock(b).start /\ job[b].end = BookingBlock(b).end

\* While no reviews raced, the status is what the reviewer read, and a booking
\* has a live job only when it is confirmed.
ViewInv ==
  \A b \in Ids : ~raced[b] =>
    /\ booking[b].status = "PENDING_REVIEW" => job[b].state = "none"
    /\ job[b].state = "live" => booking[b].status = "CONFIRMED"
    /\ \A c \in Calls : Holding(c, b) =>
         booking[b].status = IF call[c].pc = "cancel" THEN "CONFIRMED" ELSE "PENDING_REVIEW"

\* A candidate about to be inserted meets none of the bookings the transaction
\* has read that still claim their time.
SlotInv ==
  \A c \in Calls : call[c].pc = "insert" =>
    \A b \in call[c].seen : Claims(b) /\ ~raced[b] =>
      ~OverlapsBlock(call[c].start, call[c].start + Block[call[c].service], Buffer, BookingBlock(b))

\* The inductive invariant, without what depends on the length of blocks.
RowInv == TypeOK /\ MadeInv /\ ConfirmInv /\ JobInv /\ ViewInv

BInv == RowInv /\ SlotInv /\ NoDoubleBooking

\* The step of one call leaves the others as they are.
LEMMA OtherCalls ==
  ASSUME TypeOK, NEW c \in Calls, CreateStep(c) \/ ApproveStep(c) \/ RefuseStep(c),
         NEW d \in Calls, d # c
  PROVE  call'[d] = call[d]
BY DEF TypeOK, CreateStep, ApproveStep, RefuseStep, CheckSlot, Insert, SerializationAbort,
       CheckApprove, RecheckApprove, Confirm, ConfirmRefused, CheckDecline, Decline, CheckCancel,
       Cancel, Goto, Return

\* A step that writes nothing but the calls keeps the invariant, if the call it
\* moves then holds a booking it is right about, or nothing.
LEMMA QuietStep ==
  ASSUME RowInv, TypeOK', Next, UNCHANGED <<booking, job, confirmations>>,
         NEW c \in Calls, \A d \in Calls \ {c} : call'[d] = call[d],
         call'[c].seen \subseteq Made,
         \A b \in Ids : Holding(c, b)' =>
           booking[b].status = IF call'[c].pc = "cancel" THEN "CONFIRMED" ELSE "PENDING_REVIEW"
  PROVE  RowInv'
<1>1. \A b \in Ids : raced[b]' = raced[b]
  BY DEF RowInv, TypeOK, Next, Race
<1>2. MadeInv'
  BY DEF RowInv, MadeInv, Made, Holding
<1>3. ConfirmInv' /\ JobInv'
  BY DEF RowInv, ConfirmInv, JobInv, BookingBlock
<1>4. ViewInv'
  BY <1>1 DEF RowInv, ViewInv, Holding
<1> QED BY <1>2, <1>3, <1>4 DEF RowInv

\* A booking that has not raced was not changed under a call that holds it.
LEMMA NotRaced ==
  ASSUME TypeOK, Next, NEW b \in Ids, ~raced[b]'
  PROVE  /\ ~raced[b]
         /\ booking'[b] # booking[b] =>
              \A d \in Calls : Holding(d, b) => call'[d] # call[d]
BY DEF TypeOK, Next, Race

\* Inserting a booking keeps the invariant: nobody holds it yet.
LEMMA InsertStep ==
  ASSUME RowInv, TypeOK', Next, NEW c \in Calls, Insert(c)
  PROVE  RowInv'
<1>1. PICK b \in Ids \ Made : booking' = [booking EXCEPT ![b] =
        [status |-> "PENDING_REVIEW", start |-> call[c].start, service |-> call[c].service]]
  BY DEF Insert, Made
<1>2. job[b].state = "none" /\ \A d \in Calls : ~Holding(d, b)
  BY DEF RowInv, MadeInv, Made
<1>3. UNCHANGED <<job, confirmations>> /\ \A d \in Calls \ {c} : call'[d] = call[d]
  BY DEF Insert, Return, RowInv, TypeOK
<1>4. call'[c].pc = "idle" /\ call'[c].seen = {}
  BY DEF Insert, Return, IdleCall, RowInv, TypeOK
<1>5. booking'[b].status = "PENDING_REVIEW" /\ \A a \in Ids \ {b} : booking'[a] = booking[a]
  BY <1>1 DEF RowInv, TypeOK
<1>6. Made' = Made \cup {b}
  BY <1>5 DEF Made
<1>7. MadeInv'
  BY <1>2, <1>3, <1>4, <1>5, <1>6 DEF RowInv, MadeInv, Made, Holding
<1>8. ConfirmInv' /\ JobInv'
  BY <1>2, <1>3, <1>5 DEF RowInv, ConfirmInv, JobInv, BookingBlock
<1>9. ViewInv'
  <2> SUFFICES ASSUME NEW a \in Ids, ~raced[a]'
               PROVE  /\ booking'[a].status = "PENDING_REVIEW" => job'[a].state = "none"
                      /\ job'[a].state = "live" => booking'[a].status = "CONFIRMED"
                      /\ \A d \in Calls : Holding(d, a)' =>
                           booking'[a].status = IF call'[d].pc = "cancel" THEN "CONFIRMED"
                                                ELSE "PENDING_REVIEW"
    BY DEF ViewInv
  <2>1. ~raced[a]
    BY NotRaced DEF RowInv
  <2>2. \A d \in Calls : Holding(d, a)' => Holding(d, a) /\ call'[d] = call[d]
    BY <1>3, <1>4 DEF Holding
  <2> QED BY <1>2, <1>3, <1>5, <2>1, <2>2 DEF RowInv, ViewInv
<1> QED BY <1>7, <1>8, <1>9 DEF RowInv

\* Approving, declining and cancelling keep the invariant: a call that still
\* holds the booking makes it raced.
LEMMA ReviewStep ==
  ASSUME RowInv, TypeOK', Next, NEW c \in Calls, Confirm(c) \/ Decline(c) \/ Cancel(c)
  PROVE  RowInv'
<1> DEFINE b == call[c].id
<1>1. b \in Ids /\ Holding(c, b) /\ b \in Made
  BY DEF RowInv, TypeOK, CallType, Confirm, Decline, Cancel, Holding, MadeInv
<1>2. \A d \in Calls \ {c} : call'[d] = call[d]
  BY DEF Confirm, Decline, Cancel, Return, RowInv, TypeOK
<1>3. call'[c].pc = "idle" /\ call'[c].seen = {}
  BY DEF Confirm, Decline, Cancel, Return, IdleCall, RowInv, TypeOK
<1>4. \A a \in Ids \ {b} : booking'[a] = booking[a] /\ job'[a] = job[a]
                           /\ confirmations'[a] = confirmations[a]
  BY <1>1 DEF Confirm, Decline, Cancel, RowInv, TypeOK
<1>5. PICK st \in {"CONFIRMED", "DECLINED", "CANCELLED_BY_CLIENT"} :
        /\ booking'[b] = [booking[b] EXCEPT !.status = st]
        /\ st = "CONFIRMED" <=> call[c].pc = "confirm"
  BY <1>1 DEF Confirm, Decline, Cancel, RowInv, TypeOK
<1>6. /\ booking'[b].start = booking[b].start /\ booking'[b].service = booking[b].service
      /\ booking'[b].status = st
  BY <1>1, <1>5, Typed DEF RowInv, BookingType
<1>7. Made' = Made
  BY <1>1, <1>4, <1>6 DEF Made
<1>8. MadeInv'
  BY <1>1, <1>2, <1>3, <1>4, <1>6, <1>7 DEF RowInv, MadeInv, Holding
<1>9. /\ job[b].state = "none" /\ call[c].pc = "confirm" =>
           job'[b].state = "live" /\ confirmations'[b] = confirmations[b] + 1
      /\ call[c].pc # "confirm" => /\ confirmations'[b] = confirmations[b]
                                   /\ job[b].state = "none" <=> job'[b].state = "none"
                                   /\ job'[b].state = "live" => job'[b] = job[b]
                                   /\ job'[b].state = "live" => call[c].pc = "decline"
      /\ call[c].pc = "confirm" => job[b].state = "none"
  BY <1>1 DEF Confirm, Decline, Cancel, GoneJob, Unlinked, RowInv, TypeOK
<1>10. ConfirmInv'
  BY <1>1, <1>4, <1>9 DEF RowInv, ConfirmInv
<1>11. JobInv'
  <2>1. call[c].pc = "confirm" => /\ job'[b].start = booking[b].start
                                  /\ job'[b].end = BookingBlock(b).end
    BY <1>1 DEF Confirm, Decline, Cancel, RowInv, TypeOK
  <2>2. \A a \in Ids : BookingBlock(a)' = BookingBlock(a)
    BY <1>4, <1>6 DEF BookingBlock
  <2>3. BookingBlock(b).start = booking[b].start
    BY DEF BookingBlock
  <2> QED BY <1>1, <1>4, <1>9, <2>1, <2>2, <2>3 DEF RowInv, JobInv
<1>12. ViewInv'
  <2> SUFFICES ASSUME NEW a \in Ids, ~raced[a]'
               PROVE  /\ booking'[a].status = "PENDING_REVIEW" => job'[a].state = "none"
                      /\ job'[a].state = "live" => booking'[a].status = "CONFIRMED"
                      /\ \A d \in Calls : Holding(d, a)' =>
                           booking'[a].status = IF call'[d].pc = "cancel" THEN "CONFIRMED"
                                                ELSE "PENDING_REVIEW"
    BY DEF ViewInv
  <2>1. ~raced[a]
    BY NotRaced DEF RowInv
  <2>2. CASE a # b
    <3>1. \A d \in Calls : Holding(d, a)' => Holding(d, a) /\ call'[d] = call[d]
      BY <1>2, <1>3 DEF Holding
    <3> QED BY <1>4, <2>1, <2>2, <3>1 DEF RowInv, ViewInv
  <2>3. CASE a = b
    <3>1. booking[b].status = IF call[c].pc = "cancel" THEN "CONFIRMED" ELSE "PENDING_REVIEW"
      BY <1>1, <2>1, <2>3 DEF RowInv, ViewInv
    <3>2. booking'[b].status # booking[b].status
      BY <1>5, <1>6, <3>1 DEF Confirm, Decline, Cancel
    <3>3. \A d \in Calls : ~Holding(d, a)'
      BY <1>2, <1>3, <2>3, <3>2, NotRaced DEF RowInv, Holding
    <3>4. call[c].pc = "decline" => job'[b].state # "live"
      BY <1>1, <1>9, <2>1, <2>3, <3>1 DEF RowInv, ViewInv
    <3> QED BY <1>5, <1>6, <1>9, <2>3, <3>3, <3>4
  <2> QED BY <2>2, <2>3
<1> QED BY <1>8, <1>10, <1>11, <1>12 DEF RowInv

\* Jobs the notary handles keep the invariant.
LEMMA JobStep ==
  ASSUME RowInv, TypeOK', Next, NEW j \in Ids \cup Manual,
         (j \in Manual /\ AddManualJob(j)) \/ ReleaseJob(j)
  PROVE  RowInv'
<1>1. UNCHANGED <<booking, call, confirmations>>
  BY DEF AddManualJob, ReleaseJob
<1>2. \A b \in Ids : \/ job'[b] = job[b]
                     \/ job[b].state = "live" /\ job'[b].state = "gone"
  BY SettingsAssumption DEF AddManualJob, ReleaseJob, GoneJob, RowInv, TypeOK
<1>3. MadeInv'
  BY <1>1, <1>2 DEF RowInv, MadeInv, Made, Holding
<1>4. ConfirmInv'
  BY <1>1, <1>2 DEF RowInv, ConfirmInv
<1>5. JobInv'
  BY <1>1, <1>2 DEF RowInv, JobInv, BookingBlock
<1>6. \A b \in Ids : ~raced[b]' => ~raced[b]
  BY NotRaced DEF RowInv
<1>7. ViewInv'
  BY <1>1, <1>2, <1>6 DEF RowInv, ViewInv, Holding
<1> QED BY <1>3, <1>4, <1>5, <1>7 DEF RowInv

\* RowInv is inductive.
LEMMA RowStep == RowInv /\ [Next]_vars => RowInv'
<1> SUFFICES ASSUME RowInv, [Next]_vars PROVE RowInv'
  OBVIOUS
<1>0. TypeOK /\ TypeOK'
  BY TypeStep DEF RowInv
<1>1. CASE UNCHANGED vars
  BY <1>1, <1>0 DEF vars, RowInv, MadeInv, ConfirmInv, JobInv, ViewInv, Made, Holding, BookingBlock
<1>2. ASSUME Next, NEW c \in Calls, CreateStep(c) \/ ApproveStep(c) \/ RefuseStep(c)
      PROVE  RowInv'
  <2>1. \A d \in Calls \ {c} : call'[d] = call[d]
    BY <1>0, <1>2, OtherCalls
  <2>2. CASE CheckSlot(c)
    <3>1. UNCHANGED <<booking, job, confirmations>> /\ call'[c].pc = "insert" /\ call'[c].seen = Made
      BY <1>0, <2>2 DEF CheckSlot, IdleCall, TypeOK
    <3>2. \A b \in Ids : ~Holding(c, b)'
      BY <3>1 DEF Holding
    <3> QED BY <1>0, <1>2, <2>1, <3>1, <3>2, QuietStep
  <2>3. CASE SerializationAbort(c) \/ ConfirmRefused(c) \/ (RecheckApprove(c) /\ Return(c))
    <3>1. UNCHANGED <<booking, job, confirmations>> /\ call'[c].pc = "idle" /\ call'[c].seen = {}
      BY <1>0, <2>3 DEF SerializationAbort, ConfirmRefused, RecheckApprove, Return, IdleCall, TypeOK
    <3>2. \A b \in Ids : ~Holding(c, b)'
      BY <3>1 DEF Holding
    <3> QED BY <1>0, <1>2, <2>1, <3>1, <3>2, QuietStep
  <2>4. CASE CheckApprove(c) \/ CheckDecline(c) \/ CheckCancel(c)
    <3>1. PICK b \in Ids, pc \in {"approve", "decline", "cancel"} :
            /\ call' = [call EXCEPT ![c] = [IdleCall EXCEPT !.pc = pc, !.id = b]]
            /\ booking[b].status = IF pc = "cancel" THEN "CONFIRMED" ELSE "PENDING_REVIEW"
      BY <2>4 DEF CheckApprove, CheckDecline, CheckCancel, Declinable
    <3>2. call'[c].pc = pc /\ call'[c].id = b /\ call'[c].seen = {}
      BY <1>0, <3>1 DEF TypeOK, IdleCall
    <3>3. UNCHANGED <<booking, job, confirmations>>
      BY <2>4 DEF CheckApprove, CheckDecline, CheckCancel
    <3>4. \A a \in Ids : Holding(c, a)' =>
            booking[a].status = IF call'[c].pc = "cancel" THEN "CONFIRMED" ELSE "PENDING_REVIEW"
      BY <3>1, <3>2 DEF Holding
    <3> QED BY <1>0, <1>2, <2>1, <3>2, <3>3, <3>4, QuietStep
  <2>5. CASE RecheckApprove(c) /\ Goto(c, "confirm") /\ booking[call[c].id].status = "PENDING_REVIEW"
    <3>1. /\ UNCHANGED <<booking, job, confirmations>> /\ call'[c].pc = "confirm"
          /\ call'[c].id = call[c].id /\ call'[c].seen = call[c].seen
      BY <1>0, <2>5 DEF RecheckApprove, Goto, TypeOK, CallType
    <3>2. \A b \in Ids : Holding(c, b)' => booking[b].status = "PENDING_REVIEW"
      BY <2>5, <3>1 DEF Holding
    <3>3. call'[c].seen \subseteq Made
      BY <3>1 DEF RowInv, MadeInv
    <3> QED BY <1>0, <1>2, <2>1, <3>1, <3>2, <3>3, QuietStep
  <2>6. CASE Insert(c)
    BY <1>0, <1>2, <2>6, InsertStep
  <2>7. CASE Confirm(c) \/ Decline(c) \/ Cancel(c)
    BY <1>0, <1>2, <2>7, ReviewStep
  <2> QED BY <1>2, <2>2, <2>3, <2>4, <2>5, <2>6, <2>7
          DEF CreateStep, ApproveStep, RefuseStep, RecheckApprove
<1>3. ASSUME Next, NEW j \in Ids \cup Manual, (j \in Manual /\ AddManualJob(j)) \/ ReleaseJob(j)
      PROVE  RowInv'
  BY <1>0, <1>3, JobStep
<1> QED BY <1>1, <1>2, <1>3 DEF Next

\* RowInv holds at the start.
LEMMA RowInit == Init => RowInv
BY TypeInit, Defaults
DEF Init, RowInv, MadeInv, ConfirmInv, JobInv, ViewInv, Made, Holding, NoBooking, NoJob, IdleCall

\* RowInv holds in every reachable state.
THEOREM RowInvariance == Spec => []RowInv
<1> QED BY RowInit, RowStep, PTL DEF Spec

\* approve re-reads the booking and job.booking_id is unique: the client of a
\* booking is sent at most one confirmation, whoever reviews it at the same time.
THEOREM ConfirmedOnce == Spec => []OneConfirmation
<1>1. RowInv => OneConfirmation
  BY DEF RowInv, ConfirmInv, OneConfirmation, TypeOK
<1> QED BY <1>1, RowInvariance, PTL

\* Unless its reviews raced, a booking that decline or cancel closed holds no
\* live job.
THEOREM RefusedReleases == Spec => []RefusedHasNoJob
<1>1. RowInv => RefusedHasNoJob
  BY DEF RowInv, ViewInv, RefusedHasNoJob
<1> QED BY <1>1, RowInvariance, PTL

------------------------------------------------------------------------------
(* No time is promised twice *)

\* What a booking that was made keeps: its time, and, while it is unraced, that
\* nothing but its insertion lets it claim that time.
LEMMA ClaimsShrink ==
  ASSUME RowInv, [Next]_vars, NEW b \in Made
  PROVE  /\ b \in Made' /\ BookingBlock(b)' = BookingBlock(b)
         /\ booking'[b].start = booking[b].start
         /\ booking'[b].service = booking[b].service
         /\ Claims(b)' /\ ~raced[b]' => Claims(b) /\ ~raced[b]
<1>1. b \in Ids /\ booking[b] \in BookingType
  BY DEF Made, RowInv, TypeOK
<1>2. CASE UNCHANGED vars
  BY <1>2 DEF vars, Made, BookingBlock, Claims
<1>3. ASSUME Next, NEW c \in Calls, CreateStep(c) \/ ApproveStep(c) \/ RefuseStep(c)
      PROVE  /\ booking'[b].start = booking[b].start
             /\ booking'[b].service = booking[b].service
             /\ booking'[b].status # "NONE"
             /\ Claims(b)' /\ ~raced[b]' => Claims(b)
  <2>1. CASE booking'[b] = booking[b] /\ job'[b] = job[b]
    BY <2>1 DEF Made, Claims
  <2>2. CASE Insert(c)
    <3>1. booking'[b] = booking[b] /\ job'[b] = job[b]
      BY <1>1, <2>2 DEF Insert, Made, RowInv, TypeOK
    <3> QED BY <2>1, <3>1
  <2>3. CASE Confirm(c) /\ call[c].id = b
    <3>1. booking'[b] = [booking[b] EXCEPT !.status = "CONFIRMED"]
      BY <1>1, <2>3 DEF Confirm, RowInv, TypeOK
    <3>2. ~raced[b]' => booking[b].status = "PENDING_REVIEW"
      BY <1>1, <1>3, <2>3, NotRaced DEF RowInv, ViewInv, Confirm, Holding
    <3> QED BY <1>1, <3>1, <3>2 DEF BookingType, Claims
  <2>4. CASE (Decline(c) \/ Cancel(c)) /\ call[c].id = b
    <3>1. PICK st \in {"DECLINED", "CANCELLED_BY_CLIENT"} :
            booking'[b] = [booking[b] EXCEPT !.status = st]
      BY <1>1, <2>4 DEF Decline, Cancel, RowInv, TypeOK
    <3>2. job'[b].state = "live" => job[b].state = "live"
      BY <1>1, <2>4 DEF Decline, Cancel, GoneJob, RowInv, TypeOK
    <3> QED BY <1>1, <3>1, <3>2 DEF BookingType, Claims
  <2>5. CASE (Confirm(c) \/ Decline(c) \/ Cancel(c)) /\ call[c].id # b
    <3>1. booking'[b] = booking[b] /\ job'[b] = job[b]
      BY <1>1, <2>5 DEF Confirm, Decline, Cancel, RowInv, TypeOK
    <3> QED BY <2>1, <3>1
  <2> QED BY <1>3, <2>1, <2>2, <2>3, <2>4, <2>5
          DEF CreateStep, ApproveStep, RefuseStep, CheckSlot, SerializationAbort,
              CheckApprove, RecheckApprove, ConfirmRefused, CheckDecline, CheckCancel
<1>4. ASSUME NEW j \in Ids \cup Manual, (j \in Manual /\ AddManualJob(j)) \/ ReleaseJob(j)
      PROVE  /\ booking'[b] = booking[b]
             /\ job'[b] = job[b] \/ job'[b].state = "gone"
  BY <1>1, <1>4, SettingsAssumption DEF AddManualJob, ReleaseJob, GoneJob, RowInv, TypeOK
<1>5. Next => (~raced[b]' => ~raced[b])
  BY <1>1, NotRaced DEF RowInv
<1>6. Next => /\ booking'[b].start = booking[b].start
              /\ booking'[b].service = booking[b].service
              /\ booking'[b].status # "NONE"
              /\ Claims(b)' /\ ~raced[b]' => Claims(b)
  <2> SUFFICES ASSUME Next
               PROVE  /\ booking'[b].start = booking[b].start
                      /\ booking'[b].service = booking[b].service
                      /\ booking'[b].status # "NONE"
                      /\ Claims(b)' /\ ~raced[b]' => Claims(b)
    OBVIOUS
  <2>1. CASE \E c \in Calls : CreateStep(c) \/ ApproveStep(c) \/ RefuseStep(c)
    BY <1>3, <2>1
  <2>2. CASE \E j \in Ids \cup Manual : (j \in Manual /\ AddManualJob(j)) \/ ReleaseJob(j)
    BY <1>4, <2>2 DEF Claims, Made
  <2> QED BY <2>1, <2>2 DEF Next
<1> QED BY <1>1, <1>2, <1>5, <1>6 DEF Made, BookingBlock

\* A booking that claims its time occupies the calendar with its block.
LEMMA ClaimsOccupy ==
  ASSUME RowInv, NEW b \in Ids, Claims(b)
  PROVE  \E o \in Occupied : o.start = BookingBlock(b).start /\ o.end = BookingBlock(b).end
<1>1. CASE booking[b].status = "PENDING_REVIEW"
  BY <1>1 DEF Occupied
<1>2. CASE job[b].state = "live"
  <2>1. [start |-> job[b].start, end |-> job[b].end] \in Occupied
    BY <1>2 DEF Occupied
  <2> QED BY <1>2, <2>1 DEF RowInv, JobInv
<1> QED BY <1>1, <1>2 DEF Claims

\* create checks the slot against every booking that claims its time.
LEMMA CheckFinds ==
  ASSUME ShortBlocks, RowInv, NEW b \in Ids, Claims(b), NEW t \in Int, NEW m \in Nat,
         OverlapsBlock(t, t + m, Buffer, BookingBlock(b))
  PROVE  IsSlotBlockTaken(Occupied, t, m, Buffer)
<1>1. PICK o \in Occupied : o.start = BookingBlock(b).start /\ o.end = BookingBlock(b).end
  BY ClaimsOccupy
<1>2. o.start \in Int /\ o.end \in Int /\ o.end - o.start <= WindowPad
  BY <1>1, Typed DEF RowInv, ShortBlocks, WindowPad
<1>3. OverlapsBlock(t, t + m, Buffer, o)
  BY <1>1 DEF OverlapsBlock
<1> QED BY <1>2, <1>3, WindowSuffices DEF IsSlotBlockTaken

\* A booking the transaction did not see either does not meet the candidate, or
\* makes the two transactions conflict.
LEMMA ConflictFinds ==
  ASSUME ShortBlocks, TypeOK, NEW c \in Calls, NEW b \in Made \ call[c].seen,
         OverlapsBlock(call[c].start, call[c].start + Block[call[c].service], Buffer, BookingBlock(b))
  PROVE  SerializationConflict(c)
<1> DEFINE s == call[c].start
           m == Block[call[c].service]
<1>1. b \in Ids
  BY DEF Made
<1>2. s \in Int /\ m \in Nat /\ m <= WindowPad
  BY SettingsAssumption DEF TypeOK, CallType, ShortBlocks
<1>3. /\ BookingBlock(b).start \in Int /\ BookingBlock(b).end \in Int
      /\ BookingBlock(b).start = booking[b].start
      /\ BookingBlock(b).end = booking[b].start + Block[booking[b].service]
      /\ Block[booking[b].service] \in Nat /\ Block[booking[b].service] <= WindowPad
  BY <1>1, Typed DEF ShortBlocks
<1>4. InWindow(BookingBlock(b), s, m, Buffer)
  <2>1. BookingBlock(b).end - BookingBlock(b).start <= WindowPad
    BY <1>3 DEF WindowPad
  <2> QED BY <1>2, <1>3, <2>1, WindowSuffices
<1>5. InWindow([start |-> s], booking[b].start, Block[booking[b].service], Buffer)
  <2> HIDE DEF s, m
  <2>1. OverlapsBlock(s, s + m, Buffer, BookingBlock(b))
    BY DEF s, m
  <2> QED BY <1>2, <1>3, <2>1, SettingsAssumption DEF OverlapsBlock, InWindow, WindowPad
<1> QED BY <1>4, <1>5 DEF SerializationConflict

\* Every step keeps what the transactions under way have checked.
LEMMA SlotStepInv ==
  ASSUME ShortBlocks, RowInv, SlotInv, [Next]_vars
  PROVE  SlotInv'
<1> SUFFICES ASSUME NEW c \in Calls, call'[c].pc = "insert", NEW b \in call'[c].seen,
                    Claims(b)', ~raced[b]'
             PROVE  ~OverlapsBlock(call'[c].start, call'[c].start + Block[call'[c].service],
                                   Buffer, BookingBlock(b)')
  BY DEF SlotInv, OverlapsBlock, BookingBlock
<1>1. CASE call'[c] = call[c]
  <2>1. b \in Made
    BY <1>1 DEF RowInv, MadeInv
  <2> QED BY <1>1, <2>1, ClaimsShrink DEF SlotInv
<1>2. CASE CheckSlot(c)
  <2>1. PICK t \in Starts, v \in Services :
          /\ ~IsSlotBlockTaken(Occupied, t, Block[v], Buffer)
          /\ call' = [call EXCEPT ![c] = [IdleCall EXCEPT
               !.pc = "insert", !.start = t, !.service = v, !.seen = Made]]
    BY <1>2 DEF CheckSlot
  <2>2. call'[c].start = t /\ call'[c].service = v /\ call'[c].seen = Made
    BY <2>1 DEF RowInv, TypeOK, IdleCall
  <2>3. b \in Made /\ b \in Ids
    BY <2>2 DEF Made
  <2>4. Claims(b) /\ BookingBlock(b)' = BookingBlock(b)
    BY <2>3, ClaimsShrink
  <2>5. t \in Int /\ Block[v] \in Nat
    BY SettingsAssumption
  <2> QED BY <2>1, <2>2, <2>3, <2>4, <2>5, CheckFinds
<1>3. CASE call'[c].pc # "insert"
  BY <1>3
<1>4. \/ call'[c] = call[c] \/ CheckSlot(c) \/ call'[c].pc # "insert"
  <2>0. call \in [Calls -> CallType]
    BY DEF RowInv, TypeOK
  <2>1. CASE Insert(c) \/ SerializationAbort(c) \/ ApproveStep(c) \/ RefuseStep(c)
    <3>1. CASE Return(c)
      BY <2>0, <3>1 DEF Return, IdleCall
    <3>2. CASE Goto(c, "confirm")
      BY <2>0, <3>2 DEF Goto, CallType
    <3>3. CASE CheckApprove(c) \/ CheckDecline(c) \/ CheckCancel(c)
      BY <2>0, <3>3 DEF CheckApprove, CheckDecline, CheckCancel, IdleCall
    <3> QED BY <2>1, <3>1, <3>2, <3>3
            DEF Insert, SerializationAbort, ApproveStep, RefuseStep, RecheckApprove, Confirm,
                ConfirmRefused, Decline, Cancel
  <2>2. ASSUME NEW d \in Calls, d # c, CreateStep(d) \/ ApproveStep(d) \/ RefuseStep(d)
        PROVE  call'[c] = call[c]
    BY <2>2, OtherCalls DEF RowInv
  <2>3. CASE (\E j \in Manual : AddManualJob(j)) \/ \E j \in Ids \cup Manual : ReleaseJob(j)
    BY <2>3 DEF AddManualJob, ReleaseJob
  <2> QED BY <2>1, <2>2, <2>3 DEF Next, vars, CreateStep
<1> QED BY <1>1, <1>2, <1>3, <1>4

\* Every step keeps bookings apart: only an insertion makes a new claim, and it
\* meets neither what its transaction has seen nor what it conflicts with.
LEMMA ApartStep ==
  ASSUME ShortBlocks, RowInv, SlotInv, NoDoubleBooking, [Next]_vars
  PROVE  NoDoubleBooking'
<1>0. TypeOK /\ TypeOK' /\ RowInv'
  BY RowStep DEF RowInv
<1> DEFINE Apart(a, b) ==
      ~OverlapsBlock(booking[a].start, BookingBlock(a).end, Buffer, BookingBlock(b))
<1> SUFFICES ASSUME NEW a \in Ids, NEW b \in Ids, a # b, Claims(a)', Claims(b)',
                    ~raced[a]', ~raced[b]'
             PROVE  Apart(a, b)'
  BY DEF NoDoubleBooking
<1>1. CASE a \in Made /\ b \in Made
  <2>1. Claims(a) /\ Claims(b) /\ ~raced[a] /\ ~raced[b]
    BY <1>1, ClaimsShrink
  <2>2. Apart(a, b)
    BY <2>1 DEF NoDoubleBooking
  <2> QED BY <1>1, <2>2, ClaimsShrink DEF OverlapsBlock
<1>2. ASSUME NEW x \in Ids \ Made, Claims(x)'
      PROVE  \E c \in Calls : /\ Insert(c)
                              /\ booking'[x].start = call[c].start
                              /\ booking'[x].service = call[c].service
                              /\ \A y \in Ids \ {x} : booking'[y] = booking[y]
  <2>1. booking[x].status = "NONE" /\ job[x].state = "none"
    BY <1>2 DEF Made, RowInv, MadeInv
  <2>2. booking'[x].status # "NONE"
    BY <1>0, <1>2 DEF Claims, RowInv, MadeInv
  <2>3. PICK c \in Calls : Insert(c)
    <3>1. ASSUME NEW c \in Calls, Confirm(c) \/ Decline(c) \/ Cancel(c)
          PROVE  booking'[x] = booking[x]
      <4>1. Holding(c, call[c].id) /\ call[c].id \in Ids
        BY <1>0, <3>1 DEF Confirm, Decline, Cancel, Holding, TypeOK, CallType
      <4>2. call[c].id # x
        BY <4>1, <2>1 DEF RowInv, MadeInv, Made
      <4> QED BY <1>0, <3>1, <4>2 DEF Confirm, Decline, Cancel, TypeOK
    <3> QED BY <2>1, <2>2, <3>1
            DEF Next, vars, CreateStep, ApproveStep, RefuseStep, CheckSlot, SerializationAbort,
                CheckApprove, RecheckApprove, ConfirmRefused, CheckDecline, CheckCancel,
                AddManualJob, ReleaseJob
  <2>4. PICK y \in Ids : booking' = [booking EXCEPT ![y] =
          [status |-> "PENDING_REVIEW", start |-> call[c].start, service |-> call[c].service]]
    BY <2>3 DEF Insert, Made
  <2>5. y = x
    BY <2>1, <2>2, <2>4 DEF RowInv, TypeOK
  <2> QED BY <1>0, <2>3, <2>4, <2>5 DEF TypeOK
<1>3. ASSUME NEW x \in Ids \ Made, NEW y \in Ids, x # y, Claims(x)', Claims(y)', ~raced[y]'
      PROVE  Apart(x, y)'
  <2>1. PICK c \in Calls : /\ Insert(c)
                           /\ booking'[x].start = call[c].start
                           /\ booking'[x].service = call[c].service
                           /\ \A z \in Ids \ {x} : booking'[z] = booking[z]
    BY <1>2, <1>3
  <2>2. y \in Made
    <3>1. booking'[y].status # "NONE"
      BY <1>0, <1>3 DEF Claims, RowInv, MadeInv
    <3> QED BY <1>3, <2>1, <3>1 DEF Made
  <2>3. Claims(y) /\ ~raced[y] /\ BookingBlock(y)' = BookingBlock(y)
    BY <1>3, <2>2, ClaimsShrink
  <2>4. ~OverlapsBlock(call[c].start, call[c].start + Block[call[c].service], Buffer, BookingBlock(y))
    BY <1>0, <2>1, <2>2, <2>3, ConflictFinds DEF SlotInv, Insert
  <2>5. BookingBlock(x)'.end = booking'[x].start + Block[booking'[x].service]
    BY DEF BookingBlock
  <2> QED BY <2>1, <2>3, <2>4, <2>5 DEF OverlapsBlock
<1>4. CASE a \notin Made
  BY <1>3, <1>4
<1>5. CASE b \notin Made
  <2>1. Apart(b, a)'
    BY <1>3, <1>5
  <2>2. /\ booking'[a].start = BookingBlock(a)'.start /\ booking'[b].start = BookingBlock(b)'.start
        /\ booking'[a].start \in Int /\ booking'[b].start \in Int
        /\ BookingBlock(a)'.end \in Int /\ BookingBlock(b)'.end \in Int
    <3>1. \A x \in Ids : booking'[x].start \in Starts /\ booking'[x].service \in Services
      BY <1>0 DEF TypeOK, BookingType
    <3>2. \A x \in Ids : booking'[x].start \in Int /\ Block[booking'[x].service] \in Int
      <4>1. Starts \subseteq Int /\ \A v \in Services : Block[v] \in Int
        BY SettingsAssumption
      <4> QED BY <3>1, <4>1
    <3>3. \A x \in Ids : /\ BookingBlock(x)'.start = booking'[x].start
                         /\ BookingBlock(x)'.end = booking'[x].start + Block[booking'[x].service]
      BY DEF BookingBlock
    <3> QED BY <3>2, <3>3
  <2> QED BY <2>1, <2>2, SettingsAssumption DEF OverlapsBlock
<1> QED BY <1>1, <1>4, <1>5

\* The page never promises overlapping times to two clients, however creates,
\* reviews, cancellations and jobs by hand interleave, as long as no service takes
\* longer than the window isSlotBlockTaken reads and the reviews of neither raced.
THEOREM NoTimeTwice == ASSUME ShortBlocks PROVE Spec => []NoDoubleBooking
<1>1. Init => BInv
  BY RowInit DEF Init, BInv, SlotInv, NoDoubleBooking, Claims, NoBooking, NoJob, IdleCall
<1>2. BInv /\ [Next]_vars => BInv'
  BY RowStep, SlotStepInv, ApartStep DEF BInv
<1>3. BInv => NoDoubleBooking
  BY DEF BInv
<1> QED BY <1>1, <1>2, <1>3, PTL DEF Spec

------------------------------------------------------------------------------
(* The window of isSlotBlockTaken and the slots of computeSlots *)

\* Every block on the calendar has whole minutes.
LEMMA OccupiedTyped ==
  ASSUME TypeOK, NEW o \in Occupied
  PROVE  o.start \in Int /\ o.end \in Int
<1>1. CASE \E j \in Ids \cup Manual : o = [start |-> job[j].start, end |-> job[j].end]
  BY <1>1 DEF TypeOK
<1>2. CASE \E b \in Ids : o = BookingBlock(b)
  BY <1>2, Typed
<1> QED BY <1>1, <1>2 DEF Occupied

\* Whatever is on the calendar, jobs by hand of any length included, a block that
\* meets a candidate and that isSlotBlockTaken does not read is longer than four
\* hours and began before the window: no shorter one is ever missed.
THEOREM WindowMissesLongOnes == Spec => []MissedOnesAreLong
<1>1. TypeOK => MissedOnesAreLong
  <2> SUFFICES ASSUME TypeOK, NEW t \in Starts, NEW v \in Services, NEW o \in Occupied,
                      OverlapsBlock(t, t + Block[v], Buffer, o), ~InWindow(o, t, Block[v], Buffer)
               PROVE  o.end - o.start > WindowPad /\ o.start < t - (Buffer + WindowPad)
    BY DEF MissedOnesAreLong
  <2>1. t \in Int /\ Block[v] \in Nat /\ o.start \in Int /\ o.end \in Int
    BY SettingsAssumption, OccupiedTyped
  <2>2. ~(o.end - o.start <= WindowPad)
    BY <2>1, WindowSuffices
  <2>3. ~(o.start < t + Block[v] + (Buffer + WindowPad)) => FALSE
    BY <2>1, SettingsAssumption DEF OverlapsBlock, WindowPad
  <2> QED BY <2>1, <2>2, <2>3, SettingsAssumption DEF InWindow, WindowPad
<1> QED BY <1>1, TypeCorrect, PTL DEF Spec

\* With active hours and a buffer clear of midnight, and a buffer of at most the
\* two hours computeSlots looks further back than isSlotBlockTaken, every slot the
\* page offers is one create would take.
THEOREM OfferIsGood == ASSUME RoomyDay PROVE Spec => []OfferedIsAccepted
<1>1. TypeOK => OfferedIsAccepted
  <2> SUFFICES ASSUME TypeOK, NEW v \in Services,
                      NEW t \in ComputeSlots(Occupied, Open, Close, Block[v], Buffer, Now, Notice, Limit)
               PROVE  /\ Bookable(t, Now, Notice, Limit)
                      /\ ~IsSlotBlockTaken(Occupied, t, Block[v], Buffer)
    BY DEF OfferedIsAccepted
  <2>1. Block[v] \in Nat
    BY SettingsAssumption
  <2>2. /\ t \in Int /\ Open <= t /\ t + Block[v] <= Close
        /\ Bookable(t, Now, Notice, Limit)
        /\ \A o \in Occupied : -LookBack <= o.start /\ o.start < Day
                               => ~OverlapsBlock(t, t + Block[v], Buffer, o)
    BY <2>1, SlotFits DEF ComputeSlots
  <2>3. ASSUME NEW o \in Occupied, InWindow(o, t, Block[v], Buffer),
               OverlapsBlock(t, t + Block[v], Buffer, o)
        PROVE  FALSE
    <3>1. o.start \in Int /\ o.end \in Int
      BY OccupiedTyped
    <3>2. -LookBack <= o.start
      BY <2>1, <2>2, <2>3, <3>1, SettingsAssumption DEF InWindow, RoomyDay, LookBack, WindowPad
    <3>3. o.start < Day
      BY <2>1, <2>2, <2>3, <3>1, SettingsAssumption DEF OverlapsBlock, RoomyDay, Day
    <3> QED BY <2>2, <2>3, <3>2, <3>3
  <2> QED BY <2>2, <2>3 DEF IsSlotBlockTaken
<1> QED BY <1>1, TypeCorrect, PTL

------------------------------------------------------------------------------
(* The event of a job: what the look-up needs, and types *)

\* Every two slots are of one place and at most an hour apart: what the look-up
\* by time and address needs to find the event of a job that was edited.
AllNear == \A s, t \in Slots : <<s, t>> \in Near

States   == {"none", "waiting", "active", "done", "failed"}
TaskRows == [kind : {"sync-job", "delete-event"}, state : States,
             throws : 0..MaxAttempts, stalls : 0..(MaxStalls + 1)]
Rows     == [pc : {"idle", "read", "search", "request", "finish"},
             task : Tasks, slot : Slots, event : 0..MaxEvents,
             retried : BOOLEAN, locked : BOOLEAN]
CallPcs  == {"idle", "addSync", "addDelete", "remove", "flush"}

\* A task waits or is worked on only while it has attempts and reruns left.
CountsOK ==
  \A k \in Tasks :
    /\ tasks[k].state \in {"waiting", "active"} =>
         tasks[k].throws < MaxAttempts /\ tasks[k].stalls <= MaxStalls
    /\ tasks[k].state = "none" => tasks[k] = NoTask

\* A worker that holds the lock of its task finds the task active.
LockOK == \A w \in Workers : worker[w].locked =>
            worker[w].pc # "idle" /\ tasks[worker[w].task].state = "active"

\* Two workers do not hold one lock.
AloneOK == \A v, w \in Workers :
             worker[v].locked /\ worker[w].locked /\ worker[v].task = worker[w].task => v = w

TypeInv == SyncTypeOK /\ CountsOK /\ LockOK /\ AloneOK

------------------------------------------------------------------------------
(* Rows of the queue *)

\* The two ways a task's row is written.
Thrown(f, k, n, s)     == [f EXCEPT ![k].throws = n, ![k].state = s]
StalledRow(f, k, n, s) == [f EXCEPT ![k].stalls = n, ![k].state = s]

\* A task whose throws and state were written: no other field and no other task changes.
LEMMA ThrowsUpdate ==
  ASSUME NEW f \in [Tasks -> TaskRows], NEW k \in Tasks, NEW n \in 0..MaxAttempts, NEW s \in States,
         NEW g, g = Thrown(f, k, n, s)
  PROVE  /\ g \in [Tasks -> TaskRows]
         /\ g[k].throws = n /\ g[k].state = s /\ g[k].stalls = f[k].stalls /\ g[k].kind = f[k].kind
         /\ \A j \in Tasks \ {k} : g[j] = f[j]
<1> DEFINE one == [f[k] EXCEPT !.throws = n]
           two == [f[k] EXCEPT !.throws = n, !.state = s]
<1>1. /\ one \in TaskRows /\ one.throws = n /\ one.state = f[k].state
      /\ one.stalls = f[k].stalls /\ one.kind = f[k].kind
  BY DEF TaskRows
<1>2. two = [one EXCEPT !.state = s]
  OBVIOUS
<1>3. g = [f EXCEPT ![k] = two]
  <2> DEFINE h == [f EXCEPT ![k].throws = n]
  <2>1. h = [f EXCEPT ![k] = one]
    BY Zenon
  <2>2. g = [h EXCEPT ![k].state = s]
    BY Zenon DEF Thrown
  <2>3. h[k] = one
    BY <2>1, Zenon
  <2>4. [h EXCEPT ![k].state = s] = [h EXCEPT ![k] = [h[k] EXCEPT !.state = s]]
    BY Zenon
  <2> QED BY <1>2, <2>1, <2>2, <2>3, <2>4
<1> HIDE DEF one, two
<1>4. /\ two \in TaskRows /\ two.throws = one.throws /\ two.state = s
      /\ two.stalls = one.stalls /\ two.kind = one.kind
  BY <1>1, <1>2 DEF TaskRows
<1> QED BY <1>1, <1>3, <1>4

\* A task whose stalls and state were written: no other field and no other task changes.
LEMMA StallsUpdate ==
  ASSUME NEW f \in [Tasks -> TaskRows], NEW k \in Tasks, NEW n \in 0..(MaxStalls + 1), NEW s \in States,
         NEW g, g = StalledRow(f, k, n, s)
  PROVE  /\ g \in [Tasks -> TaskRows]
         /\ g[k].stalls = n /\ g[k].state = s /\ g[k].throws = f[k].throws /\ g[k].kind = f[k].kind
         /\ \A j \in Tasks \ {k} : g[j] = f[j]
<1> DEFINE one == [f[k] EXCEPT !.stalls = n]
           two == [f[k] EXCEPT !.stalls = n, !.state = s]
<1>1. /\ one \in TaskRows /\ one.stalls = n /\ one.state = f[k].state
      /\ one.throws = f[k].throws /\ one.kind = f[k].kind
  BY DEF TaskRows
<1>2. two = [one EXCEPT !.state = s]
  OBVIOUS
<1>3. g = [f EXCEPT ![k] = two]
  <2> DEFINE h == [f EXCEPT ![k].stalls = n]
  <2>1. h = [f EXCEPT ![k] = one]
    BY Zenon
  <2>2. g = [h EXCEPT ![k].state = s]
    BY Zenon DEF StalledRow
  <2>3. h[k] = one
    BY <2>1, Zenon
  <2>4. [h EXCEPT ![k].state = s] = [h EXCEPT ![k] = [h[k] EXCEPT !.state = s]]
    BY Zenon
  <2> QED BY <1>2, <2>1, <2>2, <2>3, <2>4
<1> HIDE DEF one, two
<1>4. /\ two \in TaskRows /\ two.stalls = one.stalls /\ two.state = s
      /\ two.throws = one.throws /\ two.kind = one.kind
  BY <1>1, <1>2 DEF TaskRows
<1> QED BY <1>1, <1>3, <1>4

\* The record of a task that was just added.
LEMMA NewTask ==
  ASSUME NEW kind \in {"sync-job", "delete-event"}
  PROVE  [NoTask EXCEPT !.kind = kind, !.state = "waiting"] =
           [kind |-> kind, state |-> "waiting", throws |-> 0, stalls |-> 0]
<1> DEFINE row(state) == [kind |-> kind, state |-> state, throws |-> 0, stalls |-> 0]
           new        == [NoTask EXCEPT !.kind = kind, !.state = "waiting"]
<1>1. [NoTask EXCEPT !.kind = kind] = row("none")
  <2>1. /\ [NoTask EXCEPT !.kind = "sync-job"] =
             [kind |-> "sync-job", state |-> "none", throws |-> 0, stalls |-> 0]
        /\ [NoTask EXCEPT !.kind = "delete-event"] =
             [kind |-> "delete-event", state |-> "none", throws |-> 0, stalls |-> 0]
    BY DEF NoTask
  <2>2. kind = "sync-job" \/ kind = "delete-event"
    OBVIOUS
  <2> QED BY <2>1, <2>2, Zenon
<1>2. new = [[NoTask EXCEPT !.kind = kind] EXCEPT !.state = "waiting"]
  OBVIOUS
<1>3. new = [row("none") EXCEPT !.state = "waiting"]
  BY <1>1, <1>2, Zenon
<1>4. [row("none") EXCEPT !.state = "waiting"] = row("waiting")
  OBVIOUS
<1> QED BY <1>3, <1>4, Zenon

------------------------------------------------------------------------------
(* The initial state, and the calls *)

LEMMA Initially ==
  ASSUME BoundsAssumption, SyncInit PROVE TypeInv
<1>0. ASlot \in Slots
  BY DEF ASlot, SyncInit
<1>a. 1 \in Tasks /\ 0 \in 0..MaxEvents /\ 0 \in 0..MaxFaults /\ 0 \in 0..(MaxTasks - 1)
  BY DEF Tasks, BoundsAssumption
<1>b. IdleWorker \in Rows
  BY <1>0, <1>a DEF IdleWorker, Rows
<1>c. NoTask \in TaskRows /\ [NoTask EXCEPT !.state = "waiting"] \in TaskRows
  BY DEF NoTask, TaskRows, States, MaxAttempts, MaxStalls
<1>d. tasks \in [Tasks -> TaskRows]
  <2>1. \A k \in Tasks : tasks[k] \in TaskRows
    BY <1>c DEF SyncInit
  <2> QED BY <2>1 DEF SyncInit
<1>e. worker \in [Workers -> Rows]
  BY <1>b DEF SyncInit
<1>f. signing \in [live : BOOLEAN, slot : Slots] /\ {overtaken, blind, lost} \subseteq BOOLEAN
  BY DEF SyncInit
<1>1. SyncTypeOK
  BY <1>a, <1>d, <1>e, <1>f DEF SyncInit, SyncTypeOK, TaskRows, States, Rows
<1>2. CountsOK
  BY DEF SyncInit, CountsOK, Tasks, NoTask, MaxAttempts, MaxStalls
<1>3. LockOK /\ AloneOK
  BY DEF SyncInit, LockOK, AloneOK, IdleWorker
<1> QED BY <1>1, <1>2, <1>3 DEF TypeInv

LEMMA IdleIsRow ==
  ASSUME BoundsAssumption, SyncTypeOK PROVE IdleWorker \in Rows /\ ~IdleWorker.locked
<1>1. ASlot \in Slots
  BY DEF ASlot, SyncTypeOK
<1>2. 1 \in Tasks /\ 0 \in 0..MaxEvents
  BY DEF Tasks, BoundsAssumption
<1> QED BY <1>1, <1>2 DEF IdleWorker, Rows

LEMMA RacedIsBoolean == Overtake \in BOOLEAN
BY DEF Overtake

\* Adding a task touches nothing that is waited for or worked on.
LEMMA EnqueueKeepsTypes ==
  ASSUME BoundsAssumption, TypeInv, NEW kind \in {"sync-job", "delete-event"}, Enqueue(kind),
         UNCHANGED worker
  PROVE  /\ tasks' \in [Tasks -> TaskRows] /\ faults' \in 0..MaxFaults /\ lost' \in BOOLEAN
         /\ CountsOK' /\ LockOK' /\ AloneOK'
<1>1. CASE \E k \in Tasks :
             /\ tasks[k].state = "none" /\ \A j \in 1..(k - 1) : tasks[j].state # "none"
             /\ tasks' = [tasks EXCEPT ![k] = [NoTask EXCEPT !.kind = kind, !.state = "waiting"]]
             /\ UNCHANGED <<faults, lost>>
  <2>1. PICK k \in Tasks :
          /\ tasks[k].state = "none"
          /\ tasks' = [tasks EXCEPT ![k] = [NoTask EXCEPT !.kind = kind, !.state = "waiting"]]
          /\ UNCHANGED <<faults, lost>>
    BY <1>1
  <2> DEFINE new == [NoTask EXCEPT !.kind = kind, !.state = "waiting"]
  <2>2. /\ new \in TaskRows /\ new.state = "waiting" /\ new.throws = 0 /\ new.stalls = 0
    <3>1. new = [kind |-> kind, state |-> "waiting", throws |-> 0, stalls |-> 0]
      BY NewTask
    <3> HIDE DEF new
    <3> QED BY <3>1 DEF TaskRows, States, MaxAttempts, MaxStalls
  <2>3. tasks \in [Tasks -> TaskRows] /\ faults \in 0..MaxFaults /\ lost \in BOOLEAN
    BY DEF TypeInv, SyncTypeOK, TaskRows, States
  <2>4. tasks' = [tasks EXCEPT ![k] = new]
    BY <2>1
  <2> HIDE DEF new
  <2>5. tasks' \in [Tasks -> TaskRows] /\ faults' \in 0..MaxFaults /\ lost' \in BOOLEAN
    BY <2>1, <2>2, <2>3, <2>4
  <2>6. CountsOK'
    BY <2>2, <2>3, <2>4 DEF TypeInv, CountsOK, MaxAttempts, MaxStalls
  <2>7. LockOK' /\ AloneOK'
    BY <2>1, <2>2, <2>3, <2>4 DEF TypeInv, SyncTypeOK, LockOK, AloneOK
  <2> QED BY <2>5, <2>6, <2>7
<1>2. CASE Fault /\ lost' = TRUE /\ UNCHANGED tasks
  BY <1>2 DEF TypeInv, SyncTypeOK, CountsOK, LockOK, AloneOK, Fault, TaskRows, States, BoundsAssumption
<1> QED BY <1>1, <1>2 DEF Enqueue

LEMMA CallsKeepTypes ==
  ASSUME BoundsAssumption, TypeInv, NEW c \in Edits, ApiStep(c), overtaken' \in BOOLEAN
  PROVE  TypeInv'
<1> USE DEF BoundsAssumption
<1>0. SyncTypeOK /\ CountsOK /\ LockOK /\ AloneOK
  BY DEF TypeInv
<1>1. CASE WriteEdit(c)
  <2>1. SyncTypeOK'
    BY <1>0, <1>1 DEF SyncTypeOK, WriteEdit, Begin
  <2> QED BY <1>0, <1>1, <2>1 DEF WriteEdit, TypeInv, CountsOK, LockOK, AloneOK
<1>2. CASE EnqueueSync(c)
  <2>1. Enqueue("sync-job") /\ UNCHANGED worker
    BY <1>2 DEF EnqueueSync
  <2>2. /\ tasks' \in [Tasks -> TaskRows] /\ faults' \in 0..MaxFaults /\ lost' \in BOOLEAN
        /\ CountsOK' /\ LockOK' /\ AloneOK'
    BY <2>1, EnqueueKeepsTypes
  <2>3. SyncTypeOK'
    BY <1>0, <1>2, <2>2 DEF SyncTypeOK, EnqueueSync, TaskRows, States
  <2> QED BY <2>2, <2>3 DEF TypeInv
<1>3. CASE BeginRemove(c)
  <2>1. SyncTypeOK'
    BY <1>0, <1>3 DEF SyncTypeOK, BeginRemove, Begin
  <2> QED BY <1>0, <1>3, <2>1 DEF BeginRemove, TypeInv, CountsOK, LockOK, AloneOK
<1>4. CASE EnqueueDelete(c)
  <2>1. Enqueue("delete-event") /\ UNCHANGED worker
    BY <1>4 DEF EnqueueDelete
  <2>2. /\ tasks' \in [Tasks -> TaskRows] /\ faults' \in 0..MaxFaults /\ lost' \in BOOLEAN
        /\ CountsOK' /\ LockOK' /\ AloneOK'
    BY <2>1, EnqueueKeepsTypes
  <2>3. SyncTypeOK'
    BY <1>0, <1>4, <2>2 DEF SyncTypeOK, EnqueueDelete, TaskRows, States
  <2> QED BY <2>2, <2>3 DEF TypeInv
<1>5. CASE WriteDeleted(c)
  <2>1. SyncTypeOK'
    BY <1>0, <1>5 DEF SyncTypeOK, WriteDeleted
  <2> QED BY <1>0, <1>5, <2>1 DEF WriteDeleted, TypeInv, CountsOK, LockOK, AloneOK
<1>6. CASE CallFails(c)
  <2>1. faults' \in 0..MaxFaults
    BY <1>0, <1>6 DEF SyncTypeOK, CallFails, Fault
  <2>2. lost' \in BOOLEAN
    BY <1>0, <1>6, Zenon DEF CallFails
  <2>3. edit' \in [Edits -> {"idle", "addSync", "addDelete", "remove", "flush"}]
    BY <1>0, <1>6 DEF SyncTypeOK, CallFails
  <2>4. UNCHANGED <<signing, events, tasks, worker, token, ops, blind>>
    BY <1>6 DEF CallFails
  <2>5. SyncTypeOK'
    BY <1>0, <2>1, <2>2, <2>3, <2>4 DEF SyncTypeOK
  <2> QED BY <1>0, <2>4, <2>5 DEF TypeInv, CountsOK, LockOK, AloneOK
<1> QED BY <1>1, <1>2, <1>3, <1>4, <1>5, <1>6 DEF ApiStep
------------------------------------------------------------------------------
(* What the parts of a handler's step do to the types *)

\* The rows of the queue and of the workers, and how they fit each other.
QueueInv ==
  /\ tasks \in [Tasks -> TaskRows] /\ worker \in [Workers -> Rows]
  /\ CountsOK /\ LockOK /\ AloneOK

LEMMA QueueInvOfTypeInv == TypeInv => QueueInv
BY DEF TypeInv, SyncTypeOK, QueueInv, TaskRows, States, Rows

\* The rest of TypeOK.
RestInv ==
  /\ signing \in [live : BOOLEAN, slot : Slots]
  /\ events \in [Events -> Slots \cup {"none"}]
  /\ edit \in [Edits -> CallPcs]
  /\ token \in {"accepted", "rejected"}
  /\ ops \in 0..(MaxTasks - 1) /\ faults \in 0..MaxFaults
  /\ overtaken \in BOOLEAN /\ blind \in BOOLEAN /\ lost \in BOOLEAN

LEMMA TypeInvParts == TypeInv <=> QueueInv /\ RestInv
BY DEF TypeInv, SyncTypeOK, QueueInv, RestInv, TaskRows, States, Rows, CallPcs

LEMMA TypeInvNext == QueueInv' /\ RestInv' => TypeInv'
BY DEF TypeInv, SyncTypeOK, QueueInv, RestInv, TaskRows, States, Rows, CallPcs

\* A task that is no longer waiting for the first time, and one that is over.
Added(k)   == tasks[k].state # "none"
Over(k)    == tasks[k].state \in {"done", "failed"}
Touched(k) == Added(k) /\ ~Fresh(k)

\* The step wrote the state of an active task, and no other task but it.
Wrote(k, state) ==
  /\ tasks[k].state = "active" /\ tasks'[k].state = state
  /\ tasks'[k].kind = tasks[k].kind
  /\ state = "waiting" => tasks'[k].throws # 0 \/ tasks'[k].stalls # 0

\* A worker that is given up, done or not, keeps no lock.
LEMMA FinishKeepsTypes ==
  ASSUME BoundsAssumption, TypeInv, NEW w \in Workers, Finish(w)
  PROVE  /\ QueueInv'
         /\ \A k \in Tasks : tasks'[k] = tasks[k] \/ (worker[w].locked /\ Wrote(k, "done"))
<1>1. QueueInv /\ IdleWorker \in Rows /\ ~IdleWorker.locked
  BY IdleIsRow, QueueInvOfTypeInv DEF TypeInv
<1>2. worker' = [worker EXCEPT ![w] = IdleWorker]
  BY DEF Finish
<1>3. worker' \in [Workers -> Rows] /\ worker[w].task \in Tasks
  BY <1>1, <1>2 DEF QueueInv, Rows
<1>4. CASE worker[w].locked
  <2>1. tasks' = [tasks EXCEPT ![worker[w].task].state = "done"]
    BY <1>4 DEF Finish
  <2>2. tasks' \in [Tasks -> TaskRows]
    BY <1>1, <1>3, <2>1 DEF QueueInv, TaskRows, States
  <2>3. CountsOK'
    BY <1>1, <1>3, <2>1 DEF QueueInv, CountsOK, TaskRows
  <2>4. LockOK' /\ AloneOK'
    BY <1>1, <1>2, <1>3, <1>4, <2>1 DEF QueueInv, LockOK, AloneOK, TaskRows
  <2>5. Wrote(worker[w].task, "done") /\ \A k \in Tasks \ {worker[w].task} : tasks'[k] = tasks[k]
    BY <1>1, <1>3, <1>4, <2>1 DEF QueueInv, LockOK, TaskRows, Wrote
  <2> QED BY <1>3, <1>4, <2>2, <2>3, <2>4, <2>5 DEF QueueInv
<1>5. CASE ~worker[w].locked
  <2>1. tasks' = tasks
    BY <1>1, <1>3, <1>5 DEF Finish, QueueInv, TaskRows
  <2>2. CountsOK' /\ LockOK' /\ AloneOK'
    BY <1>1, <1>2, <2>1 DEF QueueInv, CountsOK, LockOK, AloneOK
  <2> QED BY <1>1, <1>3, <2>1, <2>2 DEF QueueInv
<1> QED BY <1>4, <1>5

LEMMA RethrowKeepsTypes ==
  ASSUME BoundsAssumption, TypeInv, NEW w \in Workers, Rethrow(w)
  PROVE  /\ QueueInv' /\ lost' \in BOOLEAN
         /\ \A k \in Tasks : \/ tasks'[k] = tasks[k]
                           \/ Wrote(k, "waiting") \/ (Wrote(k, "failed") /\ lost')
         /\ lost => lost'
<1>1. QueueInv /\ IdleWorker \in Rows /\ ~IdleWorker.locked
  BY IdleIsRow, QueueInvOfTypeInv DEF TypeInv
<1>2. worker' = [worker EXCEPT ![w] = IdleWorker] /\ lost' \in BOOLEAN
  BY DEF Rethrow
<1>3. worker' \in [Workers -> Rows] /\ worker[w].task \in Tasks
  BY <1>1, <1>2 DEF QueueInv, Rows
<1>4. CASE worker[w].locked
  <2> DEFINE k == worker[w].task
             n == tasks[k].throws + 1
             s == IF n < MaxAttempts THEN "waiting" ELSE "failed"
  <2>1. k \in Tasks /\ n \in 0..MaxAttempts /\ s \in States /\ tasks[k].stalls <= MaxStalls
    BY <1>1, <1>3, <1>4 DEF QueueInv, LockOK, CountsOK, TaskRows, States, MaxAttempts
  <2>2. tasks' = Thrown(tasks, k, n, s)
    BY <1>4 DEF Rethrow, Thrown
  <2>3. /\ tasks \in [Tasks -> TaskRows] /\ tasks' \in [Tasks -> TaskRows]
        /\ tasks'[k].throws = n /\ tasks'[k].state = s /\ tasks'[k].stalls = tasks[k].stalls
        /\ \A j \in Tasks \ {k} : tasks'[j] = tasks[j]
    <3>1. tasks \in [Tasks -> TaskRows]
      BY <1>1 DEF QueueInv
    <3> HIDE DEF k, n, s
    <3> QED BY <3>1, <2>1, <2>2, ThrowsUpdate
  <2>4. CountsOK'
    <3>1. s \in {"waiting", "failed"} /\ (s = "waiting" => n < MaxAttempts)
      OBVIOUS
    <3> HIDE DEF k, n, s
    <3> QED BY <1>1, <2>1, <2>3, <3>1 DEF QueueInv, CountsOK, MaxAttempts
  <2>5. LockOK' /\ AloneOK'
    <3>1. \A v \in Workers \ {w} : worker[v].locked => worker[v].task # k
      BY <1>1, <1>4 DEF QueueInv, AloneOK
    <3> HIDE DEF k, n, s
    <3> QED BY <1>1, <1>2, <2>1, <2>3, <3>1 DEF QueueInv, LockOK, AloneOK, Rows
  <2>6. (lost => lost') /\ (s = "failed" => lost')
    <3>1. lost' = (lost \/ n = MaxAttempts)
      BY <1>4, Zenon DEF Rethrow
    <3>2. s = "failed" => n = MaxAttempts
      BY <2>1 DEF MaxAttempts
    <3> QED BY <3>1, <3>2, Zenon
  <2>7. tasks'[k].kind = tasks[k].kind /\ s \in {"waiting", "failed"} /\ tasks[k].state = "active"
    <3>1. tasks \in [Tasks -> TaskRows]
      BY <1>1 DEF QueueInv
    <3>2. tasks[k].state = "active" /\ s \in {"waiting", "failed"}
      BY <1>1, <1>4 DEF QueueInv, LockOK
    <3> HIDE DEF k, n, s
    <3> QED BY <3>1, <3>2, <2>1, <2>2, ThrowsUpdate
  <2>8. Wrote(k, s)
    <3>1. n # 0
      BY <1>1, <2>1 DEF QueueInv, TaskRows
    <3> HIDE DEF k, n, s
    <3> QED BY <2>3, <2>7, <3>1 DEF Wrote
  <2>9. \A j \in Tasks : j = k \/ tasks'[j] = tasks[j]
    BY <2>3
  <2> HIDE DEF k, n, s
  <2> QED BY <1>2, <1>3, <2>3, <2>4, <2>5, <2>6, <2>7, <2>8, <2>9 DEF QueueInv
<1>5. CASE ~worker[w].locked
  <2>1. tasks' = tasks
    BY <1>5 DEF Rethrow
  <2>2. CountsOK' /\ LockOK' /\ AloneOK'
    BY <1>1, <1>2, <2>1 DEF QueueInv, CountsOK, LockOK, AloneOK
  <2>3. lost' = lost
    BY <1>1, <1>5 DEF Rethrow, TypeInv, SyncTypeOK
  <2> QED BY <1>1, <1>2, <1>3, <2>1, <2>2, <2>3 DEF QueueInv
<1> QED BY <1>4, <1>5

\* A worker that goes on with its task.
LEMMA ProceedKeepsTypes ==
  ASSUME BoundsAssumption, TypeInv, NEW w \in Workers, NEW row \in Rows,
         row.pc # "idle", row.task = worker[w].task, row.locked = worker[w].locked,
         worker' = [worker EXCEPT ![w] = row], UNCHANGED tasks
  PROVE  QueueInv'
<1>1. QueueInv
  BY QueueInvOfTypeInv
<1>2. worker' \in [Workers -> Rows]
  BY <1>1 DEF QueueInv
<1>3. CountsOK' /\ LockOK' /\ AloneOK'
  BY <1>1 DEF QueueInv, CountsOK, LockOK, AloneOK
<1> QED BY <1>1, <1>2, <1>3 DEF QueueInv

LEMMA ApplyKeepsTypes ==
  ASSUME BoundsAssumption, TypeInv, NEW w \in Workers, Apply(w)
  PROVE  events' \in [Events -> Slots \cup {"none"}]
<1>1. /\ worker[w].slot \in Slots
      /\ events \in [Events -> Slots \cup {"none"}]
  BY DEF TypeInv, SyncTypeOK
<1>2. \/ events' = [events EXCEPT ![worker[w].event] = "none"]
      \/ events' = [events EXCEPT ![worker[w].event] = worker[w].slot]
      \/ \E f \in Events : events' = [events EXCEPT ![f] = worker[w].slot]
  BY DEF Apply
<1> QED BY <1>1, <1>2
------------------------------------------------------------------------------
(* The steps of the queue and of the handlers *)

LEMMA StalledKeepsTypes ==
  ASSUME BoundsAssumption, TypeInv, NEW k \in Tasks, Stalled(k)
  PROVE  /\ QueueInv' /\ faults' \in 0..MaxFaults /\ lost' \in BOOLEAN
         /\ \A j \in Tasks \ {k} : tasks'[j] = tasks[j]
         /\ Wrote(k, "waiting") \/ (Wrote(k, "failed") /\ lost')
         /\ lost => lost'
         /\ \A w \in Workers : worker'[w].pc = worker[w].pc /\ worker'[w].task = worker[w].task
                             /\ worker'[w].slot = worker[w].slot
                             /\ worker'[w].event = worker[w].event
<1> DEFINE holders == {w \in Workers : worker[w].task = k /\ worker[w].locked}
           n == tasks[k].stalls + 1
           s == IF tasks[k].stalls < MaxStalls THEN "waiting" ELSE "failed"
<1>1. QueueInv /\ RestInv
  BY TypeInvParts
<1>2. faults' \in 0..MaxFaults /\ lost' \in BOOLEAN
  BY <1>1 DEF Stalled, Fault, RestInv, BoundsAssumption
<1>3. worker' = [w \in Workers |-> IF w \in holders THEN [worker[w] EXCEPT !.locked = FALSE]
                                   ELSE worker[w]]
  BY DEF Stalled
<1>4. /\ worker' \in [Workers -> Rows]
      /\ \A w \in Workers : /\ worker'[w].task = worker[w].task /\ worker'[w].pc = worker[w].pc
                            /\ worker'[w].slot = worker[w].slot
                            /\ worker'[w].event = worker[w].event
                            /\ worker'[w].locked = (worker[w].locked /\ worker[w].task # k)
  <2>1. \A w \in Workers : worker[w] \in Rows
    BY <1>1 DEF QueueInv
  <2>2. \A r \in Rows : /\ [r EXCEPT !.locked = FALSE] \in Rows
                        /\ [r EXCEPT !.locked = FALSE].task = r.task
                        /\ [r EXCEPT !.locked = FALSE].pc = r.pc
                        /\ [r EXCEPT !.locked = FALSE].slot = r.slot
                        /\ [r EXCEPT !.locked = FALSE].event = r.event
                        /\ [r EXCEPT !.locked = FALSE].locked = FALSE
    BY DEF Rows
  <2>3. \A r \in Rows : r.locked \in BOOLEAN
    BY DEF Rows
  <2>4. /\ worker' \in [Workers -> Rows]
        /\ \A w \in Workers : worker'[w] = IF w \in holders THEN [worker[w] EXCEPT !.locked = FALSE]
                                          ELSE worker[w]
    BY <1>3, <2>1, <2>2
  <2> QED BY <2>1, <2>2, <2>3, <2>4
<1>5. /\ n \in 0..(MaxStalls + 1) /\ s \in {"waiting", "failed"} /\ s \in States
      /\ s = "waiting" => n <= MaxStalls
      /\ tasks[k].throws < MaxAttempts
  BY <1>1 DEF Stalled, QueueInv, CountsOK, TaskRows, States, MaxStalls
<1>6. tasks' = StalledRow(tasks, k, n, s)
  BY DEF Stalled, StalledRow
<1>7. /\ tasks' \in [Tasks -> TaskRows]
      /\ tasks'[k].stalls = n /\ tasks'[k].state = s /\ tasks'[k].throws = tasks[k].throws
      /\ \A j \in Tasks \ {k} : tasks'[j] = tasks[j]
  <2>1. tasks \in [Tasks -> TaskRows]
    BY <1>1 DEF QueueInv
  <2> HIDE DEF n, s
  <2> QED BY <1>5, <1>6, <2>1, StallsUpdate
<1>8. CountsOK'
  <2> HIDE DEF n, s
  <2> QED BY <1>1, <1>5, <1>7 DEF QueueInv, CountsOK, MaxStalls
<1>9. LockOK' /\ AloneOK'
  BY <1>1, <1>4, <1>7 DEF QueueInv, LockOK, AloneOK, Rows
<1>10. (lost => lost') /\ (s = "failed" => lost') /\ tasks[k].state = "active"
  BY <1>1 DEF Stalled, QueueInv, CountsOK, TaskRows, MaxStalls
<1>11. Wrote(k, s)
  <2>1. tasks \in [Tasks -> TaskRows] /\ n # 0
    BY <1>1 DEF QueueInv, TaskRows
  <2> HIDE DEF n, s
  <2>2. tasks'[k].kind = tasks[k].kind
    BY <1>5, <1>6, <2>1, StallsUpdate
  <2> QED BY <1>5, <1>7, <1>10, <2>1, <2>2 DEF Wrote
<1> HIDE DEF n, s
<1> QED BY <1>2, <1>4, <1>5, <1>7, <1>8, <1>9, <1>10, <1>11 DEF QueueInv

LEMMA TakeKeepsTypes ==
  ASSUME BoundsAssumption, TypeInv, NEW w \in Workers, NEW k \in Tasks, Take(w, k)
  PROVE  QueueInv'
<1> DEFINE row == [IdleWorker EXCEPT !.pc = "read", !.task = k, !.locked = TRUE]
<1>1. QueueInv /\ IdleWorker \in Rows
  BY IdleIsRow, QueueInvOfTypeInv DEF TypeInv
<1>2. row \in Rows /\ row.pc = "read" /\ row.task = k /\ row.locked = TRUE
  <2>1. \A r \in Rows : [r EXCEPT !.pc = "read"] \in Rows /\ [r EXCEPT !.pc = "read"].pc = "read"
    BY DEF Rows
  <2>2. \A r \in Rows : /\ [r EXCEPT !.task = k] \in Rows /\ [r EXCEPT !.task = k].task = k
                        /\ [r EXCEPT !.task = k].pc = r.pc
    BY DEF Rows
  <2>3. \A r \in Rows : /\ [r EXCEPT !.locked = TRUE] \in Rows
                        /\ [r EXCEPT !.locked = TRUE].locked = TRUE
                        /\ [r EXCEPT !.locked = TRUE].pc = r.pc
                        /\ [r EXCEPT !.locked = TRUE].task = r.task
    BY DEF Rows
  <2> DEFINE one == [IdleWorker EXCEPT !.pc = "read"]
             two == [one EXCEPT !.task = k]
  <2>4. row = [two EXCEPT !.locked = TRUE]
    OBVIOUS
  <2>5. one \in Rows /\ one.pc = "read"
    BY <1>1, <2>1
  <2>6. two \in Rows /\ two.pc = "read" /\ two.task = k
    <3> HIDE DEF one
    <3> QED BY <2>2, <2>5
  <2> HIDE DEF two, row
  <2> QED BY <2>3, <2>4, <2>6
<1>3. worker' = [worker EXCEPT ![w] = row]
  BY DEF Take
<1> HIDE DEF row
<1>4. tasks' = [tasks EXCEPT ![k].state = "active"]
  BY DEF Take
<1>5. tasks[k].state = "waiting" /\ worker[w].pc = "idle"
  BY DEF Take
<1>6. tasks' \in [Tasks -> TaskRows] /\ worker' \in [Workers -> Rows]
  BY <1>1, <1>2, <1>3, <1>4 DEF QueueInv, TaskRows, States
<1>7. CountsOK'
  BY <1>1, <1>4, <1>5 DEF QueueInv, CountsOK, TaskRows
<1>8. LockOK' /\ AloneOK'
  BY <1>1, <1>2, <1>3, <1>4, <1>5 DEF QueueInv, LockOK, AloneOK, TaskRows
<1> QED BY <1>6, <1>7, <1>8 DEF QueueInv

LEMMA CrashKeepsTypes ==
  ASSUME BoundsAssumption, TypeInv, NEW w \in Workers, Crash(w)
  PROVE  QueueInv' /\ faults' \in 0..MaxFaults
<1>1. QueueInv /\ RestInv /\ IdleWorker \in Rows /\ ~IdleWorker.locked
  BY IdleIsRow, TypeInvParts DEF TypeInv
<1>2. /\ worker' = [worker EXCEPT ![w] = IdleWorker] /\ tasks' = tasks
      /\ faults' \in 0..MaxFaults
  BY <1>1 DEF Crash, Fault, RestInv, BoundsAssumption
<1>3. CountsOK' /\ LockOK' /\ AloneOK'
  BY <1>1, <1>2 DEF QueueInv, CountsOK, LockOK, AloneOK
<1> QED BY <1>1, <1>2, <1>3 DEF QueueInv

\* A step that leaves the queue alone changes a row's pc, slot, event or retried.
LEMMA HandlersKeepTypes ==
  ASSUME BoundsAssumption, TypeInv, NEW w \in Workers, HandlerStep(w), overtaken' \in BOOLEAN
  PROVE  TypeInv'
<1> USE DEF BoundsAssumption
<1>0. QueueInv /\ RestInv
  BY TypeInvParts
<1>r. worker[w] \in Rows
  BY <1>0 DEF QueueInv
<1>f. Fault => faults' \in 0..MaxFaults
  BY <1>0 DEF Fault, RestInv
<1>1. CASE ReadJob(w)
  <2> DEFINE row == [worker[w] EXCEPT !.pc = "search", !.slot = signing.slot]
  <2>1. worker' = [worker EXCEPT ![w] = row] /\ UNCHANGED tasks /\ signing.slot \in Slots
    BY <1>0, <1>1 DEF ReadJob, RestInv, QueueInv
  <2>2. row \in Rows /\ row.pc # "idle" /\ row.task = worker[w].task /\ row.locked = worker[w].locked
    BY <1>r, <2>1 DEF Rows
  <2> HIDE DEF row
  <2>3. QueueInv'
    BY <2>1, <2>2, ProceedKeepsTypes
  <2>4. RestInv'
    BY <1>0, <1>1 DEF RestInv, ReadJob
  <2> QED BY <2>3, <2>4, TypeInvNext
<1>2. CASE Search(w)
  <2>1. PICK e \in 0..MaxEvents :
          worker' = [worker EXCEPT ![w].pc = "request", ![w].event = e]
    <3>1. 0 \in 0..MaxEvents /\ \A s : Matching(s) \subseteq 0..MaxEvents
      BY DEF Matching, Events
    <3> QED BY <1>2, <3>1 DEF Search
  <2> DEFINE row == [worker[w] EXCEPT !.pc = "request", !.event = e]
  <2>2. worker' = [worker EXCEPT ![w] = row] /\ UNCHANGED tasks
    BY <1>0, <1>2, <2>1 DEF QueueInv, Search
  <2>3. row \in Rows /\ row.pc # "idle" /\ row.task = worker[w].task /\ row.locked = worker[w].locked
    BY <1>r DEF Rows
  <2> HIDE DEF row
  <2>4. QueueInv'
    BY <2>2, <2>3, ProceedKeepsTypes
  <2>5. RestInv'
    BY <1>0, <1>2, <1>f DEF RestInv, Search
  <2> QED BY <2>4, <2>5, TypeInvNext
<1>3. CASE HandlerThrows(w)
  <2>1. QueueInv' /\ lost' \in BOOLEAN
    BY <1>3, RethrowKeepsTypes DEF HandlerThrows
  <2>2. RestInv'
    BY <1>0, <1>3, <1>f, <2>1 DEF RestInv, HandlerThrows
  <2> QED BY <2>1, <2>2, TypeInvNext
<1>4. CASE NoEvent(w)
  <2>1. QueueInv'
    BY <1>4, FinishKeepsTypes DEF NoEvent
  <2>2. RestInv'
    BY <1>0, <1>4 DEF RestInv, NoEvent
  <2> QED BY <2>1, <2>2, TypeInvNext
<1>5. CASE Request(w)
  <2> DEFINE row == [worker[w] EXCEPT !.pc = "finish"]
  <2>1. worker' = [worker EXCEPT ![w] = row] /\ UNCHANGED tasks
    BY <1>0, <1>5 DEF QueueInv, Request, Proceed
  <2>2. row \in Rows /\ row.pc # "idle" /\ row.task = worker[w].task /\ row.locked = worker[w].locked
    BY <1>r DEF Rows
  <2> HIDE DEF row
  <2>3. QueueInv'
    BY <2>1, <2>2, ProceedKeepsTypes
  <2>4. RestInv'
    BY <1>0, <1>5, ApplyKeepsTypes DEF RestInv, Request
  <2> QED BY <2>3, <2>4, TypeInvNext
<1>6. CASE RequestRejected(w)
  <2>1. CASE Rethrow(w) /\ Fault /\ UNCHANGED token
    <3>1. QueueInv' /\ lost' \in BOOLEAN
      BY <2>1, RethrowKeepsTypes
    <3>2. RestInv'
      BY <1>0, <1>6, <1>f, <2>1, <3>1 DEF RestInv, RequestRejected
    <3> QED BY <3>1, <3>2, TypeInvNext
  <2>2. CASE /\ token' = "accepted" /\ worker' = [worker EXCEPT ![w].retried = TRUE]
             /\ UNCHANGED <<tasks, faults, lost>>
    <3> DEFINE row == [worker[w] EXCEPT !.retried = TRUE]
    <3>1. worker' = [worker EXCEPT ![w] = row] /\ UNCHANGED tasks /\ worker[w].pc # "idle"
      BY <1>0, <1>6, <2>2 DEF QueueInv, RequestRejected
    <3>2. /\ row \in Rows /\ row.pc = worker[w].pc /\ row.task = worker[w].task
          /\ row.locked = worker[w].locked
      BY <1>r DEF Rows
    <3> HIDE DEF row
    <3>3. QueueInv'
      BY <3>1, <3>2, ProceedKeepsTypes
    <3>4. RestInv'
      BY <1>0, <1>6, <2>2 DEF RestInv, RequestRejected
    <3> QED BY <3>3, <3>4, TypeInvNext
  <2> QED BY <1>6, <2>1, <2>2 DEF RequestRejected
<1>7. CASE RequestThrows(w)
  <2>1. QueueInv' /\ lost' \in BOOLEAN
    BY <1>7, RethrowKeepsTypes DEF RequestThrows
  <2>2. events' \in [Events -> Slots \cup {"none"}]
    BY <1>0, <1>7, ApplyKeepsTypes DEF RequestThrows, RestInv
  <2>3. faults' \in 0..MaxFaults
    BY <1>0, <1>7, <1>f DEF RequestThrows, RestInv
  <2>4. RestInv'
    BY <1>0, <1>7, <2>1, <2>2, <2>3 DEF RestInv, RequestThrows
  <2> QED BY <2>1, <2>4, TypeInvNext
<1>8. CASE Done(w)
  <2>1. QueueInv'
    BY <1>8, FinishKeepsTypes DEF Done
  <2>2. RestInv'
    BY <1>0, <1>8 DEF RestInv, Done
  <2> QED BY <2>1, <2>2, TypeInvNext
<1> QED BY <1>1, <1>2, <1>3, <1>4, <1>5, <1>6, <1>7, <1>8 DEF HandlerStep

LEMMA TypesKept ==
  ASSUME BoundsAssumption, TypeInv, [SyncNext]_syncVars
  PROVE  TypeInv'
<1>0. QueueInv /\ RestInv
  BY TypeInvParts
<1>1. CASE UNCHANGED syncVars
  BY <1>1 DEF syncVars, TypeInv, SyncTypeOK, CountsOK, LockOK, AloneOK
<1>2. CASE SyncNext
  <2>0. overtaken' \in BOOLEAN
    BY <1>2, RacedIsBoolean DEF SyncNext
  <2>1. ASSUME NEW c \in Edits, ApiStep(c) PROVE TypeInv'
    BY <2>0, <2>1, CallsKeepTypes
  <2>2. ASSUME NEW w \in Workers, HandlerStep(w) PROVE TypeInv'
    BY <2>0, <2>2, HandlersKeepTypes
  <2>3. ASSUME NEW w \in Workers, Crash(w) PROVE TypeInv'
    <3>1. RestInv'
      BY <1>0, <2>0, <2>3, CrashKeepsTypes DEF RestInv, Crash
    <3> QED BY <2>3, <3>1, CrashKeepsTypes, TypeInvNext
  <2>4. ASSUME NEW w \in Workers, NEW k \in Tasks, Take(w, k) PROVE TypeInv'
    <3>1. RestInv'
      BY <1>0, <2>0, <2>4 DEF RestInv, Take
    <3> QED BY <2>4, <3>1, TakeKeepsTypes, TypeInvNext
  <2>5. ASSUME NEW k \in Tasks, Stalled(k) PROVE TypeInv'
    <3>1. RestInv'
      BY <1>0, <2>0, <2>5, StalledKeepsTypes DEF RestInv, Stalled
    <3> QED BY <2>5, <3>1, StalledKeepsTypes, TypeInvNext
  <2>6. CASE RejectToken
    <3>1. QueueInv'
      BY <1>0, <2>6 DEF RejectToken, QueueInv, CountsOK, LockOK, AloneOK
    <3>2. RestInv'
      BY <1>0, <2>0, <2>6 DEF RestInv, RejectToken, Fault, BoundsAssumption
    <3> QED BY <3>1, <3>2, TypeInvNext
  <2> QED BY <1>2, <2>1, <2>2, <2>3, <2>4, <2>5, <2>6 DEF SyncNext
<1> QED BY <1>1, <1>2

\* The rows, the queue and the workers stay within their types, and each task
\* within its three attempts and one stalled rerun.
THEOREM SyncTypeCorrect ==
  ASSUME BoundsAssumption PROVE SyncSpec => []SyncTypeOK
<1>1. SyncInit => TypeInv
  BY Initially
<1>2. TypeInv /\ [SyncNext]_syncVars => TypeInv'
  BY TypesKept
<1>3. TypeInv => SyncTypeOK
  BY DEF TypeInv
<1> QED BY <1>1, <1>2, <1>3, PTL DEF SyncSpec
------------------------------------------------------------------------------
(* OneEvent *)

\* While no two tasks overlap, at most one worker is busy ...
OneHandler ==
  ~overtaken => \A v, w \in Workers : worker[v].pc # "idle" /\ worker[w].pc # "idle" => v = w

\* ... and as long as no look-up failed, at most one event is shown, and a worker
\* that found none is right to create one.
OneShown == ~overtaken /\ ~blind => \A e, f \in Shown : e = f
NoneSeen ==
  ~overtaken /\ ~blind =>
    \A w \in Workers : worker[w].pc = "request" /\ worker[w].event = 0 => Shown = {}

EventInv == OneHandler /\ OneShown /\ NoneSeen

\* A handler's step is the step of a busy worker, and no other worker's.
LEMMA HandlerEffect ==
  ASSUME TypeInv, NEW w \in Workers, HandlerStep(w)
  PROVE  /\ worker[w].pc # "idle"
         /\ \A v \in Workers \ {w} : worker'[v] = worker[v]
<1>1. worker \in [Workers -> Rows]
  BY QueueInvOfTypeInv DEF QueueInv
<1>2. \E row : worker' = [worker EXCEPT ![w] = row]
  <2>1. Finish(w) \/ Rethrow(w) => worker' = [worker EXCEPT ![w] = IdleWorker]
    BY DEF Finish, Rethrow
  <2>2. CASE ReadJob(w)
    BY <1>1, <2>2 DEF ReadJob
  <2>3. CASE Search(w)
    BY <1>1, <2>3 DEF Search
  <2>4. CASE Request(w)
    BY <1>1, <2>4 DEF Request, Proceed
  <2>5. CASE RequestRejected(w)
    BY <1>1, <2>1, <2>5 DEF RequestRejected
  <2>6. CASE HandlerThrows(w) \/ NoEvent(w) \/ RequestThrows(w) \/ Done(w)
    BY <2>1, <2>6 DEF HandlerThrows, NoEvent, RequestThrows, Done
  <2> QED BY <2>2, <2>3, <2>4, <2>5, <2>6 DEF HandlerStep
<1>3. worker[w].pc # "idle"
  BY DEF HandlerStep, ReadJob, Search, HandlerThrows, NoEvent, Request, RequestRejected,
         RequestThrows, Done
<1> QED BY <1>1, <1>2, <1>3

\* Only taking a task makes a worker busy.
LEMMA BusySteps ==
  ASSUME TypeInv, SyncNext, NEW w \in Workers, worker'[w].pc # "idle"
  PROVE  worker[w].pc # "idle" \/ \E k \in Tasks : Take(w, k)
<1>0. worker \in [Workers -> Rows] /\ IdleWorker.pc = "idle"
  BY QueueInvOfTypeInv DEF QueueInv, IdleWorker
<1>1. ASSUME NEW c \in Edits, ApiStep(c) PROVE worker[w].pc # "idle"
  BY <1>1 DEF ApiStep, WriteEdit, EnqueueSync, BeginRemove, EnqueueDelete, WriteDeleted, CallFails
<1>2. ASSUME NEW v \in Workers, HandlerStep(v) PROVE worker[w].pc # "idle"
  BY <1>2, HandlerEffect
<1>3. ASSUME NEW v \in Workers, Crash(v) PROVE worker[w].pc # "idle"
  BY <1>0, <1>3 DEF Crash
<1>4. ASSUME NEW v \in Workers, NEW k \in Tasks, Take(v, k)
      PROVE  worker[w].pc # "idle" \/ \E j \in Tasks : Take(w, j)
  <2>1. CASE v = w
    BY <1>4, <2>1
  <2>2. CASE v # w
    BY <1>0, <1>4, <2>2 DEF Take
  <2> QED BY <2>1, <2>2
<1>5. ASSUME NEW k \in Tasks, Stalled(k) PROVE worker[w].pc # "idle"
  <2>1. worker'[w] = worker[w] \/ worker'[w] = [worker[w] EXCEPT !.locked = FALSE]
    BY <1>5 DEF Stalled
  <2>2. worker'[w].pc = worker[w].pc
    BY <1>0, <2>1 DEF Rows
  <2> QED BY <2>2
<1>6. CASE RejectToken
  BY <1>6 DEF RejectToken
<1> QED BY <1>1, <1>2, <1>3, <1>4, <1>5, <1>6 DEF SyncNext

\* A step without a race keeps one handler at most.
LEMMA OneHandlerKept ==
  ASSUME TypeInv, OneHandler, SyncNext
  PROVE  OneHandler'
<1> SUFFICES ASSUME ~overtaken', NEW v \in Workers, NEW w \in Workers, v # w,
                    worker'[v].pc # "idle", worker'[w].pc # "idle"
             PROVE  FALSE
  BY DEF OneHandler
<1>1. ~overtaken /\ ~Overtake
  BY DEF SyncNext
<1>2. \A u \in Workers : worker[u].pc = "idle" /\ worker'[u].pc # "idle" =>
        \A x \in Workers \ {u} : worker[x].pc = "idle"
  BY <1>1 DEF Overtake
<1>3. worker[v].pc = "idle" \/ worker[w].pc = "idle"
  BY <1>1 DEF OneHandler
<1>4. worker[v].pc = "idle" /\ worker[w].pc = "idle"
  BY <1>2, <1>3
<1>5. (\E k \in Tasks : Take(v, k)) /\ (\E k \in Tasks : Take(w, k))
  BY <1>4, BusySteps
<1>6. worker'[w] = worker[w]
  <2>1. worker \in [Workers -> Rows]
    BY QueueInvOfTypeInv DEF QueueInv
  <2> QED BY <1>5, <2>1 DEF Take
<1> QED BY <1>4, <1>6

\* What a handler's step does to the events while it is the only one.
LEMMA HandlersKeepEvents ==
  ASSUME TypeInv, EventInv, AllNear, ~overtaken, ~blind', NEW w \in Workers, HandlerStep(w)
  PROVE  /\ ~blind
         /\ \A e, f \in Shown' : e = f
         /\ worker'[w].pc = "request" /\ worker'[w].event = 0 => Shown' = {}
<1>0. /\ worker \in [Workers -> Rows] /\ IdleWorker.pc = "idle"
      /\ events \in [Events -> Slots \cup {"none"}]
  BY QueueInvOfTypeInv DEF TypeInv, SyncTypeOK, QueueInv, IdleWorker
<1>1. CASE ReadJob(w)
  <2>1. worker'[w].pc = "search" /\ UNCHANGED <<blind, events>>
    BY <1>0, <1>1 DEF ReadJob
  <2> QED BY <2>1 DEF EventInv, OneShown, Shown
<1>2. CASE Search(w)
  <2>1. UNCHANGED <<blind, events>>
    BY <1>2 DEF Search
  <2>2. Matching(worker[w].slot) = Shown
    BY <1>0 DEF Matching, Shown, AllNear, Rows
  <2>3. worker'[w].event = 0 => Shown = {}
    BY <1>0, <1>2, <2>2 DEF Search, Events, Shown, Rows
  <2> QED BY <2>1, <2>3 DEF EventInv, OneShown, Shown
<1>3. ASSUME Apply(w), worker[w].pc = "request", UNCHANGED blind
      PROVE  \A e, f \in Shown' : e = f
  <2>1. \A e, f \in Shown : e = f
    BY <1>3 DEF EventInv, OneShown
  <2>2. CASE events' = [events EXCEPT ![worker[w].event] = "none"]
    BY <1>0, <2>1, <2>2 DEF Shown
  <2>3. CASE /\ events[worker[w].event] # "none"
             /\ events' = [events EXCEPT ![worker[w].event] = worker[w].slot]
    BY <1>0, <2>1, <2>3 DEF Shown
  <2>4. CASE /\ worker[w].event = 0
             /\ \E f \in Events : events' = [events EXCEPT ![f] = worker[w].slot]
    <3>1. Shown = {}
      BY <1>3, <2>4 DEF EventInv, NoneSeen
    <3> QED BY <1>0, <2>4, <3>1 DEF Shown
  <2>5. tasks[worker[w].task].kind \in {"sync-job", "delete-event"}
    BY <1>0 DEF TypeInv, SyncTypeOK, Rows
  <2> QED BY <1>3, <2>2, <2>3, <2>4, <2>5 DEF Apply
<1>4. CASE Request(w)
  <2>1. worker'[w].pc = "finish" /\ Apply(w) /\ worker[w].pc = "request" /\ UNCHANGED blind
    BY <1>0, <1>4 DEF Request, Proceed
  <2> QED BY <1>3, <2>1
<1>5. CASE RequestThrows(w)
  <2>1. worker'[w].pc = "idle" /\ worker[w].pc = "request" /\ UNCHANGED blind
    BY <1>0, <1>5 DEF RequestThrows, Rethrow
  <2>2. CASE UNCHANGED events
    BY <2>1, <2>2 DEF EventInv, OneShown, Shown
  <2>3. CASE Apply(w)
    BY <1>3, <2>1, <2>3
  <2> QED BY <1>5, <2>2, <2>3 DEF RequestThrows
<1>6. CASE RequestRejected(w)
  <2>1. UNCHANGED <<events, blind>>
    BY <1>6 DEF RequestRejected
  <2>2. \/ worker'[w].pc = "idle"
        \/ worker[w].pc = "request" /\ worker'[w].event = worker[w].event
    BY <1>0, <1>6 DEF RequestRejected, Rethrow, Rows
  <2> QED BY <2>1, <2>2 DEF EventInv, OneShown, NoneSeen, Shown
<1>7. CASE HandlerThrows(w) \/ NoEvent(w) \/ Done(w)
  <2>1. worker'[w].pc = "idle" /\ UNCHANGED <<events, blind>>
    BY <1>0, <1>7 DEF HandlerThrows, NoEvent, Done, Rethrow, Finish
  <2> QED BY <2>1 DEF EventInv, OneShown, Shown
<1> QED BY <1>1, <1>2, <1>4, <1>5, <1>6, <1>7 DEF HandlerStep

LEMMA EventInvKept ==
  ASSUME BoundsAssumption, AllNear, TypeInv, EventInv, [SyncNext]_syncVars
  PROVE  EventInv'
<1>1. CASE UNCHANGED syncVars
  BY <1>1 DEF syncVars, EventInv, OneHandler, OneShown, NoneSeen, Shown
<1>2. CASE SyncNext
  <2>1. OneHandler'
    BY <1>2, OneHandlerKept DEF EventInv
  <2> SUFFICES ASSUME ~overtaken', ~blind'
               PROVE  /\ \A e, f \in Shown' : e = f
                      /\ \A w \in Workers : worker'[w].pc = "request" /\ worker'[w].event = 0 =>
                           Shown' = {}
    BY <2>1 DEF EventInv, OneShown, NoneSeen
  <2>2. ~overtaken
    BY <1>2 DEF SyncNext
  <2>3. ASSUME UNCHANGED <<events, blind>>,
               NEW v \in Workers,
               \A w \in Workers \ {v} : \/ worker'[w].pc # "request"
                                        \/ /\ worker'[w].pc = worker[w].pc
                                           /\ worker'[w].event = worker[w].event,
               worker'[v].pc # "request"
        PROVE  /\ \A e, f \in Shown' : e = f
               /\ \A w \in Workers : worker'[w].pc = "request" /\ worker'[w].event = 0 => Shown' = {}
    BY <2>2, <2>3 DEF EventInv, OneShown, NoneSeen, Shown
  <2>0. worker \in [Workers -> Rows] /\ IdleWorker.pc = "idle"
    BY QueueInvOfTypeInv DEF QueueInv, IdleWorker
  <2>4. ASSUME NEW c \in Edits, ApiStep(c)
        PROVE  /\ \A e, f \in Shown' : e = f
               /\ \A w \in Workers : worker'[w].pc = "request" /\ worker'[w].event = 0 => Shown' = {}
    <3>1. UNCHANGED <<events, blind, worker>>
      BY <2>4 DEF ApiStep, WriteEdit, EnqueueSync, BeginRemove, EnqueueDelete, WriteDeleted, CallFails
    <3> QED BY <2>2, <3>1 DEF EventInv, OneShown, NoneSeen, Shown
  <2>5. ASSUME NEW v \in Workers, HandlerStep(v)
        PROVE  /\ \A e, f \in Shown' : e = f
               /\ \A w \in Workers : worker'[w].pc = "request" /\ worker'[w].event = 0 => Shown' = {}
    <3>1. /\ ~blind /\ \A e, f \in Shown' : e = f
          /\ worker'[v].pc = "request" /\ worker'[v].event = 0 => Shown' = {}
      BY <2>2, <2>5, HandlersKeepEvents
    <3>2. \A w \in Workers \ {v} : worker'[w].pc = "idle"
      BY <2>2, <2>5, HandlerEffect DEF EventInv, OneHandler
    <3> QED BY <3>1, <3>2
  <2>6. ASSUME NEW v \in Workers, Crash(v) \/ \E k \in Tasks : Take(v, k)
        PROVE  /\ \A e, f \in Shown' : e = f
               /\ \A w \in Workers : worker'[w].pc = "request" /\ worker'[w].event = 0 => Shown' = {}
    <3>1. UNCHANGED <<events, blind>>
      BY <2>6 DEF Crash, Take
    <3>2. worker'[v].pc # "request" /\ \A w \in Workers \ {v} : worker'[w] = worker[w]
      BY <2>0, <2>6 DEF Crash, Take, IdleWorker
    <3> QED BY <2>3, <3>1, <3>2
  <2>7. ASSUME NEW k \in Tasks, Stalled(k)
        PROVE  /\ \A e, f \in Shown' : e = f
               /\ \A w \in Workers : worker'[w].pc = "request" /\ worker'[w].event = 0 => Shown' = {}
    <3>1. UNCHANGED <<events, blind>>
      BY <2>7 DEF Stalled
    <3>2. \A w \in Workers : \/ worker'[w] = worker[w]
                             \/ worker'[w] = [worker[w] EXCEPT !.locked = FALSE]
      BY <2>7 DEF Stalled
    <3>3. \A w \in Workers : worker'[w].pc = worker[w].pc /\ worker'[w].event = worker[w].event
      BY <2>0, <3>2 DEF Rows
    <3> QED BY <2>2, <3>1, <3>3 DEF EventInv, OneShown, NoneSeen, Shown
  <2>8. CASE RejectToken
    <3>1. UNCHANGED <<events, blind, worker>>
      BY <2>8 DEF RejectToken
    <3> QED BY <2>2, <3>1 DEF EventInv, OneShown, NoneSeen, Shown
  <2> QED BY <1>2, <2>4, <2>5, <2>6, <2>7, <2>8 DEF SyncNext
<1> QED BY <1>1, <1>2

\* At most one event is what OneEvent counts.
LEMMA OneShownCounts == ~overtaken /\ ~blind /\ EventInv /\ SyncTypeOK /\ BoundsAssumption => NoDuplicateEvents
<1> SUFFICES ASSUME ~overtaken, ~blind, EventInv, BoundsAssumption
             PROVE  Cardinality(Shown) <= 1
  BY DEF NoDuplicateEvents
<1>1. CASE Shown = {}
  BY <1>1, FS_EmptySet
<1>2. CASE Shown # {}
  <2>1. PICK e \in Shown : Shown = {e}
    BY <1>2 DEF EventInv, OneShown
  <2>2. Cardinality({e}) = 1
    BY FS_Singleton
  <2> QED BY <2>1, <2>2
<1> QED BY <1>1, <1>2

\* However calls, retries, crashes and lost locks interleave, the calendar has one
\* event of a job at most, provided the look-up can find every slot of the job, until
\* a look-up failed or tasks overlapped or changed their order.
THEOREM OneEventKept ==
  ASSUME BoundsAssumption, AllNear PROVE SyncSpec => []OneEvent
<1>1. SyncInit => TypeInv /\ EventInv
  <2>1. SyncInit => TypeInv
    BY Initially
  <2>2. SyncInit => EventInv
    BY DEF SyncInit, EventInv, OneHandler, OneShown, NoneSeen, Shown, IdleWorker
  <2> QED BY <2>1, <2>2
<1>2. TypeInv /\ EventInv /\ [SyncNext]_syncVars => TypeInv' /\ EventInv'
  BY TypesKept, EventInvKept
<1>3. TypeInv /\ EventInv => OneEvent
  BY OneShownCounts DEF TypeInv, OneEvent
<1> QED BY <1>1, <1>2, <1>3, PTL DEF SyncSpec

------------------------------------------------------------------------------
(* What a step does to the queue *)

\* What a step of the queue or of a handler may do to a task.
TaskStep(k) ==
  \/ tasks'[k] = tasks[k]
  \/ /\ tasks[k].state = "waiting" /\ tasks'[k].state = "active"
     /\ tasks'[k].kind = tasks[k].kind /\ \E w \in Workers : Take(w, k)
  \/ Wrote(k, "done") \/ Wrote(k, "waiting") \/ (Wrote(k, "failed") /\ lost')

QueueStep ==
  /\ \A k \in Tasks : TaskStep(k)
  /\ UNCHANGED <<edit, signing>> /\ (lost => lost')

LEMMA HandlerTasks ==
  ASSUME BoundsAssumption, TypeInv, NEW w \in Workers, HandlerStep(w)
  PROVE  QueueStep
<1>0. UNCHANGED <<edit, signing>>
  BY DEF HandlerStep, ReadJob, Search, HandlerThrows, NoEvent, Request, RequestRejected,
         RequestThrows, Done
<1>1. CASE UNCHANGED <<tasks, lost>>
  BY <1>0, <1>1 DEF QueueStep, TaskStep
<1>2. CASE Finish(w) /\ UNCHANGED lost
  BY <1>0, <1>2, FinishKeepsTypes DEF QueueStep, TaskStep
<1>3. CASE Rethrow(w)
  BY <1>0, <1>3, RethrowKeepsTypes DEF QueueStep, TaskStep
<1>4. UNCHANGED <<tasks, lost>> \/ (Finish(w) /\ UNCHANGED lost) \/ Rethrow(w)
  BY DEF HandlerStep, ReadJob, Search, HandlerThrows, NoEvent, Request, RequestRejected,
         RequestThrows, Done
<1> QED BY <1>1, <1>2, <1>3, <1>4

LEMMA QueueSteps ==
  ASSUME BoundsAssumption, TypeInv, SyncNext
  PROVE  QueueStep \/ \E c \in Edits : ApiStep(c)
<1>1. ASSUME NEW w \in Workers, HandlerStep(w) PROVE QueueStep
  BY <1>1, HandlerTasks
<1>2. ASSUME NEW w \in Workers, Crash(w) PROVE QueueStep
  BY <1>2 DEF Crash, QueueStep, TaskStep
<1>3. ASSUME NEW w \in Workers, NEW k \in Tasks, Take(w, k) PROVE QueueStep
  <2>1. tasks \in [Tasks -> TaskRows]
    BY QueueInvOfTypeInv DEF QueueInv
  <2>2. /\ \A j \in Tasks \ {k} : tasks'[j] = tasks[j]
        /\ tasks[k].state = "waiting" /\ tasks'[k].state = "active" /\ tasks'[k].kind = tasks[k].kind
    BY <1>3, <2>1 DEF Take, TaskRows
  <2>3. UNCHANGED <<edit, signing, lost>>
    BY <1>3 DEF Take
  <2> QED BY <1>3, <2>2, <2>3 DEF QueueStep, TaskStep
<1>4. ASSUME NEW k \in Tasks, Stalled(k) PROVE QueueStep
  <2>1. UNCHANGED <<edit, signing>>
    BY <1>4 DEF Stalled
  <2> QED BY <1>4, <2>1, StalledKeepsTypes DEF QueueStep, TaskStep
<1>5. CASE RejectToken
  BY <1>5 DEF RejectToken, QueueStep, TaskStep
<1> QED BY <1>1, <1>2, <1>3, <1>4, <1>5 DEF SyncNext

\* A worker that is busy after a step is busy with the task it had, or took it now.
LEMMA BusyTask ==
  ASSUME BoundsAssumption, TypeInv, SyncNext, NEW w \in Workers, worker'[w].pc # "idle"
  PROVE  \/ worker[w].pc # "idle" /\ worker'[w].task = worker[w].task
         \/ \E k \in Tasks : Take(w, k) /\ worker'[w].task = k
<1>0. worker \in [Workers -> Rows] /\ IdleWorker.pc = "idle"
  BY QueueInvOfTypeInv DEF QueueInv, IdleWorker
<1>1. CASE \E k \in Tasks : Take(w, k)
  <2>1. PICK k \in Tasks : Take(w, k)
    BY <1>1
  <2>2. worker'[w].task = k
    BY <1>0, <2>1 DEF Take, IdleWorker
  <2> QED BY <2>1, <2>2
<1>2. CASE ~\E k \in Tasks : Take(w, k)
  <2>0. worker[w].pc # "idle"
    BY <1>2, BusySteps
  <2>1. ASSUME NEW c \in Edits, ApiStep(c) PROVE worker'[w].task = worker[w].task
    BY <2>1 DEF ApiStep, WriteEdit, EnqueueSync, BeginRemove, EnqueueDelete, WriteDeleted, CallFails
  <2>2. ASSUME NEW v \in Workers, HandlerStep(v) PROVE worker'[w].task = worker[w].task
    <3>1. CASE v # w
      BY <2>2, <3>1, HandlerEffect
    <3>2. CASE v = w
      <4>1. ~Finish(w) /\ ~Rethrow(w)
        BY <1>0 DEF Finish, Rethrow
      <4>2. ReadJob(w) \/ Search(w) \/ Request(w) \/ RequestRejected(w)
        BY <2>2, <3>2, <4>1 DEF HandlerStep, HandlerThrows, NoEvent, RequestThrows, Done
      <4>3. ReadJob(w) => worker'[w].task = worker[w].task
        BY <1>0 DEF ReadJob, Rows
      <4>4. Search(w) => worker'[w].task = worker[w].task
        BY <1>0 DEF Search, Rows
      <4>5. Request(w) \/ RequestRejected(w) => worker'[w].task = worker[w].task
        BY <1>0, <4>1 DEF Request, Proceed, RequestRejected, Rows
      <4> QED BY <4>2, <4>3, <4>4, <4>5
    <3> QED BY <3>1, <3>2
  <2>3. ASSUME NEW v \in Workers, Crash(v) PROVE worker'[w].task = worker[w].task
    BY <1>0, <2>3 DEF Crash
  <2>4. ASSUME NEW v \in Workers, NEW k \in Tasks, Take(v, k)
        PROVE  worker'[w].task = worker[w].task
    BY <1>0, <1>2, <2>4 DEF Take
  <2>5. ASSUME NEW k \in Tasks, Stalled(k) PROVE worker'[w].task = worker[w].task
    BY <2>5, StalledKeepsTypes
  <2>6. CASE RejectToken
    BY <2>6 DEF RejectToken
  <2> QED BY <2>0, <2>1, <2>2, <2>3, <2>4, <2>5, <2>6 DEF SyncNext
<1> QED BY <1>1, <1>2

\* Adding a task: the next of them waits, or the task is lost.
Adds(kind, k) ==
  /\ tasks[k].state = "none" /\ \A j \in 1..(k - 1) : tasks[j].state # "none"
  /\ tasks'[k] = [kind |-> kind, state |-> "waiting", throws |-> 0, stalls |-> 0]
  /\ \A j \in Tasks \ {k} : tasks'[j] = tasks[j]
  /\ UNCHANGED lost

LEMMA EnqueueAdds ==
  ASSUME TypeInv, NEW kind \in {"sync-job", "delete-event"}, Enqueue(kind)
  PROVE  (UNCHANGED tasks /\ lost') \/ \E k \in Tasks : Adds(kind, k)
<1>0. tasks \in [Tasks -> TaskRows]
  BY QueueInvOfTypeInv DEF QueueInv
<1>1. CASE \E k \in Tasks :
             /\ tasks[k].state = "none" /\ \A j \in 1..(k - 1) : tasks[j].state # "none"
             /\ tasks' = [tasks EXCEPT ![k] = [NoTask EXCEPT !.kind = kind, !.state = "waiting"]]
             /\ UNCHANGED <<faults, lost>>
  <2>1. PICK k \in Tasks :
          /\ tasks[k].state = "none" /\ \A j \in 1..(k - 1) : tasks[j].state # "none"
          /\ tasks' = [tasks EXCEPT ![k] = [NoTask EXCEPT !.kind = kind, !.state = "waiting"]]
          /\ UNCHANGED <<faults, lost>>
    BY <1>1
  <2> DEFINE new == [NoTask EXCEPT !.kind = kind, !.state = "waiting"]
  <2>2. new = [kind |-> kind, state |-> "waiting", throws |-> 0, stalls |-> 0]
    BY NewTask
  <2>3. tasks' = [tasks EXCEPT ![k] = new]
    BY <2>1
  <2> HIDE DEF new
  <2>4. tasks'[k] = new /\ \A j \in Tasks \ {k} : tasks'[j] = tasks[j]
    BY <1>0, <2>3
  <2>5. Adds(kind, k)
    BY <2>1, <2>2, <2>4 DEF Adds
  <2> QED BY <2>5
<1>2. CASE Fault /\ lost' = TRUE /\ UNCHANGED tasks
  BY <1>2
<1> QED BY <1>1, <1>2 DEF Enqueue

------------------------------------------------------------------------------
(* CalendarShowsJob *)

Clean == ~overtaken /\ ~blind /\ ~lost

\* The task that was added last.
Last(k) == Added(k) /\ \A j \in Tasks : Added(j) => j <= k

\* Tasks are added one after the other, and there is a last one.
AddedInOrder == \A k \in Tasks : Added(k) => \A j \in 1..k : Added(j)
HasLast      == \E k \in Tasks : Last(k)

\* A busy worker has touched its task; a task that failed is lost; unless tasks
\* overtook each other, those before a touched one are over.
BusyTouched    == \A w \in Workers : worker[w].pc # "idle" => Touched(worker[w].task)
FailedLost     == ~lost => \A k \in Tasks : tasks[k].state # "failed"
TouchedInOrder == ~overtaken => \A k \in Tasks : Touched(k) => \A j \in 1..(k - 1) : Over(j)
BusyNotOver    == Clean => \A w \in Workers : worker[w].pc # "idle" => ~Over(worker[w].task)
OneCall        == ~overtaken => \A c, d \in Edits : edit[c] # "idle" /\ edit[d] # "idle" => c = d

OrderInv == AddedInOrder /\ HasLast /\ BusyTouched /\ FailedLost /\ TouchedInOrder
            /\ BusyNotOver /\ OneCall

\* What the last task is about, by what the call under way has yet to do.
Editing  == \E c \in Edits : edit[c] = "addSync"
LastKind ==
  Clean => \A k \in Tasks : Last(k) =>
    /\ \A c \in Edits : /\ edit[c] \in {"addSync", "addDelete", "remove"} => signing.live
                        /\ edit[c] = "flush" => ~signing.live
                        /\ edit[c] = "remove" => tasks[k].kind = "delete-event"
    /\ (\A c \in Edits : edit[c] \in {"idle", "addDelete"}) /\ signing.live => tasks[k].kind = "sync-job"
    /\ (\A c \in Edits : edit[c] = "idle") /\ ~signing.live => tasks[k].kind = "delete-event"

\* The calendar is as a task of that kind leaves it.
Shows(kind, slot) ==
  IF kind = "sync-job" THEN \E e \in Events : Shown = {e} /\ events[e] = slot ELSE Shown = {}

\* The last task works with the job's present slot, an event it found is there,
\* and what it has done shows until an edit.
ReadIsFresh ==
  Clean /\ ~Editing => \A w \in Workers :
    worker[w].pc \in {"search", "request", "finish"} /\ Last(worker[w].task) =>
      worker[w].slot = signing.slot
FoundIsShown ==
  Clean => \A w \in Workers :
    worker[w].pc = "request" /\ worker[w].event # 0 => worker[w].event \in Shown
AppliedShows ==
  Clean => \A w \in Workers :
    worker[w].pc = "finish" => Shows(tasks[worker[w].task].kind, worker[w].slot)
DoneShows ==
  Clean /\ ~Editing => \A k \in Tasks :
    Last(k) /\ tasks[k].state = "done" => Shows(tasks[k].kind, signing.slot)

ShowInv == LastKind /\ ReadIsFresh /\ FoundIsShown /\ AppliedShows /\ DoneShows
------------------------------------------------------------------------------
(* The order of the tasks *)

LEMMA OrderInitially ==
  ASSUME BoundsAssumption, SyncInit PROVE OrderInv
<1>1. /\ \A k \in Tasks : Added(k) <=> k = 1
      /\ \A k \in Tasks : ~Touched(k) /\ tasks[k].state # "failed"
  BY DEF SyncInit, NoTask, Added, Touched, Fresh, Tasks
<1>2. 1 \in Tasks
  BY DEF BoundsAssumption, Tasks
<1>3. AddedInOrder
  BY <1>1 DEF AddedInOrder, Tasks
<1>4. HasLast
  BY <1>1, <1>2 DEF HasLast, Last
<1>5. \A w \in Workers : worker[w].pc = "idle"
  BY DEF SyncInit, IdleWorker
<1>6. \A c \in Edits : edit[c] = "idle"
  BY DEF SyncInit
<1> QED BY <1>1, <1>3, <1>4, <1>5, <1>6 DEF OrderInv, BusyTouched, FailedLost, TouchedInOrder, BusyNotOver, OneCall

\* A step of the queue adds nothing, un-touches nothing and finishes only what was
\* active; only a taken task is touched anew.
LEMMA QueueStepOrder ==
  ASSUME TypeInv, QueueStep, NEW k \in Tasks
  PROVE  /\ Added(k)' <=> Added(k)
         /\ tasks'[k].kind = tasks[k].kind
         /\ Touched(k) => Touched(k)'
         /\ Over(k) => Over(k)'
         /\ Over(k)' /\ ~Over(k) => Wrote(k, "done") \/ (Wrote(k, "failed") /\ lost')
         /\ Touched(k)' /\ ~Touched(k) => \E w \in Workers : Take(w, k)
<1>1. TaskStep(k) /\ tasks[k] \in TaskRows
  BY QueueInvOfTypeInv DEF QueueStep, QueueInv
<1> QED BY <1>1 DEF TaskStep, Wrote, Added, Touched, Over, Fresh, TaskRows

LEMMA AddsOrder ==
  ASSUME TypeInv, NEW kind, NEW k \in Tasks, Adds(kind, k)
  PROVE  /\ \A j \in Tasks : Added(j)' <=> Added(j) \/ j = k
         /\ \A j \in Tasks \ {k} : (Touched(j)' <=> Touched(j)) /\ (Over(j)' <=> Over(j))
         /\ ~Touched(k)' /\ ~Touched(k) /\ ~Over(k)' /\ ~Over(k)
         /\ tasks'[k].kind = kind /\ tasks'[k].state = "waiting" /\ (lost' <=> lost)
BY DEF Adds, Added, Touched, Over, Fresh

\* A handler that goes on leaves the queue alone.
LEMMA BusyKeepsTasks ==
  ASSUME TypeInv, NEW w \in Workers, HandlerStep(w), worker'[w].pc # "idle"
  PROVE  /\ UNCHANGED <<tasks, lost>>
         /\ ReadJob(w) \/ Search(w) \/ Request(w) \/ RequestRejected(w)
<1>1. worker \in [Workers -> Rows] /\ IdleWorker.pc = "idle"
  BY QueueInvOfTypeInv DEF QueueInv, IdleWorker
<1>2. ~Finish(w) /\ ~Rethrow(w)
  BY <1>1 DEF Finish, Rethrow
<1>3. ReadJob(w) \/ Search(w) \/ Request(w) \/ RequestRejected(w)
  BY <1>2 DEF HandlerStep, HandlerThrows, NoEvent, RequestThrows, Done
<1> QED BY <1>2, <1>3 DEF ReadJob, Search, Request, RequestRejected

\* What was overtaken, blind or lost stays so.
LEMMA CleanBefore ==
  ASSUME BoundsAssumption, TypeInv, SyncNext, Clean'
  PROVE  Clean /\ ~Overtake
<1>1. ~overtaken /\ ~Overtake
  BY DEF SyncNext, Clean
<1>2. ASSUME NEW c \in Edits, ApiStep(c) PROVE ~blind /\ ~lost
  <2>1. UNCHANGED blind
    BY <1>2 DEF ApiStep, WriteEdit, EnqueueSync, BeginRemove, EnqueueDelete, WriteDeleted, CallFails
  <2>2. ~lost
    BY <1>2 DEF ApiStep, WriteEdit, EnqueueSync, BeginRemove, EnqueueDelete, WriteDeleted, CallFails,
                Enqueue, Clean
  <2> QED BY <2>1, <2>2 DEF Clean
<1>3. CASE QueueStep
  <2>1. ~lost
    BY <1>3 DEF QueueStep, Clean
  <2>2. ASSUME NEW w \in Workers, HandlerStep(w) PROVE ~blind
    BY <2>2 DEF HandlerStep, ReadJob, Search, HandlerThrows, NoEvent, Request, RequestRejected,
                RequestThrows, Done, Clean
  <2>3. ASSUME NEW w \in Workers, Crash(w) \/ \E k \in Tasks : Take(w, k) PROVE ~blind
    BY <2>3 DEF Crash, Take, Clean
  <2>4. (\E k \in Tasks : Stalled(k)) \/ RejectToken => ~blind
    BY DEF Stalled, RejectToken, Clean
  <2>5. (\E c \in Edits : ApiStep(c)) => ~blind
    BY <1>2
  <2> QED BY <2>1, <2>2, <2>3, <2>4, <2>5, <1>1 DEF SyncNext, Clean
<1> QED BY <1>1, <1>2, <1>3, QueueSteps DEF Clean

LEMMA OrderInvKept ==
  ASSUME BoundsAssumption, TypeInv, EventInv, OrderInv, [SyncNext]_syncVars
  PROVE  OrderInv'
<1>1. CASE UNCHANGED syncVars
  BY <1>1 DEF syncVars, OrderInv, AddedInOrder, HasLast, BusyTouched, FailedLost, TouchedInOrder,
             BusyNotOver, OneCall, Added, Touched, Over, Fresh, Last, Clean
<1>2. CASE SyncNext
  <2>0. /\ (~overtaken' => ~overtaken /\ ~Overtake) /\ OneHandler'
        /\ worker \in [Workers -> Rows] /\ Tasks \subseteq Nat
    <3>1. ~overtaken' => ~overtaken /\ ~Overtake
      BY <1>2 DEF SyncNext
    <3>2. OneHandler'
      BY <1>2, OneHandlerKept DEF EventInv
    <3> QED BY <3>1, <3>2, QueueInvOfTypeInv DEF QueueInv, Tasks
  <2>1. OneCall'
    BY <2>0 DEF OneCall, Overtake
  <2>2. CASE QueueStep
    <3>1. AddedInOrder' /\ HasLast'
      <4>1. \A k \in Tasks : Added(k)' <=> Added(k)
        BY <2>2, QueueStepOrder
      <4>2. \A k \in Tasks : 1..k \subseteq Tasks
        BY DEF Tasks, BoundsAssumption
      <4>3. AddedInOrder'
        BY <4>1, <4>2 DEF OrderInv, AddedInOrder
      <4>4. HasLast'
        BY <4>1 DEF OrderInv, HasLast, Last
      <4> QED BY <4>3, <4>4
    <3>2. BusyTouched'
      <4> SUFFICES ASSUME NEW w \in Workers, worker'[w].pc # "idle"
                   PROVE  Touched(worker[w].task)'
        BY DEF BusyTouched
      <4>1. PICK k \in Tasks : k = worker'[w].task
        <5>1. worker' \in [Workers -> Rows]
          BY <1>2, TypesKept, QueueInvOfTypeInv DEF TypeInv, SyncTypeOK, Rows
        <5> QED BY <5>1 DEF Rows
      <4>2. CASE worker[w].pc # "idle" /\ k = worker[w].task
        <5>1. Touched(k)
          BY <4>2 DEF OrderInv, BusyTouched
        <5> QED BY <2>2, <4>1, <5>1, QueueStepOrder DEF Touched, Added, Fresh
      <4>3. CASE Take(w, k)
        <5>1. tasks'[k].state = "active"
          BY <4>3, QueueInvOfTypeInv DEF Take, QueueInv, TaskRows
        <5> QED BY <4>1, <5>1 DEF Touched, Added, Fresh
      <4> QED BY <1>2, <4>1, <4>2, <4>3, BusyTask
    <3>3. FailedLost'
      <4> SUFFICES ASSUME ~lost', NEW k \in Tasks
                   PROVE  tasks'[k].state # "failed"
        BY DEF FailedLost
      <4>1. ~lost /\ tasks[k].state # "failed" /\ TaskStep(k)
        BY <2>2 DEF QueueStep, OrderInv, FailedLost
      <4> QED BY <4>1 DEF TaskStep, Wrote
    <3>4. TouchedInOrder'
      <4> SUFFICES ASSUME ~overtaken', NEW k \in Tasks, Touched(k)', NEW j \in 1..(k - 1)
                   PROVE  Over(j)'
        BY DEF TouchedInOrder
      <4>1. j \in Tasks /\ j < k /\ j \in 1..k
        BY DEF Tasks, BoundsAssumption
      <4>2. CASE Touched(k)
        <5>1. Over(j)
          BY <2>0, <4>2 DEF OrderInv, TouchedInOrder
        <5> QED BY <2>2, <4>1, <5>1, QueueStepOrder
      <4>3. CASE ~Touched(k)
        <5>1. PICK w \in Workers : Take(w, k)
          BY <2>2, <4>3, QueueStepOrder
        <5>2. worker[w].pc = "idle" /\ worker'[w].pc # "idle" /\ worker'[w].task = k
          BY <2>0, <5>1 DEF Take, IdleWorker
        <5>3. tasks[j].state \notin {"waiting", "active"}
          BY <2>0, <5>2 DEF Overtake
        <5>4. Added(k)
          BY <5>1 DEF Take, Added
        <5>5. tasks[j].state # "none"
          BY <4>1, <5>4 DEF OrderInv, AddedInOrder, Added
        <5>6. Over(j)
          BY <4>1, <5>3, <5>5, QueueInvOfTypeInv DEF QueueInv, TaskRows, States, Over
        <5> QED BY <2>2, <4>1, <5>6, QueueStepOrder
      <4> QED BY <4>2, <4>3
    <3>5. BusyNotOver'
      <4> SUFFICES ASSUME Clean', NEW w \in Workers, worker'[w].pc # "idle",
                          NEW k \in Tasks, k = worker'[w].task, Over(k)'
                   PROVE  FALSE
        <5>1. worker' \in [Workers -> Rows]
          BY <1>2, TypesKept, QueueInvOfTypeInv DEF TypeInv, SyncTypeOK, Rows
        <5> QED BY <5>1 DEF BusyNotOver, Rows, Over
      <4>1. Clean
        BY <1>2, CleanBefore
      <4>2. ~Take(w, k)
        BY QueueInvOfTypeInv DEF Take, QueueInv, TaskRows, Over
      <4>3. worker[w].pc # "idle" /\ k = worker[w].task
        BY <1>2, <4>2, BusyTask
      <4>4. ~Over(k)
        BY <4>1, <4>3 DEF OrderInv, BusyNotOver
      <4>5. Wrote(k, "done")
        BY <2>2, <4>4, QueueStepOrder DEF Clean
      <4>6. ASSUME NEW v \in Workers, HandlerStep(v) PROVE FALSE
        <5>1. v = w
          BY <4>1, <4>3, <4>6, HandlerEffect DEF EventInv, OneHandler, Clean
        <5> QED BY <4>4, <4>6, <5>1, BusyKeepsTasks DEF Over
      <4>7. ASSUME NEW v \in Workers, Crash(v) PROVE FALSE
        BY <4>4, <4>7 DEF Crash, Over
      <4>8. ASSUME NEW v \in Workers, NEW j \in Tasks, Take(v, j) PROVE FALSE
        <5>1. tasks'[k].state \in {tasks[k].state, "active"}
          BY <4>8, QueueInvOfTypeInv DEF Take, QueueInv, TaskRows
        <5> QED BY <4>4, <5>1 DEF Over
      <4>9. ASSUME NEW j \in Tasks, Stalled(j) PROVE FALSE
        <5>1. j = k \/ tasks'[k] = tasks[k]
          BY <4>9, StalledKeepsTypes
        <5>2. Wrote(j, "waiting") \/ (Wrote(j, "failed") /\ lost')
          BY <4>9, StalledKeepsTypes
        <5> QED BY <4>4, <5>1, <5>2 DEF Wrote, Over, Clean
      <4>10. ASSUME NEW c \in Edits, ApiStep(c) PROVE FALSE
        <5>1. CASE UNCHANGED tasks
          BY <4>4, <5>1 DEF Over
        <5>2. ASSUME NEW j \in Tasks, NEW kind, Adds(kind, j) PROVE FALSE
          BY <4>4, <5>2 DEF Adds, Over
        <5>3. UNCHANGED tasks \/ Enqueue("sync-job") \/ Enqueue("delete-event")
          BY <4>10 DEF ApiStep, WriteEdit, EnqueueSync, BeginRemove, EnqueueDelete, WriteDeleted, CallFails
        <5> QED BY <5>1, <5>2, <5>3, EnqueueAdds
      <4> QED BY <1>2, <4>4, <4>6, <4>7, <4>8, <4>9, <4>10 DEF SyncNext, RejectToken, Over
    <3> QED BY <2>1, <3>1, <3>2, <3>3, <3>4, <3>5 DEF OrderInv
  <2>3. ASSUME NEW c \in Edits, ApiStep(c) PROVE OrderInv'
    <3>1. UNCHANGED worker
      BY <2>3 DEF ApiStep, WriteEdit, EnqueueSync, BeginRemove, EnqueueDelete, WriteDeleted, CallFails
    <3>2. CASE UNCHANGED tasks
      <4>1. AddedInOrder' /\ HasLast' /\ BusyTouched'
        BY <3>1, <3>2 DEF OrderInv, AddedInOrder, HasLast, Last, BusyTouched, Added, Touched, Fresh
      <4>2. FailedLost' /\ BusyNotOver'
        <5>1. lost => lost'
          BY <2>3 DEF ApiStep, WriteEdit, EnqueueSync, BeginRemove, EnqueueDelete, WriteDeleted, CallFails, Enqueue
        <5>2. FailedLost'
          BY <3>2, <5>1 DEF OrderInv, FailedLost
        <5>3. BusyNotOver'
          BY <1>2, <3>1, <3>2, CleanBefore DEF OrderInv, BusyNotOver, Over
        <5> QED BY <5>2, <5>3
      <4>3. TouchedInOrder'
        BY <2>0, <3>2 DEF OrderInv, TouchedInOrder, Added, Touched, Fresh, Over
      <4> QED BY <2>1, <4>1, <4>2, <4>3 DEF OrderInv
    <3>3. ASSUME NEW k \in Tasks, NEW kind, Adds(kind, k) PROVE OrderInv'
      <4>1. /\ \A j \in Tasks : Added(j)' <=> Added(j) \/ j = k
            /\ \A j \in Tasks \ {k} : (Touched(j)' <=> Touched(j)) /\ (Over(j)' <=> Over(j))
            /\ ~Touched(k)' /\ ~Touched(k) /\ ~Over(k)' /\ ~Over(k)
            /\ tasks'[k].state = "waiting" /\ (lost' <=> lost)
        BY <3>3, AddsOrder
      <4>2. ~Added(k) /\ \A j \in 1..(k - 1) : Added(j)
        BY <3>3 DEF Adds, Added
      <4>3. \A j \in Tasks : 1..j \subseteq Tasks /\ j \in 1..j /\ j \in Nat
        BY DEF Tasks, BoundsAssumption
      <4>4. \A j \in Tasks : Added(j) => j < k
        <5> SUFFICES ASSUME NEW j \in Tasks, Added(j), ~(j < k) PROVE FALSE
          OBVIOUS
        <5>1. k \in 1..j
          BY <4>3 DEF Tasks
        <5> QED BY <4>2, <5>1 DEF OrderInv, AddedInOrder
      <4>5. AddedInOrder'
        <5> SUFFICES ASSUME NEW j \in Tasks, Added(j)', NEW i \in 1..j PROVE Added(i)'
          BY DEF AddedInOrder
        <5>1. i \in Tasks
          BY <4>3
        <5>2. CASE j = k
          BY <4>1, <4>2, <4>3, <5>1, <5>2
        <5>3. CASE Added(j)
          BY <4>1, <5>1, <5>3 DEF OrderInv, AddedInOrder
        <5> QED BY <4>1, <5>2, <5>3
      <4>6. HasLast'
        <5>1. \A j \in Tasks : Added(j)' => j <= k
          BY <4>1, <4>3, <4>4
        <5> QED BY <4>1, <5>1 DEF HasLast, Last
      <4>7. BusyTouched' /\ BusyNotOver'
        <5>1. \A w \in Workers : worker[w].task \in Tasks
          BY <2>0 DEF Rows
        <5>2. \A w \in Workers : worker[w].pc # "idle" => worker[w].task # k
          BY <4>1 DEF OrderInv, BusyTouched
        <5>3. BusyTouched'
          <6> SUFFICES ASSUME NEW w \in Workers, worker[w].pc # "idle"
                       PROVE  Touched(worker[w].task)'
            BY <3>1 DEF BusyTouched
          <6>1. PICK j \in Tasks \ {k} : j = worker[w].task
            BY <5>1, <5>2
          <6>2. Touched(j)'
            BY <4>1, <6>1 DEF OrderInv, BusyTouched
          <6> QED BY <3>1, <6>1, <6>2 DEF Touched, Added, Fresh
        <5>4. BusyNotOver'
          <6> SUFFICES ASSUME Clean', NEW w \in Workers, worker[w].pc # "idle"
                       PROVE  ~Over(worker[w].task)'
            BY <3>1 DEF BusyNotOver
          <6>1. PICK j \in Tasks \ {k} : j = worker[w].task
            BY <5>1, <5>2
          <6>2. Clean
            BY <1>2, CleanBefore
          <6>3. ~Over(j)'
            BY <4>1, <6>1, <6>2 DEF OrderInv, BusyNotOver
          <6> QED BY <3>1, <6>1, <6>3 DEF Over
        <5> QED BY <5>3, <5>4
      <4>8. FailedLost'
        BY <3>3, <4>1 DEF OrderInv, FailedLost, Adds
      <4>9. TouchedInOrder'
        <5> SUFFICES ASSUME ~overtaken', NEW j \in Tasks, Touched(j)', NEW i \in 1..(j - 1)
                     PROVE  Over(i)'
          BY DEF TouchedInOrder
        <5>1. j # k /\ Touched(j) /\ i \in Tasks
          BY <4>1, <4>3 DEF Tasks
        <5>2. Over(i)
          BY <2>0, <5>1 DEF OrderInv, TouchedInOrder
        <5> QED BY <4>1, <5>1, <5>2
      <4> QED BY <2>1, <4>5, <4>6, <4>7, <4>8, <4>9 DEF OrderInv
    <3>4. UNCHANGED tasks \/ Enqueue("sync-job") \/ Enqueue("delete-event")
      BY <2>3 DEF ApiStep, WriteEdit, EnqueueSync, BeginRemove, EnqueueDelete, WriteDeleted, CallFails
    <3> QED BY <3>2, <3>3, <3>4, EnqueueAdds
  <2> QED BY <1>2, <2>2, <2>3, QueueSteps
<1> QED BY <1>1, <1>2
------------------------------------------------------------------------------
(* What the calendar shows *)

\* A value that stands for no event is not a slot.
NoneIsNoSlot == "none" \notin Slots

LEMMA ShowsInitially ==
  ASSUME BoundsAssumption, SyncInit PROVE ShowInv
<1>1. /\ \A w \in Workers : worker[w].pc = "idle"
      /\ \A c \in Edits : edit[c] = "idle"
      /\ \A k \in Tasks : Added(k) => tasks[k].kind = "sync-job" /\ tasks[k].state = "waiting"
      /\ signing.live
  BY DEF SyncInit, IdleWorker, Added, NoTask
<1> QED BY <1>1 DEF ShowInv, LastKind, ReadIsFresh, FoundIsShown, AppliedShows, DoneShows, Last

\* Once the last task is done, no worker is busy.
LEMMA LastDoneIdle ==
  ASSUME TypeInv, OrderInv, Clean, NEW k \in Tasks, Last(k), tasks[k].state = "done",
         NEW w \in Workers
  PROVE  worker[w].pc = "idle"
<1> SUFFICES ASSUME worker[w].pc # "idle" PROVE FALSE
  OBVIOUS
<1>1. PICK j \in Tasks : j = worker[w].task
  BY DEF TypeInv, SyncTypeOK
<1>2. Touched(j) /\ ~Over(j)
  BY <1>1 DEF OrderInv, BusyTouched, BusyNotOver
<1>3. j <= k /\ j # k /\ k \in Nat /\ j \in Nat /\ j >= 1
  BY <1>2 DEF Last, Touched, Over, Tasks
<1>4. j \in 1..(k - 1) /\ Touched(k)
  BY <1>3 DEF Touched, Added, Fresh
<1> QED BY <1>2, <1>4 DEF OrderInv, TouchedInOrder, Clean

\* The request of a clean handler leaves on the calendar what its task is about.
LEMMA RequestShows ==
  ASSUME TypeInv, EventInv, ShowInv, Clean, NoneIsNoSlot, NEW w \in Workers, Request(w)
  PROVE  IF tasks[worker[w].task].kind = "sync-job"
         THEN \E e \in Events : Shown' = {e} /\ events'[e] = worker[w].slot
         ELSE Shown' = {}
<1> DEFINE e == worker[w].event
           s == worker[w].slot
           kind == tasks[worker[w].task].kind
<1>1. /\ events \in [Events -> Slots \cup {"none"}] /\ s \in Slots /\ s # "none"
      /\ kind \in {"sync-job", "delete-event"}
  BY DEF TypeInv, SyncTypeOK, NoneIsNoSlot
<1>2. worker[w].pc = "request" /\ Apply(w)
  BY DEF Request
<1>3. CASE e # 0
  <2>1. e \in Shown /\ Shown = {e} /\ e \in Events
    BY <1>2, <1>3 DEF ShowInv, FoundIsShown, EventInv, OneShown, Clean, Shown
  <2>2. CASE kind = "delete-event"
    <3>1. events' = [events EXCEPT ![e] = "none"]
      BY <1>2, <2>2 DEF Apply
    <3> HIDE DEF e, s
    <3> QED BY <1>1, <2>1, <2>2, <3>1 DEF Shown
  <2>3. CASE kind = "sync-job"
    <3>1. events' = [events EXCEPT ![e] = s]
      BY <1>2, <1>3, <2>3 DEF Apply
    <3> HIDE DEF e, s, kind
    <3>2. Shown' = {e} /\ events'[e] = s
      BY <1>1, <2>1, <3>1 DEF Shown
    <3> QED BY <2>1, <2>3, <3>2 DEF kind, s
  <2> QED BY <1>1, <2>2, <2>3
<1>4. CASE e = 0
  <2>1. kind = "sync-job" /\ \E f \in Events : events' = [events EXCEPT ![f] = s]
    BY <1>1, <1>2, <1>4 DEF Apply
  <2>2. Shown = {}
    BY <1>2, <1>4 DEF EventInv, NoneSeen, Clean
  <2>3. PICK f \in Events : events' = [events EXCEPT ![f] = s]
    BY <2>1
  <2> HIDE DEF e, s, kind
  <2>4. Shown' = {f} /\ events'[f] = s
    BY <1>1, <2>2, <2>3 DEF Shown
  <2> QED BY <2>1, <2>4 DEF kind, s
<1> QED BY <1>3, <1>4

\* A step of the queue that no handler takes leaves the calendar alone, a busy worker
\* where it was, or at its first step, and finishes no task.
Quiet ==
  /\ UNCHANGED events
  /\ \A w \in Workers : \/ worker'[w].pc \in {"idle", "read"}
                        \/ /\ worker'[w].pc = worker[w].pc /\ worker'[w].task = worker[w].task
                           /\ worker'[w].slot = worker[w].slot /\ worker'[w].event = worker[w].event
  /\ \A k \in Tasks : tasks'[k].state = "done" => tasks[k].state = "done"

LEMMA QuietSteps ==
  ASSUME BoundsAssumption, TypeInv, SyncNext
  PROVE  \/ \E c \in Edits : ApiStep(c)
         \/ \E w \in Workers : HandlerStep(w)
         \/ Quiet /\ QueueStep
<1>0. /\ worker \in [Workers -> Rows] /\ IdleWorker.pc = "idle"
      /\ tasks \in [Tasks -> TaskRows]
  BY QueueInvOfTypeInv DEF QueueInv, IdleWorker
<1>1. ASSUME NEW w \in Workers, Crash(w) PROVE Quiet
  BY <1>0, <1>1 DEF Crash, Quiet
<1>2. ASSUME NEW w \in Workers, NEW k \in Tasks, Take(w, k) PROVE Quiet
  <2>1. UNCHANGED events /\ worker'[w].pc = "read" /\ \A v \in Workers \ {w} : worker'[v] = worker[v]
    BY <1>0, <1>2 DEF Take, IdleWorker
  <2>2. \A j \in Tasks : tasks'[j].state = "done" => tasks[j].state = "done"
    BY <1>0, <1>2 DEF Take, TaskRows
  <2> QED BY <2>1, <2>2 DEF Quiet
<1>3. ASSUME NEW k \in Tasks, Stalled(k) PROVE Quiet
  <2>1. UNCHANGED events
    BY <1>3 DEF Stalled
  <2>2. \A j \in Tasks : j = k \/ tasks'[j] = tasks[j]
    BY <1>3, StalledKeepsTypes
  <2>3. tasks'[k].state # "done"
    BY <1>3, StalledKeepsTypes DEF Wrote
  <2> QED BY <1>3, <2>1, <2>2, <2>3, StalledKeepsTypes DEF Quiet
<1>4. RejectToken => Quiet
  BY DEF RejectToken, Quiet
<1>5. QueueStep \/ \E c \in Edits : ApiStep(c)
  BY QueueSteps
<1> QED BY <1>1, <1>2, <1>3, <1>4, <1>5 DEF SyncNext

LEMMA LastSame ==
  ASSUME TypeInv, QueueStep, NEW k \in Tasks
  PROVE  Last(k)' <=> Last(k)
<1>1. \A j \in Tasks : Added(j)' <=> Added(j)
  BY QueueStepOrder
<1> QED BY <1>1 DEF Last

LEMMA QuietKeepsShows ==
  ASSUME BoundsAssumption, TypeInv, ShowInv, Clean, Quiet, QueueStep,
         worker' \in [Workers -> Rows]
  PROVE  ShowInv'
<1>0. /\ \A k \in Tasks : (Last(k)' <=> Last(k)) /\ tasks'[k].kind = tasks[k].kind
      /\ UNCHANGED <<edit, signing, events>> /\ (Editing' <=> Editing) /\ Shown' = Shown
      /\ worker \in [Workers -> Rows]
  BY LastSame, QueueStepOrder, QueueInvOfTypeInv DEF QueueStep, Quiet, Editing, Shown, QueueInv
<1>1. LastKind'
  BY <1>0 DEF ShowInv, LastKind
<1>2. \A w \in Workers : worker[w].task \in Tasks /\ worker'[w].task \in Tasks
  BY <1>0 DEF Rows
<1>3. ReadIsFresh'
  <2> SUFFICES ASSUME ~Editing, NEW w \in Workers,
                      worker'[w].pc \in {"search", "request", "finish"}, Last(worker[w].task)'
               PROVE  worker'[w].slot = signing.slot
    BY <1>0 DEF ReadIsFresh, Quiet, Last, Added
  <2>1. PICK k \in Tasks : k = worker[w].task /\ k = worker'[w].task
    BY <1>2 DEF Quiet
  <2>2. Last(k)
    BY <1>0, <2>1 DEF Last, Added
  <2> QED BY <2>1, <2>2 DEF Quiet, ShowInv, ReadIsFresh
<1>4. FoundIsShown'
  BY <1>0 DEF ShowInv, FoundIsShown, Quiet
<1>5. AppliedShows'
  <2> SUFFICES ASSUME NEW w \in Workers, worker'[w].pc = "finish",
                      NEW k \in Tasks, k = worker'[w].task
               PROVE  IF tasks'[k].kind = "sync-job"
                      THEN \E e \in Events : Shown' = {e} /\ events'[e] = worker'[w].slot
                      ELSE Shown' = {}
    BY <1>2 DEF AppliedShows, Shows
  <2> QED BY <1>0 DEF Quiet, ShowInv, AppliedShows, Shows
<1>6. DoneShows'
  BY <1>0 DEF ShowInv, DoneShows, Quiet, Shows
<1> QED BY <1>1, <1>3, <1>4, <1>5, <1>6 DEF ShowInv

\* A handler's step, while it is clean.
LEMMA HandlersKeepShows ==
  ASSUME BoundsAssumption, AllNear, NoneIsNoSlot, TypeInv, EventInv, OrderInv, ShowInv, Clean,
         NEW w \in Workers, HandlerStep(w), Clean', TypeInv', EventInv'
  PROVE  ShowInv'
<1>0. /\ QueueStep
      /\ \A k \in Tasks : (Last(k)' <=> Last(k)) /\ tasks'[k].kind = tasks[k].kind
      /\ UNCHANGED <<edit, signing>> /\ (Editing' <=> Editing)
      /\ worker \in [Workers -> Rows] /\ worker' \in [Workers -> Rows]
  <2>1. QueueStep
    BY HandlerTasks
  <2> QED BY <2>1, LastSame, QueueStepOrder DEF QueueStep, Editing, TypeInv, SyncTypeOK, Rows
<1>1. LastKind'
  BY <1>0 DEF ShowInv, LastKind
<1>2. \A v \in Workers \ {w} : worker'[v].pc = "idle"
  BY HandlerEffect DEF EventInv, OneHandler, Clean
<1>3. PICK k \in Tasks : k = worker[w].task
  BY <1>0 DEF Rows
<1>4. worker'[w].pc # "idle" =>
        /\ worker'[w].task = k /\ UNCHANGED tasks
        /\ ReadJob(w) \/ Search(w) \/ Request(w) \/ RequestRejected(w)
  <2>1. Search(w) \/ ReadJob(w) => worker'[w].task = k
    BY <1>0, <1>3 DEF Search, ReadJob, Rows
  <2>2. Request(w) => worker'[w].task = k
    BY <1>0, <1>3 DEF Request, Proceed, Rows
  <2>3. RequestRejected(w) /\ worker'[w].pc # "idle" => worker'[w].task = k
    BY <1>0, <1>3 DEF RequestRejected, Rethrow, IdleWorker, Rows
  <2> QED BY <2>1, <2>2, <2>3, BusyKeepsTasks
<1>5. ReadIsFresh'
  <2> SUFFICES ASSUME ~Editing, worker'[w].pc \in {"search", "request", "finish"}, Last(k)
               PROVE  worker'[w].slot = signing.slot
    <3>1. worker'[w].pc # "idle" /\ Last(worker[w].task)' => Last(k)
      BY <1>0, <1>3, <1>4 DEF Last, Added
    <3> QED BY <1>0, <1>2, <3>1 DEF ReadIsFresh
  <2>1. CASE ReadJob(w)
    BY <1>0, <2>1 DEF ReadJob, Rows
  <2>2. CASE Search(w) \/ Request(w) \/ RequestRejected(w)
    <3>1. worker[w].pc \in {"search", "request"}
      BY <2>2 DEF Search, Request, RequestRejected
    <3>2. worker[w].slot = signing.slot
      BY <1>3, <3>1 DEF ShowInv, ReadIsFresh
    <3>3. Search(w) => worker'[w].slot = worker[w].slot
      BY <1>0 DEF Search, Rows
    <3>4. Request(w) => worker'[w].slot = worker[w].slot
      BY <1>0 DEF Request, Proceed, Rows
    <3>5. RequestRejected(w) => worker'[w].slot = worker[w].slot
      BY <1>0 DEF RequestRejected, Rethrow, IdleWorker, Rows
    <3> QED BY <2>2, <3>2, <3>3, <3>4, <3>5
  <2> QED BY <1>4, <2>1, <2>2
<1>6. FoundIsShown'
  <2> SUFFICES ASSUME worker'[w].pc = "request", worker'[w].event # 0
               PROVE  worker'[w].event \in Shown'
    BY <1>2 DEF FoundIsShown
  <2>1. ~ReadJob(w) /\ ~Request(w)
    <3>1. ReadJob(w) => worker'[w].pc = "search"
      BY <1>0 DEF ReadJob, Rows
    <3>2. Request(w) => worker'[w].pc = "finish"
      BY <1>0 DEF Request, Proceed, Rows
    <3> QED BY <3>1, <3>2
  <2>2. CASE Search(w)
    <3>1. worker'[w].event \in Matching(worker[w].slot) /\ UNCHANGED events
      BY <1>0, <2>2 DEF Search, Rows
    <3> QED BY <3>1 DEF Matching, Shown
  <2>3. CASE RequestRejected(w)
    <3>1. UNCHANGED events /\ worker[w].pc = "request" /\ worker'[w].event = worker[w].event
      BY <1>0, <2>3 DEF RequestRejected, Rethrow, IdleWorker, Rows
    <3> QED BY <3>1 DEF ShowInv, FoundIsShown, Shown
  <2> QED BY <1>4, <2>1, <2>2, <2>3
<1>7. AppliedShows'
  <2> SUFFICES ASSUME worker'[w].pc = "finish"
               PROVE  IF tasks[k].kind = "sync-job"
                      THEN \E e \in Events : Shown' = {e} /\ events'[e] = worker'[w].slot
                      ELSE Shown' = {}
    BY <1>2, <1>4 DEF AppliedShows, Shows
  <2>1. ~ReadJob(w) /\ ~Search(w) /\ ~RequestRejected(w)
    BY <1>0 DEF ReadJob, Search, RequestRejected, Rethrow, IdleWorker, Rows
  <2>2. Request(w)
    BY <1>4, <2>1
  <2>3. worker'[w].slot = worker[w].slot
    BY <1>0, <2>2 DEF Request, Proceed, Rows
  <2> QED BY <1>3, <2>2, <2>3, RequestShows
<1>8. DoneShows'
  <2> SUFFICES ASSUME ~Editing, NEW j \in Tasks, Last(j), tasks'[j].state = "done"
               PROVE  IF tasks[j].kind = "sync-job"
                      THEN \E e \in Events : Shown' = {e} /\ events'[e] = signing.slot
                      ELSE Shown' = {}
    BY <1>0 DEF DoneShows, Shows
  <2>1. tasks[j].state # "done"
    BY HandlerEffect, LastDoneIdle
  <2>2. ~UNCHANGED tasks
    BY <2>1
  <2>3. ASSUME Rethrow(w) PROVE FALSE
    <3>1. tasks'[j] = tasks[j] \/ Wrote(j, "waiting") \/ Wrote(j, "failed")
      BY <2>3, RethrowKeepsTypes
    <3> QED BY <2>1, <3>1 DEF Wrote
  <2>4. Finish(w) /\ (NoEvent(w) \/ Done(w))
    BY <2>2, <2>3 DEF HandlerStep, ReadJob, Search, HandlerThrows, NoEvent, Request,
                      RequestRejected, RequestThrows, Done
  <2>5. j = k
    <3>1. tasks' = [tasks EXCEPT ![k].state = IF worker[w].locked THEN "done" ELSE @]
      BY <1>3, <2>4 DEF Finish
    <3> QED BY <2>1, <3>1 DEF TypeInv, SyncTypeOK
  <2>6. UNCHANGED events
    BY <2>4 DEF NoEvent, Done
  <2>7. CASE Done(w)
    <3>1. worker[w].pc = "finish"
      BY <2>7 DEF Done
    <3>2. worker[w].slot = signing.slot
      BY <1>3, <2>5, <3>1 DEF ShowInv, ReadIsFresh
    <3> QED BY <1>3, <2>5, <2>6, <3>1, <3>2 DEF ShowInv, AppliedShows, Shows, Shown
  <2>8. CASE NoEvent(w)
    <3>1. Shown = {}
      BY <2>8 DEF NoEvent, EventInv, NoneSeen, Clean
    <3> QED BY <1>3, <2>5, <2>6, <2>8, <3>1 DEF NoEvent, Shown
  <2> QED BY <2>4, <2>7, <2>8
<1> QED BY <1>1, <1>5, <1>6, <1>7, <1>8 DEF ShowInv

\* A call's step, while it is clean.
LEMMA CallsKeepShows ==
  ASSUME BoundsAssumption, TypeInv, OrderInv, ShowInv, Clean, ~Overtake,
         NEW c \in Edits, ApiStep(c), Clean', OrderInv'
  PROVE  ShowInv'
<1>0. /\ UNCHANGED <<worker, events>> /\ Shown' = Shown
      /\ worker \in [Workers -> Rows] /\ edit \in [Edits -> CallPcs] /\ signing.live \in BOOLEAN
      /\ \A w \in Workers : worker[w].task \in Tasks
  <2>1. UNCHANGED <<worker, events>>
    BY DEF ApiStep, WriteEdit, EnqueueSync, BeginRemove, EnqueueDelete, WriteDeleted, CallFails
  <2> QED BY <2>1, QueueInvOfTypeInv DEF TypeInv, SyncTypeOK, CallPcs, QueueInv, Shown, Rows
<1>1. \A d \in Edits \ {c} : edit[d] = "idle" /\ edit'[d] = "idle"
  <2>1. \A d \in Edits \ {c} : edit'[d] = edit[d]
    BY <1>0 DEF ApiStep, WriteEdit, EnqueueSync, BeginRemove, EnqueueDelete, WriteDeleted, CallFails, Begin
  <2>2. edit[c] # "idle" \/ edit'[c] # "idle"
    BY <1>0 DEF ApiStep, WriteEdit, EnqueueSync, BeginRemove, EnqueueDelete, WriteDeleted, CallFails, Begin
  <2> QED BY <2>1, <2>2 DEF Overtake, OrderInv, OneCall, Clean
<1>2. PICK l \in Tasks : Last(l)
  BY DEF OrderInv, HasLast
<1>3. FoundIsShown'
  BY <1>0 DEF ShowInv, FoundIsShown
<1>4. ASSUME UNCHANGED tasks
      PROVE  /\ AppliedShows' /\ \A k \in Tasks : Last(k)' <=> Last(k)
             /\ \A k \in Tasks : tasks'[k] = tasks[k]
             /\ UNCHANGED signing.slot /\ (Editing' => Editing) /\ (Editing => Editing') =>
                  ReadIsFresh' /\ DoneShows'
  <2>1. AppliedShows'
    BY <1>0, <1>4 DEF ShowInv, AppliedShows, Shows
  <2>2. \A k \in Tasks : Last(k)' <=> Last(k)
    BY <1>4 DEF Last, Added
  <2>3. UNCHANGED signing.slot /\ (Editing' => Editing) /\ (Editing => Editing') => ReadIsFresh'
    BY <1>0, <1>4 DEF ShowInv, ReadIsFresh, Last, Added
  <2>4. UNCHANGED signing.slot /\ (Editing' => Editing) /\ (Editing => Editing') => DoneShows'
    BY <1>0, <1>4 DEF ShowInv, DoneShows, Shows, Last, Added
  <2> QED BY <1>4, <2>1, <2>2, <2>3, <2>4
<1>5. ASSUME NEW kind, NEW k \in Tasks, Adds(kind, k)
      PROVE  /\ AppliedShows' /\ ReadIsFresh' /\ DoneShows'
             /\ tasks'[k].kind = kind /\ \A j \in Tasks : Last(j)' => j = k
  <2>0. /\ \A j \in Tasks : Added(j)' <=> Added(j) \/ j = k
        /\ ~Touched(k) /\ tasks'[k].kind = kind /\ tasks'[k].state = "waiting"
    BY <1>5, AddsOrder
  <2>1. \A j \in Tasks : Last(j)' => j = k
    <3> SUFFICES ASSUME NEW j \in Tasks, Last(j)', j # k PROVE FALSE
      OBVIOUS
    <3>1. Added(k)' /\ k <= j
      BY <2>0 DEF Last
    <3>2. k \in 1..j /\ Added(j)
      BY <2>0, <3>1 DEF Tasks, Last, BoundsAssumption
    <3>3. Added(k)
      BY <3>2 DEF OrderInv, AddedInOrder
    <3> QED BY <1>5, <3>3 DEF Adds, Added
  <2>2. \A w \in Workers : worker[w].pc # "idle" => worker[w].task # k
    BY <2>0 DEF OrderInv, BusyTouched
  <2>3. AppliedShows'
    <3> SUFFICES ASSUME NEW w \in Workers, worker[w].pc = "finish",
                        NEW j \in Tasks, j = worker[w].task
                 PROVE  IF tasks'[j].kind = "sync-job"
                        THEN \E e \in Events : Shown = {e} /\ events[e] = worker[w].slot
                        ELSE Shown = {}
      BY <1>0 DEF AppliedShows, Shows
    <3>1. tasks'[j] = tasks[j]
      BY <1>5, <2>2 DEF Adds
    <3> QED BY <3>1 DEF ShowInv, AppliedShows, Shows
  <2>4. ReadIsFresh'
    <3> SUFFICES ASSUME NEW w \in Workers, worker[w].pc # "idle",
                        NEW j \in Tasks, j = worker[w].task, Last(j)'
                 PROVE  FALSE
      BY <1>0 DEF ReadIsFresh, Last, Added
    <3> QED BY <2>1, <2>2
  <2>5. DoneShows'
    BY <2>0, <2>1 DEF DoneShows
  <2> QED BY <2>0, <2>1, <2>3, <2>4, <2>5
<1>6. CASE WriteEdit(c)
  <2>1. /\ UNCHANGED tasks /\ edit[c] = "idle" /\ signing.live /\ edit'[c] = "addSync" /\ signing'.live
    BY <1>0, <1>6 DEF WriteEdit, Begin, TypeInv, SyncTypeOK
  <2>2. Editing'
    BY <2>1 DEF Editing
  <2>3. LastKind'
    BY <1>1, <1>4, <2>1 DEF LastKind
  <2> QED BY <1>3, <1>4, <2>1, <2>2, <2>3 DEF ShowInv, ReadIsFresh, DoneShows
<1>7. CASE EnqueueSync(c)
  <2>1. /\ edit[c] = "addSync" /\ edit'[c] = "idle" /\ UNCHANGED signing
    BY <1>0, <1>7 DEF EnqueueSync
  <2>2. PICK k \in Tasks : Adds("sync-job", k)
    BY <1>7, EnqueueAdds DEF EnqueueSync, Clean
  <2>3. signing.live
    BY <1>2, <2>1 DEF ShowInv, LastKind
  <2>4. LastKind'
    BY <1>1, <1>5, <2>1, <2>2, <2>3 DEF LastKind
  <2> QED BY <1>3, <1>5, <2>2, <2>4 DEF ShowInv
<1>8. CASE BeginRemove(c)
  <2>1. UNCHANGED <<tasks, signing>> /\ edit[c] = "idle" /\ signing.live /\ edit'[c] = "addDelete"
    BY <1>0, <1>8 DEF BeginRemove, Begin
  <2>2. ~Editing /\ ~Editing'
    BY <1>1, <2>1 DEF Editing
  <2>3. \A k \in Tasks : Last(k) => tasks[k].kind = "sync-job"
    BY <1>1, <2>1 DEF ShowInv, LastKind
  <2>4. LastKind'
    BY <1>1, <1>4, <2>1, <2>3 DEF LastKind
  <2> QED BY <1>3, <1>4, <2>1, <2>2, <2>4 DEF ShowInv
<1>9. CASE EnqueueDelete(c)
  <2>1. UNCHANGED signing
    BY <1>9 DEF EnqueueDelete
  <2>2. PICK k \in Tasks : Adds("delete-event", k)
    BY <1>9, EnqueueAdds DEF EnqueueDelete, Clean
  <2>3. \/ edit[c] = "addDelete" /\ edit'[c] = "remove" /\ signing.live
        \/ edit[c] = "flush" /\ edit'[c] = "idle" /\ ~signing.live
    BY <1>0, <1>2, <1>9 DEF EnqueueDelete, ShowInv, LastKind
  <2>4. LastKind'
    BY <1>1, <1>5, <2>1, <2>2, <2>3 DEF LastKind
  <2> QED BY <1>3, <1>5, <2>2, <2>4 DEF ShowInv
<1>10. CASE WriteDeleted(c)
  <2>1. UNCHANGED tasks /\ ~signing'.live /\ signing'.slot = signing.slot
    BY <1>10 DEF WriteDeleted, TypeInv, SyncTypeOK
  <2>2. \/ edit[c] = "addDelete" /\ edit'[c] = "flush"
        \/ /\ edit[c] = "remove" /\ edit'[c] = "idle"
           /\ \A k \in Tasks : Last(k) => tasks[k].kind = "delete-event"
    BY <1>0, <1>10 DEF WriteDeleted, ShowInv, LastKind
  <2>3. ~Editing /\ ~Editing'
    BY <1>1, <2>2 DEF Editing
  <2>4. LastKind'
    BY <1>1, <1>4, <2>1, <2>2 DEF LastKind
  <2> QED BY <1>3, <1>4, <2>1, <2>3, <2>4 DEF ShowInv
<1>11. CASE CallFails(c)
  <2>1. UNCHANGED <<tasks, signing>> /\ edit[c] = "addDelete" /\ edit'[c] = "idle"
    BY <1>0, <1>11 DEF CallFails, Clean
  <2>2. ~Editing /\ ~Editing'
    BY <1>1, <2>1 DEF Editing
  <2>3. LastKind'
    BY <1>1, <1>4, <2>1 DEF ShowInv, LastKind
  <2> QED BY <1>3, <1>4, <2>1, <2>2, <2>3 DEF ShowInv
<1> QED BY <1>6, <1>7, <1>8, <1>9, <1>10, <1>11 DEF ApiStep

LEMMA ShowInvKept ==
  ASSUME BoundsAssumption, AllNear, NoneIsNoSlot, TypeInv, EventInv, OrderInv, ShowInv, [SyncNext]_syncVars
  PROVE  ShowInv'
<1>1. CASE UNCHANGED syncVars
  BY <1>1 DEF syncVars, ShowInv, LastKind, ReadIsFresh, FoundIsShown, AppliedShows, DoneShows, Clean,
              Last, Added, Editing, Shows, Shown
<1>2. CASE SyncNext /\ ~Clean'
  BY <1>2 DEF ShowInv, LastKind, ReadIsFresh, FoundIsShown, AppliedShows, DoneShows
<1>3. CASE SyncNext /\ Clean'
  <2>1. TypeInv' /\ EventInv' /\ OrderInv' /\ Clean /\ ~Overtake
    BY <1>3, TypesKept, EventInvKept, OrderInvKept, CleanBefore
  <2>2. ASSUME NEW c \in Edits, ApiStep(c) PROVE ShowInv'
    BY <1>3, <2>1, <2>2, CallsKeepShows
  <2>3. ASSUME NEW w \in Workers, HandlerStep(w) PROVE ShowInv'
    BY <1>3, <2>1, <2>3, HandlersKeepShows
  <2>4. CASE Quiet /\ QueueStep
    <3>1. worker' \in [Workers -> Rows]
      BY <2>1 DEF TypeInv, SyncTypeOK, Rows
    <3> QED BY <2>1, <2>4, <3>1, QuietKeepsShows
  <2> QED BY <1>3, <2>2, <2>3, <2>4, QuietSteps
<1> QED BY <1>1, <1>2, <1>3

\* When calls and tasks are over, the last task was done and is about what the job is now.
LEMMA SettledShows == TypeInv /\ OrderInv /\ ShowInv => CalendarShowsJob
<1> SUFFICES ASSUME TypeInv, OrderInv, ShowInv, Settled, Clean
             PROVE  IF signing.live THEN \E e \in Events : Shown = {e} /\ events[e] = signing.slot
                    ELSE Shown = {}
  BY DEF CalendarShowsJob, Clean
<1>1. PICK k \in Tasks : Last(k)
  BY DEF OrderInv, HasLast
<1>2. tasks[k].state = "done"
  BY <1>1 DEF Settled, Last, Added
<1>3. ~Editing /\ \A c \in Edits : edit[c] = "idle"
  BY DEF Settled, Editing
<1>4. Shows(tasks[k].kind, signing.slot)
  BY <1>1, <1>2, <1>3 DEF ShowInv, DoneShows
<1>5. IF signing.live THEN tasks[k].kind = "sync-job" ELSE tasks[k].kind = "delete-event"
  BY <1>1, <1>3 DEF ShowInv, LastKind
<1> QED BY <1>4, <1>5 DEF Shows

\* When nothing is left to do, the calendar shows a live job at its present time and
\* place and nothing of a removed one, however edits, retries, crashes and lost locks
\* fell between the reads and the requests, provided the look-up can find every slot of
\* the job, and until a look-up failed, a task was lost, a removal that had queued its
\* task failed before the row, or tasks overlapped or changed their order.
THEOREM CalendarShowsJobKept ==
  ASSUME BoundsAssumption, AllNear, NoneIsNoSlot PROVE SyncSpec => []CalendarShowsJob
<1>1. SyncInit => TypeInv /\ EventInv /\ OrderInv /\ ShowInv
  <2>1. SyncInit => EventInv
    BY DEF SyncInit, EventInv, OneHandler, OneShown, NoneSeen, Shown, IdleWorker
  <2> QED BY <2>1, Initially, OrderInitially, ShowsInitially
<1>2. TypeInv /\ EventInv /\ OrderInv /\ ShowInv /\ [SyncNext]_syncVars =>
        TypeInv' /\ EventInv' /\ OrderInv' /\ ShowInv'
  BY TypesKept, EventInvKept, OrderInvKept, ShowInvKept
<1>3. TypeInv /\ OrderInv /\ ShowInv => CalendarShowsJob
  BY SettledShows
<1> QED BY <1>1, <1>2, <1>3, PTL DEF SyncSpec

==============================================================================
