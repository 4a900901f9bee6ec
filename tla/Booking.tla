------------------------------ MODULE Booking -------------------------------
(***************************************************************************)
(* The public booking page of one notary: BookingService.create, .approve, *)
(* .decline and .cancel with the rows of the bookings and of the jobs they *)
(* make, and the jobs the notary enters by hand.                           *)
(*                                                                         *)
(* create checks the slot and inserts in one SERIALIZABLE transaction,     *)
(* approve and cancel write in one READ COMMITTED transaction, decline     *)
(* writes by id.  The page is on, the plan is paid and the settings stay   *)
(* as they are; later edits of a job's time belong to JobLifecycle.        *)
(***************************************************************************)
EXTENDS BookingSlots, FiniteSets

CONSTANTS Ids,                \* bookings that can ever be made
          Manual,             \* jobs the notary can enter by hand
          Calls,              \* API calls that can be under way at once
          Starts,             \* times asked for
          Services, Block,    \* services, and the minutes each takes
          ManualMins,         \* minutes a job entered by hand can take
          Buffer, Open, Close, Now, Notice, Limit  \* settings, and the time

ASSUME SettingsAssumption ==
  /\ Starts \subseteq Int /\ ManualMins \subseteq Nat \ {0}
  /\ Block \in [Services -> Nat \ {0}]
  /\ Buffer \in Nat /\ Open \in Nat /\ Close \in Open..Day
  /\ Now \in Int /\ Notice \in Nat /\ Limit \in Nat
  /\ Ids \cap Manual = {}
  /\ Ids # {} /\ Starts # {} /\ Services # {}

VARIABLES booking,        \* status, requested_time and service_type of each booking
          job,            \* the job of each booking, and the jobs entered by hand
          call,           \* per call: next step and what it has read
          confirmations,  \* history: confirmation emails of each booking
          raced           \* history, per booking: it was changed while another
                          \* review was about to write by an earlier read

vars == <<booking, job, call, confirmations, raced>>

AStart   == CHOOSE t \in Starts : TRUE
AService == CHOOSE v \in Services : TRUE
AnId     == CHOOSE b \in Ids : TRUE

NoBooking == [status |-> "NONE", start |-> AStart, service |-> AService]
NoJob     == [state |-> "none", start |-> 0, end |-> 0]
GoneJob   == [state |-> "gone", start |-> 0, end |-> 0]
IdleCall  == [pc |-> "idle", id |-> AnId, start |-> AStart, service |-> AService,
              seen |-> {}]

Init ==
  /\ booking = [b \in Ids |-> NoBooking]
  /\ job = [j \in Ids \cup Manual |-> NoJob]
  /\ call = [c \in Calls |-> IdleCall]
  /\ confirmations = [b \in Ids |-> 0]
  /\ raced = [b \in Ids |-> FALSE]

Goto(c, pc) == call' = [call EXCEPT ![c].pc = pc]
Return(c)   == call' = [call EXCEPT ![c] = IdleCall]

Made == {b \in Ids : booking[b].status # "NONE"}

BookingBlock(b) ==
  [start |-> booking[b].start, end |-> booking[b].start + Block[booking[b].service]]

\* What occupies the calendar: jobs CONFIRMED, IN_PROGRESS or SCANNING, and
\* bookings under review.
Occupied ==
  {[start |-> job[j].start, end |-> job[j].end] :
     j \in {k \in Ids \cup Manual : job[k].state = "live"}}
  \cup {BookingBlock(b) : b \in {k \in Ids : booking[k].status = "PENDING_REVIEW"}}

------------------------------------------------------------------------------
(* create *)

\* The transaction's snapshot: refused at once if the slot is taken.
CheckSlot(c) ==
  /\ call[c].pc = "idle"
  /\ \E t \in Starts, v \in Services :
       /\ Bookable(t, Now, Notice, Limit)
       /\ ~IsSlotBlockTaken(Occupied, t, Block[v], Buffer)
       /\ call' = [call EXCEPT ![c] = [IdleCall EXCEPT
            !.pc = "insert", !.start = t, !.service = v, !.seen = Made]]
  /\ UNCHANGED <<booking, job, confirmations>>

\* Mutant of SerializationConflict: the transaction is READ COMMITTED.
NoSerializationConflict(c) == FALSE

\* Of two concurrent creates that each insert into what the other has read,
\* only the first can commit.
SerializationConflict(c) ==
  \E b \in Made \ call[c].seen :
    /\ InWindow(BookingBlock(b), call[c].start, Block[call[c].service], Buffer)
    /\ InWindow([start |-> call[c].start], booking[b].start,
                Block[booking[b].service], Buffer)

Insert(c) ==
  /\ call[c].pc = "insert"
  /\ ~SerializationConflict(c)
  /\ Made # Ids
  /\ LET b == CHOOSE b \in Ids \ Made : TRUE
     IN booking' = [booking EXCEPT ![b] = [status |-> "PENDING_REVIEW",
          start |-> call[c].start, service |-> call[c].service]]
  /\ Return(c)
  /\ UNCHANGED <<job, confirmations>>

\* P2034: reported to the client as SLOT_CONFLICT.  The database may abort a
\* transaction it did not have to.
SerializationAbort(c) ==
  /\ call[c].pc = "insert"
  /\ Return(c)
  /\ UNCHANGED <<booking, job, confirmations>>

------------------------------------------------------------------------------
(* approve: check, then check again inside the transaction that writes *)

CheckApprove(c) ==
  /\ call[c].pc = "idle"
  /\ \E b \in Ids :
       /\ booking[b].status = "PENDING_REVIEW"
       /\ call' = [call EXCEPT ![c] = [IdleCall EXCEPT !.pc = "approve", !.id = b]]
  /\ UNCHANGED <<booking, job, confirmations>>

RecheckApprove(c) ==
  /\ call[c].pc = "approve"
  /\ IF booking[call[c].id].status = "PENDING_REVIEW" THEN Goto(c, "confirm") ELSE Return(c)
  /\ UNCHANGED <<booking, job, confirmations>>

\* Mutant of Unlinked: job.booking_id is not unique.
UnlinkedAny(b) == TRUE

Unlinked(b) == job[b].state = "none"

\* job.booking_id is unique: a second insert fails and undoes the transaction.
Confirm(c) ==
  /\ call[c].pc = "confirm"
  /\ LET b == call[c].id IN
       /\ Unlinked(b)
       /\ job' = [job EXCEPT ![b] = [state |-> "live", start |-> booking[b].start,
                                     end |-> BookingBlock(b).end]]
       /\ booking' = [booking EXCEPT ![b].status = "CONFIRMED"]
       /\ confirmations' = [confirmations EXCEPT ![b] = @ + 1]
  /\ Return(c)

ConfirmRefused(c) ==
  /\ call[c].pc = "confirm"
  /\ ~Unlinked(call[c].id)
  /\ Return(c)
  /\ UNCHANGED <<booking, job, confirmations>>

------------------------------------------------------------------------------
(* decline and cancel: check, then write *)

Declinable(b) == booking[b].status = "PENDING_REVIEW"

CheckDecline(c) ==
  /\ call[c].pc = "idle"
  /\ \E b \in Ids :
       /\ Declinable(b)
       /\ call' = [call EXCEPT ![c] = [IdleCall EXCEPT !.pc = "decline", !.id = b]]
  /\ UNCHANGED <<booking, job, confirmations>>

Decline(c) ==
  /\ call[c].pc = "decline"
  /\ booking' = [booking EXCEPT ![call[c].id].status = "DECLINED"]
  /\ Return(c)
  /\ UNCHANGED <<job, confirmations>>

CheckCancel(c) ==
  /\ call[c].pc = "idle"
  /\ \E b \in Ids :
       /\ booking[b].status = "CONFIRMED"
       /\ call' = [call EXCEPT ![c] = [IdleCall EXCEPT !.pc = "cancel", !.id = b]]
  /\ UNCHANGED <<booking, job, confirmations>>

\* Mutant of Cancel: the linked job stays.
CancelKeepsJob(c) ==
  /\ call[c].pc = "cancel"
  /\ booking' = [booking EXCEPT ![call[c].id].status = "CANCELLED_BY_CLIENT"]
  /\ Return(c)
  /\ UNCHANGED <<job, confirmations>>

\* The transaction takes the linked job with it, whatever its status.
Cancel(c) ==
  /\ call[c].pc = "cancel"
  /\ LET b == call[c].id IN
       /\ job' = IF Unlinked(b) THEN job
                 ELSE [job EXCEPT ![b] = GoneJob]
       /\ booking' = [booking EXCEPT ![b].status = "CANCELLED_BY_CLIENT"]
  /\ Return(c)
  /\ UNCHANGED confirmations

------------------------------------------------------------------------------
(* Jobs the notary handles through JobsService *)

\* JobsService.create does not look at the calendar.
AddManualJob(j) ==
  /\ job[j].state = "none"
  /\ \E t \in Starts, m \in ManualMins :
       job' = [job EXCEPT ![j] = [state |-> "live", start |-> t,
                                  end |-> JobBlockEnd(t, m, t + m)]]
  /\ UNCHANGED <<booking, call, confirmations>>

\* A job completes, is cancelled or is removed: it no longer occupies the
\* calendar, and its times no longer matter.
ReleaseJob(j) ==
  /\ job[j].state = "live"
  /\ job' = [job EXCEPT ![j] = GoneJob]
  /\ UNCHANGED <<booking, call, confirmations>>

------------------------------------------------------------------------------
CreateStep(c)  == CheckSlot(c) \/ Insert(c) \/ SerializationAbort(c)
ApproveStep(c) == CheckApprove(c) \/ RecheckApprove(c) \/ Confirm(c) \/ ConfirmRefused(c)
RefuseStep(c)  == CheckDecline(c) \/ Decline(c) \/ CheckCancel(c) \/ Cancel(c)

\* A review between its read of booking b and its write.
Holding(c, b) == call[c].pc \in {"approve", "confirm", "decline", "cancel"}
                 /\ call[c].id = b

Race(b) == booking'[b] # booking[b] /\ \E c \in Calls : Holding(c, b) /\ call'[c] = call[c]

Next == /\ \/ \E c \in Calls : CreateStep(c) \/ ApproveStep(c) \/ RefuseStep(c)
           \/ \E j \in Manual : AddManualJob(j)
           \/ \E j \in Ids \cup Manual : ReleaseJob(j)
        /\ raced' = [b \in Ids |-> raced[b] \/ Race(b)]

Spec == Init /\ [][Next]_vars

------------------------------------------------------------------------------
(* Properties *)

BookingType ==
  [status : {"NONE", "PENDING_REVIEW", "CONFIRMED", "DECLINED", "CANCELLED_BY_CLIENT"},
   start : Starts, service : Services]
CallType ==
  [pc : {"idle", "insert", "approve", "confirm", "decline", "cancel"},
   id : Ids, start : Starts, service : Services, seen : SUBSET Ids]

\* The variables stay within their types.
TypeOK ==
  /\ booking \in [Ids -> BookingType]
  /\ job \in [Ids \cup Manual ->
                [state : {"none", "live", "gone"}, start : Int, end : Int]]
  /\ call \in [Calls -> CallType]
  /\ confirmations \in [Ids -> Nat]
  /\ raced \in [Ids -> BOOLEAN]

\* A booking that still claims its time: under review, or its job is live.
Claims(b) == booking[b].status = "PENDING_REVIEW" \/ job[b].state = "live"

\* Two bookings never hold overlapping times, buffer included, however many
\* clients ask at once and whatever the notary decides meanwhile, unless reviews
\* of one of the two raced: a decline frees the time that a late approval takes.
NoDoubleBooking ==
  \A a, b \in Ids : a # b /\ Claims(a) /\ Claims(b) /\ ~raced[a] /\ ~raced[b]
    => ~OverlapsBlock(booking[a].start, BookingBlock(a).end, Buffer, BookingBlock(b))

\* "Re-read the booking inside the transaction to prevent double-approval races":
\* a booking's client is sent one confirmation at most, raced or not.
OneConfirmation == \A b \in Ids : confirmations[b] <= 1

\* A booking that was refused or called off holds no job on the calendar, unless
\* its reviews raced.
RefusedHasNoJob ==
  \A b \in Ids : ~raced[b] /\ booking[b].status \in {"DECLINED", "CANCELLED_BY_CLIENT"}
                   => job[b].state # "live"

\* "Generous window so long signings that begin earlier still get caught": of the
\* blocks that meet a candidate, the window of isSlotBlockTaken leaves out only one
\* that is longer than the padding and began before the window; such a job can be
\* booked over.
MissedOnesAreLong ==
  \A t \in Starts, v \in Services, o \in Occupied :
    OverlapsBlock(t, t + Block[v], Buffer, o)
      => \/ InWindow(o, t, Block[v], Buffer)
         \/ o.end - o.start > WindowPad /\ o.start < t - (Buffer + WindowPad)

\* "Shows clients only the time slots a notary can genuinely accept": a slot the
\* page offers is one that create would take at that moment.
OfferedIsAccepted ==
  \A v \in Services :
    \A t \in ComputeSlots(Occupied, Open, Close, Block[v], Buffer, Now, Notice, Limit) :
      Bookable(t, Now, Notice, Limit) /\ ~IsSlotBlockTaken(Occupied, t, Block[v], Buffer)
==============================================================================
