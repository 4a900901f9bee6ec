------------------------------- MODULE DayPlan --------------------------------
(***************************************************************************)
(* One day of one notary: the jobs on it, the answers of CITT ("Can I Take *)
(* This?", CittService.runCheck) about jobs offered to it, and the plan    *)
(* PlannerService makes of it (getToday, optimise, findGaps) with the      *)
(* routes of OrsService.                                                   *)
(*                                                                         *)
(* Times are in minutes.  CITT and the planner write nothing the other     *)
(* reads, so a behaviour follows one of them beside the comings and goings *)
(* of the jobs.                                                            *)
(*                                                                         *)
(* A request of the planner reads the jobs once and then writes row after  *)
(* row; several run at once and nothing keeps them apart.                  *)
(***************************************************************************)
EXTENDS Integers, FiniteSets, Sequences, Functions

CONSTANTS MaxJobs,     \* jobs that ever come to the day, numbered as they come
          Offers,      \* jobs that can be offered: a record each
          OtherTimes,  \* times a job can be moved to
          Home, Drive, \* home base; Drive[p][q]: minutes from one place to another
          Rate,        \* cost of a minute of driving, both ways
          MinNet,      \* settings: net earnings not worth it
          Requests,    \* bound: requests made of the planner
          MaxUpsets    \* bound: changes of jobs on the day, routes and writes lost

Jobs == 1..MaxJobs

MinGap    == 10  \* MIN_GAP_MINS
Tolerance == 10  \* of isFeasibleOrder
Buffer    == 10  \* of findGaps
LeastGap  == 30
TakeItNet == 20
Delays    == {0, 15}  \* minutes scanning may begin late

VARIABLES
  side,    \* the side followed, "citt" or "planner"
  job,     \* the job rows of the day
  answer,  \* per offer: CITT's verdict; "old" if the day has changed since and the
           \* verdict is still cached
  plan,    \* the planner's requests: what each is at, the stops it writes, with the time
           \* read of each, and the next of them; whether nobody else has changed the day
           \* since it was read by an optimise with every job and route
  routed,  \* history: nobody has changed the day since the read of an optimise that
           \* every route and every job took part in
  misdated,\* history: jobs whose stored window was taken back or away
  left,    \* history: a job has left the day, or its time on it
  upsets   \* jobs moved, worked on and gone, and requests that lost routes

vars == <<side, job, answer, plan, routed, misdated, left, upsets>>

None == -1  \* NULL

AnOffer == CHOOSE o \in Offers : TRUE
NoJob   == [state |-> "none", offer |-> AnOffer, at |-> 0, scanEnds |-> None, late |-> 0,
            seq |-> None, leg |-> None, verdict |-> "unchecked"]

NoRequest == [pc |-> "none", stops |-> << >>, next |-> 1, fresh |-> FALSE]

Init ==
  /\ side \in {"citt", "planner"}
  /\ job = [j \in Jobs |-> NoJob]
  /\ answer = [o \in Offers |-> "none"]
  /\ plan = [r \in Requests |-> NoRequest]
  /\ routed = FALSE /\ misdated = {} /\ left = FALSE /\ upsets = 0

Anchored == {j \in Jobs : job[j].state = "live"}               \* CONFIRMED, IN_PROGRESS
OnPlan   == {j \in Jobs : job[j].state \in {"live", "scanning"}}

SignEnds(row) == row.at + row.offer.sign
PlannedEnd(row) == SignEnds(row) + row.offer.scan

\* When the notary is done with a job: scanning may begin late.
RealEnd(row) == PlannedEnd(row) + row.late

\* Every answer, what the planner has read and the route it last stored are old.  A
\* cached answer is given again; to ask again while it is up to date changes nothing.
DayChanges(taken) ==
  /\ answer' = [o \in Offers |-> IF answer[o] = "none" \/ o \in taken THEN "none" ELSE "old"]
  /\ plan' = [r \in Requests |-> [plan[r] EXCEPT !.fresh = FALSE]]
  /\ routed' = FALSE

Upset == upsets < MaxUpsets /\ upsets' = upsets + 1

------------------------------------------------------------------------------
(* CITT *)

\* The anchored jobs just before and just after a time, if any.
Prevs(t) == LET S == {j \in Anchored : job[j].at <= t} IN
            {j \in S : \A k \in S : job[k].at <= job[j].at}
Nexts(t) == LET S == {j \in Anchored : job[j].at > t} IN
            {j \in S : \A k \in S : job[k].at >= job[j].at}

\* Mutant of GapBefore: the time to get there is left out.
GapBeforeNoDrive(o, j) == o.at - SignEnds(job[j])

\* From the end of the job before, its scanback left out, to the arrival.
GapBefore(o, j) == o.at - SignEnds(job[j]) - Drive[job[j].offer.place][o.place]

\* From the end of the scanback to the job after, the drive there left out.
GapAfter(o, j) == job[j].at - (o.at + o.sign + o.scan)

Verdict(o, prevs, nexts) ==
  LET gaps   == {GapBefore(o, j) : j \in prevs} \cup {GapAfter(o, j) : j \in nexts}
      origin == IF prevs = {} THEN Home ELSE job[CHOOSE j \in prevs : TRUE].offer.place
      net    == o.fee - Rate * Drive[origin][o.place]
  IN IF net < MinNet \/ \E g \in gaps : g < 0 THEN "DECLINE"
     ELSE IF net < TakeItNet \/ \E g \in gaps : g < MinGap THEN "RISKY"
     ELSE "TAKE_IT"

\* One of a set, in a set; nothing of an empty one.
Picks(S) == IF S = {} THEN {{}} ELSE {{j} : j \in S}

\* The verdict is kept for five minutes, whatever happens to the day meanwhile.
\* Without an address, a home base or a route the answer is a DECLINE that is not
\* cached, as if the notary had not asked.
Check(o) ==
  /\ side = "citt"
  /\ answer[o] = "none" /\ \A j \in Jobs : job[j].state # "none" => job[j].offer # o
  /\ \E p \in Picks(Prevs(o.at)), n \in Picks(Nexts(o.at)) :
       answer' = [answer EXCEPT ![o] = Verdict(o, p, n)]
  /\ UNCHANGED <<side, job, plan, routed, misdated, left, upsets>>

Expire(o) ==
  /\ answer[o] = "old"
  /\ answer' = [answer EXCEPT ![o] = "none"]
  /\ UNCHANGED <<side, job, plan, routed, misdated, left, upsets>>

------------------------------------------------------------------------------
(* Jobs come, are moved, worked and leave: JobsService does not look at the day *)

\* The end of the scanback window that goes with a time; none without scanback.
PlannedWindow(o, t) == IF o.scan > 0 THEN t + o.sign + o.scan ELSE None

\* The notary takes an offer once, whatever CITT says of it.
Take(o) ==
  \E j \in Jobs :
    /\ job[j].state = "none" /\ \A k \in 1..j - 1 : job[k].state # "none"
    /\ \A k \in 1..j - 1 : job[k].offer # o
    /\ job' = [job EXCEPT ![j] =
         [NoJob EXCEPT !.state = "live", !.offer = o, !.at = o.at,
            !.scanEnds = PlannedWindow(o, o.at),
            !.verdict = IF answer[o] \in {"RISKY", "TAKE_IT"}
                             /\ \A k \in Anchored : job[k].verdict # "unchecked"
                        THEN answer[o] ELSE "unchecked"]]
    /\ DayChanges({o})
    /\ UNCHANGED <<side, misdated, left, upsets>>

\* update: the drive to the job and its place in the route stay as they were.
Move(j) ==
  /\ job[j].state = "live" /\ Upset
  /\ \E t \in OtherTimes \ {job[j].at} :
       job' = [job EXCEPT ![j] = [@ EXCEPT !.at = t, !.verdict = "unchecked",
                 !.scanEnds = PlannedWindow(job[j].offer, t)]]
  /\ left' = TRUE
  /\ misdated' = misdated \ {j}
  /\ DayChanges({}) /\ UNCHANGED side

\* The countdown runs from the moment scanning begins.  A signing without a scanback
\* is taken to end as planned.
StartScanning(j) ==
  /\ job[j].state = "live" /\ Upset
  /\ \E late \in Delays :
       /\ late > 0 => job[j].offer.scan > 0
       /\ job' = [job EXCEPT ![j] = [@ EXCEPT !.state = "scanning", !.late = late,
                   !.verdict = "unchecked",
                   !.scanEnds = IF job[j].offer.scan > 0 THEN PlannedEnd(job[j]) + late
                                ELSE None]]
  /\ misdated' = misdated \ {j}
  /\ DayChanges({})
  /\ UNCHANGED <<side, left>>

\* Back to IN_PROGRESS: the window is cleared until scanning begins again.
ResumeSigning(j) ==
  /\ job[j].state = "scanning" /\ Upset
  /\ job' = [job EXCEPT ![j] = [@ EXCEPT !.state = "live", !.late = 0, !.scanEnds = None]]
  /\ misdated' = misdated \cup {j}
  /\ DayChanges({})
  /\ UNCHANGED <<side, left>>

\* Completed, cancelled or deleted.
Leave(j) ==
  /\ job[j].state \in {"live", "scanning"} /\ Upset
  /\ job' = [job EXCEPT ![j] = [NoJob EXCEPT !.state = "over", !.offer = job[j].offer]]
  /\ left' = TRUE
  /\ misdated' = misdated \ {j}
  /\ DayChanges({}) /\ UNCHANGED side

------------------------------------------------------------------------------
(* The planner *)

Rows == [j \in OnPlan |-> job[j]]

\* The elements by what comes before each of them.
InOrder(before) ==
  [i \in 1..Cardinality(DOMAIN before) |->
     CHOOSE k \in DOMAIN before : Cardinality(before[k]) = i - 1]

\* Orders of the day: of the appointments, and of the plan's list.
Earlier(rows, j, k) == rows[j].at < rows[k].at \/ (rows[j].at = rows[k].at /\ j < k)
ByTime(rows) == InOrder([k \in DOMAIN rows |-> {j \in DOMAIN rows : Earlier(rows, j, k)}])

Rank(row) == IF row.seq = None THEN MaxJobs + 1 ELSE row.seq
Listed(rows) ==
  InOrder([k \in DOMAIN rows |->
    {j \in DOMAIN rows : \/ Rank(rows[j]) < Rank(rows[k])
                         \/ Rank(rows[j]) = Rank(rows[k]) /\ Earlier(rows, j, k)}])

\* The sequences over a set without repetition.
Orders(S) == {s \in UNION {[1..n -> S] : n \in 0..Cardinality(S)} : IsInjective(s)}

\* What the solver may answer: some of the jobs in any order.  One job needs none.
Answers(rows) ==
  IF Cardinality(DOMAIN rows) = 1 THEN {ByTime(rows)} ELSE Orders(DOMAIN rows)

\* Drive to the i-th stop; 0 when its route is not found.
Leg(rows, order, down, i) ==
  IF order[i] \in down THEN 0
  ELSE Drive[IF i = 1 THEN Home ELSE rows[order[i - 1]].offer.place][rows[order[i]].offer.place]

\* Mutant of IsFeasibleOrder: without the time spent at the stop before.
IsFeasibleDrive(rows, order, down) ==
  \A i \in 2..Len(order) :
    rows[order[i - 1]].at + Leg(rows, order, down, i) <= rows[order[i]].at + Tolerance

IsFeasibleOrder(rows, order, down) ==
  \A i \in 2..Len(order) :
    PlannedEnd(rows[order[i - 1]]) + Leg(rows, order, down, i) <= rows[order[i]].at + Tolerance

\* A request has read the day and goes on to write its stops, if there are any.
Open(r, pc, stops, fresh) ==
  /\ stops # << >>
  /\ plan' = [plan EXCEPT ![r] = [pc |-> pc, stops |-> stops, next |-> 1, fresh |-> fresh]]
  /\ UNCHANGED <<side, job, answer, routed, misdated, left>>

\* Routes not found during a request; all of them when OpenRouteService is down.
Lost(down) == IF down = {} THEN UNCHANGED upsets ELSE Upset

\* Where the drive to a job begins: at the last stop before it that has a leg, or at home.
Origin(rows, j, down) ==
  LET before == {k \in DOMAIN rows \ down : Earlier(rows, k, j)}
      list   == ByTime([k \in before |-> rows[k]])
  IN IF before = {} THEN Home ELSE rows[list[Len(list)]].offer.place

\* getToday: populateDriveTimes looks for the legs that are missing, in the order of the
\* appointments.  One whose route is not found stays missing.
OpenPlan(r) ==
  /\ side = "planner" /\ plan[r].pc = "none"
  /\ LET missing == {j \in OnPlan : job[j].leg = None} IN
     \E down \in SUBSET missing :
       LET found == ByTime([j \in missing \ down |-> job[j]]) IN
       /\ Lost(down)
       /\ Open(r, "legs", [i \in 1..Len(found) |->
            [job |-> found[i], at |-> job[found[i]].at,
             leg |-> Drive[Origin(Rows, found[i], down)][job[found[i]].offer.place]]], FALSE)

\* optimise: the solver's order, or the order of the appointments, and the windows that
\* go with the times read.  Without a job on the day it is getToday.
OpenOptimise(r) ==
  /\ side = "planner" /\ plan[r].pc = "none"
  /\ \E down \in SUBSET OnPlan :
       /\ Lost(down)
       /\ \E route \in {IF IsFeasibleOrder(Rows, solved, down) THEN solved ELSE ByTime(Rows) :
                         solved \in Answers(Rows)} :
            Open(r, "apply", [i \in 1..Len(route) |->
              [job |-> route[i], at |-> job[route[i]].at, leg |-> Leg(Rows, route, down, i)]],
              down = {} /\ Len(route) = Cardinality(OnPlan))

\* A request writes a row; of one that is no longer on the plan it does not matter.  To
\* the other requests what it wrote is a change of the day.
WriteStop(r, row) ==
  LET s == plan[r].stops[plan[r].next] IN
  /\ job' = IF s.job \in OnPlan THEN [job EXCEPT ![s.job] = row] ELSE job
  /\ plan' = [x \in Requests |->
       IF x # r THEN [plan[x] EXCEPT !.fresh = @ /\ job' = job]
       ELSE IF plan[r].next = Len(plan[r].stops) THEN [NoRequest EXCEPT !.pc = "done"]
       ELSE [plan[r] EXCEPT !.next = @ + 1]]

Populate(r) ==
  /\ plan[r].pc = "legs"
  /\ LET s == plan[r].stops[plan[r].next] IN
     \/ WriteStop(r, [job[s.job] EXCEPT !.leg = s.leg]) /\ UNCHANGED upsets
     \/ WriteStop(r, job[s.job]) /\ Upset  \* one that cannot be stored is left out
  /\ routed' = (routed /\ job' = job)
  /\ UNCHANGED <<side, answer, misdated, left>>

\* The stop goes to its row by id.  The answer is getToday's, a request of its own here.
ApplyRoute(r) ==
  /\ plan[r].pc = "apply"
  /\ LET s    == plan[r].stops[plan[r].next]
         ends == s.at + job[s.job].offer.sign + job[s.job].offer.scan
     IN /\ WriteStop(r, [job[s.job] EXCEPT !.seq = plan[r].next, !.leg = s.leg, !.scanEnds = ends])
        /\ misdated' = IF s.job \in OnPlan /\ (job[s.job].state = "scanning" \/ job[s.job].at # s.at)
                       THEN misdated \cup {s.job} ELSE misdated \ {s.job}
        /\ routed' = (plan[r].fresh /\ plan[r].next = Len(plan[r].stops))
  /\ UNCHANGED <<side, answer, left, upsets>>

\* A write of optimise fails, or the API dies: what was written so far stays.
RequestFails(r) ==
  /\ plan[r].pc \in {"legs", "apply"} /\ Upset
  /\ plan' = [plan EXCEPT ![r] = [NoRequest EXCEPT !.pc = "done"]]
  /\ UNCHANGED <<side, job, answer, routed, misdated, left>>

Next ==
  \/ \E o \in Offers : Check(o) \/ Expire(o) \/ Take(o)
  \/ \E j \in Jobs : Move(j) \/ StartScanning(j) \/ ResumeSigning(j) \/ Leave(j)
  \/ \E r \in Requests :
       OpenPlan(r) \/ Populate(r) \/ OpenOptimise(r) \/ ApplyRoute(r) \/ RequestFails(r)

Spec == Init /\ [][Next]_vars

------------------------------------------------------------------------------
(* What the plan shows *)

\* Mutant of Ends: the scanback is left out.
SigningEnds(row) == SignEnds(row)

Ends(row) == IF row.scanEnds # None THEN row.scanEnds ELSE SignEnds(row)

\* Positions in the list after which the next job is reported out of reach.
Conflicts(rows, list) ==
  {i \in 1..Len(list) - 1 :
     rows[list[i + 1]].at - Ends(rows[list[i]])
       < (IF rows[list[i + 1]].leg = None THEN 0 ELSE rows[list[i + 1]].leg)}

\* Candidates findGaps finds for the gap after the i-th job of the list.
Candidates(rows, list, i) ==
  LET curr == rows[list[i]]
      next == rows[list[i + 1]]
      gap  == next.at - Buffer - (Ends(curr) + Buffer)
  IN {o \in Offers : /\ gap >= LeastGap
                     /\ Drive[curr.offer.place][o.place] + o.sign + o.scan
                          + Drive[o.place][next.offer.place] <= gap}

------------------------------------------------------------------------------
(* Properties *)

TypeOK ==
  /\ \A j \in Jobs :
       /\ job[j].state \in {"none", "live", "scanning", "over"} /\ job[j].offer \in Offers
       /\ job[j].at \in Int /\ job[j].scanEnds \in Int /\ job[j].late \in Delays
       /\ job[j].seq \in {None} \cup Jobs /\ job[j].leg \in {None} \cup Nat
       /\ job[j].verdict \in {"unchecked", "RISKY", "TAKE_IT"}
  /\ answer \in [Offers -> {"none", "old", "DECLINE", "RISKY", "TAKE_IT"}]
  /\ \A r \in Requests :
       /\ plan[r].pc \in {"none", "legs", "apply", "done"} /\ plan[r].fresh \in BOOLEAN
       /\ plan[r].next \in Nat \ {0}
       /\ plan[r].pc \in {"legs", "apply"} => plan[r].next \in 1..Len(plan[r].stops)
  /\ routed \in BOOLEAN /\ left \in BOOLEAN /\ misdated \subseteq OnPlan
  /\ upsets \in 0..MaxUpsets

Slack(j) == IF job[j].verdict = "TAKE_IT" THEN MinGap ELSE 0

\* "Can I take this?": of two jobs that were each taken on an answer not out of
\* date, while every job on the day had been, whatever was cancelled meanwhile, the
\* signings do not overlap; the one taken later leaves the scanback of its own before
\* the other and, as long as none has left its time and none sits between, the time to
\* get to it from the other; TAKE_IT keeps ten minutes on top.
CheckedDayFits ==
  LET Checked == {j \in Anchored : job[j].verdict # "unchecked"} IN
    \A i, j \in Checked : i # j /\ job[i].at <= job[j].at =>
      IF i < j
      THEN job[j].at >= SignEnds(job[i]) + Slack(j)
             + IF left \/ \E k \in OnPlan : job[i].at < job[k].at /\ job[k].at < job[j].at
               THEN 0 ELSE Drive[job[i].offer.place][job[j].offer.place]
      ELSE job[j].at >= PlannedEnd(job[i]) + Slack(i)

\* A plan that reports no conflict has none, in whatever order it lists the jobs:
\* the appointments, scanback included, are apart, the gaps in which it offers
\* pending jobs are free, and after an optimise that nothing disturbed there is
\* time to drive from each to the next.  Not so when a window was taken back by an
\* optimise that had read it earlier, or cleared by a return to the signing.
SilentPlanFits ==
  misdated = {} =>
    LET list == Listed(Rows) IN
    Conflicts(Rows, list) = {} =>
    /\ \A i, j \in OnPlan : i # j =>
         RealEnd(job[i]) <= job[j].at \/ RealEnd(job[j]) <= job[i].at
    /\ \A i \in 1..Len(list) - 1 : Candidates(Rows, list, i) # {} =>
         \A j \in OnPlan : \/ RealEnd(job[j]) + Buffer <= Ends(job[list[i]]) + Buffer
                           \/ job[list[i + 1]].at <= job[j].at
    /\ routed => \A i \in 1..Len(list) - 1 :
         RealEnd(job[list[i]]) + Drive[job[list[i]].offer.place][job[list[i + 1]].offer.place]
           <= job[list[i + 1]].at

\* After an optimise that every job and route took part in, until somebody else changes
\* the day, every leg is the drive from the job listed before, and the list can be
\* driven, whatever order the solver answered: it is in the order of the appointments,
\* or no stop is reached more than the tolerance after its appointment.
RouteIsDrivable ==
  routed =>
    LET list == Listed(Rows) IN
    /\ \A i \in 1..Len(list) : job[list[i]].leg = Leg(Rows, list, {}, i)
    /\ \/ \A i \in 1..Len(list) : \A k \in i..Len(list) : job[list[i]].at <= job[list[k]].at
       \/ \A i \in 2..Len(list) :
            PlannedEnd(job[list[i - 1]]) + job[list[i]].leg <= job[list[i]].at + Tolerance
==============================================================================
