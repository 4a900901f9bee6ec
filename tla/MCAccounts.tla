----------------------------- MODULE MCAccounts ------------------------------
(* Instances of Accounts for TLC. *)
EXTENDS Accounts, TLC

\* What follows a race of events is not explored: no property of the plan says
\* anything of it.
InOrder == ~raced

\* Events that name the plan the subscription has already, cancellations and expiries
\* apart, come at most once and with one event fewer.
Repeats  == {k \in Emitted \ {1} : /\ event[k].kind \in {"updated", "payment_failed"}
                                   /\ event[k].plan = event[k - 1].plan}
FewEvents == /\ \A j, k \in Repeats : j = k
             /\ Repeats # {} => event[MaxEvents] = NoEvent
\* A plan written by hand is explored without a fault and with one event fewer.
FewUpsets == overrides > 0 => faults = 0 /\ event[MaxEvents] = NoEvent

Bounded == InOrder /\ FewEvents /\ FewUpsets

PaidPlans == {"PRO", "PRO_ANNUAL"}
==============================================================================
