----------------------------- MODULE MCCampaign ------------------------------
(* Instances of Campaign for TLC. *)
EXTENDS Campaign, TLC

Symmetry == Permutations(Workers) \cup Permutations(Ticks)

\* After the last fault the maintenance tick looks at settled campaigns only.
Bounded == check = "idle" \/ faults < MaxFaults \/ Unsettled = {}
==============================================================================
