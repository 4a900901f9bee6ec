---------------------------- MODULE MCWorkingDay -----------------------------
(* Instances of WorkingDay for TLC. *)
EXTENDS WorkingDay

Symmetry == Permutations(Calls) \cup Permutations(Requests)

\* Home, and three places half an hour away that are next to each other.
Roads == [h |-> [h |-> 0, p |-> 30, q |-> 30, r |-> 30],
          p |-> [h |-> 30, p |-> 0, q |-> 5, r |-> 0],
          q |-> [h |-> 30, p |-> 5, q |-> 0, r |-> 5],
          r |-> [h |-> 30, p |-> 0, q |-> 5, r |-> 0]]

\* A loan signing, a short one that just fits after it, and one of little profit that
\* leaves no time to drive to the first.  Either of the others can be moved to just
\* after the loan signing begins.
ThreeOffers == {[at |-> 60, sign |-> 30, scan |-> 20, place |-> "p", fee |-> 75],
                [at |-> 120, sign |-> 5, scan |-> 0, place |-> "r", fee |-> 55],
                [at |-> 30, sign |-> 30, scan |-> 0, place |-> "q", fee |-> 45]}
==============================================================================
