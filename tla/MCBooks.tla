------------------------------- MODULE MCBooks -------------------------------
(* Instances of Books for TLC. *)
EXTENDS Books, TLC

CONSTANTS j1, j2, j3, ann, bob

Symmetry == Permutations(Calls) \cup Permutations(Requests) \cup Permutations(Jobs \ {j1})

\* The first job is ann's, the others are bob's.
TwoOwners == [j \in Jobs |-> IF j = j1 THEN ann ELSE bob]
OneMile   == [j \in Jobs |-> 1]

\* The last day of January and the day after it.
MonthEnd   == {31, 32}
TheLastDay == {<<31, 31>>}

\* The fees begin alike, and all rows on the last day of January.
AlikeInit ==
  /\ BooksInit
  /\ \A j \in Jobs : fee[j] = 1
  /\ \A x \in Signings : Report!DayOf(job[x].at) = 31
  /\ \A x \in Entries : entry[x] = 62
  /\ \A x \in Expenses : expense[x] = 31
  /\ \A x \in Acts : act[x] = 31
  /\ followed = "invoices" => rate = 1 /\ \A x \in Signings :
                                            job[x].at = 62 /\ job[x].status = "complete"

BooksAlike == AlikeInit /\ [][BooksNext]_bookVars
==============================================================================
