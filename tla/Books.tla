-------------------------------- MODULE Books ---------------------------------
(***************************************************************************)
(* A notary's money: the invoices of completed jobs (Invoicing) and the    *)
(* reports made of jobs, miles, expenses and acts (Reports).  The reports  *)
(* read the jobs and no invoice, so a behaviour follows one of the two.    *)
(***************************************************************************)
EXTENDS Invoicing

CONSTANTS Signings, Entries, Expenses, Acts, Days, Rates, Miles, Asked, Requests,
          MaxEdits, MaxPdfs, MaxUploadFaults  \* of Reports

\* Days are numbered from 1, as 0 is no day; a range does not end before it begins.
ASSUME ReportsAssumption ==
  /\ Days \subseteq Nat \ {0} /\ Rates \subseteq Nat /\ Miles \subseteq Nat
  /\ Asked \subseteq {r \in Days \X Days : r[1] <= r[2]}
  /\ Asked # {}

VARIABLES followed, job, entry, expense, act, rate, pricing, kept, request, edits, pdfs,
          uploadFaults, stale

Report == INSTANCE Reports WITH Jobs <- Signings, Calls <- Requests, stored <- kept,
            call <- request, MaxFaults <- MaxUploadFaults, faults <- uploadFaults

reportVars == <<job, entry, expense, act, rate, pricing, kept, request, edits, pdfs,
                uploadFaults, stale>>
bookVars == <<followed, vars, reportVars>>

\* What is not followed stays as it begins.
BooksInit ==
  /\ followed \in {"invoices", "reports"}
  /\ Init /\ Report!Init

BooksNext ==
  /\ UNCHANGED followed
  /\ \/ followed = "invoices" /\ Next /\ UNCHANGED reportVars
     \/ followed = "reports" /\ Report!Next /\ UNCHANGED vars

BooksSpec == BooksInit /\ [][BooksNext]_bookVars

------------------------------------------------------------------------------
(* Properties, besides those of Invoicing *)

\* After a rebuild the stored tax PDF shows the books as they are, however requests
\* interleaved, until the books change, or unless they changed under a request or an
\* upload failed.
RebuiltIsCurrent == Report!RebuiltIsCurrent

\* Reported in adjoining parts, a range's miles and acts are counted once each, no
\* income twice and no expense left out.
PartsAddUp == Report!PartsAddUp
==============================================================================
