------------------------------ MODULE MCImports ------------------------------
(* An instance of Imports for TLC. *)
EXTENDS Imports

Line(id, email, name) == [id |-> id, email |-> email, name |-> name, text |-> TRUE]

\* A lead; and a lead, the same person by the email alone, and a business without
\* either.
TwoFiles == [i \in Imports |->
  IF i = short THEN <<Line("a", "x", Blank)>>
  ELSE <<Line("a", "x", Blank), Line(Blank, "x", Blank), Line(Blank, Blank, "b")>>]

\* A lead with the id of one in the files and the name of another; a change of email.
ByUsers == {Line("a", Blank, "b"), Line(Blank, "b", Blank)}
==============================================================================
