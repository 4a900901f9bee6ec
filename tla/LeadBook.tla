------------------------------- MODULE LeadBook -------------------------------
(***************************************************************************)
(* What the marketing leads promise to whoever imports spreadsheets and    *)
(* edits leads, without the queue, the workers and their failures.         *)
(*                                                                         *)
(* A lead is entered once and stays until a user deletes it.  An import    *)
(* gives a lead its text only where there is none, so that nothing a user  *)
(* wrote is replaced.  An import is reported complete only when each of    *)
(* its rows has found its lead, with its text unless the lead was          *)
(* disturbed meanwhile.                                                    *)
(***************************************************************************)
EXTENDS Integers

CONSTANTS Imports, File, Blank, MaxLeads,
          Typed   \* what users enter by hand, given like a row

Refs   == 1..MaxLeads

\* An entry that holds no lead: none yet, or no more.
Blanked(state) == [state |-> state, id |-> Blank, email |-> Blank, name |-> Blank]
Absent == Blanked("absent")
Gone   == Blanked("gone")

Filled(value) == value # Blank
Row(i, n)     == File[i][n]
RowOf(i)      == DOMAIN File[i]

\* A row is known by its lead id, else by its email, else by its business name.
Kind(row) == IF Filled(row.id) THEN "id" ELSE IF Filled(row.email) THEN "email" ELSE "name"

Keyed(row) == Filled(row.id) \/ Filled(row.email) \/ Filled(row.name)

\* The rows an import keeps: those with a key, the first of each lead id.
Kept ==
  [i \in Imports |->
     {n \in RowOf(i) : /\ Keyed(Row(i, n))
                       /\ \A m \in RowOf(i) :
                            m < n /\ Filled(Row(i, n).id) => Row(i, m).id # Row(i, n).id}]

Present(entry) == entry.state = "present"

\* The lead a row says.
Entry(row) == [state |-> "present", id |-> row.id, email |-> row.email, name |-> row.name]

Matches(row, entry) == Present(entry) /\ entry[Kind(row)] = row[Kind(row)]

\* A row overwrites what it says and keeps the rest.
Merge(entry, row) ==
  [state |-> entry.state,
   id    |-> IF Filled(row.id) THEN row.id ELSE entry.id,
   email |-> IF Filled(row.email) THEN row.email ELSE entry.email,
   name  |-> IF Filled(row.name) THEN row.name ELSE entry.name]

\* The text of a row known by its business name alone is not promised.
Promised(row) == row.text /\ Kind(row) # "name"

VARIABLES book,       \* the lead of each reference
          text,       \* its message: "none", "imported" or "edited"
          home,       \* which row found which lead
          disturbed,  \* leads that a user deleted or that got another key
          complete,   \* imports reported complete
          byHand      \* leads that a user entered or changed

vars == <<book, text, home, disturbed, complete, byHand>>

Init ==
  /\ book = [r \in Refs |-> Absent]
  /\ text = [r \in Refs |-> "none"]
  /\ home = {} /\ disturbed = {} /\ complete = {} /\ byHand = {}

Enter(i, n, r) ==
  /\ book[r] = Absent
  /\ book' = [book EXCEPT ![r] = Entry(Row(i, n))]
  /\ home' = home \cup {<<i, n, r>>}
  /\ UNCHANGED <<text, disturbed, complete, byHand>>

\* Rows find leads that are in the book.
Find ==
  /\ home \subseteq home'
  /\ \A f \in home' \ home : Matches(Row(f[1], f[2]), book[f[3]])
  /\ UNCHANGED <<book, text, disturbed, complete, byHand>>

\* A lead that gets another email is no longer found by the rows that knew the old one.
Update(i, n, r) ==
  /\ <<i, n, r>> \in home /\ Present(book[r])
  /\ book' = [book EXCEPT ![r] = Merge(@, Row(i, n))]
  /\ disturbed' = disturbed \cup
       {q \in {r} : Filled(book[r].email) /\ Merge(book[r], Row(i, n)).email # book[r].email}
  /\ UNCHANGED <<text, home, complete, byHand>>

\* The only way an import writes a text.
Write(i, n, r) ==
  /\ <<i, n, r>> \in home /\ text[r] = "none"
  /\ text' = [text EXCEPT ![r] = "imported"]
  /\ UNCHANGED <<book, home, disturbed, complete, byHand>>

Conclude(i) ==
  /\ \A n \in Kept[i] : \E r \in Refs :
       /\ <<i, n, r>> \in home
       /\ Promised(Row(i, n)) => text[r] # "none" \/ r \in disturbed
  /\ complete' = complete \cup {i}
  /\ UNCHANGED <<book, text, home, disturbed, byHand>>

Edit(r) ==
  /\ Present(book[r])
  /\ text' = [text EXCEPT ![r] = "edited"]
  /\ UNCHANGED <<book, home, disturbed, complete, byHand>>

\* A user enters a lead, whatever the others are.
Register(r, entered) ==
  /\ book[r] = Absent
  /\ book' = [book EXCEPT ![r] = Entry(entered)]
  /\ byHand' = byHand \cup {r}
  /\ UNCHANGED <<text, home, disturbed, complete>>

\* A user changes a lead's keys: no row need find it any longer.
Rekey(r, entered) ==
  /\ Present(book[r])
  /\ book' = [book EXCEPT ![r] = Merge(@, entered)]
  /\ disturbed' = disturbed \cup {r}
  /\ byHand' = byHand \cup {r}
  /\ UNCHANGED <<text, home, complete>>

\* A user deletes the messages of a lead, before or after the lead.
Erase(r) ==
  /\ text' = [text EXCEPT ![r] = "none"]
  /\ disturbed' = disturbed \cup {r}
  /\ UNCHANGED <<book, home, complete, byHand>>

Delete(r) ==
  /\ Present(book[r])
  /\ book' = [book EXCEPT ![r] = Gone]
  /\ disturbed' = disturbed \cup {r}
  /\ UNCHANGED <<text, home, complete, byHand>>

Next ==
  \/ Find
  \/ \E i \in Imports, r \in Refs : \E n \in RowOf(i) :
       Enter(i, n, r) \/ Update(i, n, r) \/ Write(i, n, r)
  \/ \E i \in Imports : Conclude(i)
  \/ \E r \in Refs : Edit(r) \/ Erase(r) \/ Delete(r)
  \/ \E r \in Refs, entered \in Typed : Register(r, entered) \/ Rekey(r, entered)

Spec == Init /\ [][Next]_vars
==============================================================================
