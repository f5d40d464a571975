------------------------------- MODULE Index -------------------------------
(***************************************************************************)
(* What an index of a table promises: a row comes into the table and into  *)
(* the index in one step, leaves both in one step, and nothing else        *)
(* changes what the index leads to.  In a unique index no two rows have    *)
(* the same key.                                                           *)
(***************************************************************************)
EXTENDS Integers

CONSTANTS Rows, KeyOf, Unique

VARIABLES
  rows,  \* the rows of the table
  held   \* the rows the index leads to

Init == rows = {} /\ held = {}

Insert(r) ==
  /\ r \notin held
  /\ Unique => \A s \in held : KeyOf[s] /= KeyOf[r]
  /\ rows' = rows \union {r}
  /\ held' = held \union {r}

Remove(r) ==
  /\ r \in held
  /\ rows' = rows \ {r}
  /\ held' = held \ {r}

Next == \E r \in Rows : Insert(r) \/ Remove(r)

Spec == Init /\ [][Next]_<<rows, held>>
=============================================================================
