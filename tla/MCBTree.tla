------------------------------ MODULE MCBTree ------------------------------
EXTENDS BTree

(* A primary key, and an index in which two rows share each key.           *)
Distinct == [r \in Rows |-> r]
Paired == [r \in Rows |-> (r + 1) \div 2]
=============================================================================
