------------------------------ MODULE MCUsers ------------------------------
EXTENDS Users

Stmt(op, acc, pwd, old, db, tbl, list) ==
  [op |-> op, acc |-> acc, pwd |-> pwd, old |-> old, db |-> db, tbl |-> tbl, list |-> list]

MCStatements ==
  {Stmt("create", "u", "", "", "", "", {}), Stmt("drop", "u", "", "", "", "", {}),
   Stmt("alter", "u", "p", "", "", "", {}), Stmt("alter", "u", "p", "p", "", "", {}),
   Stmt("alter", None, "p", "", "", "", {}),
   Stmt("grant", "u", "", "", "*", "*", {ALL_PRIV}),
   Stmt("revoke", "u", "", "", "", "*", {"delete_priv"}),
   Stmt("grant", "u", "", "", "d", "*", {"select_priv"}),
   Stmt("grant", "u", "", "", "", "t", {"grant_priv"}),
   Stmt("revoke", "u", "", "", "d", "t", {"grant_priv", "select_priv"}),
   Stmt("select", None, "", "", "", "t", {}), Stmt("select", None, "", "", "d", "t", {})}
=============================================================================
