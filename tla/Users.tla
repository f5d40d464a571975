------------------------------- MODULE Users -------------------------------
(***************************************************************************)
(* Accounts and privileges.  Table etc.cred has one row per account (host  *)
(* and user), with its password and one Y/N column per global privilege;   *)
(* etc.priv has one row per account and object (database and table), with  *)
(* the local privileges.  Every session thread executes its statements in  *)
(* a virtual machine of its own.  A statement opens and locks one of the   *)
(* two tables at a time: each scope of the source that holds a lock is one *)
(* step when it only reads, and two (read, then write and unlock) when it  *)
(* also changes the table.  Between the scopes other sessions run.         *)
(***************************************************************************)
EXTENDS Naturals, Sequences, FiniteSets

CONSTANTS Sessions, Accounts, Passwords, Databases, Tables,
          GlobalPrivs,    \* columns of etc.cred: GLOBAL_PRIVILEGE_LIST
          LocalPrivs,     \* columns of etc.priv: LOCAL_PRIVILEGE_LIST
          Statements,     \* the statements the sessions may send
          Root,           \* the account that the installer creates
          MaxStatements,  \* bound on the statements of a behaviour
          None, NoRow

ASSUME UsersAssumption ==
  /\ LocalPrivs \subseteq GlobalPrivs
  /\ {"grant_priv", "select_priv", "delete_priv"} \subseteq LocalPrivs
  /\ "create_user_priv" \in GlobalPrivs \ LocalPrivs
  /\ Root \in Accounts
  /\ None \notin Sessions \cup Accounts
  /\ MaxStatements \in Nat
  /\ "" \notin Databases \cup Tables /\ "*" \notin Databases \cup Tables
  /\ "" \in Passwords
  /\ NoRow \notin [pwd : Passwords, privs : SUBSET GlobalPrivs]

VARIABLES cred,    \* etc.cred: the row of an account, or NoRow
          priv,    \* etc.priv: the privileges of an account on an object, or NoRow
          own,     \* the session that holds the unique lock of a table, or None
          ses,     \* the sessions
          sent,    \* number of statements sent
          held,    \* history: the running statement was permitted at some time
          raced    \* history: accounts dropped while another session changed them

vars == <<cred, priv, own, ses, sent, held, raced>>

ASTERISK == "*"
ALL_PRIV == "all_priv"
CRED_TBL == "cred"
PRIV_TBL == "priv"

Objects == (Databases \cup {"", ASTERISK}) \X (Tables \cup {ASTERISK})

Idle == [op |-> "none", acc |-> None, pwd |-> "", old |-> "",
         db |-> "", tbl |-> "", list |-> {}]

\* What the translator hands over: ALTER USER and SELECT may name no account
\* (ALTER USER USER()), GRANT, REVOKE and SELECT name an object.
ASSUME StatementsAssumption ==
  \A st \in Statements :
    /\ st.op \in {"create", "alter", "drop", "grant", "revoke", "select"}
    /\ st.acc \in Accounts \/ (st.op \in {"alter", "select"} /\ st.acc = None)
    /\ st.pwd \in Passwords
    /\ st.op \in {"grant", "revoke", "select"} =>
         st.db \in Databases \cup {"", ASTERISK} /\ st.tbl \in Tables \cup {ASTERISK}

-----------------------------------------------------------------------------
(* What a statement checks and what it changes.                            *)

\* The object whose privileges a statement needs, as its handler names it.
Checked(st, db) ==
  CASE st.op \in {"create", "alter", "drop"} -> <<ASTERISK, ASTERISK>>
    [] st.op \in {"grant", "revoke"} -> <<st.db, st.tbl>>
    [] OTHER -> <<IF st.db = "" THEN db ELSE st.db, st.tbl>>

\* The privileges one of which suffices, in the order they are tried.
Needed(st) ==
  CASE st.op \in {"create", "alter"} -> <<"create_user_priv">>
    [] st.op = "drop" -> <<"create_user_priv", "delete_priv">>
    [] st.op \in {"grant", "revoke"} -> <<"grant_priv">>
    [] OTHER -> <<"select_priv">>

\* GRANT and REVOKE on * or *.* change etc.cred, on anything else etc.priv.
IsGlobal(st) == st.db \in {"", ASTERISK} /\ st.tbl = ASTERISK

\* The row of etc.priv that a local GRANT or REVOKE changes.
ChangedObject(st, db) == <<IF st.db = "" THEN db ELSE st.db, st.tbl>>

\* Fault for normalize_privilege_list: names that are no columns are kept.
NotFiltered(list, base) == list \cup (IF ALL_PRIV \in list THEN base \ {"grant_priv"} ELSE {})

\* ALL stands for every privilege of the table's columns but GRANT, which is
\* only meant when it is named; other names are no columns and change nothing.
normalize_privilege_list(list, base) ==
  (list \cap base) \cup (IF ALL_PRIV \in list THEN base \ {"grant_priv"} ELSE {})

-----------------------------------------------------------------------------
(* The privilege checks.                                                   *)

verify_global_privilege(a, p) == cred[a] # NoRow /\ p \in cred[a].privs

\* The rows that can answer for an object, the most specific first.
priv_type_list(o) == <<o, <<o[1], ASTERISK>>, <<ASTERISK, ASTERISK>> >>

\* Fault for FirstRow: the widest row decides.
WidestRow(a, o) ==
  LET rows == {i \in 1..3 : priv[<<a, priv_type_list(o)[i]>>] # NoRow}
  IN  IF rows = {} THEN NoRow
      ELSE priv[<<a, priv_type_list(o)[CHOOSE i \in rows : \A j \in rows : j <= i]>>]

\* The first row that exists decides, whatever the other rows say.
FirstRow(a, o) ==
  LET rows == {i \in 1..3 : priv[<<a, priv_type_list(o)[i]>>] # NoRow}
  IN  IF rows = {} THEN NoRow
      ELSE priv[<<a, priv_type_list(o)[CHOOSE i \in rows : \A j \in rows : i <= j]>>]

\* "error": the row has no column of that name.
verify_local_privilege(a, o, p) ==
  LET row == FirstRow(a, o)
  IN  CASE row = NoRow -> "no"
        [] row # NoRow /\ p \notin LocalPrivs -> "error"
        [] OTHER -> IF p \in row THEN "yes" ELSE "no"

-----------------------------------------------------------------------------
(* Sessions.                                                               *)

\* Fault for Free: the trees are not locked.
AlwaysFree(t) == TRUE

\* tree::set_unique_lock() can succeed.
Free(t) == own[t] = None

\* Where a permitted statement continues.
Entry(st) ==
  CASE st.op = "select" -> "work"
    [] st.op \in {"grant", "revoke"} /\ ~ IsGlobal(st) -> "check"
    [] OTHER -> "cread"

Init ==
  /\ cred = [a \in Accounts |->
               IF a = Root THEN [pwd |-> "", privs |-> GlobalPrivs] ELSE NoRow]
  /\ priv = [r \in Accounts \X Objects |-> NoRow]
  /\ own = [t \in {CRED_TBL, PRIV_TBL} |-> None]
  /\ ses = [s \in Sessions |-> [who |-> None, db |-> "", pc |-> "idle", st |-> Idle,
                                k |-> 0, row |-> NoRow, out |-> "none"]]
  /\ sent = 0
  /\ held = [s \in Sessions |-> FALSE]
  /\ raced = {}

\* Fault for Finish: the lock of etc.priv is not released.
FinishCredOnly(s, out) ==
  /\ ses' = [ses EXCEPT ![s].pc = "idle", ![s].st = Idle, ![s].k = 0,
                        ![s].row = NoRow, ![s].out = out]
  /\ own' = [own EXCEPT ![CRED_TBL] = IF @ = s THEN None ELSE @]

\* The statement of session s ends; an exception (out # "ok") unlocks on its way.
Finish(s, out) ==
  /\ ses' = [ses EXCEPT ![s].pc = "idle", ![s].st = Idle, ![s].k = 0,
                        ![s].row = NoRow, ![s].out = out]
  /\ own' = [t \in DOMAIN own |-> IF own[t] = s THEN None ELSE own[t]]

Goto(s, pc) == ses' = [ses EXCEPT ![s].pc = pc, ![s].row = NoRow]

Acquire(s, t, row, pc) ==
  /\ own' = [own EXCEPT ![t] = s]
  /\ ses' = [ses EXCEPT ![s].pc = pc, ![s].row = row]

\* A row of etc.cred whose host covers the peer, with the user and the password.
Authenticate(s, a, pwd) ==
  /\ ses[s].who = None /\ Free(CRED_TBL)
  /\ cred[a] # NoRow /\ cred[a].pwd = pwd
  /\ ses' = [ses EXCEPT ![s].who = a]
  /\ UNCHANGED <<cred, priv, own, sent>>

\* The session keeps the database in use; nothing checks that it exists or may be read.
use_database(s, d) ==
  /\ ses[s].who # None /\ ses[s].pc = "idle" /\ ses[s].db # d
  /\ sent < MaxStatements
  /\ sent' = sent + 1
  /\ ses' = [ses EXCEPT ![s].db = d]
  /\ UNCHANGED <<cred, priv, own>>

\* The operands are popped.  Those of USER() are names where the handler of
\* ALTER USER wants offsets, and a table without a database is refused.
Send(s, st) ==
  /\ ses[s].who # None /\ ses[s].pc = "idle" /\ sent < MaxStatements
  /\ sent' = sent + 1
  /\ IF \/ st.op = "alter" /\ st.acc = None
        \/ st.op = "select" /\ Checked(st, ses[s].db)[1] = ""
     THEN Finish(s, "error")
     ELSE /\ ses' = [ses EXCEPT ![s].pc = "vglobal", ![s].st = st, ![s].k = 1, ![s].out = "none"]
          /\ own' = own
  /\ UNCHANGED <<cred, priv>>

VerifyGlobal(s) ==
  /\ ses[s].pc = "vglobal" /\ Free(CRED_TBL)
  /\ Goto(s, IF verify_global_privilege(ses[s].who, Needed(ses[s].st)[ses[s].k])
             THEN Entry(ses[s].st) ELSE "vlocal")
  /\ UNCHANGED <<cred, priv, own, sent>>

VerifyLocal(s) ==
  LET st == ses[s].st
      ok == verify_local_privilege(ses[s].who, Checked(st, ses[s].db), Needed(st)[ses[s].k])
  IN  /\ ses[s].pc = "vlocal" /\ Free(PRIV_TBL)
      /\ \/ ok = "yes" /\ Goto(s, Entry(st)) /\ own' = own
         \/ ok = "error" /\ Finish(s, "error")
         \/ ok = "no" /\ ses[s].k = Len(Needed(st)) /\ Finish(s, "denied")
         \/ /\ ok = "no" /\ ses[s].k < Len(Needed(st))
            /\ ses' = [ses EXCEPT ![s].pc = "vglobal", ![s].k = @ + 1]
            /\ own' = own
      /\ UNCHANGED <<cred, priv, sent>>

\* The table of a SELECT is opened and the statement runs.
Work(s) ==
  /\ ses[s].pc = "work"
  /\ Finish(s, "ok")
  /\ UNCHANGED <<cred, priv, sent>>

\* grant_local() and revoke_local() look for the account in a scope of its own.
CheckUser(s) ==
  /\ ses[s].pc = "check" /\ Free(CRED_TBL)
  /\ IF cred[ses[s].st.acc] = NoRow THEN Finish(s, "error")
     ELSE Goto(s, "pread") /\ own' = own
  /\ UNCHANGED <<cred, priv, sent>>

\* etc.cred is locked and the row of the account looked up.
CredRead(s) ==
  LET st == ses[s].st
      row == cred[st.acc]
  IN  /\ ses[s].pc = "cread" /\ Free(CRED_TBL)
      /\ IF \/ st.op = "create" /\ row # NoRow
            \/ st.op # "create" /\ row = NoRow
            \/ st.op = "alter" /\ st.old # "" /\ row # NoRow /\ row.pwd # st.old
         THEN Finish(s, "error")
         ELSE Acquire(s, CRED_TBL, row, "cwrite")
      /\ UNCHANGED <<cred, priv, sent>>

\* The rows that the handlers write to etc.cred.
create_user(st) == [pwd |-> st.pwd, privs |-> {}]
alter_user(st, row) == [row EXCEPT !.pwd = st.pwd]
grant_global(st, row) ==
  [row EXCEPT !.privs = @ \cup normalize_privilege_list(st.list, GlobalPrivs)]
revoke_global(st, row) ==
  [row EXCEPT !.privs = @ \ normalize_privilege_list(st.list, GlobalPrivs)]

\* The row is written from what was read, and the lock released.
CredWrite(s) ==
  LET st == ses[s].st
      row == ses[s].row
  IN  /\ ses[s].pc = "cwrite"
      /\ \/ st.op = "create" /\ cred' = [cred EXCEPT ![st.acc] = create_user(st)]
         \/ st.op = "alter" /\ cred' = [cred EXCEPT ![st.acc] = alter_user(st, row)]
         \/ st.op = "grant" /\ cred' = [cred EXCEPT ![st.acc] = grant_global(st, row)]
         \/ st.op = "revoke" /\ cred' = [cred EXCEPT ![st.acc] = revoke_global(st, row)]
      /\ Finish(s, "ok")
      /\ UNCHANGED <<priv, sent>>

\* DROP USER removes the account from etc.cred, unlocks, and then turns to etc.priv.
drop_user_global(s) ==
  /\ ses[s].pc = "cwrite" /\ ses[s].st.op = "drop"
  /\ cred' = [cred EXCEPT ![ses[s].st.acc] = NoRow]
  /\ Goto(s, "pread")
  /\ own' = [own EXCEPT ![CRED_TBL] = None]
  /\ UNCHANGED <<priv, sent>>

\* etc.priv is locked; a local GRANT or REVOKE looks its row up.
PrivRead(s) ==
  LET st == ses[s].st
      row == priv[<<st.acc, ChangedObject(st, ses[s].db)>>]
  IN  /\ ses[s].pc = "pread" /\ Free(PRIV_TBL)
      /\ IF st.op = "revoke" /\ row = NoRow THEN Finish(s, "error")
         ELSE Acquire(s, PRIV_TBL, IF st.op = "drop" THEN NoRow ELSE row, "pwrite")
      /\ UNCHANGED <<cred, priv, sent>>

grant_local(st, row) ==
  (IF row = NoRow THEN {} ELSE row) \cup normalize_privilege_list(st.list, LocalPrivs)
revoke_local(st, row) == row \ normalize_privilege_list(st.list, LocalPrivs)

\* Fault for drop_user_local: the rows of one database stay.
DropNamedOnly(a) ==
  [r \in DOMAIN priv |-> IF r[1] = a /\ r[2][2] # ASTERISK THEN NoRow ELSE priv[r]]

\* Every row of the account goes.
drop_user_local(a) == [r \in DOMAIN priv |-> IF r[1] = a THEN NoRow ELSE priv[r]]

PrivWrite(s) ==
  LET st == ses[s].st
      key == <<st.acc, ChangedObject(st, ses[s].db)>>
  IN  /\ ses[s].pc = "pwrite"
      /\ \/ st.op = "grant" /\ priv' = [priv EXCEPT ![key] = grant_local(st, ses[s].row)]
         \/ st.op = "revoke" /\ priv' = [priv EXCEPT ![key] = revoke_local(st, ses[s].row)]
         \/ st.op = "drop" /\ priv' = drop_user_local(st.acc)
      /\ Finish(s, "ok")
      /\ UNCHANGED <<cred, sent>>

Step(s) ==
  \/ VerifyGlobal(s) \/ VerifyLocal(s) \/ Work(s) \/ CheckUser(s)
  \/ CredRead(s) \/ CredWrite(s) \/ drop_user_global(s) \/ PrivRead(s) \/ PrivWrite(s)

-----------------------------------------------------------------------------
(* History, and the specification.                                         *)

\* What the tables say of account a, object o and privilege p: the global
\* column, or the column of the most specific row.
Permitted(c, l, a, o, p) ==
  \/ c[a] # NoRow /\ p \in c[a].privs
  \/ \E i \in 1..3 :
       /\ l[<<a, priv_type_list(o)[i]>>] # NoRow
       /\ p \in l[<<a, priv_type_list(o)[i]>>]
       /\ \A j \in 1..(i - 1) : l[<<a, priv_type_list(o)[j]>>] = NoRow

May(c, l, x) ==
  \E k \in DOMAIN Needed(x.st) :
    Permitted(c, l, x.who, Checked(x.st, x.db), Needed(x.st)[k])

\* Session s is between the two removals of DROP USER a.
Dropping(x, a) == x.st.op = "drop" /\ x.st.acc = a /\ x.pc \in {"pread", "pwrite"}

\* Session s is about to insert rows for a, having looked for the account before.
Changing(x, a) ==
  /\ x.st.acc = a
  /\ \/ x.st.op = "grant" /\ x.pc \in {"pread", "pwrite"}
     \/ x.st.op = "create" /\ x.pc = "cwrite"

History ==
  /\ held' = [s \in Sessions |-> /\ ses'[s].pc # "idle"
                                 /\ held[s] \/ May(cred', priv', ses'[s])]
  /\ raced' = raced \cup
       {a \in Accounts : \E s, t \in Sessions : Dropping(ses'[s], a) /\ Changing(ses'[t], a)}

Next ==
  /\ \E s \in Sessions :
       \/ Step(s)
       \/ \E a \in Accounts, p \in Passwords : Authenticate(s, a, p)
       \/ \E d \in Databases : use_database(s, d)
       \/ \E st \in Statements : Send(s, st)
  /\ History

\* A thread that may run and is not blocked by a lock goes on with its statement.
Spec == Init /\ [][Next]_vars /\ \A s \in Sessions : WF_vars(Step(s) /\ History)

-----------------------------------------------------------------------------
(* Properties.                                                             *)

\* The rows of the two tables have the columns of their table, and a tree has
\* one owner.
TypeOK ==
  /\ \A a \in Accounts :
       cred[a] = NoRow \/ (cred[a].pwd \in Passwords /\ cred[a].privs \subseteq GlobalPrivs)
  /\ \A r \in Accounts \X Objects : priv[r] = NoRow \/ priv[r] \subseteq LocalPrivs
  /\ own \in [{CRED_TBL, PRIV_TBL} -> Sessions \cup {None}]
  /\ sent \in 0..MaxStatements

\* A statement gets past verify_privilege() only when its session had one of
\* the needed privileges at some time since the statement was sent, by the
\* column of etc.cred or by the most specific row of etc.priv.
Authorized ==
  \A s \in Sessions :
    ses[s].pc \notin {"idle", "vglobal", "vlocal"} => held[s]

\* A handler that rewrites a row from what it read (ALTER USER, GRANT,
\* REVOKE) still finds that row in the table: no update in between is lost.
ReadIsCurrent ==
  \A s \in Sessions :
    /\ ses[s].pc = "cwrite" => cred[ses[s].st.acc] = ses[s].row
    /\ ses[s].pc = "pwrite" /\ ses[s].st.op # "drop"
         => priv[<<ses[s].st.acc, ChangedObject(ses[s].st, ses[s].db)>>] = ses[s].row

\* A row of etc.priv belongs to an account of etc.cred, but while DROP USER
\* is between its two tables, or after a GRANT that looked for the account
\* before DROP USER removed it and wrote its row afterwards.
OrphanOnlyByRace ==
  \A a \in Accounts :
    (cred[a] = NoRow /\ \E o \in Objects : priv[<<a, o>>] # NoRow)
      => a \in raced \/ \E s \in Sessions : Dropping(ses[s], a)

\* Every statement ends: the locks of the two tables are never held together
\* and are released on every path, exceptions included.
StatementsEnd == \A s \in Sessions : (ses[s].pc # "idle") ~> (ses[s].pc = "idle")
=============================================================================
