---------------------------- MODULE UsersProofs ----------------------------
(* Proofs about Users, for any sessions, accounts, objects, privileges and *)
(* statements.                                                             *)
EXTENDS Users, TLAPS

(* The rows of etc.cred, and the state of a session.                       *)
CredRows == [pwd : Passwords, privs : SUBSET GlobalPrivs]

Steps == {"idle", "vglobal", "vlocal", "work", "check", "cread", "cwrite",
          "pread", "pwrite"}

SessionStates ==
  [who : Accounts \cup {None}, db : Databases \cup {""}, pc : Steps,
   st : Statements \cup {Idle}, k : 0..2,
   row : CredRows \cup (SUBSET LocalPrivs) \cup {NoRow},
   out : {"none", "ok", "error", "denied"}]

TypeInv ==
  /\ cred \in [Accounts -> CredRows \cup {NoRow}]
  /\ priv \in [Accounts \X Objects -> (SUBSET LocalPrivs) \cup {NoRow}]
  /\ own \in [{CRED_TBL, PRIV_TBL} -> Sessions \cup {None}]
  /\ ses \in [Sessions -> SessionStates]
  /\ sent \in 0..MaxStatements

(* What a session that executes a statement knows by where it is: who      *)
(* executes it, which privilege is being tried, which handler it is in,    *)
(* and that the handler found the row it is about to rewrite.              *)
SessionOK(x) ==
  x.pc # "idle" =>
    /\ x.who \in Accounts /\ x.st \in Statements
    /\ x.k \in DOMAIN Needed(x.st)
    /\ x.st.op = "alter" => x.st.acc # None
    /\ x.pc = "check" => x.st.op \in {"grant", "revoke"}
    /\ x.pc \in {"cread", "cwrite"} =>
         x.st.op \in {"create", "alter", "drop", "grant", "revoke"}
    /\ x.pc \in {"pread", "pwrite"} => x.st.op \in {"drop", "grant", "revoke"}
    /\ x.pc = "cwrite" /\ x.st.op # "create" => x.row # NoRow
    /\ x.pc = "pwrite" /\ x.st.op = "revoke" => x.row # NoRow

(* A session about to write holds the lock of the table.                   *)
LocksHeld ==
  \A s \in Sessions : /\ ses[s].pc = "cwrite" => own[CRED_TBL] = s
                      /\ ses[s].pc = "pwrite" => own[PRIV_TBL] = s

(* A local GRANT found the account; when DROP USER has removed it since,   *)
(* the two have met.                                                       *)
GrantKnown ==
  \A s \in Sessions :
    ses[s].st.op = "grant" /\ ses[s].pc \in {"pread", "pwrite"}
      => cred[ses[s].st.acc] # NoRow \/ ses[s].st.acc \in raced

SesInv == TypeInv /\ (\A s \in Sessions : SessionOK(ses[s])) /\ LocksHeld

-----------------------------------------------------------------------------
(* The shapes of a session's step.                                         *)

(* A session that goes on is changed in the named fields only.             *)
LEMMA GotoEffect ==
  ASSUME TypeInv, NEW s \in Sessions, NEW pc \in Steps, Goto(s, pc)
  PROVE  /\ ses' \in [Sessions -> SessionStates]
         /\ ses'[s] = [ses[s] EXCEPT !.pc = pc, !.row = NoRow]
         /\ \A t \in Sessions : t # s => ses'[t] = ses[t]
<1>. DEFINE x == [ses[s] EXCEPT !.pc = pc, !.row = NoRow]
<1>1. ses \in [Sessions -> SessionStates]
  BY DEF TypeInv
<1>2. x \in SessionStates
  BY <1>1 DEF SessionStates
<1>3. ses' = [ses EXCEPT ![s] = x]
  BY DEF Goto
<1>. HIDE DEF x
<1>4. ses' \in [Sessions -> SessionStates] /\ ses'[s] = x
      /\ \A t \in Sessions : t # s => ses'[t] = ses[t]
  BY <1>1, <1>2, <1>3
<1>. QED
  BY <1>4 DEF x

(* A statement that ends leaves the session idle and its locks free.       *)
LEMMA FinishEffect ==
  ASSUME TypeInv, NEW s \in Sessions, NEW out \in {"none", "ok", "error", "denied"},
         Finish(s, out)
  PROVE  /\ ses' \in [Sessions -> SessionStates]
         /\ ses'[s].pc = "idle" /\ ses'[s].st = Idle
         /\ \A t \in Sessions : t # s => ses'[t] = ses[t]
         /\ own' \in [{CRED_TBL, PRIV_TBL} -> Sessions \cup {None}]
         /\ \A t \in Sessions, n \in {CRED_TBL, PRIV_TBL} :
              t # s /\ own[n] = t => own'[n] = t
<1>. DEFINE x == [ses[s] EXCEPT !.pc = "idle", !.st = Idle, !.k = 0,
                                !.row = NoRow, !.out = out]
<1>1. ses \in [Sessions -> SessionStates]
      /\ own \in [{CRED_TBL, PRIV_TBL} -> Sessions \cup {None}]
  BY DEF TypeInv
<1>2. 0 \in 0..2 /\ "idle" \in Steps /\ Idle \in Statements \cup {Idle}
  BY DEF Steps
<1>6. x \in SessionStates /\ x.pc = "idle" /\ x.st = Idle
  BY <1>1, <1>2 DEF SessionStates
<1>3. ses' = [ses EXCEPT ![s] = x]
  BY DEF Finish
<1>. HIDE DEF x
<1>4. ses' \in [Sessions -> SessionStates] /\ ses'[s] = x
      /\ \A t \in Sessions : t # s => ses'[t] = ses[t]
  BY <1>1, <1>6, <1>3
<1>5. own' = [n \in {CRED_TBL, PRIV_TBL} |-> IF own[n] = s THEN None ELSE own[n]]
  BY <1>1 DEF Finish
<1>. QED
  BY <1>1, <1>6, <1>4, <1>5

(* A session that locks a table owns it and keeps the row it read.         *)
LEMMA AcquireEffect ==
  ASSUME TypeInv, NEW s \in Sessions, NEW n \in {CRED_TBL, PRIV_TBL}, Free(n),
         NEW row \in CredRows \cup (SUBSET LocalPrivs) \cup {NoRow}, NEW pc \in Steps,
         Acquire(s, n, row, pc)
  PROVE  /\ ses' \in [Sessions -> SessionStates]
         /\ ses'[s] = [ses[s] EXCEPT !.pc = pc, !.row = row]
         /\ \A t \in Sessions : t # s => ses'[t] = ses[t]
         /\ own' \in [{CRED_TBL, PRIV_TBL} -> Sessions \cup {None}]
         /\ own'[n] = s
         /\ \A t \in Sessions, m \in {CRED_TBL, PRIV_TBL} :
              own[m] = t => own'[m] = t
<1>. DEFINE x == [ses[s] EXCEPT !.pc = pc, !.row = row]
<1>1. ses \in [Sessions -> SessionStates]
      /\ own \in [{CRED_TBL, PRIV_TBL} -> Sessions \cup {None}]
  BY DEF TypeInv
<1>2. x \in SessionStates
  BY <1>1 DEF SessionStates
<1>3. ses' = [ses EXCEPT ![s] = x]
  BY DEF Acquire
<1>. HIDE DEF x
<1>4. ses' \in [Sessions -> SessionStates] /\ ses'[s] = x
      /\ \A t \in Sessions : t # s => ses'[t] = ses[t]
  BY <1>1, <1>2, <1>3
<1>5. own' = [own EXCEPT ![n] = s] /\ own[n] = None
  BY DEF Acquire, Free
<1>6. None \notin Sessions
  BY UsersAssumption
<1>7. own' \in [{CRED_TBL, PRIV_TBL} -> Sessions \cup {None}] /\ own'[n] = s
      /\ \A t \in Sessions, m \in {CRED_TBL, PRIV_TBL} :
              own[m] = t => own'[m] = t
  BY <1>1, <1>5, <1>6
<1>. QED
  BY <1>4, <1>7 DEF x

(* A handler that a statement enters is the one of its keyword.            *)
LEMMA EntryOK ==
  ASSUME NEW x \in SessionStates, x.pc \in {"vglobal", "vlocal"}, SessionOK(x),
         NEW y, y = [x EXCEPT !.pc = Entry(x.st), !.row = NoRow]
  PROVE  SessionOK(y) /\ Entry(x.st) \in Steps \ {"cwrite", "pread", "pwrite"}
<1>1. x.st \in Statements /\ x.who \in Accounts /\ x.k \in DOMAIN Needed(x.st)
      /\ (x.st.op = "alter" => x.st.acc # None)
  BY DEF SessionOK
<1>2. x.st.op \in {"create", "alter", "drop", "grant", "revoke", "select"}
  BY <1>1, StatementsAssumption
<1>3. Entry(x.st) \in {"work", "check", "cread"}
      /\ (Entry(x.st) = "check" => x.st.op \in {"grant", "revoke"})
      /\ (Entry(x.st) = "cread" => x.st.op # "select")
  BY <1>2 DEF Entry
<1>4. y.pc = Entry(x.st) /\ y.st = x.st /\ y.k = x.k /\ y.who = x.who
  BY DEF SessionStates
<1>. QED
  BY <1>1, <1>2, <1>3, <1>4 DEF SessionOK, Steps

-----------------------------------------------------------------------------
(* What the sessions know of the tables is kept by every step.             *)

DataInv == SesInv /\ ReadIsCurrent

(* The other sessions keep what they know when their locks stay and the    *)
(* rows of a table that one of them has locked stay.                       *)
LEMMA OthersKeep ==
  ASSUME DataInv, NEW s \in Sessions,
         \A t \in Sessions : t # s => ses'[t] = ses[t],
         \A t \in Sessions, n \in {CRED_TBL, PRIV_TBL} :
           t # s /\ own[n] = t => own'[n] = t,
         (\E t \in Sessions \ {s} : ses[t].pc = "cwrite") => cred' = cred,
         (\E t \in Sessions \ {s} : ses[t].pc = "pwrite") => priv' = priv,
         NEW t \in Sessions, t # s
  PROVE  /\ SessionOK(ses'[t])
         /\ ses'[t].pc = "cwrite" => own'[CRED_TBL] = t /\ cred'[ses'[t].st.acc] = ses'[t].row
         /\ ses'[t].pc = "pwrite" =>
              /\ own'[PRIV_TBL] = t
              /\ ses'[t].st.op # "drop" =>
                   priv'[<<ses'[t].st.acc, ChangedObject(ses'[t].st, ses'[t].db)>>] = ses'[t].row
<1>1. ses'[t] = ses[t] /\ SessionOK(ses[t])
  BY DEF DataInv, SesInv
<1>2. /\ ses[t].pc = "cwrite" => own[CRED_TBL] = t /\ cred[ses[t].st.acc] = ses[t].row
      /\ ses[t].pc = "pwrite" =>
              /\ own[PRIV_TBL] = t
              /\ ses[t].st.op # "drop" =>
                   priv[<<ses[t].st.acc, ChangedObject(ses[t].st, ses[t].db)>>] = ses[t].row
  BY DEF DataInv, SesInv, LocksHeld, ReadIsCurrent
<1>. QED
  BY <1>1, <1>2

(* The same for all sessions, when the session that steps ends up outside  *)
(* the two writes.                                                         *)
LEMMA Outside ==
  ASSUME DataInv, NEW s \in Sessions,
         \A t \in Sessions : t # s => ses'[t] = ses[t],
         \A t \in Sessions, n \in {CRED_TBL, PRIV_TBL} :
           t # s /\ own[n] = t => own'[n] = t,
         (\E t \in Sessions \ {s} : ses[t].pc = "cwrite") => cred' = cred,
         (\E t \in Sessions \ {s} : ses[t].pc = "pwrite") => priv' = priv,
         SessionOK(ses'[s]), ses'[s].pc \notin {"cwrite", "pwrite"}, TypeInv'
  PROVE  DataInv'
<1>1. ASSUME NEW t \in Sessions
      PROVE  /\ SessionOK(ses'[t])
             /\ ses'[t].pc = "cwrite" => own'[CRED_TBL] = t /\ cred'[ses'[t].st.acc] = ses'[t].row
             /\ ses'[t].pc = "pwrite" =>
                  /\ own'[PRIV_TBL] = t
                  /\ ses'[t].st.op # "drop" =>
                       priv'[<<ses'[t].st.acc, ChangedObject(ses'[t].st, ses'[t].db)>>] = ses'[t].row
  <2>1. CASE t = s
    BY <2>1
  <2>2. CASE t # s
    BY <2>2, OthersKeep
  <2>. QED
    BY <2>1, <2>2
<1>. QED
  BY <1>1 DEF DataInv, SesInv, LocksHeld, ReadIsCurrent

(* A statement that ends, when the rows it leaves are well typed.          *)
LEMMA FinishKeeps ==
  ASSUME DataInv, NEW s \in Sessions, NEW out \in {"none", "ok", "error", "denied"},
         Finish(s, out),
         (\E t \in Sessions \ {s} : ses[t].pc = "cwrite") => cred' = cred,
         (\E t \in Sessions \ {s} : ses[t].pc = "pwrite") => priv' = priv,
         cred' \in [Accounts -> CredRows \cup {NoRow}],
         priv' \in [Accounts \X Objects -> (SUBSET LocalPrivs) \cup {NoRow}],
         sent' \in 0..MaxStatements
  PROVE  DataInv'
<1>1. TypeInv
  BY DEF DataInv, SesInv
<1>2. /\ ses' \in [Sessions -> SessionStates]
      /\ ses'[s].pc = "idle" /\ ses'[s].st = Idle
      /\ \A t \in Sessions : t # s => ses'[t] = ses[t]
      /\ own' \in [{CRED_TBL, PRIV_TBL} -> Sessions \cup {None}]
      /\ \A t \in Sessions, n \in {CRED_TBL, PRIV_TBL} :
           t # s /\ own[n] = t => own'[n] = t
  BY <1>1, FinishEffect
<1>3. TypeInv'
  BY <1>2 DEF TypeInv
<1>4. SessionOK(ses'[s])
  BY <1>2 DEF SessionOK
<1>. QED
  BY <1>2, <1>3, <1>4, Outside

(* A session that goes on without touching the tables.                     *)
LEMMA GotoKeeps ==
  ASSUME DataInv, NEW s \in Sessions, NEW pc \in Steps \ {"cwrite", "pwrite"}, Goto(s, pc),
         UNCHANGED <<cred, priv, own, sent>>,
         SessionOK([ses[s] EXCEPT !.pc = pc, !.row = NoRow])
  PROVE  DataInv'
<1>1. TypeInv
  BY DEF DataInv, SesInv
<1>2. /\ ses' \in [Sessions -> SessionStates]
      /\ ses'[s] = [ses[s] EXCEPT !.pc = pc, !.row = NoRow]
      /\ \A t \in Sessions : t # s => ses'[t] = ses[t]
  BY <1>1, GotoEffect
<1>3. TypeInv'
  BY <1>1, <1>2 DEF TypeInv
<1>8. ses[s] \in SessionStates
  BY <1>1 DEF TypeInv
<1>4. ses'[s].pc = pc
  BY <1>2, <1>8 DEF SessionStates
<1>7. SessionOK(ses'[s])
  BY <1>2, Zenon
<1>5. \A t \in Sessions, n \in {CRED_TBL, PRIV_TBL} :
        t # s /\ own[n] = t => own'[n] = t
  OBVIOUS
<1>6. cred' = cred /\ priv' = priv /\ ses'[s].pc \notin {"cwrite", "pwrite"}
  BY <1>4
<1>. QED
  BY <1>2, <1>3, <1>7, <1>5, <1>6, Outside

LEMMA AuthenticateKeeps ==
  ASSUME DataInv, NEW s \in Sessions, NEW a \in Accounts, NEW p \in Passwords,
         Authenticate(s, a, p)
  PROVE  DataInv'
<1>. DEFINE x == [ses[s] EXCEPT !.who = a]
<1>1. TypeInv /\ SessionOK(ses[s])
  BY DEF DataInv, SesInv
<1>2. ses \in [Sessions -> SessionStates] /\ ses[s] \in SessionStates
  BY <1>1 DEF TypeInv
<1>3. ses' = [ses EXCEPT ![s] = x] /\ UNCHANGED <<cred, priv, own, sent>>
  BY DEF Authenticate
<1>4. /\ x \in SessionStates
      /\ x.pc = ses[s].pc /\ x.st = ses[s].st /\ x.k = ses[s].k
      /\ x.row = ses[s].row /\ x.who = a
  BY <1>2 DEF SessionStates
<1>5. None \notin Accounts /\ ses[s].pc = "idle"
  BY <1>1, UsersAssumption DEF Authenticate, SessionOK
<1>6. SessionOK(x)
  BY <1>4, <1>5 DEF SessionOK
<1>. HIDE DEF x
<1>7. /\ ses' \in [Sessions -> SessionStates]
      /\ ses'[s] = x
      /\ \A t \in Sessions : t # s => ses'[t] = ses[t]
  BY <1>2, <1>3, <1>4
<1>8. TypeInv'
  BY <1>1, <1>3, <1>7 DEF TypeInv
<1>9. SessionOK(ses'[s]) /\ ses'[s].pc \notin {"cwrite", "pwrite"}
  BY <1>4, <1>5, <1>6, <1>7
<1>10. \A t \in Sessions, n \in {CRED_TBL, PRIV_TBL} :
        t # s /\ own[n] = t => own'[n] = t
  BY <1>3
<1>11. cred' = cred /\ priv' = priv
  BY <1>3
<1>. QED
  BY <1>7, <1>8, <1>9, <1>10, <1>11, Outside

(* The bound on the statements of a behaviour.                             *)
LEMMA SentBound ==
  ASSUME TypeInv, sent < MaxStatements, sent' = sent + 1
  PROVE  sent' \in 0..MaxStatements
<1>1. MaxStatements \in Nat
  BY UsersAssumption
<1>2. sent \in 0..MaxStatements
  BY DEF TypeInv
<1>. QED
  BY <1>1, <1>2

LEMMA UseKeeps ==
  ASSUME DataInv, NEW s \in Sessions, NEW d \in Databases, use_database(s, d)
  PROVE  DataInv'
<1>. DEFINE x == [ses[s] EXCEPT !.db = d]
<1>1. TypeInv
  BY DEF DataInv, SesInv
<1>2. ses \in [Sessions -> SessionStates] /\ ses[s] \in SessionStates
  BY <1>1 DEF TypeInv
<1>3. ses' = [ses EXCEPT ![s] = x] /\ UNCHANGED <<cred, priv, own>> /\ ses[s].pc = "idle"
  BY DEF use_database
<1>4. x \in SessionStates /\ x.pc = "idle"
  BY <1>2, <1>3 DEF SessionStates
<1>5. sent' \in 0..MaxStatements
  BY <1>1, SentBound DEF use_database
<1>. HIDE DEF x
<1>6. /\ ses' \in [Sessions -> SessionStates]
      /\ ses'[s] = x
      /\ \A t \in Sessions : t # s => ses'[t] = ses[t]
  BY <1>2, <1>3, <1>4
<1>7. TypeInv'
  BY <1>1, <1>3, <1>5, <1>6 DEF TypeInv
<1>8. SessionOK(ses'[s]) /\ ses'[s].pc \notin {"cwrite", "pwrite"}
  BY <1>4, <1>6 DEF SessionOK
<1>9. \A t \in Sessions, n \in {CRED_TBL, PRIV_TBL} :
        t # s /\ own[n] = t => own'[n] = t
  BY <1>3
<1>10. cred' = cred /\ priv' = priv
  BY <1>3
<1>. QED
  BY <1>6, <1>7, <1>8, <1>9, <1>10, Outside

(* The first privilege that a statement tries exists.                      *)
LEMMA NeededFirst ==
  ASSUME NEW st
  PROVE  1 \in DOMAIN Needed(st) /\ DOMAIN Needed(st) = 1..Len(Needed(st))
         /\ Len(Needed(st)) \in {1, 2}
<1>1. \/ Needed(st) = <<"create_user_priv">>
      \/ Needed(st) = <<"create_user_priv", "delete_priv">>
      \/ Needed(st) = <<"grant_priv">>
      \/ Needed(st) = <<"select_priv">>
  BY Zenon DEF Needed
<1>2. \A p, q : /\ Len(<<p>>) = 1 /\ DOMAIN <<p>> = 1..1
               /\ Len(<<p, q>>) = 2 /\ DOMAIN <<p, q>> = 1..2
  OBVIOUS
<1>3. 1 \in 1..1 /\ 1 \in 1..2
  OBVIOUS
<1>. QED
  BY <1>1, <1>2, <1>3, Zenon

LEMMA SendKeeps ==
  ASSUME DataInv, NEW s \in Sessions, NEW st \in Statements, Send(s, st)
  PROVE  DataInv'
<1>1. TypeInv
  BY DEF DataInv, SesInv
<1>2. /\ ses \in [Sessions -> SessionStates] /\ ses[s] \in SessionStates
      /\ cred \in [Accounts -> CredRows \cup {NoRow}]
      /\ priv \in [Accounts \X Objects -> (SUBSET LocalPrivs) \cup {NoRow}]
  BY <1>1 DEF TypeInv
<1>3. sent' \in 0..MaxStatements /\ cred' = cred /\ priv' = priv
  BY <1>1, SentBound DEF Send
<1>4. CASE Finish(s, "error")
  BY <1>2, <1>3, <1>4, FinishKeeps
<1>5. CASE ~ Finish(s, "error")
  <2>. DEFINE x == [ses[s] EXCEPT !.pc = "vglobal", !.st = st, !.k = 1, !.out = "none"]
  <2>1. /\ ses' = [ses EXCEPT ![s] = x] /\ own' = own
        /\ ~ (st.op = "alter" /\ st.acc = None) /\ ses[s].who # None
    BY <1>5 DEF Send
  <2>2. 1 \in 0..2 /\ "vglobal" \in Steps /\ st \in Statements \cup {Idle}
    BY DEF Steps
  <2>3. x \in SessionStates
    BY <1>2, <2>2 DEF SessionStates
  <2>4. x.pc = "vglobal" /\ x.st = st /\ x.k = 1 /\ x.who = ses[s].who
        /\ ses[s].who \in Accounts \cup {None}
    BY <1>2 DEF SessionStates
  <2>5. SessionOK(x)
    BY <2>1, <2>4, NeededFirst DEF SessionOK
  <2>. HIDE DEF x
  <2>6. /\ ses' \in [Sessions -> SessionStates]
        /\ ses'[s] = x
        /\ \A t \in Sessions : t # s => ses'[t] = ses[t]
    BY <1>2, <2>1, <2>3
  <2>7. TypeInv'
    BY <1>1, <1>3, <2>1, <2>6 DEF TypeInv
  <2>8. SessionOK(ses'[s]) /\ ses'[s].pc \notin {"cwrite", "pwrite"}
    BY <2>4, <2>5, <2>6
  <2>9. \A t \in Sessions, n \in {CRED_TBL, PRIV_TBL} :
          t # s /\ own[n] = t => own'[n] = t
    BY <2>1
  <2>. QED
    BY <1>3, <2>6, <2>7, <2>8, <2>9, Outside
<1>. QED
  BY <1>4, <1>5

(* What a step of a session may rely on.                                   *)
LEMMA Typed ==
  ASSUME DataInv, NEW s \in Sessions
  PROVE  /\ TypeInv /\ ses[s] \in SessionStates /\ SessionOK(ses[s])
         /\ cred \in [Accounts -> CredRows \cup {NoRow}]
         /\ priv \in [Accounts \X Objects -> (SUBSET LocalPrivs) \cup {NoRow}]
         /\ own \in [{CRED_TBL, PRIV_TBL} -> Sessions \cup {None}]
         /\ sent \in 0..MaxStatements
  BY DEF DataInv, SesInv, TypeInv

(* A statement that ends and leaves both tables as they are.               *)
LEMMA FinishOnly ==
  ASSUME DataInv, NEW s \in Sessions, NEW out \in {"none", "ok", "error", "denied"},
         Finish(s, out), UNCHANGED <<cred, priv, sent>>
  PROVE  DataInv'
<1>1. /\ cred' \in [Accounts -> CredRows \cup {NoRow}]
      /\ priv' \in [Accounts \X Objects -> (SUBSET LocalPrivs) \cup {NoRow}]
      /\ sent' \in 0..MaxStatements
  BY Typed
<1>. QED
  BY <1>1, FinishKeeps

(* The account that a handler changes.                                     *)
LEMMA AccountNamed ==
  ASSUME NEW x, SessionOK(x), x.pc # "idle", x.st.op # "select"
  PROVE  x.st.acc \in Accounts /\ x.st.pwd \in Passwords /\ x.st \in Statements
<1>1. x.st \in Statements /\ (x.st.op = "alter" => x.st.acc # None)
  BY DEF SessionOK
<1>. QED
  BY <1>1, StatementsAssumption

LEMMA VerifyGlobalKeeps ==
  ASSUME DataInv, NEW s \in Sessions, VerifyGlobal(s)
  PROVE  DataInv'
<1>1. ses[s] \in SessionStates /\ SessionOK(ses[s]) /\ ses[s].pc = "vglobal"
  BY Typed DEF VerifyGlobal
<1>2. UNCHANGED <<cred, priv, own, sent>>
  BY DEF VerifyGlobal
<1>3. CASE Goto(s, Entry(ses[s].st))
  <2>. DEFINE y == [ses[s] EXCEPT !.pc = Entry(ses[s].st), !.row = NoRow]
  <2>1. SessionOK(y) /\ Entry(ses[s].st) \in Steps \ {"cwrite", "pread", "pwrite"}
    BY <1>1, EntryOK
  <2>. QED
    BY <1>2, <1>3, <2>1, GotoKeeps
<1>4. CASE Goto(s, "vlocal")
  <2>. DEFINE y == [ses[s] EXCEPT !.pc = "vlocal", !.row = NoRow]
  <2>1. y.pc = "vlocal" /\ y.st = ses[s].st /\ y.k = ses[s].k /\ y.who = ses[s].who
    BY <1>1 DEF SessionStates
  <2>2. SessionOK(y) /\ "vlocal" \in Steps \ {"cwrite", "pwrite"}
    BY <1>1, <2>1 DEF SessionOK, Steps
  <2>. QED
    BY <1>2, <1>4, <2>2, GotoKeeps
<1>. QED
  BY <1>3, <1>4 DEF VerifyGlobal

LEMMA VerifyLocalKeeps ==
  ASSUME DataInv, NEW s \in Sessions, VerifyLocal(s)
  PROVE  DataInv'
<1>1. ses[s] \in SessionStates /\ SessionOK(ses[s]) /\ ses[s].pc = "vlocal"
  BY Typed DEF VerifyLocal
<1>2. UNCHANGED <<cred, priv, sent>>
  BY DEF VerifyLocal
<1>3. CASE Goto(s, Entry(ses[s].st)) /\ own' = own
  <2>. DEFINE y == [ses[s] EXCEPT !.pc = Entry(ses[s].st), !.row = NoRow]
  <2>1. SessionOK(y) /\ Entry(ses[s].st) \in Steps \ {"cwrite", "pread", "pwrite"}
    BY <1>1, EntryOK
  <2>. QED
    BY <1>2, <1>3, <2>1, GotoKeeps
<1>4. CASE Finish(s, "error")
  BY <1>2, <1>4, FinishOnly
<1>5. CASE Finish(s, "denied")
  BY <1>2, <1>5, FinishOnly
<1>6. CASE /\ ses[s].k < Len(Needed(ses[s].st))
           /\ ses' = [ses EXCEPT ![s].pc = "vglobal", ![s].k = @ + 1]
           /\ own' = own
  <2>. DEFINE x == [ses[s] EXCEPT !.pc = "vglobal", !.k = ses[s].k + 1]
  <2>1. ses' = [ses EXCEPT ![s] = x] /\ ses \in [Sessions -> SessionStates]
    BY <1>6, Typed DEF TypeInv
  <2>2. ses[s].k \in DOMAIN Needed(ses[s].st)
    BY <1>1 DEF SessionOK
  <2>3. ses[s].k + 1 \in DOMAIN Needed(ses[s].st) /\ ses[s].k + 1 \in 0..2
    BY <1>6, <2>2, NeededFirst
  <2>4. x \in SessionStates
    BY <1>1, <2>3 DEF SessionStates, Steps
  <2>5. x.pc = "vglobal" /\ x.st = ses[s].st /\ x.k = ses[s].k + 1 /\ x.who = ses[s].who
    BY <1>1 DEF SessionStates
  <2>6. SessionOK(x)
    BY <1>1, <2>3, <2>5 DEF SessionOK
  <2>. HIDE DEF x
  <2>7. /\ ses' \in [Sessions -> SessionStates]
        /\ ses'[s] = x
        /\ \A t \in Sessions : t # s => ses'[t] = ses[t]
    BY <2>1, <2>4
  <2>8. TypeInv'
    BY <1>2, <1>6, <2>7, Typed DEF TypeInv
  <2>9. SessionOK(ses'[s]) /\ ses'[s].pc \notin {"cwrite", "pwrite"}
    BY <2>5, <2>6, <2>7
  <2>10. \A t \in Sessions, n \in {CRED_TBL, PRIV_TBL} :
          t # s /\ own[n] = t => own'[n] = t
    BY <1>6
  <2>. QED
    BY <1>2, <2>7, <2>8, <2>9, <2>10, Outside
<1>. QED
  BY <1>3, <1>4, <1>5, <1>6 DEF VerifyLocal

LEMMA CheckUserKeeps ==
  ASSUME DataInv, NEW s \in Sessions, CheckUser(s)
  PROVE  DataInv'
<1>1. ses[s] \in SessionStates /\ SessionOK(ses[s]) /\ ses[s].pc = "check"
  BY Typed DEF CheckUser
<1>2. UNCHANGED <<cred, priv, sent>>
  BY DEF CheckUser
<1>3. CASE Finish(s, "error")
  BY <1>2, <1>3, FinishOnly
<1>4. CASE Goto(s, "pread") /\ own' = own
  <2>. DEFINE y == [ses[s] EXCEPT !.pc = "pread", !.row = NoRow]
  <2>1. y.pc = "pread" /\ y.st = ses[s].st /\ y.k = ses[s].k /\ y.who = ses[s].who
    BY <1>1 DEF SessionStates
  <2>2. SessionOK(y) /\ "pread" \in Steps \ {"cwrite", "pwrite"}
    BY <1>1, <2>1 DEF SessionOK, Steps
  <2>. QED
    BY <1>2, <1>4, <2>2, GotoKeeps
<1>. QED
  BY <1>3, <1>4 DEF CheckUser

(* A session that locks a table to rewrite a row.                          *)
LEMMA AcquireKeeps ==
  ASSUME DataInv, NEW s \in Sessions, NEW n \in {CRED_TBL, PRIV_TBL}, Free(n),
         NEW row \in CredRows \cup (SUBSET LocalPrivs) \cup {NoRow}, NEW pc \in Steps,
         Acquire(s, n, row, pc), UNCHANGED <<cred, priv, sent>>,
         SessionOK([ses[s] EXCEPT !.pc = pc, !.row = row]),
         pc = "cwrite" => n = CRED_TBL /\ row = cred[ses[s].st.acc],
         pc = "pwrite" =>
           /\ n = PRIV_TBL
           /\ ses[s].st.op # "drop" =>
                row = priv[<<ses[s].st.acc, ChangedObject(ses[s].st, ses[s].db)>>]
  PROVE  DataInv'
<1>. DEFINE y == [ses[s] EXCEPT !.pc = pc, !.row = row]
<1>1. TypeInv /\ ses[s] \in SessionStates
  BY Typed
<1>2. /\ ses' \in [Sessions -> SessionStates]
      /\ ses'[s] = y
      /\ \A t \in Sessions : t # s => ses'[t] = ses[t]
      /\ own' \in [{CRED_TBL, PRIV_TBL} -> Sessions \cup {None}]
      /\ own'[n] = s
      /\ \A t \in Sessions, m \in {CRED_TBL, PRIV_TBL} : own[m] = t => own'[m] = t
  BY <1>1, AcquireEffect
<1>3. TypeInv'
  BY <1>1, <1>2 DEF TypeInv
<1>4. y.pc = pc /\ y.row = row /\ y.st = ses[s].st /\ y.db = ses[s].db
  BY <1>1 DEF SessionStates
<1>5. SessionOK(y)
  OBVIOUS
<1>. HIDE DEF y
<1>6. ASSUME NEW t \in Sessions
      PROVE  /\ SessionOK(ses'[t])
             /\ ses'[t].pc = "cwrite" => own'[CRED_TBL] = t /\ cred'[ses'[t].st.acc] = ses'[t].row
             /\ ses'[t].pc = "pwrite" =>
                  /\ own'[PRIV_TBL] = t
                  /\ ses'[t].st.op # "drop" =>
                       priv'[<<ses'[t].st.acc, ChangedObject(ses'[t].st, ses'[t].db)>>] = ses'[t].row
  <2>1. CASE t = s
    BY <2>1, <1>2, <1>4, <1>5
  <2>2. CASE t # s
    BY <2>2, <1>2, OthersKeep
  <2>. QED
    BY <2>1, <2>2
<1>. QED
  BY <1>3, <1>6 DEF DataInv, SesInv, LocksHeld, ReadIsCurrent

LEMMA CredReadKeeps ==
  ASSUME DataInv, NEW s \in Sessions, CredRead(s)
  PROVE  DataInv'
<1>. DEFINE st == ses[s].st
            row == cred[st.acc]
<1>1. ses[s] \in SessionStates /\ SessionOK(ses[s]) /\ ses[s].pc = "cread"
      /\ cred \in [Accounts -> CredRows \cup {NoRow}]
  BY Typed DEF CredRead
<1>2. UNCHANGED <<cred, priv, sent>> /\ Free(CRED_TBL)
  BY DEF CredRead
<1>3. CASE Finish(s, "error")
  BY <1>2, <1>3, FinishOnly
<1>4. CASE /\ Acquire(s, CRED_TBL, row, "cwrite")
           /\ ~ (st.op # "create" /\ row = NoRow)
  <2>. DEFINE y == [ses[s] EXCEPT !.pc = "cwrite", !.row = row]
  <2>1. st.op \in {"create", "alter", "drop", "grant", "revoke"}
    BY <1>1 DEF SessionOK
  <2>2. row \in CredRows \cup (SUBSET LocalPrivs) \cup {NoRow} /\ "cwrite" \in Steps
    BY <1>1, <2>1, AccountNamed DEF Steps
  <2>3. y.pc = "cwrite" /\ y.st = st /\ y.k = ses[s].k /\ y.who = ses[s].who /\ y.row = row
    BY <1>1 DEF SessionStates
  <2>4. SessionOK(y)
    BY <1>1, <1>4, <2>1, <2>3 DEF SessionOK
  <2>. HIDE DEF row
  <2>5. row = cred[ses[s].st.acc]
    BY DEF row
  <2>. QED
    BY <1>2, <1>4, <2>2, <2>4, <2>5, AcquireKeeps
<1>. QED
  BY <1>3, <1>4 DEF CredRead

(* Two sessions do not write to one table.                                 *)
LEMMA WritesAlone ==
  ASSUME DataInv, NEW s \in Sessions, NEW t \in Sessions, s # t
  PROVE  /\ ses[s].pc = "cwrite" => ses[t].pc # "cwrite"
         /\ ses[s].pc = "pwrite" => ses[t].pc # "pwrite"
  BY DEF DataInv, SesInv, LocksHeld

(* The row of etc.cred that a handler writes.                              *)
LEMMA CredRowType ==
  ASSUME NEW row \in CredRows, NEW list, NEW p \in Passwords,
         NEW st, st.pwd = p, st.list = list
  PROVE  /\ create_user(st) \in CredRows /\ alter_user(st, row) \in CredRows
         /\ grant_global(st, row) \in CredRows /\ revoke_global(st, row) \in CredRows
<1>1. create_user(st) \in CredRows /\ alter_user(st, row) \in CredRows
  BY DEF create_user, alter_user, CredRows
<1>2. normalize_privilege_list(st.list, GlobalPrivs) \subseteq GlobalPrivs
  BY DEF normalize_privilege_list
<1>. QED
  BY <1>1, <1>2 DEF grant_global, revoke_global, CredRows

LEMMA CredWriteKeeps ==
  ASSUME DataInv, NEW s \in Sessions, CredWrite(s)
  PROVE  DataInv' /\ \E v \in CredRows : cred' = [cred EXCEPT ![ses[s].st.acc] = v]
<1>. DEFINE st == ses[s].st
            row == ses[s].row
<1>1. /\ SessionOK(ses[s]) /\ ses[s].pc = "cwrite"
      /\ cred \in [Accounts -> CredRows \cup {NoRow}]
      /\ priv \in [Accounts \X Objects -> (SUBSET LocalPrivs) \cup {NoRow}]
      /\ sent \in 0..MaxStatements
  BY Typed DEF CredWrite
<1>2. st.op # "select" /\ (st.op # "create" => row # NoRow)
  BY <1>1 DEF SessionOK
<1>3. st.acc \in Accounts /\ st.pwd \in Passwords
  BY <1>1, <1>2, AccountNamed
<1>4. cred[st.acc] = row
  BY <1>1 DEF DataInv, ReadIsCurrent
<1>5. st.op # "create" => row \in CredRows
  BY <1>1, <1>2, <1>3, <1>4
<1>6. \E v \in CredRows : cred' = [cred EXCEPT ![st.acc] = v]
  <2>1. CASE st.op = "create" /\ cred' = [cred EXCEPT ![st.acc] = create_user(st)]
    <3>1. create_user(st) \in CredRows
      BY <1>3 DEF create_user, CredRows
    <3>. QED
      BY <2>1, <3>1
  <2>2. CASE st.op = "alter" /\ cred' = [cred EXCEPT ![st.acc] = alter_user(st, row)]
    BY <2>2, <1>3, <1>5, CredRowType
  <2>3. CASE st.op = "grant" /\ cred' = [cred EXCEPT ![st.acc] = grant_global(st, row)]
    BY <2>3, <1>3, <1>5, CredRowType
  <2>4. CASE st.op = "revoke" /\ cred' = [cred EXCEPT ![st.acc] = revoke_global(st, row)]
    BY <2>4, <1>3, <1>5, CredRowType
  <2>. QED
    BY <2>1, <2>2, <2>3, <2>4 DEF CredWrite
<1>7. cred' \in [Accounts -> CredRows \cup {NoRow}]
  BY <1>1, <1>3, <1>6
<1>8. priv' = priv /\ sent' = sent /\ Finish(s, "ok")
  BY DEF CredWrite
<1>9. ~ \E t \in Sessions \ {s} : ses[t].pc = "cwrite"
  BY <1>1, WritesAlone
<1>. QED
  BY <1>1, <1>6, <1>7, <1>8, <1>9, FinishKeeps

LEMMA DropGlobalKeeps ==
  ASSUME DataInv, NEW s \in Sessions, drop_user_global(s)
  PROVE  /\ DataInv'
         /\ ses'[s].pc = "pread" /\ ses'[s].st = ses[s].st
         /\ \A t \in Sessions : t # s => ses'[t] = ses[t]
<1>. DEFINE y == [ses[s] EXCEPT !.pc = "pread", !.row = NoRow]
<1>1. /\ TypeInv /\ ses[s] \in SessionStates /\ SessionOK(ses[s])
      /\ ses[s].pc = "cwrite" /\ ses[s].st.op = "drop"
      /\ cred \in [Accounts -> CredRows \cup {NoRow}]
      /\ own \in [{CRED_TBL, PRIV_TBL} -> Sessions \cup {None}]
  BY Typed DEF drop_user_global
<1>2. /\ cred' = [cred EXCEPT ![ses[s].st.acc] = NoRow]
      /\ own' = [own EXCEPT ![CRED_TBL] = None]
      /\ Goto(s, "pread") /\ priv' = priv /\ sent' = sent
  BY DEF drop_user_global
<1>3. "pread" \in Steps
  BY DEF Steps
<1>4. /\ ses' \in [Sessions -> SessionStates]
      /\ ses'[s] = y
      /\ \A t \in Sessions : t # s => ses'[t] = ses[t]
  BY <1>1, <1>2, <1>3, GotoEffect
<1>5. y.pc = "pread" /\ y.st = ses[s].st /\ y.k = ses[s].k /\ y.who = ses[s].who
  BY <1>1 DEF SessionStates
<1>. HIDE DEF y
<1>6. SessionOK(y)
  BY <1>1, <1>5 DEF SessionOK
<1>7. cred' \in [Accounts -> CredRows \cup {NoRow}]
      /\ own' \in [{CRED_TBL, PRIV_TBL} -> Sessions \cup {None}]
  BY <1>1, <1>2
<1>8. TypeInv'
  BY <1>1, <1>2, <1>4, <1>7 DEF TypeInv
<1>9. SessionOK(ses'[s]) /\ ses'[s].pc \notin {"cwrite", "pwrite"}
  BY <1>4, <1>5, <1>6
<1>10. own[CRED_TBL] = s
  BY <1>1 DEF DataInv, SesInv, LocksHeld
<1>11. \A t \in Sessions, n \in {CRED_TBL, PRIV_TBL} :
         t # s /\ own[n] = t => own'[n] = t
  BY <1>1, <1>2, <1>10
<1>12. ~ \E t \in Sessions \ {s} : ses[t].pc = "cwrite"
  BY <1>1, WritesAlone
<1>13. DataInv'
  BY <1>2, <1>4, <1>8, <1>9, <1>11, <1>12, Outside
<1>. QED
  BY <1>4, <1>5, <1>13

(* The object that a local GRANT or REVOKE changes is one of etc.priv.     *)
LEMMA ObjectNamed ==
  ASSUME NEW x \in SessionStates, SessionOK(x), x.pc # "idle",
         x.st.op \in {"grant", "revoke", "select"}
  PROVE  ChangedObject(x.st, x.db) \in Objects
<1>1. x.st \in Statements /\ x.db \in Databases \cup {""}
  BY DEF SessionOK, SessionStates
<1>2. x.st.db \in Databases \cup {"", ASTERISK} /\ x.st.tbl \in Tables \cup {ASTERISK}
  BY <1>1, StatementsAssumption
<1>. QED
  BY <1>1, <1>2 DEF ChangedObject, Objects

LEMMA PrivReadKeeps ==
  ASSUME DataInv, NEW s \in Sessions, PrivRead(s)
  PROVE  DataInv'
<1>. DEFINE st == ses[s].st
            row == priv[<<st.acc, ChangedObject(st, ses[s].db)>>]
            got == IF st.op = "drop" THEN NoRow ELSE row
<1>1. ses[s] \in SessionStates /\ SessionOK(ses[s]) /\ ses[s].pc = "pread"
      /\ priv \in [Accounts \X Objects -> (SUBSET LocalPrivs) \cup {NoRow}]
  BY Typed DEF PrivRead
<1>2. UNCHANGED <<cred, priv, sent>> /\ Free(PRIV_TBL)
  BY DEF PrivRead
<1>3. CASE Finish(s, "error")
  BY <1>2, <1>3, FinishOnly
<1>4. CASE /\ Acquire(s, PRIV_TBL, got, "pwrite")
           /\ ~ (st.op = "revoke" /\ row = NoRow)
  <2>. DEFINE y == [ses[s] EXCEPT !.pc = "pwrite", !.row = got]
  <2>1. st.op \in {"drop", "grant", "revoke"}
    BY <1>1 DEF SessionOK
  <2>2. st.acc \in Accounts
    BY <1>1, <2>1, AccountNamed
  <2>3. st.op # "drop" => ChangedObject(st, ses[s].db) \in Objects
    BY <1>1, <2>1, ObjectNamed
  <2>4. st.op # "drop" => row \in (SUBSET LocalPrivs) \cup {NoRow}
    BY <1>1, <2>2, <2>3
  <2>. HIDE DEF row
  <2>5. got \in CredRows \cup (SUBSET LocalPrivs) \cup {NoRow} /\ "pwrite" \in Steps
    BY <2>4 DEF Steps
  <2>6. y.pc = "pwrite" /\ y.st = st /\ y.k = ses[s].k /\ y.who = ses[s].who /\ y.row = got
    BY <1>1 DEF SessionStates
  <2>7. SessionOK(y)
    BY <1>1, <1>4, <2>1, <2>6 DEF SessionOK
  <2>8. st.op # "drop" => got = priv[<<ses[s].st.acc, ChangedObject(ses[s].st, ses[s].db)>>]
    BY DEF row
  <2>. HIDE DEF got
  <2>. QED
    BY <1>2, <1>4, <2>5, <2>7, <2>8, AcquireKeeps
<1>. QED
  BY <1>3, <1>4 DEF PrivRead

(* The rows of etc.priv that a handler leaves.                             *)
LEMMA PrivWriteKeeps ==
  ASSUME DataInv, NEW s \in Sessions, PrivWrite(s)
  PROVE  DataInv'
<1>. DEFINE st == ses[s].st
            key == <<st.acc, ChangedObject(st, ses[s].db)>>
<1>1. /\ ses[s] \in SessionStates /\ SessionOK(ses[s]) /\ ses[s].pc = "pwrite"
      /\ cred \in [Accounts -> CredRows \cup {NoRow}]
      /\ priv \in [Accounts \X Objects -> (SUBSET LocalPrivs) \cup {NoRow}]
      /\ sent \in 0..MaxStatements
  BY Typed DEF PrivWrite
<1>2. st.op \in {"drop", "grant", "revoke"} /\ (st.op = "revoke" => ses[s].row # NoRow)
  BY <1>1 DEF SessionOK
<1>3. st.acc \in Accounts
  BY <1>1, <1>2, AccountNamed
<1>4. st.op # "drop" => key \in Accounts \X Objects /\ priv[key] = ses[s].row
  BY <1>1, <1>2, <1>3, ObjectNamed DEF DataInv, ReadIsCurrent
<1>5. st.op # "drop" => ses[s].row \in (SUBSET LocalPrivs) \cup {NoRow}
  BY <1>1, <1>4
<1>6. normalize_privilege_list(st.list, LocalPrivs) \subseteq LocalPrivs
  BY DEF normalize_privilege_list
<1>7. priv' \in [Accounts \X Objects -> (SUBSET LocalPrivs) \cup {NoRow}]
  <2>1. CASE st.op = "grant" /\ priv' = [priv EXCEPT ![key] = grant_local(st, ses[s].row)]
    <3>1. grant_local(st, ses[s].row) \in SUBSET LocalPrivs
      BY <2>1, <1>5, <1>6 DEF grant_local
    <3>. QED
      BY <2>1, <3>1, <1>1, <1>4
  <2>2. CASE st.op = "revoke" /\ priv' = [priv EXCEPT ![key] = revoke_local(st, ses[s].row)]
    <3>1. revoke_local(st, ses[s].row) \in SUBSET LocalPrivs
      BY <2>2, <1>2, <1>5 DEF revoke_local
    <3>. QED
      BY <2>2, <3>1, <1>1, <1>4
  <2>3. CASE st.op = "drop" /\ priv' = drop_user_local(st.acc)
    BY <2>3, <1>1 DEF drop_user_local
  <2>. QED
    BY <2>1, <2>2, <2>3 DEF PrivWrite
<1>8. cred' = cred /\ sent' = sent /\ Finish(s, "ok")
  BY DEF PrivWrite
<1>9. ~ \E t \in Sessions \ {s} : ses[t].pc = "pwrite"
  BY <1>1, WritesAlone
<1>. QED
  BY <1>1, <1>7, <1>8, <1>9, FinishKeeps

LEMMA DataInvInit == Init => DataInv
<1>. SUFFICES ASSUME Init PROVE DataInv
  OBVIOUS
<1>. DEFINE x == [who |-> None, db |-> "", pc |-> "idle", st |-> Idle,
                  k |-> 0, row |-> NoRow, out |-> "none"]
<1>8. MaxStatements \in Nat
  BY UsersAssumption
<1>1. 0 \in 0..2 /\ "idle" \in Steps /\ 0 \in 0..MaxStatements
  BY <1>8 DEF Steps
<1>2. x \in SessionStates /\ x.pc = "idle"
  BY <1>1 DEF SessionStates
<1>3. ses = [s \in Sessions |-> x]
  BY DEF Init
<1>. HIDE DEF x
<1>4. ses \in [Sessions -> SessionStates] /\ \A s \in Sessions : ses[s].pc = "idle"
  BY <1>2, <1>3
<1>5. [pwd |-> "", privs |-> GlobalPrivs] \in CredRows
  BY UsersAssumption DEF CredRows
<1>6. cred \in [Accounts -> CredRows \cup {NoRow}]
  BY <1>5 DEF Init
<1>7. TypeInv
  BY <1>1, <1>4, <1>6 DEF TypeInv, Init
<1>. QED
  BY <1>4, <1>7 DEF DataInv, SesInv, SessionOK, LocksHeld, ReadIsCurrent

(* Every step keeps what the sessions know.                                *)
LEMMA DataInvNext == DataInv /\ [Next]_vars => DataInv'
<1>. SUFFICES ASSUME DataInv, [Next]_vars PROVE DataInv'
  OBVIOUS
<1>1. CASE UNCHANGED vars
  BY <1>1, Zenon DEF vars, DataInv, SesInv, TypeInv, LocksHeld, ReadIsCurrent
<1>2. ASSUME NEW s \in Sessions, Step(s) PROVE DataInv'
  <2>1. CASE VerifyGlobal(s)
    BY <2>1, VerifyGlobalKeeps
  <2>2. CASE VerifyLocal(s)
    BY <2>2, VerifyLocalKeeps
  <2>3. CASE Work(s)
    BY <2>3, FinishOnly DEF Work
  <2>4. CASE CheckUser(s)
    BY <2>4, CheckUserKeeps
  <2>5. CASE CredRead(s)
    BY <2>5, CredReadKeeps
  <2>6. CASE CredWrite(s)
    BY <2>6, CredWriteKeeps
  <2>7. CASE drop_user_global(s)
    BY <2>7, DropGlobalKeeps
  <2>8. CASE PrivRead(s)
    BY <2>8, PrivReadKeeps
  <2>9. CASE PrivWrite(s)
    BY <2>9, PrivWriteKeeps
  <2>. QED
    BY <1>2, <2>1, <2>2, <2>3, <2>4, <2>5, <2>6, <2>7, <2>8, <2>9 DEF Step
<1>. QED
  BY <1>1, <1>2, AuthenticateKeeps, UseKeeps, SendKeeps DEF Next

(* In every reachable state the two tables hold rows of their own columns, *)
(* a tree has one owner, and sent respects its bound: the type of the      *)
(* account store, under any interleaving of the handlers.                  *)
THEOREM TypeCorrect == Spec => []TypeOK
<1>1. DataInv => TypeOK
  BY DEF DataInv, SesInv, TypeInv, TypeOK, CredRows
<1>. QED
  BY <1>1, DataInvInit, DataInvNext, PTL DEF Spec

(* ALTER USER, GRANT and REVOKE rewrite the row that is in the table at    *)
(* that moment: no update between the read and the write is lost, however  *)
(* many sessions execute statements.                                       *)
THEOREM NoLostUpdate == Spec => []ReadIsCurrent
<1>1. DataInv => ReadIsCurrent
  BY DEF DataInv
<1>. QED
  BY <1>1, DataInvInit, DataInvNext, PTL DEF Spec

-----------------------------------------------------------------------------
(* Privileges.                                                             *)

(* The steps of one session.                                               *)
SessionStep(s) ==
  \/ Step(s)
  \/ \E a \in Accounts, p \in Passwords : Authenticate(s, a, p)
  \/ \E d \in Databases : use_database(s, d)
  \/ \E st \in Statements : Send(s, st)

(* A session changes its own state only.                                   *)
LEMMA OwnState ==
  ASSUME DataInv, NEW s \in Sessions, SessionStep(s), NEW t \in Sessions, t # s
  PROVE  ses'[t] = ses[t]
<1>1. ses \in [Sessions -> SessionStates]
  BY DEF DataInv, SesInv, TypeInv
<1>2. ASSUME NEW out, Finish(s, out) PROVE ses'[t] = ses[t]
  BY <1>1, <1>2 DEF Finish
<1>3. ASSUME NEW pc, Goto(s, pc) PROVE ses'[t] = ses[t]
  BY <1>1, <1>3 DEF Goto
<1>4. ASSUME NEW n, NEW row, NEW pc, Acquire(s, n, row, pc) PROVE ses'[t] = ses[t]
  BY <1>1, <1>4 DEF Acquire
<1>5. CASE VerifyGlobal(s)
  BY <1>3, <1>5 DEF VerifyGlobal
<1>6. CASE VerifyLocal(s)
  <2>1. CASE ses' = [ses EXCEPT ![s].pc = "vglobal", ![s].k = @ + 1]
    BY <1>1, <2>1
  <2>. QED
    BY <1>2, <1>3, <1>6, <2>1 DEF VerifyLocal
<1>7. CASE Work(s) \/ CheckUser(s)
  BY <1>2, <1>3, <1>7 DEF Work, CheckUser
<1>8. CASE CredRead(s) \/ PrivRead(s)
  BY <1>2, <1>4, <1>8 DEF CredRead, PrivRead
<1>9. CASE CredWrite(s) \/ PrivWrite(s)
  BY <1>2, <1>9 DEF CredWrite, PrivWrite
<1>10. CASE drop_user_global(s)
  BY <1>3, <1>10 DEF drop_user_global
<1>11. CASE \E a \in Accounts, p \in Passwords : Authenticate(s, a, p)
  BY <1>1, <1>11 DEF Authenticate
<1>12. CASE \E d \in Databases : use_database(s, d)
  BY <1>1, <1>12 DEF use_database
<1>13. ASSUME NEW st \in Statements, Send(s, st) PROVE ses'[t] = ses[t]
  <2>1. CASE ses' = [ses EXCEPT ![s].pc = "vglobal", ![s].st = st, ![s].k = 1, ![s].out = "none"]
    BY <1>1, <2>1
  <2>. QED
    BY <1>2, <1>13, <2>1 DEF Send
<1>. QED
  BY <1>5, <1>6, <1>7, <1>8, <1>9, <1>10, <1>11, <1>12, <1>13 DEF SessionStep, Step

(* The first of the rows that exist.                                       *)
LEMMA LeastOfThree ==
  ASSUME NEW R \in SUBSET (1..3), R # {}
  PROVE  \E i \in R : \A j \in R : i <= j
<1>1. \A i \in R : i = 1 \/ i = 2 \/ i = 3
  OBVIOUS
<1>2. CASE 1 \in R
  BY <1>1, <1>2
<1>3. CASE 1 \notin R /\ 2 \in R
  <2>1. \A j \in R : 2 <= j
    BY <1>1, <1>3
  <2>. QED
    BY <1>3, <2>1
<1>4. CASE 1 \notin R /\ 2 \notin R
  <2>1. \A j \in R : j = 3
    BY <1>1, <1>4
  <2>2. \A j \in R : 3 <= j
    BY <2>1
  <2>3. 3 \in R
    BY <2>1, Zenon
  <2>. QED
    BY <2>2, <2>3
<1>. QED
  BY <1>2, <1>3, <1>4

(* verify_local_privilege() says yes when the first row that exists has    *)
(* the column set, which is what Permitted asks for.                       *)
LEMMA LocalYes ==
  ASSUME NEW a, NEW o, NEW p, verify_local_privilege(a, o, p) = "yes"
  PROVE  Permitted(cred, priv, a, o, p)
<1>. DEFINE rows == {i \in 1..3 : priv[<<a, priv_type_list(o)[i]>>] # NoRow}
            m == CHOOSE i \in rows : \A j \in rows : i <= j
<1>1. FirstRow(a, o) # NoRow /\ p \in FirstRow(a, o)
  BY DEF verify_local_privilege
<1>2. rows # {}
  BY <1>1 DEF FirstRow
<1>3. \E i \in rows : \A j \in rows : i <= j
  BY <1>2, LeastOfThree
<1>4. m \in rows /\ \A j \in rows : m <= j
  BY <1>3
<1>5. FirstRow(a, o) = priv[<<a, priv_type_list(o)[m]>>]
  BY <1>2 DEF FirstRow
<1>6. m \in 1..3 /\ priv[<<a, priv_type_list(o)[m]>>] # NoRow
  BY <1>4
<1>7. \A n \in 1..3 : \A j \in 1..(n - 1) : j \in 1..3 /\ ~ (n <= j)
  OBVIOUS
<1>8. \A j \in 1..(m - 1) : priv[<<a, priv_type_list(o)[j]>>] = NoRow
  BY <1>4, <1>6, <1>7
<1>. QED
  BY <1>1, <1>5, <1>6, <1>8 DEF Permitted

(* A session that leaves the checks had one of the needed privileges.      *)
LEMMA PassesCheck ==
  ASSUME DataInv, NEW s \in Sessions, SessionStep(s),
         ses[s].pc \in {"idle", "vglobal", "vlocal"},
         ses'[s].pc \notin {"idle", "vglobal", "vlocal"}
  PROVE  May(cred', priv', ses'[s])
<1>1. /\ ses \in [Sessions -> SessionStates] /\ ses[s] \in SessionStates /\ TypeInv
      /\ SessionOK(ses[s])
  BY Typed DEF TypeInv
<1>2. ASSUME NEW out \in {"none", "ok", "error", "denied"}, Finish(s, out) PROVE FALSE
  BY <1>1, <1>2, FinishEffect
<1>3. ASSUME NEW pc \in Steps, Goto(s, pc)
      PROVE  /\ ses'[s].pc = pc /\ ses'[s].st = ses[s].st
             /\ ses'[s].who = ses[s].who /\ ses'[s].db = ses[s].db
  <2>1. ses'[s] = [ses[s] EXCEPT !.pc = pc, !.row = NoRow]
    BY <1>1, <1>3, GotoEffect
  <2>. QED
    BY <1>1, <2>1 DEF SessionStates
<1>4. "vlocal" \in Steps
  BY DEF Steps
<1>5. ses[s].pc \in {"vglobal", "vlocal"} =>
        ses[s].k \in DOMAIN Needed(ses[s].st) /\ Entry(ses[s].st) \in Steps
  BY <1>1, EntryOK DEF SessionOK
<1>6. CASE VerifyGlobal(s)
  <2>1. Goto(s, "vlocal") => FALSE
    BY <1>3, <1>4
  <2>2. /\ verify_global_privilege(ses[s].who, Needed(ses[s].st)[ses[s].k])
        /\ Goto(s, Entry(ses[s].st)) /\ UNCHANGED <<cred, priv>> /\ ses[s].pc = "vglobal"
    BY <1>6, <2>1 DEF VerifyGlobal
  <2>3. Permitted(cred', priv', ses[s].who, Checked(ses[s].st, ses[s].db),
                  Needed(ses[s].st)[ses[s].k])
    BY <2>2 DEF verify_global_privilege, Permitted
  <2>. QED
    BY <1>3, <1>5, <2>2, <2>3 DEF May
<1>7. CASE VerifyLocal(s)
  <2>. DEFINE x == [ses[s] EXCEPT !.pc = "vglobal", !.k = ses[s].k + 1]
  <2>1. CASE ses' = [ses EXCEPT ![s].pc = "vglobal", ![s].k = @ + 1]
    <3>1. ses'[s] = x
      BY <1>1, <2>1
    <3>. QED
      BY <1>1, <3>1 DEF SessionStates
  <2>2. CASE ~ (ses' = [ses EXCEPT ![s].pc = "vglobal", ![s].k = @ + 1])
    <3>1. /\ verify_local_privilege(ses[s].who, Checked(ses[s].st, ses[s].db),
                                    Needed(ses[s].st)[ses[s].k]) = "yes"
          /\ Goto(s, Entry(ses[s].st)) /\ UNCHANGED <<cred, priv>> /\ ses[s].pc = "vlocal"
      BY <1>2, <1>7, <2>2 DEF VerifyLocal
    <3>2. Permitted(cred, priv, ses[s].who, Checked(ses[s].st, ses[s].db),
                    Needed(ses[s].st)[ses[s].k])
      BY <3>1, LocalYes
    <3>. QED
      BY <1>3, <1>5, <3>1, <3>2 DEF May
  <2>. QED
    BY <2>1, <2>2
<1>8. CASE \E a \in Accounts, p \in Passwords : Authenticate(s, a, p)
  <2>1. PICK a \in Accounts : ses' = [ses EXCEPT ![s].who = a]
    BY <1>8 DEF Authenticate
  <2>2. ses'[s] = [ses[s] EXCEPT !.who = a]
    BY <1>1, <2>1
  <2>. QED
    BY <1>1, <2>2 DEF SessionStates
<1>9. CASE \E d \in Databases : use_database(s, d)
  <2>1. PICK d \in Databases : ses' = [ses EXCEPT ![s].db = d]
    BY <1>9 DEF use_database
  <2>2. ses'[s] = [ses[s] EXCEPT !.db = d]
    BY <1>1, <2>1
  <2>. QED
    BY <1>1, <2>2 DEF SessionStates
<1>10. ASSUME NEW st \in Statements, Send(s, st) PROVE FALSE
  <2>1. ses' = [ses EXCEPT ![s].pc = "vglobal", ![s].st = st, ![s].k = 1, ![s].out = "none"]
    BY <1>2, <1>10 DEF Send
  <2>2. ses'[s] = [ses[s] EXCEPT !.pc = "vglobal", !.st = st, !.k = 1, !.out = "none"]
    BY <1>1, <2>1
  <2>. QED
    BY <1>1, <2>2 DEF SessionStates
<1>11. ~ (Work(s) \/ CheckUser(s) \/ CredRead(s) \/ CredWrite(s) \/ drop_user_global(s)
          \/ PrivRead(s) \/ PrivWrite(s))
  BY DEF Work, CheckUser, CredRead, CredWrite, drop_user_global, PrivRead, PrivWrite
<1>. QED
  BY <1>6, <1>7, <1>8, <1>9, <1>10, <1>11 DEF SessionStep, Step

(* A statement past its check was permitted at some time since it was sent. *)
LEMMA AuthorizedNext == DataInv /\ Authorized /\ [Next]_vars => Authorized'
<1>. SUFFICES ASSUME DataInv, Authorized, [Next]_vars PROVE Authorized'
  OBVIOUS
<1>1. CASE UNCHANGED vars
  BY <1>1, Zenon DEF vars, Authorized
<1>2. CASE Next
  <2>. SUFFICES ASSUME NEW t \in Sessions,
                       ses'[t].pc \notin {"idle", "vglobal", "vlocal"}
                PROVE  held'[t]
    BY DEF Authorized
  <2>1. PICK s \in Sessions : SessionStep(s)
    BY <1>2 DEF Next, SessionStep
  <2>2. held'[t] <=> /\ ses'[t].pc # "idle"
                     /\ held[t] \/ May(cred', priv', ses'[t])
    BY <1>2, Zenon DEF Next, History
  <2>3. CASE ses[t].pc \notin {"idle", "vglobal", "vlocal"}
    BY <2>2, <2>3 DEF Authorized
  <2>4. CASE ses[t].pc \in {"idle", "vglobal", "vlocal"}
    <3>1. t = s
      BY <2>1, <2>4, OwnState
    <3>2. May(cred', priv', ses'[t])
      BY <2>1, <2>4, <3>1, PassesCheck
    <3>. QED
      BY <2>2, <3>2
  <2>. QED
    BY <2>3, <2>4
<1>. QED
  BY <1>1, <1>2

(* No statement changes or reads a table before verify_privilege() found   *)
(* one of the privileges it needs: under any interleaving with GRANT,      *)
(* REVOKE and DROP USER of other sessions, the account had one of them     *)
(* while the statement was running.                                        *)
THEOREM PrivilegeCorrect == Spec => []Authorized
<1>1. ASSUME Init, NEW s \in Sessions PROVE ses[s].pc = "idle"
  BY <1>1 DEF Init
<1>2. Init => Authorized
  BY <1>1 DEF Authorized
<1>. QED
  BY <1>2, DataInvInit, DataInvNext, AuthorizedNext, PTL DEF Spec

-----------------------------------------------------------------------------
(* Rows without an account.                                                *)

(* A row of etc.cred goes by DROP USER only, which then turns to etc.priv. *)
LEMMA CredGone ==
  ASSUME DataInv, NEW s \in Sessions, SessionStep(s), NEW a \in Accounts,
         cred[a] # NoRow, cred'[a] = NoRow
  PROVE  Dropping(ses'[s], a)
<1>1. cred \in [Accounts -> CredRows \cup {NoRow}] /\ SessionOK(ses[s])
  BY Typed
<1>2. NoRow \notin CredRows
  BY UsersAssumption DEF CredRows
<1>3. CASE CredWrite(s)
  <2>1. PICK v \in CredRows : cred' = [cred EXCEPT ![ses[s].st.acc] = v]
    BY <1>3, CredWriteKeeps
  <2>. QED
    BY <1>1, <1>2, <2>1
<1>4. CASE drop_user_global(s)
  <2>1. ses'[s].pc = "pread" /\ ses'[s].st = ses[s].st
    BY <1>4, DropGlobalKeeps
  <2>2. cred' = [cred EXCEPT ![ses[s].st.acc] = NoRow] /\ ses[s].st.op = "drop"
    BY <1>4 DEF drop_user_global
  <2>3. a = ses[s].st.acc
    BY <1>1, <2>2
  <2>. QED
    BY <2>1, <2>2, <2>3 DEF Dropping
<1>5. ~ (VerifyGlobal(s) \/ VerifyLocal(s) \/ Work(s) \/ CheckUser(s) \/ CredRead(s)
         \/ PrivRead(s) \/ PrivWrite(s))
  BY DEF VerifyGlobal, VerifyLocal, Work, CheckUser, CredRead, PrivRead, PrivWrite
<1>6. /\ \A b, p : ~ Authenticate(s, b, p)
      /\ \A d : ~ use_database(s, d)
      /\ \A st : ~ Send(s, st)
  BY DEF Authenticate, use_database, Send
<1>. QED
  BY <1>3, <1>4, <1>5, <1>6 DEF SessionStep, Step

(* A row of etc.priv is added by a local GRANT only.                       *)
LEMMA PrivAdded ==
  ASSUME DataInv, NEW s \in Sessions, SessionStep(s), NEW a \in Accounts, NEW o \in Objects,
         priv[<<a, o>>] = NoRow, priv'[<<a, o>>] # NoRow
  PROVE  ses[s].pc = "pwrite" /\ ses[s].st.op = "grant" /\ ses[s].st.acc = a
<1>. DEFINE st == ses[s].st
            key == <<st.acc, ChangedObject(st, ses[s].db)>>
<1>1. /\ priv \in [Accounts \X Objects -> (SUBSET LocalPrivs) \cup {NoRow}]
      /\ SessionOK(ses[s]) /\ <<a, o>> \in Accounts \X Objects
  BY Typed
<1>2. CASE PrivWrite(s)
  <2>1. ses[s].pc = "pwrite"
    BY <1>2 DEF PrivWrite
  <2>2. CASE st.op = "grant" /\ priv' = [priv EXCEPT ![key] = grant_local(st, ses[s].row)]
    BY <1>1, <2>1, <2>2
  <2>3. CASE st.op = "revoke" /\ priv' = [priv EXCEPT ![key] = revoke_local(st, ses[s].row)]
    <3>1. priv[key] = ses[s].row /\ ses[s].row # NoRow
      BY <1>1, <2>1, <2>3 DEF DataInv, ReadIsCurrent, SessionOK
    <3>. QED
      BY <1>1, <2>3, <3>1
  <2>4. CASE st.op = "drop" /\ priv' = drop_user_local(st.acc)
    BY <1>1, <2>4 DEF drop_user_local
  <2>. QED
    BY <1>2, <2>2, <2>3, <2>4 DEF PrivWrite
<1>3. ~ (VerifyGlobal(s) \/ VerifyLocal(s) \/ Work(s) \/ CheckUser(s) \/ CredRead(s)
         \/ CredWrite(s) \/ drop_user_global(s) \/ PrivRead(s))
  BY DEF VerifyGlobal, VerifyLocal, Work, CheckUser, CredRead, CredWrite,
         drop_user_global, PrivRead
<1>4. /\ \A b, p : ~ Authenticate(s, b, p)
      /\ \A d : ~ use_database(s, d)
      /\ \A q : ~ Send(s, q)
  BY DEF Authenticate, use_database, Send
<1>. QED
  BY <1>2, <1>3, <1>4 DEF SessionStep, Step

(* DROP USER leaves etc.priv without a row of the account.                 *)
LEMMA DropDone ==
  ASSUME DataInv, NEW s \in Sessions, SessionStep(s), NEW a \in Accounts,
         Dropping(ses[s], a), ~ Dropping(ses'[s], a), NEW o \in Objects
  PROVE  priv'[<<a, o>>] = NoRow
<1>1. /\ TypeInv /\ ses[s] \in SessionStates /\ ses \in [Sessions -> SessionStates]
      /\ SessionOK(ses[s])
      /\ priv \in [Accounts \X Objects -> (SUBSET LocalPrivs) \cup {NoRow}]
  BY Typed DEF TypeInv
<1>2. ses[s].st.op = "drop" /\ ses[s].st.acc = a /\ ses[s].pc \in {"pread", "pwrite"}
  BY DEF Dropping
<1>3. CASE PrivRead(s)
  <2>. DEFINE x == [ses[s] EXCEPT !.pc = "pwrite", !.row = NoRow]
  <2>1. ses' = [ses EXCEPT ![s].pc = "pwrite", ![s].row = NoRow]
    BY <1>2, <1>3 DEF PrivRead, Acquire
  <2>2. ses'[s] = x
    BY <1>1, <2>1
  <2>3. x.pc = "pwrite" /\ x.st = ses[s].st
    BY <1>1 DEF SessionStates
  <2>. QED
    BY <1>2, <2>2, <2>3 DEF Dropping
<1>4. CASE PrivWrite(s)
  <2>1. priv' = drop_user_local(a)
    BY <1>2, <1>4 DEF PrivWrite
  <2>. QED
    BY <1>1, <2>1 DEF drop_user_local
<1>5. ~ (VerifyGlobal(s) \/ VerifyLocal(s) \/ Work(s) \/ CheckUser(s) \/ CredRead(s)
         \/ CredWrite(s) \/ drop_user_global(s))
  BY <1>2 DEF VerifyGlobal, VerifyLocal, Work, CheckUser, CredRead, CredWrite, drop_user_global
<1>6. ses[s].who # None
  BY <1>1, <1>2, UsersAssumption DEF SessionOK
<1>7. /\ \A b, p : ~ Authenticate(s, b, p)
      /\ \A d : ~ use_database(s, d)
      /\ \A st : ~ Send(s, st)
  BY <1>2, <1>6 DEF Authenticate, use_database, Send
<1>. QED
  BY <1>3, <1>4, <1>5, <1>7 DEF SessionStep, Step

(* How a session comes to write a row of a local GRANT.                    *)
LEMMA GrantComes ==
  ASSUME DataInv, NEW s \in Sessions, SessionStep(s),
         ses'[s].st.op = "grant", ses'[s].pc \in {"pread", "pwrite"}
  PROVE  /\ ses'[s].st = ses[s].st /\ ses[s].st.acc \in Accounts /\ cred' = cred
         /\ \/ ses[s].pc = "check" /\ cred[ses[s].st.acc] # NoRow
            \/ ses[s].pc = "pread"
<1>1. /\ TypeInv /\ ses[s] \in SessionStates /\ ses \in [Sessions -> SessionStates]
      /\ SessionOK(ses[s])
  BY Typed DEF TypeInv
<1>2. ASSUME NEW out \in {"none", "ok", "error", "denied"}, Finish(s, out) PROVE FALSE
  BY <1>1, <1>2, FinishEffect
<1>3. ASSUME NEW pc \in Steps, Goto(s, pc)
      PROVE  ses'[s].pc = pc /\ ses'[s].st = ses[s].st
  <2>1. ses'[s] = [ses[s] EXCEPT !.pc = pc, !.row = NoRow]
    BY <1>1, <1>3, GotoEffect
  <2>. QED
    BY <1>1, <2>1 DEF SessionStates
<1>4. "vlocal" \in Steps /\ "pread" \in Steps
  BY DEF Steps
<1>5. ses[s].pc \in {"vglobal", "vlocal"} =>
        Entry(ses[s].st) \in Steps \ {"cwrite", "pread", "pwrite"}
  BY <1>1, EntryOK
<1>6. CASE VerifyGlobal(s)
  <2>1. ~ Goto(s, Entry(ses[s].st)) /\ ~ Goto(s, "vlocal")
    BY <1>3, <1>4, <1>5, <1>6 DEF VerifyGlobal
  <2>. QED
    BY <1>6, <2>1 DEF VerifyGlobal
<1>7. CASE VerifyLocal(s)
  <2>. DEFINE x == [ses[s] EXCEPT !.pc = "vglobal", !.k = ses[s].k + 1]
  <2>1. CASE ses' = [ses EXCEPT ![s].pc = "vglobal", ![s].k = @ + 1]
    <3>1. ses'[s] = x
      BY <1>1, <2>1
    <3>. QED
      BY <1>1, <3>1 DEF SessionStates
  <2>2. ~ Goto(s, Entry(ses[s].st))
    BY <1>3, <1>5, <1>7 DEF VerifyLocal
  <2>. QED
    BY <1>2, <1>7, <2>1, <2>2 DEF VerifyLocal
<1>8. CASE Work(s) \/ CredWrite(s) \/ PrivWrite(s)
  BY <1>2, <1>8 DEF Work, CredWrite, PrivWrite
<1>9. CASE CheckUser(s)
  <2>1. ses[s].pc = "check" /\ cred' = cred /\ cred[ses[s].st.acc] # NoRow /\ Goto(s, "pread")
    BY <1>2, <1>9 DEF CheckUser
  <2>2. ses[s].st.acc \in Accounts
    BY <1>1, <2>1, AccountNamed DEF SessionOK
  <2>. QED
    BY <1>3, <1>4, <2>1, <2>2
<1>10. CASE CredRead(s)
  <2>. DEFINE x(r) == [ses[s] EXCEPT !.pc = "cwrite", !.row = r]
  <2>1. ses' = [ses EXCEPT ![s].pc = "cwrite", ![s].row = cred[ses[s].st.acc]]
    BY <1>2, <1>10 DEF CredRead, Acquire
  <2>2. ses'[s] = x(cred[ses[s].st.acc])
    BY <1>1, <2>1
  <2>. QED
    BY <1>1, <2>2 DEF SessionStates
<1>11. CASE drop_user_global(s)
  BY <1>3, <1>4, <1>11 DEF drop_user_global
<1>12. CASE PrivRead(s)
  <2>. DEFINE x(r) == [ses[s] EXCEPT !.pc = "pwrite", !.row = r]
  <2>1. PICK r : ses' = [ses EXCEPT ![s].pc = "pwrite", ![s].row = r]
    BY <1>2, <1>12 DEF PrivRead, Acquire
  <2>2. ses'[s] = x(r)
    BY <1>1, <2>1
  <2>3. ses'[s].st = ses[s].st
    BY <1>1, <2>2 DEF SessionStates
  <2>4. ses[s].pc = "pread" /\ cred' = cred
    BY <1>12 DEF PrivRead
  <2>5. ses[s].st.acc \in Accounts
    BY <1>1, <2>3, <2>4, AccountNamed
  <2>. QED
    BY <2>3, <2>4, <2>5
<1>13. ASSUME NEW a, NEW p, Authenticate(s, a, p) PROVE FALSE
  <2>1. ses' = [ses EXCEPT ![s].who = a] /\ ses[s].who = None
    BY <1>13 DEF Authenticate
  <2>2. ses'[s] = [ses[s] EXCEPT !.who = a]
    BY <1>1, <2>1
  <2>3. ses'[s].pc = ses[s].pc
    BY <1>1, <2>2 DEF SessionStates
  <2>. QED
    BY <1>1, <2>1, <2>3, UsersAssumption DEF SessionOK
<1>14. ASSUME NEW d, use_database(s, d) PROVE FALSE
  <2>1. ses' = [ses EXCEPT ![s].db = d] /\ ses[s].pc = "idle"
    BY <1>14 DEF use_database
  <2>2. ses'[s] = [ses[s] EXCEPT !.db = d]
    BY <1>1, <2>1
  <2>. QED
    BY <1>1, <2>1, <2>2 DEF SessionStates
<1>15. ASSUME NEW st \in Statements, Send(s, st) PROVE FALSE
  <2>1. ses' = [ses EXCEPT ![s].pc = "vglobal", ![s].st = st, ![s].k = 1, ![s].out = "none"]
    BY <1>2, <1>15 DEF Send
  <2>2. ses'[s] = [ses[s] EXCEPT !.pc = "vglobal", !.st = st, !.k = 1, !.out = "none"]
    BY <1>1, <2>1
  <2>. QED
    BY <1>1, <2>2 DEF SessionStates
<1>. QED
  BY <1>6, <1>7, <1>8, <1>9, <1>10, <1>11, <1>12, <1>13, <1>14, <1>15 DEF SessionStep, Step

OrphanInv == DataInv /\ GrantKnown /\ OrphanOnlyByRace

LEMMA GrantKnownNext ==
  ASSUME OrphanInv, NEW s \in Sessions, SessionStep(s), History
  PROVE  GrantKnown'
<1>. SUFFICES ASSUME NEW t \in Sessions,
                     ses'[t].st.op = "grant", ses'[t].pc \in {"pread", "pwrite"}
              PROVE  cred'[ses'[t].st.acc] # NoRow \/ ses'[t].st.acc \in raced'
  BY DEF GrantKnown
<1>1. DataInv /\ raced \subseteq raced'
  BY DEF OrphanInv, History
<1>2. CASE t = s
  <2>1. /\ ses'[s].st = ses[s].st /\ cred' = cred
        /\ \/ ses[s].pc = "check" /\ cred[ses[s].st.acc] # NoRow
           \/ ses[s].pc = "pread"
    BY <1>1, <1>2, GrantComes
  <2>. QED
    BY <1>1, <1>2, <2>1 DEF OrphanInv, GrantKnown
<1>3. CASE t # s
  <2>1. ses'[t] = ses[t]
    BY <1>1, <1>3, OwnState
  <2>2. cred[ses[t].st.acc] # NoRow \/ ses[t].st.acc \in raced
    BY <2>1 DEF OrphanInv, GrantKnown
  <2>3. ses[t].st.acc \in Accounts
    BY <1>1, <2>1, Typed, AccountNamed
  <2>4. CASE cred[ses[t].st.acc] # NoRow /\ cred'[ses[t].st.acc] = NoRow
    <3>1. Dropping(ses'[s], ses[t].st.acc)
      BY <1>1, <2>3, <2>4, CredGone
    <3>2. Changing(ses'[t], ses[t].st.acc)
      BY <2>1 DEF Changing
    <3>3. ses[t].st.acc \in raced'
      BY <2>3, <3>1, <3>2, Zenon DEF History
    <3>. QED
      BY <2>1, <3>3
  <2>. QED
    BY <1>1, <2>1, <2>2, <2>4
<1>. QED
  BY <1>2, <1>3

LEMMA OrphanNext ==
  ASSUME OrphanInv, NEW s \in Sessions, SessionStep(s), History
  PROVE  OrphanOnlyByRace'
<1>. SUFFICES ASSUME NEW a \in Accounts, cred'[a] = NoRow,
                     NEW o \in Objects, priv'[<<a, o>>] # NoRow
              PROVE  a \in raced' \/ \E t \in Sessions : Dropping(ses'[t], a)
  BY DEF OrphanOnlyByRace, Dropping
<1>1. DataInv /\ raced \subseteq raced'
  BY DEF OrphanInv, History
<1>2. CASE cred[a] # NoRow
  BY <1>1, <1>2, CredGone
<1>3. CASE cred[a] = NoRow /\ priv[<<a, o>>] = NoRow
  <2>1. ses[s].pc = "pwrite" /\ ses[s].st.op = "grant" /\ ses[s].st.acc = a
    BY <1>1, <1>3, PrivAdded
  <2>2. a \in raced
    BY <1>3, <2>1 DEF OrphanInv, GrantKnown
  <2>. QED
    BY <1>1, <2>2
<1>4. CASE cred[a] = NoRow /\ priv[<<a, o>>] # NoRow
  <2>1. a \in raced \/ \E t \in Sessions : Dropping(ses[t], a)
    BY <1>4 DEF OrphanInv, OrphanOnlyByRace
  <2>2. ASSUME NEW t \in Sessions, Dropping(ses[t], a) PROVE Dropping(ses'[t], a)
    <3>1. CASE t = s
      BY <1>1, <2>2, <3>1, DropDone
    <3>2. CASE t # s
      <4>1. ses'[t] = ses[t]
        BY <1>1, <3>2, OwnState
      <4>. QED
        BY <2>2, <4>1, Zenon
    <3>. QED
      BY <3>1, <3>2
  <2>. QED
    BY <1>1, <2>1, <2>2
<1>. QED
  BY <1>2, <1>3, <1>4

(* A privilege outlives its account only through the race of DROP USER     *)
(* with a GRANT: whatever the sessions do, a row of etc.priv without a row *)
(* of etc.cred is one that drop_user() is about to remove, or belongs to   *)
(* an account that was dropped between the check and the insert of         *)
(* grant_local().                                                          *)
THEOREM OrphanCorrect == Spec => []OrphanOnlyByRace
<1>1. Init => OrphanInv
  <2>. SUFFICES ASSUME Init PROVE OrphanInv
    OBVIOUS
  <2>1. \A s \in Sessions : ses[s].pc = "idle"
    BY DEF Init
  <2>2. \A a \in Accounts, o \in Objects : priv[<<a, o>>] = NoRow
    BY DEF Init
  <2>. QED
    BY <2>1, <2>2, DataInvInit DEF OrphanInv, GrantKnown, OrphanOnlyByRace
<1>2. OrphanInv /\ [Next]_vars => OrphanInv'
  <2>. SUFFICES ASSUME OrphanInv, [Next]_vars PROVE OrphanInv'
    OBVIOUS
  <2>1. DataInv'
    BY DataInvNext DEF OrphanInv
  <2>2. CASE UNCHANGED vars
    BY <2>1, <2>2, Zenon DEF vars, OrphanInv, GrantKnown, OrphanOnlyByRace
  <2>3. CASE Next
    <3>1. PICK s \in Sessions : SessionStep(s)
      BY <2>3 DEF Next, SessionStep
    <3>2. History
      BY <2>3 DEF Next
    <3>. QED
      BY <2>1, <3>1, <3>2, GrantKnownNext, OrphanNext DEF OrphanInv
  <2>. QED
    BY <2>2, <2>3
<1>3. OrphanInv => OrphanOnlyByRace
  BY DEF OrphanInv
<1>. QED
  BY <1>1, <1>2, <1>3, PTL DEF Spec
=============================================================================
