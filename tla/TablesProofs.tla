---------------------------- MODULE TablesProofs ----------------------------
(* Proofs about Tables, for every value of its constants.                  *)
EXTENDS Tables, TLAPS, SequenceTheorems, FiniteSetTheorems

(***************************************************************************)
(* The inductive invariant.                                                *)
(***************************************************************************)
PCs == {"idle", "open", "parents", "keys", "create", "add", "save", "make", "refs",
        "unlink", "unschema", "take", "erase", "undefined"}

SessionStates ==
  [pc : PCs, st : Statements \cup {None}, todo : Seq(Names), out : {"none", "ok", "error"}]

TypeInv ==
  /\ ses \in [Sessions -> SessionStates]
  /\ locks \subseteq [tbl : Names, ses : Sessions, kind : {"shared", "unique"}]
  /\ cache \in [Names -> {"none", "own", "old"}]
  /\ file \subseteq Names /\ robbed \subseteq Names /\ mixed \subseteq Names /\ thrown \in BOOLEAN
  /\ sent \in 0..MaxStatements

\* What is known of the schemas: foreign keys name tables of the database.
SchemasOK(z) ==
  /\ z = [t \in Names |-> z[t]]
  /\ \A t \in Names : IsSchema(z[t]) /\ \A i \in DOMAIN z[t].fgn : z[t].fgn[i].tbl \in Names

\* A locked table has a block cache.
LockInv ==
  /\ \A l, k \in locks : l.tbl = k.tbl /\ l.ses # k.ses => l.kind = "shared" /\ k.kind = "shared"
  /\ \A l \in locks : ses[l.ses].pc \in {"open", "parents", "undefined"} /\ cache[l.tbl] # "none"

UniqueLock(s, t) == [tbl |-> t, ses |-> s, kind |-> "unique"]

\* The tables that a session has locked come before those it has yet to lock.
OrderKept(s) ==
  \A i \in DOMAIN ses[s].todo :
    /\ \A l \in locks : l.ses = s => KeyBefore(ses[s].st.tbl, l.tbl, ses[s].todo[i])
    /\ \A j \in 1..(i - 1) : KeyBefore(ses[s].st.tbl, ses[s].todo[j], ses[s].todo[i])

Several(st) == st.op = "add_fk" \/ (st.op = "select" /\ Len(st.tbls) > 1)

OpenOK(s) ==
  LET st == ses[s].st
      todo == ses[s].todo
  IN  /\ todo # <<>>
      /\ st.op # "select" => todo[Len(todo)] = st.tbl
      /\ Several(st) \/ (Len(todo) = 1 /\ \A l \in locks : l.ses # s)

ParentsOK(s) ==
  LET st == ses[s].st
      todo == ses[s].todo
  IN  /\ st.op # "select" => UniqueLock(s, st.tbl) \in locks
      /\ todo = <<>> \/ (st.op \in {"insert", "load", "drop_fk"} /\ (cache[st.tbl] = "old" \/ OrderKept(s)))

\* A CREATE TABLE has yet to tell the tables of its last keys.
RefsOK(s) ==
  LET fks == ses[s].st.fks
      todo == ses[s].todo
  IN  /\ Len(todo) <= Len(fks)
      /\ \A i \in DOMAIN todo : todo[i] = fks[Len(fks) - Len(todo) + i].to

SessionOK(s) ==
  LET st == ses[s].st
      pc == ses[s].pc
  IN  /\ IF pc = "idle" THEN st = None ELSE st \in Statements
      /\ pc \in {"open", "parents"} => st.op \notin {"create", "drop"}
      /\ pc \in {"keys", "create", "add", "save", "make", "refs"} => st.op = "create"
      /\ pc \in {"unlink", "unschema", "take", "erase"} => st.op = "drop"
      /\ pc = "open" => OpenOK(s)
      /\ pc = "parents" => ParentsOK(s)
      /\ pc = "refs" => RefsOK(s)

Inv == TypeInv /\ SchemasOK(sch) /\ LockInv /\ \A s \in Sessions : SessionOK(s)

-----------------------------------------------------------------------------
(* Schemas.                                                                *)

LEMMA SchemaCols ==
  ASSUME NEW z, IsSchema(z), NEW x
  PROVE  IsSchema([z EXCEPT !.cols = x]) /\ [z EXCEPT !.cols = x].fgn = z.fgn
  BY DEF IsSchema

LEMMA SchemaNdx ==
  ASSUME NEW z, IsSchema(z), NEW x
  PROVE  IsSchema([z EXCEPT !.ndx = x]) /\ [z EXCEPT !.ndx = x].fgn = z.fgn
  BY DEF IsSchema

\* A key is added at the end of the list.
LEMMA SchemaAppend ==
  ASSUME NEW z, IsSchema(z), NEW f
  PROVE  LET y == [z EXCEPT !.fgn = Append(z.fgn, f)]
         IN  IsSchema(y) /\ \A i \in DOMAIN y.fgn : y.fgn[i] = f \/ \E j \in DOMAIN z.fgn : y.fgn[i] = z.fgn[j]
  <1> DEFINE S == {z.fgn[i] : i \in DOMAIN z.fgn} \cup {f}
             g == Append(z.fgn, f)
             y == [z EXCEPT !.fgn = g]
  <1>1. z.fgn \in Seq(S)
    BY DEF IsList, IsSchema
  <1>2. /\ g \in Seq(S) /\ DOMAIN g = 1..(Len(z.fgn) + 1)
        /\ \A i \in 1..Len(z.fgn) : g[i] = z.fgn[i]
        /\ g[Len(z.fgn) + 1] = f /\ Len(z.fgn) \in Nat /\ DOMAIN z.fgn = 1..Len(z.fgn)
    BY <1>1
  <1>3. \A i \in DOMAIN g : g[i] = f \/ \E j \in DOMAIN z.fgn : g[i] = z.fgn[j]
    BY <1>2
  <1>4. g \in Seq({g[i] : i \in DOMAIN g})
    BY <1>2, IsASeq
  <1> HIDE DEF g
  <1>5. y = [cols |-> z.cols, ndx |-> z.ndx, fgn |-> g]
    BY DEF IsSchema
  <1>6. y.fgn = g /\ IsSchema(y)
    BY <1>4, <1>5 DEF IsList, IsSchema
  <1> HIDE DEF y
  <1>7. IsSchema(y) /\ \A i \in DOMAIN y.fgn : y.fgn[i] = f \/ \E j \in DOMAIN z.fgn : y.fgn[i] = z.fgn[j]
    BY <1>3, <1>6
  <1> QED
    BY <1>7 DEF y, g

\* A key is erased from the list.
LEMMA SchemaErase ==
  ASSUME NEW z, IsSchema(z), NEW k \in DOMAIN z.fgn
  PROVE  LET y == [z EXCEPT !.fgn = RemoveAt(z.fgn, k)]
         IN  IsSchema(y) /\ \A i \in DOMAIN y.fgn : \E j \in DOMAIN z.fgn : y.fgn[i] = z.fgn[j]
  <1> DEFINE S == {z.fgn[i] : i \in DOMAIN z.fgn}
             g == RemoveAt(z.fgn, k)
             y == [z EXCEPT !.fgn = g]
  <1>1. z.fgn \in Seq(S) /\ Len(z.fgn) \in Nat /\ k \in 1..Len(z.fgn)
    BY DEF IsList, IsSchema
  <1>2. SubSeq(z.fgn, 1, k - 1) \in Seq(S) /\ SubSeq(z.fgn, k + 1, Len(z.fgn)) \in Seq(S)
    BY <1>1, SubSeqProperties
  <1>3. g \in Seq(S)
    BY <1>2, ConcatProperties DEF RemoveAt
  <1>4. \A i \in DOMAIN g : \E j \in DOMAIN z.fgn : g[i] = z.fgn[j]
    BY <1>3, ElementOfSeq
  <1>5. g \in Seq({g[i] : i \in DOMAIN g})
    BY <1>3, IsASeq
  <1> HIDE DEF g
  <1>6. y = [cols |-> z.cols, ndx |-> z.ndx, fgn |-> g]
    BY DEF IsSchema
  <1>7. y.fgn = g /\ IsSchema(y)
    BY <1>5, <1>6 DEF IsList, IsSchema
  <1> HIDE DEF y
  <1>8. IsSchema(y) /\ \A i \in DOMAIN y.fgn : \E j \in DOMAIN z.fgn : y.fgn[i] = z.fgn[j]
    BY <1>4, <1>7
  <1> QED
    BY <1>8 DEF y, g

\* One table gets another schema.
LEMMA OneTable ==
  ASSUME NEW z, SchemasOK(z), NEW t \in Names, NEW r, IsSchema(r),
         \A i \in DOMAIN r.fgn : r.fgn[i].tbl \in Names
  PROVE  LET y == [z EXCEPT ![t] = r]
         IN  SchemasOK(y) /\ y[t] = r /\ \A u \in Names \ {t} : y[u] = z[u]
  <1> DEFINE y == [z EXCEPT ![t] = r]
  <1>1. y = [u \in Names |-> IF u = t THEN r ELSE z[u]]
    BY Zenon DEF SchemasOK
  <1>2. y[t] = r /\ \A u \in Names \ {t} : y[u] = z[u]
    BY <1>1
  <1>3. y = [u \in Names |-> y[u]]
    BY <1>1
  <1> HIDE DEF y
  <1>4. SchemasOK(y)
    BY <1>2, <1>3 DEF SchemasOK
  <1> QED
    BY <1>2, <1>4 DEF y

\* A statement of session s may make z of the schemas: a list of foreign keys
\* changes only with the table locked.
SchemaStep(s, z) ==
  /\ SchemasOK(z)
  /\ \A t \in Names : \/ z[t].fgn = sch[t].fgn
                      \/ UniqueLock(s, t) \in locks

LEMMA SameSchemas ==
  ASSUME NEW s, SchemasOK(sch)
  PROVE  SchemaStep(s, sch)
  BY DEF SchemaStep

\* The altered table t is locked, its new schema has columns and indexes of its
\* own, and the foreign keys it had.
LEMMA SameKeys ==
  ASSUME NEW s, SchemasOK(sch), file \subseteq Names, NEW t \in Names,
         NEW r, IsSchema(r), r.fgn = sch[t].fgn
  PROVE  SchemaStep(s, [sch EXCEPT ![t] = r])
  <1>1. \A i \in DOMAIN r.fgn : r.fgn[i].tbl \in Names
    BY DEF SchemasOK
  <1> DEFINE y == [sch EXCEPT ![t] = r]
  <1>2. /\ SchemasOK(y)
        /\ y[t] = r /\ \A u \in Names \ {t} : y[u] = sch[u]
    BY <1>1, OneTable
  <1> HIDE DEF y
  <1>3. SchemaStep(s, y)
    BY <1>2 DEF SchemaStep
  <1> QED
    BY <1>3 DEF y

\* ADD FOREIGN KEY: the key is added to a locked table, the references to the other.
LEMMA AddKeyStep ==
  ASSUME NEW s, SchemasOK(sch), file \subseteq Names,
         NEW st, st.tbl \in Names, st.to \in Names,
         UniqueLock(s, st.tbl) \in locks, NEW name
  PROVE  /\ SchemaStep(s, AddForeignKey(sch, st, name))
         /\ \A u \in Names \ {st.tbl, st.to} : AddForeignKey(sch, st, name)[u] = sch[u]
  <1> DEFINE f == [name |-> name, tbl |-> st.to, cols |-> st.cols]
             r == [sch[st.tbl] EXCEPT !.fgn = Append(sch[st.tbl].fgn, f)]
             child == [sch EXCEPT ![st.tbl] = r]
             cols == FoldLeft(LAMBDA acc, n : AddRef(acc, ColumnPos(sch[st.to], n), [tbl |-> st.tbl, fgn |-> name]),
                              child[st.to].cols, st.fcols)
             q == [child[st.to] EXCEPT !.cols = cols]
             y == [child EXCEPT ![st.to] = q]
  <1>0. AddForeignKey(sch, st, name) = y
    BY Zenon DEF AddForeignKey
  <1> HIDE DEF cols
  <1>1. IsSchema(r) /\ \A i \in DOMAIN r.fgn : r.fgn[i] = f \/ \E j \in DOMAIN sch[st.tbl].fgn : r.fgn[i] = sch[st.tbl].fgn[j]
    <2> DEFINE z == sch[st.tbl]
               w == [z EXCEPT !.fgn = Append(z.fgn, f)]
    <2>1. IsSchema(z)
      BY DEF SchemasOK
    <2> HIDE DEF z
    <2>2. IsSchema(w) /\ \A i \in DOMAIN w.fgn : w.fgn[i] = f \/ \E j \in DOMAIN z.fgn : w.fgn[i] = z.fgn[j]
      BY <2>1, SchemaAppend
    <2>3. w = r
      BY Zenon DEF z
    <2> HIDE DEF w, r
    <2> QED
      BY <2>2, <2>3, Zenon DEF z
  <1>2. f.tbl = st.to
    OBVIOUS
  <1> HIDE DEF f
  <1>3. \A i \in DOMAIN r.fgn : r.fgn[i].tbl \in Names
    BY <1>1, <1>2 DEF SchemasOK
  <1> HIDE DEF r
  <1>4. /\ SchemasOK(child)
        /\ \A u \in Names \ {st.tbl} : child[u] = sch[u]
    BY <1>1, <1>3, OneTable
  <1> HIDE DEF child
  <1>5. IsSchema(q) /\ q.fgn = child[st.to].fgn
    BY <1>4, SchemaCols DEF SchemasOK
  <1> HIDE DEF q
  <1>6. \A i \in DOMAIN q.fgn : q.fgn[i].tbl \in Names
    BY <1>4, <1>5 DEF SchemasOK
  <1>7. /\ SchemasOK(y)
        /\ y[st.to] = q /\ \A u \in Names \ {st.to} : y[u] = child[u]
    BY <1>4, <1>5, <1>6, OneTable
  <1> HIDE DEF y
  <1>8. SchemaStep(s, y)
    BY <1>4, <1>5, <1>7 DEF SchemaStep
  <1> QED
    BY <1>0, <1>4, <1>7, <1>8

\* The schemas without key i of table t, x the columns of the table it names.
WithoutKey(t, i, x) ==
  [[sch EXCEPT ![t].fgn = RemoveAt(@, i)] EXCEPT ![sch[t].fgn[i].tbl].cols = x]

\* DROP FOREIGN KEY: key i is erased from a locked table, whatever becomes of
\* the references in the table that it names.
LEMMA DropKeyStep ==
  ASSUME NEW s, SchemasOK(sch), file \subseteq Names, NEW t \in Names,
         UniqueLock(s, t) \in locks, NEW i \in DOMAIN sch[t].fgn, NEW x
  PROVE  LET p == sch[t].fgn[i].tbl
             y == WithoutKey(t, i, x)
         IN  SchemaStep(s, y) /\ p \in Names /\ \A u \in Names \ {t, p} : y[u] = sch[u]
  <1> DEFINE p == sch[t].fgn[i].tbl
             r == [sch[t] EXCEPT !.fgn = RemoveAt(sch[t].fgn, i)]
             child == [sch EXCEPT ![t] = r]
             q == [child[p] EXCEPT !.cols = x]
             y == [child EXCEPT ![p] = q]
  <1>1. IsSchema(r) /\ \A k \in DOMAIN r.fgn : \E j \in DOMAIN sch[t].fgn : r.fgn[k] = sch[t].fgn[j]
    BY SchemaErase DEF SchemasOK
  <1>2. p \in Names
    BY DEF SchemasOK
  <1>3. \A k \in DOMAIN r.fgn : r.fgn[k].tbl \in Names
    BY <1>1 DEF SchemasOK
  <1>0. y = WithoutKey(t, i, x)
    BY Zenon DEF WithoutKey
  <1> HIDE DEF r, p
  <1>4. /\ SchemasOK(child)
        /\ \A u \in Names \ {t} : child[u] = sch[u]
    BY <1>1, <1>3, OneTable
  <1> HIDE DEF child
  <1>5. IsSchema(q) /\ q.fgn = child[p].fgn
    BY <1>2, <1>4, SchemaCols DEF SchemasOK
  <1> HIDE DEF q
  <1>6. \A k \in DOMAIN q.fgn : q.fgn[k].tbl \in Names
    BY <1>2, <1>4, <1>5 DEF SchemasOK
  <1>7. /\ SchemasOK(y)
        /\ y[p] = q /\ \A u \in Names \ {p} : y[u] = child[u]
    BY <1>2, <1>4, <1>5, <1>6, OneTable
  <1> HIDE DEF y
  <1>8. SchemaStep(s, y)
    BY <1>4, <1>5, <1>7 DEF SchemaStep
  <1> QED
    BY <1>0, <1>2, <1>4, <1>7, <1>8 DEF p

\* Another table gets references in its columns.
LEMMA ReferenceStep ==
  ASSUME NEW s, SchemasOK(sch), NEW p \in Names, NEW x
  PROVE  LET y == [sch EXCEPT ![p].cols = x]
         IN  SchemaStep(s, y) /\ \A u \in Names \ {p} : y[u] = sch[u]
  <1> DEFINE r == [sch[p] EXCEPT !.cols = x]
             y == [sch EXCEPT ![p] = r]
  <1>1. IsSchema(r) /\ r.fgn = sch[p].fgn
    BY SchemaCols DEF SchemasOK
  <1> HIDE DEF r
  <1>2. \A i \in DOMAIN r.fgn : r.fgn[i].tbl \in Names
    BY <1>1 DEF SchemasOK
  <1>3. SchemasOK(y) /\ y[p] = r /\ \A u \in Names \ {p} : y[u] = sch[u]
    BY <1>1, <1>2, OneTable
  <1> HIDE DEF y
  <1>4. SchemaStep(s, y)
    BY <1>1, <1>3 DEF SchemaStep
  <1>5. y = [sch EXCEPT ![p].cols = x]
    BY Zenon DEF y, r
  <1> QED
    BY <1>3, <1>4, <1>5

\* The schema of CREATE TABLE.
LEMMA CreateStep ==
  ASSUME SchemasOK(sch), NEW st \in Statements, st.op = "create"
  PROVE  LET y == [sch EXCEPT ![st.tbl] = NewSchema(st)]
         IN  /\ SchemasOK(y) /\ st.tbl \in Names
             /\ y[st.tbl] = NewSchema(st) /\ \A u \in Names \ {st.tbl} : y[u] = sch[u]
  <1> DEFINE f == make_foreign_key(st)
             r == NewSchema(st)
  <1>1. /\ st.tbl \in Names
        /\ st.fks \in Seq({st.fks[i] : i \in DOMAIN st.fks})
        /\ \A i \in DOMAIN st.fks : st.fks[i].to \in Names
    BY TablesAssumption DEF IsList
  <1>2. Len(st.fks) \in Nat /\ DOMAIN st.fks = 1..Len(st.fks)
    BY <1>1
  <1>3. /\ f = [i \in 1..Len(st.fks) |-> [name |-> i - 1, tbl |-> st.fks[i].to, cols |-> st.fks[i].fcols]]
        /\ DOMAIN f = DOMAIN st.fks /\ \A i \in DOMAIN st.fks : f[i].tbl = st.fks[i].to
    BY <1>2 DEF make_foreign_key
  <1>4. f \in Seq({f[i] : i \in DOMAIN f})
    <2> DEFINE g(i) == [name |-> i - 1, tbl |-> st.fks[i].to, cols |-> st.fks[i].fcols]
    <2>1. f = [i \in 1..Len(st.fks) |-> g(i)]
      BY <1>3
    <2> HIDE DEF f, g
    <2>2. DOMAIN f = 1..Len(st.fks)
      BY <2>1
    <2>3. \A i \in 1..Len(st.fks) : g(i) \in {f[k] : k \in DOMAIN f}
      BY <2>1, <2>2
    <2> QED
      BY <1>2, <2>1, <2>3, IsASeq
  <1> HIDE DEF f
  <1>5. r.fgn = f /\ r = [cols |-> r.cols, ndx |-> r.ndx, fgn |-> r.fgn]
    BY Zenon DEF NewSchema, f
  <1> HIDE DEF r
  <1>6. IsSchema(r) /\ \A i \in DOMAIN r.fgn : r.fgn[i].tbl \in Names
    <2>1. IsSchema(r)
      BY <1>4, <1>5 DEF IsList, IsSchema
    <2> QED
      BY <1>1, <1>3, <1>5, <2>1
  <1> QED
    BY <1>1, <1>6, OneTable DEF r

-----------------------------------------------------------------------------
(* What a step of session u leaves to the others.                          *)

\* A table in use stays in memory, is outdated for good, and its foreign keys
\* change only if u has it or makes it anew.
StepFrame(u) ==
  /\ \A s \in Sessions \ {u} : ses'[s] = ses[s]
  /\ \A l \in locks : l.ses # u => l \in locks'
  /\ \A l \in locks' : l.ses # u => l \in locks
  /\ SchemasOK(sch')
  /\ \A t \in Names : \/ \A l \in locks : l.tbl # t
                      \/ /\ cache'[t] # "none" /\ (cache[t] = "old" => cache'[t] = "old")
                         /\ sch'[t].fgn = sch[t].fgn \/ UniqueLock(u, t) \in locks \/ cache'[t] = "old"

\* The order of the tables of a statement that waits for its next lock does not
\* change: nobody else can alter its table.
LEMMA OrderStays ==
  ASSUME Inv, NEW u \in Sessions, StepFrame(u), NEW s \in Sessions \ {u},
         NEW c \in Names, UniqueLock(s, c) \in locks, ses[s].st.tbl = c, OrderKept(s)
  PROVE  cache'[c] = "old" \/ OrderKept(s)'
  <1> SUFFICES ASSUME cache'[c] # "old" PROVE OrderKept(s)'
    OBVIOUS
  <1> DEFINE k == UniqueLock(s, c)
  <1>1. k.tbl = c /\ k.ses = s /\ k.kind = "unique"
    BY DEF UniqueLock
  <1>2. UniqueLock(u, c) \notin locks
    <2>1. UniqueLock(u, c).tbl = c /\ UniqueLock(u, c).ses = u /\ UniqueLock(u, c).kind = "unique"
      BY DEF UniqueLock
    <2> QED
      BY <1>1, <2>1 DEF Inv, LockInv
  <1>3. sch'[c].fgn = sch[c].fgn
    BY <1>1, <1>2 DEF StepFrame
  <1>4. \A x, y : KeyBefore(c, x, y)' <=> KeyBefore(c, x, y)
    BY <1>3 DEF KeyBefore
  <1>5. ses'[s] = ses[s] /\ \A l \in locks' : l.ses = s => l \in locks
    BY DEF StepFrame
  <1> QED
    BY <1>4, <1>5 DEF OrderKept

LEMMA OthersKeep ==
  ASSUME Inv, NEW u \in Sessions, StepFrame(u), NEW s \in Sessions \ {u}
  PROVE  SessionOK(s)'
  <1> DEFINE st == ses[s].st
             pc == ses[s].pc
             todo == ses[s].todo
  <1>1. SessionOK(s) /\ SchemasOK(sch)
    BY DEF Inv
  <1>2. ses'[s] = ses[s]
    BY DEF StepFrame
  <1>4. /\ \A l \in locks : l.ses = s => l \in locks'
        /\ \A l \in locks' : l.ses = s => l \in locks
    BY DEF StepFrame
  <1>5. ASSUME pc = "open" PROVE OpenOK(s)'
    <2>1. OpenOK(s)
      BY <1>1, <1>5 DEF SessionOK
    <2> QED
      BY <1>2, <1>4, <2>1 DEF OpenOK
  <1>6. ASSUME pc = "parents" PROVE ParentsOK(s)'
    <2>1. ParentsOK(s) /\ st \in Statements
      BY <1>1, <1>6 DEF SessionOK
    <2>2. st.op # "select" => st.tbl \in Names
      BY <2>1, TablesAssumption
    <2>3. st.op # "select" => UniqueLock(s, st.tbl) \in locks'
      BY <1>4, <2>1 DEF ParentsOK, UniqueLock
    <2>4. ASSUME todo # <<>>, NEW c, c = st.tbl
          PROVE  st.op \in {"insert", "load", "drop_fk"} /\ (cache'[c] = "old" \/ OrderKept(s)')
      <3>1. /\ st.op \in {"insert", "load", "drop_fk"} /\ c \in Names
            /\ UniqueLock(s, c) \in locks /\ ses[s].st.tbl = c
            /\ cache[c] = "old" \/ OrderKept(s)
        BY <2>1, <2>2, <2>4 DEF ParentsOK
      <3>2. UniqueLock(s, c).tbl = c
        BY DEF UniqueLock
      <3>3. CASE cache[c] = "old"
        BY <3>1, <3>2, <3>3 DEF StepFrame
      <3>4. CASE OrderKept(s)
        BY <3>1, <3>4, OrderStays
      <3> QED
        BY <3>1, <3>3, <3>4
    <2> QED
      BY <1>2, <2>3, <2>4 DEF ParentsOK, OrderKept
  <1>7. RefsOK(s) => RefsOK(s)'
    BY <1>2 DEF RefsOK
  <1> QED
    BY <1>1, <1>2, <1>5, <1>6, <1>7 DEF SessionOK

LEMMA SessionTypes ==
  ASSUME Inv, NEW s \in Sessions
  PROVE  /\ ses[s] \in SessionStates /\ SessionOK(s)
         /\ ses[s].pc # "idle" =>
              /\ ses[s].st \in Statements /\ ses[s].st.op \in Operations
              /\ ses[s].st.op # "select" => ses[s].st.tbl \in Names
              /\ ses[s].st.op = "add_fk" => ses[s].st.to \in Names
  <1>1. ses[s] \in SessionStates /\ SessionOK(s)
    BY DEF Inv, TypeInv
  <1>2. ses[s].pc # "idle" => ses[s].st \in Statements
    BY <1>1 DEF SessionOK
  <1> QED
    BY <1>1, <1>2, TablesAssumption

\* A statement ends: its session is idle again and its locks are gone.
LEMMA FinishKeeps ==
  ASSUME Inv, NEW s \in Sessions, NEW out \in {"ok", "error"}, Finish(s, out),
         SchemaStep(s, sch'), file' \subseteq Names, cache' \in [Names -> {"none", "own", "old"}],
         \A t \in Names : cache'[t] = cache[t] \/ \A l \in locks : l.tbl # t,
         robbed' \subseteq Names, mixed' \subseteq Names, thrown' \in BOOLEAN, sent' = sent
  PROVE  Inv'
  <1> DEFINE x == [IdleSession EXCEPT !.out = out]
  <1>1. x \in SessionStates /\ x.pc = "idle" /\ x.st = None
    BY EmptySeq DEF IdleSession, SessionStates, PCs
  <1> HIDE DEF x
  <1>2. ses' = [ses EXCEPT ![s] = x] /\ locks' = {l \in locks : l.ses # s}
    BY DEF Finish, x
  <1>3. ses' \in [Sessions -> SessionStates] /\ ses'[s] = x /\ \A u \in Sessions \ {s} : ses'[u] = ses[u]
    BY <1>1, <1>2 DEF Inv, TypeInv
  <1>4. TypeInv'
    <2>1. sent' \in 0..MaxStatements
      BY DEF Inv, TypeInv
    <2> QED
      BY <1>2, <1>3, <2>1 DEF Inv, TypeInv
  <1>5. \A l \in locks : l.tbl \in Names /\ cache[l.tbl] # "none"
    BY DEF Inv, LockInv, TypeInv
  <1>6. StepFrame(s)
    BY <1>2, <1>3, <1>5 DEF StepFrame, SchemaStep
  <1>7. \A u \in Sessions \ {s} : SessionOK(u)'
    BY <1>6, OthersKeep
  <1>8. SessionOK(s)'
    BY <1>1, <1>3 DEF SessionOK
  <1>9. LockInv'
    <2>1. \A l, k \in locks' : l.tbl = k.tbl /\ l.ses # k.ses => l.kind = "shared" /\ k.kind = "shared"
      BY <1>2 DEF Inv, LockInv
    <2>2. ASSUME NEW l \in locks'
          PROVE  ses'[l.ses].pc \in {"open", "parents", "undefined"} /\ cache'[l.tbl] # "none"
      <3>1. l \in locks /\ l.ses \in Sessions \ {s} /\ l.tbl \in Names
        BY <1>2 DEF Inv, TypeInv
      <3>2. ses'[l.ses].pc \in {"open", "parents", "undefined"}
        BY <1>3, <3>1 DEF Inv, LockInv
      <3> QED
        BY <1>5, <3>1, <3>2
    <2> QED
      BY <2>1, <2>2 DEF LockInv
  <1>10. SchemasOK(sch')
    BY DEF SchemaStep
  <1> QED
    BY <1>4, <1>7, <1>8, <1>9, <1>10 DEF Inv, SchemasOK

-----------------------------------------------------------------------------
(* The statements, one after the other.                                    *)

\* A statement ends and leaves the schemas as they are.
LEMMA QuietKeeps ==
  ASSUME Inv, NEW s \in Sessions, NEW out \in {"ok", "error"}, Finish(s, out),
         sch' = sch, file' = file, cache' = cache, robbed' = robbed, mixed' = mixed, thrown' = thrown, sent' = sent
  PROVE  Inv'
  <1>1. SchemaStep(s, sch)
    BY SameSchemas DEF Inv
  <1>2. SchemaStep(s, sch')
    BY <1>1
  <1>3. /\ file' \subseteq Names /\ robbed' \subseteq Names /\ mixed' \subseteq Names /\ thrown' \in BOOLEAN
        /\ cache' \in [Names -> {"none", "own", "old"}]
    BY DEF Inv, TypeInv
  <1> QED
    BY <1>2, <1>3, FinishKeeps

LEMMA ModifyKeeps ==
  ASSUME Inv, NEW s \in Sessions, ses[s].pc = "parents",
         NEW op, NEW new, NEW asked, ModifyRows(s, op, new, asked)
  PROVE  Inv'
  <1>1. \E out \in {"ok", "error"} : Finish(s, out)
    BY Zenon DEF ModifyRows
  <1>2. /\ sch' = sch /\ file' = file /\ cache' = cache /\ robbed' = robbed /\ mixed' = mixed
        /\ thrown' = thrown /\ sent' = sent
    BY DEF ModifyRows
  <1> QED
    BY <1>1, <1>2, QuietKeeps

LEMMA RowsKeep ==
  ASSUME Inv, NEW s \in Sessions,
         insert(s) \/ load_data(s) \/ delete_row(s) \/ update(s) \/ select(s)
  PROVE  Inv'
  <1>1. CASE insert(s)
    <2>1. ses[s].pc = "parents" /\ \E new, asked : ModifyRows(s, "insert", new, asked)
      BY <1>1, Zenon DEF insert, Ready
    <2> QED
      BY <2>1, ModifyKeeps
  <1>2. CASE load_data(s)
    <2>1. ses[s].pc = "parents" /\ \E new, asked : ModifyRows(s, "load", new, asked)
      BY <1>2, Zenon DEF load_data, Ready
    <2> QED
      BY <2>1, ModifyKeeps
  <1>3. CASE delete_row(s)
    <2>1. ses[s].pc = "parents" /\ \E new, asked : ModifyRows(s, "delete", new, asked)
      BY <1>3, Zenon DEF delete_row, Ready
    <2> QED
      BY <2>1, ModifyKeeps
  <1>4. CASE update(s)
    <2>1. ses[s].pc = "parents"
      BY <1>4, Zenon DEF update, Ready
    <2>2. \/ \E new, asked : ModifyRows(s, "update", new, asked)
          \/ Finish(s, "error") /\ UNCHANGED <<sch, disk, file, cache, rows, sent, want, thrown, robbed, mixed>>
      BY <1>4, Zenon DEF update
    <2> QED
      BY <2>1, <2>2, ModifyKeeps, QuietKeeps
  <1>5. CASE select(s)
    <2>1. /\ ses[s].pc = "parents" /\ Finish(s, "ok")
          /\ sch' = sch /\ file' = file /\ cache' = cache /\ robbed' = robbed /\ mixed' = mixed
          /\ thrown' = thrown /\ sent' = sent
      BY <1>5 DEF select, Ready
    <2> QED
      BY <2>1, QuietKeeps
  <1> QED
    BY <1>1, <1>2, <1>3, <1>4, <1>5

\* An ALTER TABLE ends, in order or with an exception.
LEMMA AlterKeeps ==
  ASSUME Inv, NEW s \in Sessions, ses[s].pc = "parents", NEW z, SchemaStep(s, z),
         (\E names : Alter(s, z, names)) \/ Throw(s, z)
  PROVE  Inv'
  <1>1. /\ \E out \in {"ok", "error"} : Finish(s, out)
        /\ sch' = z /\ file' = file /\ cache' = cache /\ mixed' = mixed /\ sent' = sent
    BY DEF Alter, Throw
  <1>2. robbed' \subseteq Names
    <2>1. Rob(s, z)
      BY DEF Alter, Throw
    <2> QED
      BY <2>1 DEF Rob, Inv, TypeInv
  <1>3. thrown' \in BOOLEAN
    BY Zenon DEF Alter, Throw, Inv, TypeInv
  <1>4. file' \subseteq Names /\ mixed' \subseteq Names /\ cache' \in [Names -> {"none", "own", "old"}]
    BY <1>1 DEF Inv, TypeInv
  <1>5. SchemaStep(s, sch')
    BY <1>1
  <1> QED
    BY <1>1, <1>2, <1>3, <1>4, <1>5, FinishKeeps

\* A statement that has locked its tables.
LEMMA LockedKnown ==
  ASSUME Inv, NEW s \in Sessions, ses[s].pc = "parents", ses[s].st.op # "select"
  PROVE  /\ SchemasOK(sch) /\ file \subseteq Names /\ ses[s].st.tbl \in Names
         /\ UniqueLock(s, ses[s].st.tbl) \in locks
         /\ ses[s].st.op = "add_fk" => ses[s].st.to \in Names
  <1>1. ParentsOK(s)
    BY SessionTypes DEF SessionOK
  <1>2. SchemasOK(sch) /\ file \subseteq Names
    BY DEF Inv, TypeInv
  <1>3. ses[s].st.tbl \in Names /\ (ses[s].st.op = "add_fk" => ses[s].st.to \in Names)
    BY SessionTypes
  <1> QED
    BY <1>1, <1>2, <1>3 DEF ParentsOK

\* The new schemas of an ALTER TABLE, the tables they are of, and how it ends.
LEMMA AddKeyKeeps ==
  ASSUME Inv, NEW s \in Sessions, add_foreign_key(s)
  PROVE  \E z, names : /\ ses[s].pc = "parents" /\ SchemaStep(s, z)
                       /\ \A u \in Names \ names : z[u] = sch[u]
                       /\ Alter(s, z, names) \/ Throw(s, z)
  <1> DEFINE st == ses[s].st
             z == AddForeignKey(sch, st, MakeName(sch[st.tbl].fgn))
  <1>1. ses[s].pc = "parents" /\ st.op = "add_fk"
    BY Zenon DEF add_foreign_key, Ready
  <1>2. Throw(s, sch) \/ Alter(s, z, {st.tbl, st.to})
    BY Zenon DEF add_foreign_key
  <1>3. /\ SchemasOK(sch) /\ file \subseteq Names /\ st.tbl \in Names /\ st.to \in Names
        /\ UniqueLock(s, st.tbl) \in locks
    BY <1>1, LockedKnown
  <1>4. SchemaStep(s, z) /\ \A u \in Names \ {st.tbl, st.to} : z[u] = sch[u]
    BY <1>3, AddKeyStep
  <1>5. SchemaStep(s, sch)
    BY <1>3, SameSchemas
  <1> HIDE DEF z, st
  <1> QED
    BY <1>1, <1>2, <1>4, <1>5, Zenon

LEMMA DropKeyKeeps ==
  ASSUME Inv, NEW s \in Sessions, drop_foreign_key(s)
  PROVE  \E z, names : /\ ses[s].pc = "parents" /\ SchemaStep(s, z)
                       /\ \A u \in Names \ names : z[u] = sch[u]
                       /\ Alter(s, z, names) \/ Throw(s, z)
  <1> DEFINE t == ses[s].st.tbl
             list == sch[t].fgn
             hit == {i \in DOMAIN list : list[i].name = ses[s].st.fk}
             i == CHOOSE j \in hit : TRUE
             p == list[i].tbl
             x == DropRefs(sch[list[i].tbl].cols, list[i]).cols
             z == WithoutKey(t, i, x)
  <1>1. ses[s].pc = "parents" /\ ses[s].st.op = "drop_fk"
    BY Zenon DEF drop_foreign_key, Ready
  <1>2. \/ Throw(s, sch)
        \/ hit # {} /\ (Throw(s, z) \/ Alter(s, z, {t, p}))
    BY Zenon DEF drop_foreign_key, WithoutKey
  <1>3. /\ SchemasOK(sch) /\ file \subseteq Names /\ t \in Names
        /\ UniqueLock(s, t) \in locks
    BY <1>1, LockedKnown
  <1>4. SchemaStep(s, sch)
    BY <1>3, SameSchemas
  <1>5. ASSUME hit # {}
        PROVE  SchemaStep(s, z) /\ \A u \in Names \ {t, p} : z[u] = sch[u]
    <2>1. i \in hit
      BY <1>5, Zenon
    <2> HIDE DEF i, x
    <2>2. i \in DOMAIN sch[t].fgn
      BY <2>1
    <2> HIDE DEF t
    <2> QED
      BY <1>3, <2>2, DropKeyStep
  <1> HIDE DEF z, t, p, hit
  <1> QED
    BY <1>1, <1>2, <1>4, <1>5, Zenon

LEMMA IndexKeeps ==
  ASSUME Inv, NEW s \in Sessions, add_index(s) \/ drop_index(s) \/ alter_column(s)
  PROVE  \E z, names : /\ ses[s].pc = "parents" /\ SchemaStep(s, z)
                       /\ \A u \in Names \ names : z[u] = sch[u]
                       /\ Alter(s, z, names) \/ Throw(s, z)
  <1> DEFINE t == ses[s].st.tbl
  <1>1. ses[s].pc = "parents" /\ ses[s].st.op # "select"
    BY Zenon DEF add_index, drop_index, alter_column, Ready
  <1>2. /\ SchemasOK(sch) /\ file \subseteq Names /\ t \in Names
        /\ IsSchema(sch[t])
    BY <1>1, LockedKnown DEF SchemasOK
  <1>3. SchemaStep(s, sch)
    BY <1>2, SameSchemas
  <1>4. \/ \E names : Alter(s, sch, names) \/ Throw(s, sch)
        \/ \E r : /\ IsSchema(r) /\ r.fgn = sch[t].fgn
                  /\ Throw(s, [sch EXCEPT ![t] = r]) \/ Alter(s, [sch EXCEPT ![t] = r], {t})
    <2>1. CASE add_index(s)
      <3> DEFINE z == FlagKnown(sch[t], ses[s].st.cols)
                 y == Append(z.ndx, [name |-> MakeName(z.ndx), cols |-> ses[s].st.cols])
                 r == [z EXCEPT !.ndx = y]
      <3>1. Alter(s, [sch EXCEPT ![t] = r], {t}) \/ Throw(s, [sch EXCEPT ![t] = z])
        BY <2>1, Zenon DEF add_index
      <3>2. \E x : z = [sch[t] EXCEPT !.cols = x]
        BY Zenon DEF FlagKnown
      <3> HIDE DEF z
      <3>3. IsSchema(z) /\ z.fgn = sch[t].fgn
        BY <1>2, <3>2, SchemaCols
      <3> HIDE DEF y
      <3>4. IsSchema(r) /\ r.fgn = sch[t].fgn
        BY <3>3, SchemaNdx
      <3> HIDE DEF r
      <3> QED
        BY <3>1, <3>3, <3>4, Zenon
    <2>2. CASE drop_index(s)
      <3> DEFINE list == sch[t].ndx
                 y == RemoveAt(list, CHOOSE i \in {j \in DOMAIN list : list[j].name = ses[s].st.ndx} : TRUE)
                 r == [sch[t] EXCEPT !.ndx = y]
      <3>1. Alter(s, [sch EXCEPT ![t] = r], {t}) \/ Alter(s, sch, {t}) \/ Throw(s, sch)
        BY <2>2, Zenon DEF drop_index
      <3> HIDE DEF y
      <3>2. IsSchema(r) /\ r.fgn = sch[t].fgn
        BY <1>2, SchemaNdx
      <3> HIDE DEF r
      <3> QED
        BY <3>1, <3>2, Zenon
    <2>3. CASE alter_column(s)
      BY <2>3, Zenon DEF alter_column
    <2> QED
      BY <2>1, <2>2, <2>3
  <1>5. ASSUME NEW r, IsSchema(r), r.fgn = sch[t].fgn
        PROVE  /\ SchemaStep(s, [sch EXCEPT ![t] = r])
               /\ \A u \in Names \ {t} : [sch EXCEPT ![t] = r][u] = sch[u]
    <2>1. SchemaStep(s, [sch EXCEPT ![t] = r])
      BY <1>2, <1>5, SameKeys
    <2>2. \A u \in Names \ {t} : [sch EXCEPT ![t] = r][u] = sch[u]
      BY <1>2 DEF SchemasOK
    <2> QED
      BY <2>1, <2>2
  <1> HIDE DEF t
  <1> QED
    BY <1>1, <1>3, <1>4, <1>5, Zenon

\* A statement goes on: session s gets state x and the locks of set L.
LEMMA GoOnKeeps ==
  ASSUME Inv, NEW s \in Sessions, NEW x \in SessionStates, ses' = [ses EXCEPT ![s] = x],
         NEW L, L \subseteq [tbl : Names, ses : {s}, kind : {"shared", "unique"}],
         locks' = locks \cup L,
         \A l, k \in L : l = k,
         \A l \in L, k \in locks : l.tbl = k.tbl /\ k.ses # s => l.kind = "shared" /\ k.kind = "shared",
         SchemasOK(sch'), cache' \in [Names -> {"none", "own", "old"}],
         \A t \in Names : /\ cache[t] # "none" => cache'[t] # "none" /\ (cache[t] = "old" => cache'[t] = "old")
                          /\ sch'[t].fgn = sch[t].fgn \/ cache'[t] # "own",
         \A l \in L : cache'[l.tbl] # "none",
         \A l \in locks' : l.ses = s => x.pc \in {"open", "parents", "undefined"},
         file' \subseteq Names, SessionOK(s)', sent' \in 0..MaxStatements, robbed' \subseteq Names,
         mixed' \subseteq Names, thrown' = thrown
  PROVE  Inv'
  <1>1. ses' \in [Sessions -> SessionStates] /\ ses'[s] = x /\ \A u \in Sessions \ {s} : ses'[u] = ses[u]
    BY DEF Inv, TypeInv
  <1>2. L \subseteq [tbl : Names, ses : Sessions, kind : {"shared", "unique"}] /\ \A l \in L : l.ses = s
    OBVIOUS
  <1>3. TypeInv'
    <2>1. ses' \in [Sessions -> SessionStates]
      BY <1>1
    <2>2. locks' \subseteq [tbl : Names, ses : Sessions, kind : {"shared", "unique"}]
      BY <1>2 DEF Inv, TypeInv
    <2>3. thrown' \in BOOLEAN
      BY DEF Inv, TypeInv
    <2> QED
      BY <2>1, <2>2, <2>3 DEF TypeInv
  <1>4. \A l \in locks : l.tbl \in Names /\ cache[l.tbl] # "none"
    BY DEF Inv, LockInv, TypeInv
  <1>5. ASSUME NEW t \in Names, NEW l \in locks, l.tbl = t
        PROVE  /\ cache'[t] # "none" /\ (cache[t] = "old" => cache'[t] = "old")
               /\ sch'[t].fgn = sch[t].fgn \/ cache'[t] = "old"
    BY <1>4, <1>5
  <1>6. StepFrame(s)
    BY <1>1, <1>2, <1>5 DEF StepFrame
  <1>8. \A u \in Sessions : SessionOK(u)'
    BY <1>6, OthersKeep
  <1>9. LockInv'
    <2>1. \A l, k \in locks' : l.tbl = k.tbl /\ l.ses # k.ses => l.kind = "shared" /\ k.kind = "shared"
      BY <1>2 DEF Inv, LockInv
    <2>2. ASSUME NEW l \in locks'
          PROVE  ses'[l.ses].pc \in {"open", "parents", "undefined"} /\ cache'[l.tbl] # "none"
      <3>1. l.tbl \in Names /\ l.ses \in Sessions
        BY <1>2 DEF Inv, TypeInv
      <3>2. ses'[l.ses].pc \in {"open", "parents", "undefined"}
        BY <1>1, <1>2, <3>1 DEF Inv, LockInv
      <3>3. cache'[l.tbl] # "none"
        BY <1>4
      <3> QED
        BY <3>2, <3>3
    <2> QED
      BY <2>1, <2>2 DEF LockInv
  <1> QED
    BY <1>3, <1>8, <1>9 DEF Inv, SchemasOK

LEMMA MoveKeeps ==
  ASSUME Inv, NEW s \in Sessions, NEW x \in SessionStates, ses' = [ses EXCEPT ![s] = x],
         locks' = locks, SchemasOK(sch'), cache' \in [Names -> {"none", "own", "old"}],
         \A t \in Names : /\ cache[t] # "none" => cache'[t] # "none" /\ (cache[t] = "old" => cache'[t] = "old")
                          /\ sch'[t].fgn = sch[t].fgn \/ cache'[t] # "own",
         \A l \in locks : l.ses = s => x.pc \in {"open", "parents", "undefined"},
         file' \subseteq Names, SessionOK(s)', sent' \in 0..MaxStatements, robbed' \subseteq Names,
         mixed' \subseteq Names, thrown' = thrown
  PROVE  Inv'
  <1> DEFINE L == {}
  <1>1. /\ L \subseteq [tbl : Names, ses : {s}, kind : {"shared", "unique"}]
        /\ locks' = locks \cup L
        /\ \A l, k \in L : l = k
        /\ \A l \in L, k \in locks : l.tbl = k.tbl /\ k.ses # s => l.kind = "shared" /\ k.kind = "shared"
        /\ \A l \in L : cache'[l.tbl] # "none"
    OBVIOUS
  <1> HIDE DEF L
  <1>2. \A l \in locks' : l.ses = s => x.pc \in {"open", "parents", "undefined"}
    OBVIOUS
  <1> QED
    BY <1>1, <1>2, GoOnKeeps

\* ... and nothing else changes but the place of its session.
LEMMA PlaceKeeps ==
  ASSUME Inv, NEW s \in Sessions, NEW x \in SessionStates, ses' = [ses EXCEPT ![s] = x],
         locks' = locks, sch' = sch, cache' = cache, file' \subseteq file,
         \A l \in locks : l.ses = s => x.pc \in {"open", "parents", "undefined"},
         SessionOK(s)', sent' \in 0..MaxStatements, robbed' \subseteq Names,
         mixed' \subseteq Names, thrown' = thrown
  PROVE  Inv'
  <1>1. SchemasOK(sch') /\ cache' \in [Names -> {"none", "own", "old"}] /\ file' \subseteq Names
    BY DEF Inv, TypeInv, SchemasOK
  <1> QED
    BY <1>1, MoveKeeps

\* A session that has not come to its first table has no locks.
LEMMA Unlocked ==
  ASSUME Inv, NEW s \in Sessions, ses[s].pc \notin {"open", "parents", "undefined"}
  PROVE  \A l \in locks : l.ses # s
  BY DEF Inv, LockInv

LEMMA OneOrMore == \A n \in Nat \ {0} : n > 1 \/ n = 1
  OBVIOUS

LEMMA SendKeeps ==
  ASSUME Inv, NEW s \in Sessions, NEW st \in Statements, Send(s, st)
  PROVE  Inv'
  <1> DEFINE pc == CASE st.op = "create" -> "keys" [] st.op = "drop" -> "unlink" [] OTHER -> "open"
             x == [pc |-> pc, st |-> st, todo |-> Opens(st), out |-> "none"]
  <1>1. /\ st.op \in Operations /\ (st.op = "select" => st.tbls \in Seq(Names) \ {<<>>})
        /\ st.op # "select" => st.tbl \in Names
        /\ st.op = "add_fk" => st.to \in Names
    BY TablesAssumption
  <1>2. /\ Opens(st) \in Seq(Names) /\ Opens(st) # <<>>
        /\ st.op \notin {"select", "add_fk"} => Opens(st) = <<st.tbl>>
        /\ st.op = "add_fk" => Opens(st) = <<st.to, st.tbl>>
        /\ st.op = "select" => Len(Opens(st)) = Len(st.tbls)
    <2>1. CASE st.op = "select"
      <3>1. Opens(st) = [i \in 1..Len(st.tbls) |-> st.tbls[(Len(st.tbls) - i) + 1]]
        BY <2>1 DEF Opens, Reverse
      <3>2. Len(st.tbls) \in Nat /\ Len(st.tbls) # 0 /\ \A i \in 1..Len(st.tbls) : st.tbls[(Len(st.tbls) - i) + 1] \in Names
        BY <1>1, <2>1
      <3>3. Opens(st) \in Seq(Names) /\ Len(Opens(st)) = Len(st.tbls)
        BY <3>1, <3>2
      <3> QED
        BY <2>1, <3>2, <3>3
    <2>2. CASE st.op = "add_fk"
      BY <1>1, <2>2 DEF Opens
    <2>3. CASE st.op \notin {"select", "add_fk"}
      BY <1>1, <2>3 DEF Opens
    <2> QED
      BY <2>1, <2>2, <2>3
  <1>3. /\ pc \in {"keys", "unlink", "open"} /\ (pc = "keys" => st.op = "create")
        /\ (pc = "unlink" => st.op = "drop") /\ (pc = "open" => st.op \notin {"create", "drop"})
    OBVIOUS
  <1>4. /\ x \in SessionStates /\ x.pc = pc /\ x.st = st /\ x.todo = Opens(st)
    BY <1>2, <1>3 DEF SessionStates, PCs
  <1>5. ses[s].pc = "idle" /\ ses' = [ses EXCEPT ![s] = x]
    BY Zenon DEF Send
  <1>6. sent < MaxStatements /\ sent' = sent + 1 /\ sent \in 0..MaxStatements /\ MaxStatements \in Nat
    <2>1. sent < MaxStatements /\ sent' = sent + 1
      BY DEF Send
    <2>2. sent \in 0..MaxStatements
      BY DEF Inv, TypeInv
    <2>3. MaxStatements \in Nat
      BY TablesAssumption, Zenon
    <2> QED
      BY <2>1, <2>2, <2>3
  <1>7. sent' \in 0..MaxStatements
    BY <1>6
  <1> HIDE DEF x, pc
  <1>8. /\ locks' = locks /\ sch' = sch /\ cache' = cache /\ file' = file
        /\ robbed' = robbed /\ mixed' = mixed /\ thrown' = thrown
    BY DEF Send
  <1>9. ses'[s] = x
    BY <1>5 DEF Inv, TypeInv
  <1>10. \A l \in locks : l.ses # s
    BY <1>5, Unlocked
  <1>11. (pc = "open" => OpenOK(s)')
    <2>1. ASSUME pc = "open" PROVE st.op # "select" => Opens(st)[Len(Opens(st))] = st.tbl
      BY <1>1, <1>2
    <2>2. Several(st) \/ Len(Opens(st)) = 1
      <3>1. CASE st.op = "select"
        <4>1. Len(st.tbls) \in Nat \ {0}
          BY <1>1, <3>1, EmptySeq
        <4>2. Len(st.tbls) > 1 \/ Len(st.tbls) = 1
          BY <4>1, OneOrMore, Zenon
        <4>3. Len(Opens(st)) = Len(st.tbls)
          BY <1>2, <3>1
        <4> QED
          BY <3>1, <4>2, <4>3, Zenon DEF Several
      <3>2. CASE st.op # "select"
        BY <1>1, <1>2, <3>2 DEF Several
      <3> QED
        BY <3>1, <3>2
    <2> QED
      BY <1>2, <1>4, <1>8, <1>9, <1>10, <2>1, <2>2 DEF OpenOK
  <1>12. SessionOK(s)'
    BY <1>3, <1>4, <1>9, <1>11 DEF SessionOK
  <1>13. robbed' \subseteq Names /\ mixed' \subseteq Names
    BY <1>8 DEF Inv, TypeInv
  <1>14. file' \subseteq file
    BY <1>8
  <1> QED
    BY <1>4, <1>5, <1>7, <1>8, <1>10, <1>12, <1>13, <1>14, PlaceKeeps

LEMMA CheckKeysKeeps ==
  ASSUME Inv, NEW s \in Sessions, CheckKeys(s)
  PROVE  Inv'
  <1>1. /\ ses[s].pc = "keys" /\ sch' = sch /\ cache' = cache /\ file' = file /\ robbed' = robbed
        /\ mixed' = mixed /\ thrown' = thrown /\ sent' = sent
    BY DEF CheckKeys
  <1>2. CASE Finish(s, "error")
    BY <1>1, <1>2, QuietKeeps
  <1>3. CASE ~ Finish(s, "error")
    <2> DEFINE st == ses[s].st
               x == [ses[s] EXCEPT !.pc = "create"]
    <2>1. ses' = [ses EXCEPT ![s] = x] /\ locks' = locks
      BY <1>3, Zenon DEF CheckKeys
    <2>2. ses[s] \in SessionStates /\ SessionOK(s) /\ st \in Statements /\ st.op = "create"
      BY <1>1, SessionTypes DEF SessionOK
    <2>3. x \in SessionStates /\ x.pc = "create" /\ x.st = st
      BY <2>2 DEF SessionStates, PCs
    <2> HIDE DEF x
    <2>4. ses'[s] = x
      BY <2>1 DEF Inv, TypeInv
    <2>5. SessionOK(s)'
      BY <1>1, <2>2, <2>3, <2>4 DEF SessionOK
    <2>6. \A l \in locks : l.ses # s
      BY <1>1, Unlocked
    <2>7. sent' \in 0..MaxStatements /\ robbed' \subseteq Names /\ mixed' \subseteq Names
      BY <1>1 DEF Inv, TypeInv
    <2> QED
      BY <1>1, <2>1, <2>3, <2>5, <2>6, <2>7, PlaceKeeps
  <1> QED
    BY <1>2, <1>3

\* A list without its head.
LEMMA RestFacts ==
  ASSUME NEW q \in Seq(Names), q # <<>>
  PROVE  /\ Head(q) = q[1] /\ Head(q) \in Names /\ Tail(q) \in Seq(Names)
         /\ Len(q) \in Nat \ {0} /\ Len(Tail(q)) = Len(q) - 1
         /\ DOMAIN q = 1..Len(q) /\ DOMAIN Tail(q) = 1..(Len(q) - 1)
         /\ \A i \in 1..(Len(q) - 1) : Tail(q)[i] = q[i + 1]
         /\ Tail(q) = <<>> <=> Len(q) = 1
  <1>1. /\ Head(q) = q[1] /\ Head(q) \in Names /\ Tail(q) \in Seq(Names)
        /\ Len(q) \in Nat \ {0} /\ Len(Tail(q)) = Len(q) - 1
        /\ \A i \in 1..Len(Tail(q)) : Tail(q)[i] = q[i + 1]
    BY HeadTailProperties, EmptySeq
  <1>2. DOMAIN q = 1..Len(q) /\ DOMAIN Tail(q) = 1..Len(Tail(q))
    BY <1>1, LenProperties
  <1>3. Tail(q) = <<>> <=> Len(q) = 1
    <2>1. Tail(q) = <<>> => Len(Tail(q)) = 0
      BY EmptySeq
    <2>2. Tail(q) # <<>> => Len(Tail(q)) \in Nat \ {0}
      BY <1>1, EmptySeq
    <2> QED
      BY <1>1, <2>1, <2>2
  <1> QED
    BY <1>1, <1>2, <1>3

\* The steps of CREATE and DROP TABLE that only go on to the next.
LEMMA StageKeeps ==
  ASSUME Inv, NEW s \in Sessions,
         ses[s].pc \in {"create", "save", "unlink", "unschema", "take"}, NEW pc,
         \/ ses[s].pc \in {"create", "save"} /\ pc \in {"add", "make"}
         \/ ses[s].pc \in {"unlink", "unschema", "take"} /\ pc \in {"unschema", "take", "erase"},
         ses' = [ses EXCEPT ![s].pc = pc], locks' = locks, sch' = sch, cache' = cache, file' \subseteq file,
         robbed' \subseteq Names, mixed' \subseteq Names, thrown' = thrown, sent' = sent
  PROVE  Inv'
  <1> DEFINE x == [ses[s] EXCEPT !.pc = pc]
  <1>1. ses' = [ses EXCEPT ![s] = x]
    BY Zenon
  <1>2. ses[s] \in SessionStates /\ SessionOK(s)
    BY SessionTypes
  <1>3. x \in SessionStates /\ x.pc = pc /\ x.st = ses[s].st
    BY <1>2 DEF SessionStates, PCs
  <1> HIDE DEF x
  <1>4. ses'[s] = x
    BY <1>1 DEF Inv, TypeInv
  <1>5. SessionOK(s)'
    BY <1>2, <1>3, <1>4 DEF SessionOK
  <1>6. \A l \in locks : l.ses # s
    BY Unlocked
  <1>7. sent' \in 0..MaxStatements
    BY DEF Inv, TypeInv
  <1> QED
    BY <1>1, <1>3, <1>5, <1>6, <1>7, PlaceKeeps

LEMMA CreateKeeps ==
  ASSUME Inv, NEW s \in Sessions, create_table(s) \/ save_schema(s)
  PROVE  Inv'
  <1>0. mixed \subseteq Names /\ robbed \subseteq Names
    BY DEF Inv, TypeInv
  <1>1. CASE create_table(s)
    <2>1. /\ ses[s].pc = "create" /\ sch' = sch /\ cache' = cache /\ file' = file /\ robbed' = robbed
          /\ thrown' = thrown /\ sent' = sent
      BY <1>1 DEF create_table
    <2>2. ses[s].st.tbl \in Names
      BY <2>1, SessionTypes DEF SessionOK
    <2>3. \/ Finish(s, "error") /\ mixed' = mixed
          \/ /\ ses' = [ses EXCEPT ![s].pc = "add"] /\ locks' = locks
             /\ mixed' = mixed \/ mixed' = mixed \cup {ses[s].st.tbl}
      BY <1>1, Zenon DEF create_table
    <2>4. CASE Finish(s, "error") /\ mixed' = mixed
      BY <2>1, <2>4, QuietKeeps
    <2>5. CASE /\ ses' = [ses EXCEPT ![s].pc = "add"] /\ locks' = locks
               /\ mixed' = mixed \/ mixed' = mixed \cup {ses[s].st.tbl}
      <3>1. mixed' \subseteq Names /\ robbed' \subseteq Names /\ file' \subseteq file
        BY <1>0, <2>1, <2>2, <2>5
      <3> QED
        BY <2>1, <2>5, <3>1, StageKeeps
    <2> QED
      BY <2>3, <2>4, <2>5
  <1>2. CASE save_schema(s)
    <2>1. /\ ses[s].pc = "save" /\ ses' = [ses EXCEPT ![s].pc = "make"] /\ locks' = locks
          /\ sch' = sch /\ cache' = cache /\ file' = file /\ robbed' = robbed /\ mixed' = mixed
          /\ thrown' = thrown /\ sent' = sent
      BY <1>2 DEF save_schema
    <2>2. mixed' \subseteq Names /\ robbed' \subseteq Names /\ file' \subseteq file
      BY <1>0, <2>1
    <2> QED
      BY <2>1, <2>2, StageKeeps
  <1> QED
    BY <1>1, <1>2

\* What is in memory under the name of a new table is outdated.
LEMMA OldFacts ==
  ASSUME Inv, NEW t \in Names, OldCache(t)
  PROVE  /\ cache' \in [Names -> {"none", "own", "old"}] /\ cache'[t] # "own"
         /\ \A u \in Names : cache[u] # "none" => cache'[u] # "none" /\ (cache[u] = "old" => cache'[u] = "old")
  BY DEF OldCache, Inv, TypeInv

LEMMA AddSchemaKeeps ==
  ASSUME Inv, NEW s \in Sessions, add_schema(s)
  PROVE  Inv'
  <1> DEFINE st == ses[s].st
             x == [ses[s] EXCEPT !.pc = "save"]
  <1>1. /\ ses[s].pc = "add" /\ ses' = [ses EXCEPT ![s] = x] /\ locks' = locks
        /\ sch' = [sch EXCEPT ![st.tbl] = NewSchema(st)] /\ OldCache(st.tbl)
        /\ robbed' = robbed \/ robbed' = robbed \cup {st.tbl}
        /\ file' = file /\ mixed' = mixed /\ thrown' = thrown /\ sent' = sent
    BY Zenon DEF add_schema
  <1>2. ses[s] \in SessionStates /\ SessionOK(s) /\ st \in Statements /\ st.op = "create"
    BY <1>1, SessionTypes DEF SessionOK
  <1>3. /\ SchemasOK(sch') /\ st.tbl \in Names
        /\ \A u \in Names \ {st.tbl} : sch'[u] = sch[u]
    BY <1>1, <1>2, CreateStep DEF Inv
  <1>4. x \in SessionStates /\ x.pc = "save" /\ x.st = st
    BY <1>2 DEF SessionStates, PCs
  <1> HIDE DEF x
  <1>5. ses'[s] = x
    BY <1>1 DEF Inv, TypeInv
  <1>6. SessionOK(s)'
    BY <1>2, <1>4, <1>5 DEF SessionOK
  <1>7. \A l \in locks : l.ses # s
    BY <1>1, Unlocked
  <1>8. /\ cache' \in [Names -> {"none", "own", "old"}] /\ cache'[st.tbl] # "own"
        /\ \A u \in Names : cache[u] # "none" => cache'[u] # "none" /\ (cache[u] = "old" => cache'[u] = "old")
    BY <1>1, <1>3, OldFacts
  <1>9. \A t \in Names : /\ cache[t] # "none" => cache'[t] # "none" /\ (cache[t] = "old" => cache'[t] = "old")
                         /\ sch'[t].fgn = sch[t].fgn \/ cache'[t] # "own"
    BY <1>3, <1>8
  <1>10. sent' \in 0..MaxStatements /\ robbed' \subseteq Names /\ mixed' \subseteq Names /\ file' \subseteq Names
    BY <1>1, <1>3 DEF Inv, TypeInv
  <1> HIDE DEF st
  <1> QED
    BY <1>1, <1>3, <1>4, <1>6, <1>7, <1>8, <1>9, <1>10, MoveKeeps

\* The tables to tell, at first.
LEMMA FirstRefs ==
  ASSUME NEW st \in Statements, st.op = "create"
  PROVE  LET todo == [i \in DOMAIN st.fks |-> st.fks[i].to]
         IN  /\ todo \in Seq(Names) /\ Len(todo) = Len(st.fks) /\ Len(st.fks) \in Nat
             /\ DOMAIN todo = 1..Len(st.fks) /\ \A i \in DOMAIN todo : todo[i] = st.fks[i].to
  <1> DEFINE todo == [i \in DOMAIN st.fks |-> st.fks[i].to]
  <1>1. /\ st.fks \in Seq({st.fks[i] : i \in DOMAIN st.fks})
        /\ \A i \in DOMAIN st.fks : st.fks[i].to \in Names
    BY TablesAssumption DEF IsList
  <1>2. Len(st.fks) \in Nat /\ DOMAIN st.fks = 1..Len(st.fks)
    BY <1>1
  <1>3. todo = [i \in 1..Len(st.fks) |-> st.fks[i].to] /\ \A i \in 1..Len(st.fks) : st.fks[i].to \in Names
    BY <1>1, <1>2
  <1>4. todo \in Seq(Names) /\ Len(todo) = Len(st.fks) /\ DOMAIN todo = 1..Len(st.fks)
    BY <1>2, <1>3
  <1> QED
    BY <1>2, <1>3, <1>4

LEMMA CreateFileKeeps ==
  ASSUME Inv, NEW s \in Sessions, create_file(s)
  PROVE  Inv'
  <1> DEFINE st == ses[s].st
             todo == [i \in DOMAIN st.fks |-> st.fks[i].to]
             x == [ses[s] EXCEPT !.pc = "refs", !.todo = todo]
  <1>1. /\ ses[s].pc = "make" /\ ses' = [ses EXCEPT ![s] = x] /\ locks' = locks
        /\ file' = file \cup {st.tbl} /\ OldCache(st.tbl)
        /\ sch' = sch /\ robbed' = robbed /\ mixed' = mixed /\ thrown' = thrown /\ sent' = sent
    BY Zenon DEF create_file
  <1>2. ses[s] \in SessionStates /\ SessionOK(s) /\ st \in Statements /\ st.op = "create" /\ st.tbl \in Names
    BY <1>1, SessionTypes DEF SessionOK
  <1>3. /\ todo \in Seq(Names) /\ Len(todo) = Len(st.fks) /\ Len(st.fks) \in Nat
        /\ DOMAIN todo = 1..Len(st.fks) /\ \A i \in DOMAIN todo : todo[i] = st.fks[i].to
    BY <1>2, FirstRefs
  <1> HIDE DEF todo
  <1>4. x \in SessionStates /\ x.pc = "refs" /\ x.st = st /\ x.todo = todo
    BY <1>2, <1>3 DEF SessionStates, PCs
  <1> HIDE DEF x
  <1>5. ses'[s] = x
    BY <1>1 DEF Inv, TypeInv
  <1>6. \A i \in 1..Len(st.fks) : Len(st.fks) - Len(todo) + i = i
    BY <1>3
  <1>7. RefsOK(s)'
    <2>1. ses'[s].todo = todo /\ ses'[s].st.fks = st.fks
      BY <1>4, <1>5
    <2> HIDE DEF st
    <2>2. Len(todo) <= Len(st.fks) /\ \A i \in DOMAIN todo : todo[i] = st.fks[Len(st.fks) - Len(todo) + i].to
      BY <1>3, <1>6
    <2> QED
      BY <2>1, <2>2, Zenon DEF RefsOK
  <1>8. SessionOK(s)'
    BY <1>2, <1>4, <1>5, <1>7 DEF SessionOK
  <1>9. \A l \in locks : l.ses # s
    BY <1>1, Unlocked
  <1>10. /\ cache' \in [Names -> {"none", "own", "old"}]
         /\ \A u \in Names : cache[u] # "none" => cache'[u] # "none" /\ (cache[u] = "old" => cache'[u] = "old")
    BY <1>1, <1>2, OldFacts
  <1>11. \A t \in Names : /\ cache[t] # "none" => cache'[t] # "none" /\ (cache[t] = "old" => cache'[t] = "old")
                          /\ sch'[t].fgn = sch[t].fgn \/ cache'[t] # "own"
    BY <1>1, <1>10
  <1>12. /\ sent' \in 0..MaxStatements /\ robbed' \subseteq Names /\ mixed' \subseteq Names /\ file' \subseteq Names
         /\ SchemasOK(sch')
    BY <1>1, <1>2 DEF Inv, TypeInv, SchemasOK
  <1> HIDE DEF st
  <1> QED
    BY <1>1, <1>4, <1>8, <1>9, <1>10, <1>11, <1>12, MoveKeeps

LEMMA ReferenceKeeps ==
  ASSUME Inv, NEW s \in Sessions, make_reference(s)
  PROVE  Inv'
  <1> DEFINE st == ses[s].st
             q == ses[s].todo
             p == Head(q)
             cols == LeadingRefs(sch[p].cols, st.tbl, NextKey(s))
             x == [ses[s] EXCEPT !.todo = Tail(q)]
             y == [ses[s] EXCEPT !.pc = "undefined"]
  <1>1. /\ ses[s].pc = "refs" /\ q # <<>> /\ locks' = locks /\ cache' = cache
        /\ file' = file /\ robbed' = robbed /\ mixed' = mixed /\ thrown' = thrown /\ sent' = sent
        /\ \/ ses' = [ses EXCEPT ![s] = y] /\ sch' = sch
           \/ ses' = [ses EXCEPT ![s] = x] /\ sch' = [sch EXCEPT ![p].cols = cols]
    BY Zenon DEF make_reference
  <1>2. ses[s] \in SessionStates /\ SessionOK(s) /\ st \in Statements /\ st.op = "create"
    BY <1>1, SessionTypes DEF SessionOK
  <1>3. q \in Seq(Names) /\ RefsOK(s)
    BY <1>1, <1>2 DEF SessionStates, SessionOK
  <1>4. /\ p \in Names /\ Tail(q) \in Seq(Names) /\ Len(q) \in Nat \ {0} /\ Len(Tail(q)) = Len(q) - 1
        /\ DOMAIN q = 1..Len(q) /\ DOMAIN Tail(q) = 1..(Len(q) - 1)
        /\ \A i \in 1..(Len(q) - 1) : Tail(q)[i] = q[i + 1]
    BY <1>1, <1>3, RestFacts
  <1>5. Len(st.fks) \in Nat
    BY <1>2, FirstRefs
  <1>6. \A l \in locks : l.ses # s
    BY <1>1, Unlocked
  <1>7. sent' \in 0..MaxStatements /\ robbed' \subseteq Names /\ mixed' \subseteq Names /\ file' \subseteq file
    BY <1>1 DEF Inv, TypeInv
  <1>8. CASE ses' = [ses EXCEPT ![s] = y] /\ sch' = sch
    <2>1. y \in SessionStates /\ y.pc = "undefined" /\ y.st = st
      BY <1>2 DEF SessionStates, PCs
    <2> HIDE DEF y
    <2>2. ses'[s] = y
      BY <1>8 DEF Inv, TypeInv
    <2>3. SessionOK(s)'
      BY <1>2, <2>1, <2>2 DEF SessionOK
    <2> QED
      BY <1>1, <1>6, <1>7, <1>8, <2>1, <2>3, PlaceKeeps
  <1>9. CASE ses' = [ses EXCEPT ![s] = x] /\ sch' = [sch EXCEPT ![p].cols = cols]
    <2>1. x \in SessionStates /\ x.pc = "refs" /\ x.st = st /\ x.todo = Tail(q)
      BY <1>1, <1>2, <1>4 DEF SessionStates, PCs
    <2> HIDE DEF x, cols
    <2>2. ses'[s] = x
      BY <1>9 DEF Inv, TypeInv
    <2>3. RefsOK(s)'
      <3> DEFINE m == Len(st.fks)
                 n == Len(q)
                 r == Tail(q)
      <3>1. n <= m /\ \A i \in 1..n : q[i] = st.fks[m - n + i].to
        BY <1>3, <1>4 DEF RefsOK
      <3>2. /\ n - 1 <= m /\ \A i \in 1..(n - 1) : i + 1 \in 1..n /\ m - (n - 1) + i = m - n + (i + 1)
        <4>1. n \in Nat \ {0} /\ m \in Nat /\ n <= m
          BY <1>4, <1>5, <3>1
        <4> HIDE DEF n, m
        <4> QED
          BY <4>1
      <3>3. ses'[s].todo = r /\ ses'[s].st.fks = st.fks
        BY <2>1, <2>2
      <3> HIDE DEF st, q
      <3>4. \A i \in 1..(n - 1) : r[i] = st.fks[m - (n - 1) + i].to
        BY <1>4, <3>1, <3>2
      <3> HIDE DEF r
      <3> QED
        BY <1>4, <3>2, <3>3, <3>4 DEF RefsOK, r
    <2>4. SessionOK(s)'
      BY <1>2, <2>1, <2>2, <2>3 DEF SessionOK
    <2>5. SchemaStep(s, sch')
      BY <1>4, <1>9, ReferenceStep DEF Inv
    <2>6. SchemasOK(sch') /\ \A t \in Names : sch'[t].fgn = sch[t].fgn
      <3>1. UniqueLock(s, p).ses = s
        BY DEF UniqueLock
      <3> QED
        BY <1>6, <2>5 DEF SchemaStep, UniqueLock
    <2>7. \A t \in Names : /\ cache[t] # "none" => cache'[t] # "none" /\ (cache[t] = "old" => cache'[t] = "old")
                           /\ sch'[t].fgn = sch[t].fgn \/ cache'[t] # "own"
      BY <1>1, <2>6
    <2>8. cache' \in [Names -> {"none", "own", "old"}] /\ file' \subseteq Names
      BY <1>1 DEF Inv, TypeInv
    <2> QED
      BY <1>1, <1>6, <1>7, <1>9, <2>1, <2>4, <2>6, <2>7, <2>8, MoveKeeps
  <1> QED
    BY <1>1, <1>8, <1>9

LEMMA EndKeeps ==
  ASSUME Inv, NEW s \in Sessions, EndCreate(s)
  PROVE  Inv'
  <1>1. /\ Finish(s, "ok") /\ sch' = sch /\ cache' = cache /\ file' = file /\ robbed' = robbed
        /\ mixed' = mixed /\ thrown' = thrown /\ sent' = sent
    BY DEF EndCreate
  <1> QED
    BY <1>1, QuietKeeps

LEMMA DropKeeps ==
  ASSUME Inv, NEW s \in Sessions,
         drop_table(s) \/ unlink_schema(s) \/ TakeMutex(s) \/ drop_block_cache(s)
  PROVE  Inv'
  <1>0. robbed \subseteq Names /\ mixed \subseteq Names
    BY DEF Inv, TypeInv
  <1>1. CASE drop_table(s)
    <2>1. /\ ses[s].pc = "unlink" /\ sch' = sch /\ cache' = cache /\ mixed' = mixed
          /\ thrown' = thrown /\ sent' = sent
          /\ \/ Finish(s, "error") /\ file' = file /\ robbed' = robbed
             \/ /\ ses' = [ses EXCEPT ![s].pc = "unschema"] /\ locks' = locks
                /\ file' = file \ {ses[s].st.tbl} /\ robbed' = robbed \cup {ses[s].st.tbl}
      BY <1>1, Zenon DEF drop_table
    <2>2. ses[s].st.tbl \in Names
      BY <2>1, SessionTypes DEF SessionOK
    <2>3. CASE Finish(s, "error") /\ file' = file /\ robbed' = robbed
      BY <2>1, <2>3, QuietKeeps
    <2>4. CASE /\ ses' = [ses EXCEPT ![s].pc = "unschema"] /\ locks' = locks
               /\ file' = file \ {ses[s].st.tbl} /\ robbed' = robbed \cup {ses[s].st.tbl}
      <3>1. file' \subseteq file /\ robbed' \subseteq Names /\ mixed' \subseteq Names
        BY <1>0, <2>1, <2>2, <2>4
      <3> QED
        BY <2>1, <2>4, <3>1, StageKeeps
    <2> QED
      BY <2>1, <2>3, <2>4
  <1>2. CASE unlink_schema(s)
    <2>1. /\ ses[s].pc = "unschema" /\ sch' = sch /\ cache' = cache /\ mixed' = mixed /\ file' = file
          /\ robbed' = robbed /\ thrown' = thrown /\ sent' = sent
          /\ \/ Finish(s, "error")
             \/ ses' = [ses EXCEPT ![s].pc = "take"] /\ locks' = locks
      BY <1>2, Zenon DEF unlink_schema
    <2>2. CASE Finish(s, "error")
      BY <2>1, <2>2, QuietKeeps
    <2>3. CASE ses' = [ses EXCEPT ![s].pc = "take"] /\ locks' = locks
      <3>1. file' \subseteq file /\ robbed' \subseteq Names /\ mixed' \subseteq Names
        BY <1>0, <2>1
      <3> QED
        BY <2>1, <2>3, <3>1, StageKeeps
    <2> QED
      BY <2>1, <2>2, <2>3
  <1>3. CASE TakeMutex(s)
    <2>1. /\ ses[s].pc = "take" /\ ses' = [ses EXCEPT ![s].pc = "erase"] /\ locks' = locks
          /\ sch' = sch /\ cache' = cache /\ mixed' = mixed /\ file' = file
          /\ robbed' = robbed /\ thrown' = thrown /\ sent' = sent
      BY <1>3 DEF TakeMutex
    <2>2. file' \subseteq file /\ robbed' \subseteq Names /\ mixed' \subseteq Names
      BY <1>0, <2>1
    <2> QED
      BY <2>1, <2>2, StageKeeps
  <1>4. CASE drop_block_cache(s)
    <2>1. /\ \A l \in locks : l.tbl # ses[s].st.tbl
          /\ cache' = [cache EXCEPT ![ses[s].st.tbl] = "none"]
          /\ Finish(s, "ok") /\ sch' = sch /\ file' = file /\ robbed' = robbed /\ mixed' = mixed
          /\ thrown' = thrown /\ sent' = sent
      BY <1>4 DEF drop_block_cache
    <2>2. /\ cache' \in [Names -> {"none", "own", "old"}]
          /\ \A t \in Names : cache'[t] = cache[t] \/ \A l \in locks : l.tbl # t
      BY <2>1 DEF Inv, TypeInv
    <2>3. SchemaStep(s, sch)
      BY SameSchemas DEF Inv
    <2>4. SchemaStep(s, sch')
      BY <2>1, <2>3
    <2>5. file' \subseteq Names /\ thrown' \in BOOLEAN
      BY <2>1 DEF Inv, TypeInv
    <2> QED
      BY <1>0, <2>1, <2>2, <2>4, <2>5, FinishKeeps
  <1> QED
    BY <1>1, <1>2, <1>3, <1>4

\* The tables of the foreign keys, in the order of the list.
LEMMA LoadForeign ==
  ASSUME SchemasOK(sch), NEW st, st.op = "select" \/ st.tbl \in Names
  PROVE  LET f == load_foreign_tree(st)
         IN  /\ f \in Seq(Names)
             /\ f = <<>> \/ st.op \in {"insert", "load", "drop_fk"}
             /\ \A i \in DOMAIN f : /\ KeyBefore(st.tbl, st.tbl, f[i])
                                    /\ \A j \in 1..(i - 1) : KeyBefore(st.tbl, f[j], f[i])
  <1> DEFINE f == load_foreign_tree(st)
             fgn == sch[st.tbl].fgn
  <1>1. CASE st.op \in {"insert", "load"}
    <2>1. fgn \in Seq({fgn[i] : i \in DOMAIN fgn}) /\ \A i \in DOMAIN fgn : fgn[i].tbl \in Names
      BY <1>1, Zenon DEF IsList, IsSchema, SchemasOK
    <2>2. Len(fgn) \in Nat /\ DOMAIN fgn = 1..Len(fgn)
      BY <2>1
    <2>3. f = [i \in DOMAIN fgn |-> fgn[i].tbl]
      BY <1>1 DEF load_foreign_tree
    <2> HIDE DEF f, fgn
    <2>4. f \in Seq(Names) /\ DOMAIN f = 1..Len(fgn) /\ \A i \in 1..Len(fgn) : f[i] = fgn[i].tbl
      BY <2>1, <2>2, <2>3
    <2>5. ASSUME NEW i \in DOMAIN f
          PROVE  KeyBefore(st.tbl, st.tbl, f[i]) /\ \A j \in 1..(i - 1) : KeyBefore(st.tbl, f[j], f[i])
      BY <2>2, <2>4 DEF KeyBefore, fgn
    <2> QED
      BY <1>1, <2>4, <2>5 DEF f
  <1>2. CASE st.op = "drop_fk" /\ \E j \in DOMAIN fgn : fgn[j].name = st.fk
    <2> DEFINE k == CHOOSE j \in DOMAIN fgn : fgn[j].name = st.fk
    <2>1. k \in DOMAIN fgn
      BY <1>2
    <2>2. f = << fgn[k].tbl >>
      BY <1>2 DEF load_foreign_tree
    <2> HIDE DEF k
    <2>3. fgn[k].tbl \in Names /\ KeyBefore(st.tbl, st.tbl, fgn[k].tbl)
      BY <1>2, <2>1 DEF SchemasOK, KeyBefore
    <2> HIDE DEF f
    <2>4. f \in Seq(Names) /\ DOMAIN f = {1} /\ f[1] = fgn[k].tbl
      BY <2>2, <2>3
    <2>5. \A i \in DOMAIN f : \A j \in 1..(i - 1) : FALSE
      BY <2>4
    <2> QED
      BY <1>2, <2>3, <2>4, <2>5 DEF f
  <1>3. CASE st.op \notin {"insert", "load"} /\ ~ (st.op = "drop_fk" /\ \E j \in DOMAIN fgn : fgn[j].name = st.fk)
    <2>1. f = <<>>
      BY <1>3 DEF load_foreign_tree
    <2> HIDE DEF f
    <2> QED
      BY <2>1, EmptySeq DEF f
  <1> QED
    BY <1>1, <1>2, <1>3

\* What session s waits for comes behind what it has, one lock later.
LEMMA OrderGoesOn ==
  ASSUME NEW s \in Sessions, ses[s].todo \in Seq(Names), ses[s].todo # <<>>, OrderKept(s),
         ses'[s].todo = Tail(ses[s].todo), ses'[s].st = ses[s].st, sch' = sch,
         NEW k, k.tbl = Head(ses[s].todo), locks' = locks \cup {k}
  PROVE  OrderKept(s)'
  <1> DEFINE q == ses[s].todo
             n == Len(q)
             r == Tail(q)
  <1>0. PICK c : c = ses[s].st.tbl
    OBVIOUS
  <1>1. /\ Head(q) = q[1] /\ n \in Nat \ {0} /\ DOMAIN q = 1..n /\ DOMAIN r = 1..(n - 1)
        /\ \A i \in 1..(n - 1) : r[i] = q[i + 1]
    BY RestFacts
  <1>2. \A i \in DOMAIN q :
          /\ \A l \in locks : l.ses = s => KeyBefore(c, l.tbl, q[i])
          /\ \A j \in 1..(i - 1) : KeyBefore(c, q[j], q[i])
    BY <1>0 DEF OrderKept
  <1>3. \A x, y : KeyBefore(c, x, y)' <=> KeyBefore(c, x, y)
    BY DEF KeyBefore
  <1>4. ses'[s].todo = r /\ ses'[s].st.tbl = c /\ k.tbl = q[1]
    BY <1>0, <1>1
  <1> HIDE DEF q, n, r
  <1>5. ASSUME NEW i \in DOMAIN r
        PROVE  /\ \A l \in locks' : l.ses = s => KeyBefore(c, l.tbl, r[i])
               /\ \A j \in 1..(i - 1) : KeyBefore(c, r[j], r[i])
    <2>1. i \in 1..(n - 1) /\ i + 1 \in DOMAIN q /\ 1 \in 1..((i + 1) - 1) /\ r[i] = q[i + 1]
      BY <1>1
    <2>2. \A j \in 1..(i - 1) : j + 1 \in 1..((i + 1) - 1) /\ r[j] = q[j + 1]
      BY <1>1, <2>1
    <2>3. \A l \in locks' : l.ses = s => KeyBefore(c, l.tbl, r[i])
      <3>1. KeyBefore(c, q[1], r[i])
        BY <1>2, <2>1
      <3> QED
        BY <1>2, <1>4, <2>1, <3>1
    <2>4. \A j \in 1..(i - 1) : KeyBefore(c, r[j], r[i])
      <3> SUFFICES ASSUME NEW j \in 1..(i - 1) PROVE KeyBefore(c, r[j], r[i])
        OBVIOUS
      <3>1. j + 1 \in 1..((i + 1) - 1) /\ r[j] = q[j + 1]
        BY <2>2
      <3> QED
        BY <1>2, <2>1, <3>1
    <2> QED
      BY <2>3, <2>4
  <1> QED
    BY <1>3, <1>4, <1>5 DEF OrderKept

\* OpenAndLock(s) with a lock taken.
LockTaken(s, t, kind, rest, todo, pc) ==
  /\ t = Head(ses[s].todo) /\ t \in Names
  /\ kind = (IF ses[s].st.op = "select" THEN "shared" ELSE "unique")
  /\ CanLock(s, t, kind) /\ locks' = locks \cup {[tbl |-> t, ses |-> s, kind |-> kind]}
  /\ rest = Tail(ses[s].todo)
  /\ todo = (IF rest = <<>> /\ ses[s].pc = "open" THEN load_foreign_tree(ses[s].st) ELSE rest)
  /\ pc = (IF rest = <<>> THEN "parents" ELSE ses[s].pc)
  /\ ses' = [ses EXCEPT ![s] = [ses[s] EXCEPT !.todo = todo, !.pc = pc]]
  /\ cache[t] # "old" /\ cache' = [cache EXCEPT ![t] = "own"]

LEMMA LockKeeps ==
  ASSUME Inv, NEW s \in Sessions, ses[s].pc \in {"open", "parents"}, ses[s].todo # <<>>,
         ~ Outdated(s), NEW t, NEW kind, NEW rest, NEW todo, NEW pc,
         LockTaken(s, t, kind, rest, todo, pc),
         UNCHANGED <<sch, disk, file, rows, sent, want, thrown, robbed, mixed>>
  PROVE  Inv'
  <1>0. /\ t = Head(ses[s].todo) /\ t \in Names
        /\ kind = (IF ses[s].st.op = "select" THEN "shared" ELSE "unique")
        /\ CanLock(s, t, kind) /\ locks' = locks \cup {[tbl |-> t, ses |-> s, kind |-> kind]}
        /\ rest = Tail(ses[s].todo)
        /\ todo = (IF rest = <<>> /\ ses[s].pc = "open" THEN load_foreign_tree(ses[s].st) ELSE rest)
        /\ pc = (IF rest = <<>> THEN "parents" ELSE ses[s].pc)
        /\ ses' = [ses EXCEPT ![s] = [ses[s] EXCEPT !.todo = todo, !.pc = pc]]
        /\ cache[t] # "old" /\ cache' = [cache EXCEPT ![t] = "own"]
    BY DEF LockTaken
  <1> USE <1>0
  <1> DEFINE st == ses[s].st
             q == ses[s].todo
             k == [tbl |-> t, ses |-> s, kind |-> kind]
             x == [ses[s] EXCEPT !.todo = todo, !.pc = pc]
  <1>1. /\ ses[s] \in SessionStates /\ SessionOK(s) /\ st \in Statements /\ st.op \in Operations
        /\ st.op # "select" => st.tbl \in Names
        /\ st.op = "add_fk" => st.to \in Names
    BY SessionTypes
  <1>2. /\ q \in Seq(Names) /\ q # <<>> /\ ses[s].out \in {"none", "ok", "error"}
        /\ st.op \notin {"create", "drop"}
    BY <1>1 DEF SessionStates, SessionOK
  <1>3. /\ t = q[1] /\ t \in Names /\ rest \in Seq(Names)
        /\ Len(q) \in Nat \ {0} /\ Len(rest) = Len(q) - 1
        /\ DOMAIN rest = 1..(Len(q) - 1)
        /\ \A i \in 1..(Len(q) - 1) : rest[i] = q[i + 1]
        /\ rest = <<>> <=> Len(q) = 1
    BY <1>2, RestFacts
  <1>4. ses[s].pc = "open" => OpenOK(s)
    BY <1>1 DEF SessionOK
  <1>5. ses[s].pc = "parents" => ParentsOK(s)
    BY <1>1 DEF SessionOK
  <1>6. SchemasOK(sch)
    BY DEF Inv
  <1>7. ASSUME rest = <<>>, ses[s].pc = "open"
        PROVE  st.op = "select" \/ st.tbl = t
    BY <1>3, <1>4, <1>7 DEF OpenOK
  <1>8. todo \in Seq(Names)
    <2>1. CASE rest = <<>> /\ ses[s].pc = "open"
      BY <1>1, <1>6, <2>1, LoadForeign
    <2> QED
      BY <1>3, <2>1
  <1>9. x \in SessionStates /\ x.pc = pc /\ x.todo = todo /\ x.st = st
    <2>1. pc \in PCs
      BY DEF PCs
    <2> QED
      BY <1>1, <1>8, <2>1 DEF SessionStates
  <1> HIDE DEF x
  <1>10. ses' = [ses EXCEPT ![s] = x] /\ ses'[s] = x
    BY DEF Inv, TypeInv, x
  <1>11. pc \in {"open", "parents"}
    OBVIOUS
  <1>12. /\ k.tbl = t /\ k.ses = s /\ k.kind = kind /\ kind \in {"shared", "unique"}
         /\ locks' = locks \cup {k} /\ k \in [tbl : Names, ses : {s}, kind : {"shared", "unique"}]
         /\ st.op # "select" => k = UniqueLock(s, t)
    BY DEF UniqueLock
  <1> HIDE DEF k
  <1>13. ASSUME pc = "open" PROVE OpenOK(s)'
    <2>1. rest # <<>> /\ ses[s].pc = "open" /\ todo = rest /\ OpenOK(s)
      BY <1>4, <1>13
    <2>2. Len(q) # 1 /\ Len(rest) \in Nat \ {0} /\ rest[Len(rest)] = q[Len(q)]
      BY <1>3, <2>1
    <2>3. st.op # "select" => rest[Len(rest)] = st.tbl
      BY <2>1, <2>2 DEF OpenOK
    <2>4. Several(st)
      BY <2>1, <2>2 DEF OpenOK
    <2> QED
      BY <1>9, <1>10, <2>1, <2>3, <2>4 DEF OpenOK
  <1>14. ASSUME pc = "parents" PROVE ParentsOK(s)'
    <2>1. CASE ses[s].pc = "open"
      <3>1. rest = <<>> /\ todo = load_foreign_tree(st) /\ OpenOK(s) /\ Len(q) = 1
        BY <1>3, <1>4, <1>14, <2>1
      <3>2. st.op # "select" => st.tbl = t /\ UniqueLock(s, st.tbl) \in locks'
        BY <1>7, <1>12, <2>1, <3>1
      <3>3. /\ todo = <<>> \/ st.op \in {"insert", "load", "drop_fk"}
            /\ \A i \in DOMAIN todo : /\ KeyBefore(st.tbl, st.tbl, todo[i])
                                      /\ \A j \in 1..(i - 1) : KeyBefore(st.tbl, todo[j], todo[i])
        BY <1>1, <1>6, <3>1, LoadForeign, Zenon
      <3>4. ASSUME st.op \in {"insert", "load", "drop_fk"} PROVE OrderKept(s)'
        <4>1. \A l \in locks : l.ses # s
          BY <3>1, <3>4 DEF OpenOK, Several
        <4>2. \A l \in locks' : l.ses = s => l.tbl = st.tbl
          BY <1>12, <3>2, <3>4, <4>1
        <4>3. PICK c : c = st.tbl
          OBVIOUS
        <4>4. ses'[s].todo = todo /\ ses'[s].st.tbl = c /\ sch' = sch
          BY <1>9, <1>10, <4>3, Zenon
        <4>5. /\ \A l \in locks' : l.ses = s => l.tbl = c
              /\ \A i \in DOMAIN todo : KeyBefore(c, c, todo[i]) /\ \A j \in 1..(i - 1) : KeyBefore(c, todo[j], todo[i])
          BY <3>3, <4>2, <4>3, Zenon
        <4>6. \A y, z : KeyBefore(c, y, z)' <=> KeyBefore(c, y, z)
          BY DEF KeyBefore
        <4> QED
          BY <4>4, <4>5, <4>6, Zenon DEF OrderKept
      <3> QED
        BY <1>9, <1>10, <3>2, <3>3, <3>4, Zenon DEF ParentsOK
    <2>2. CASE ses[s].pc = "parents"
      <3>1. /\ st.op # "select" => UniqueLock(s, st.tbl) \in locks
            /\ st.op \in {"insert", "load", "drop_fk"} /\ (cache[st.tbl] = "old" \/ OrderKept(s))
        BY <1>2, <1>5, <2>2 DEF ParentsOK
      <3>2. cache[st.tbl] # "old"
        <4>1. UniqueLock(s, st.tbl).ses = s /\ UniqueLock(s, st.tbl).tbl = st.tbl
          BY DEF UniqueLock
        <4> QED
          BY <3>1, <4>1 DEF Outdated
      <3>3. todo = Tail(q)
        BY <2>2
      <3>4. OrderKept(s)'
        BY <1>2, <1>9, <1>10, <1>12, <3>1, <3>2, <3>3, OrderGoesOn, Zenon
      <3> QED
        BY <1>9, <1>10, <1>12, <3>1, <3>4 DEF ParentsOK
    <2> QED
      BY <2>1, <2>2
  <1>15. SessionOK(s)'
    BY <1>1, <1>2, <1>9, <1>10, <1>11, <1>13, <1>14 DEF SessionOK
  <1>16. \A j \in locks : k.tbl = j.tbl /\ j.ses # s => k.kind = "shared" /\ j.kind = "shared"
    BY <1>12 DEF CanLock
  <1>17. /\ sent' \in 0..MaxStatements /\ robbed' \subseteq Names /\ mixed' \subseteq Names /\ file' \subseteq Names
         /\ SchemasOK(sch') /\ thrown' = thrown
    BY DEF Inv, TypeInv, SchemasOK
  <1>18. /\ cache' \in [Names -> {"none", "own", "old"}] /\ cache'[t] # "none"
         /\ \A u \in Names : /\ cache[u] # "none" => cache'[u] # "none" /\ (cache[u] = "old" => cache'[u] = "old")
                             /\ sch'[u].fgn = sch[u].fgn \/ cache'[u] # "own"
    BY DEF Inv, TypeInv
  <1> DEFINE L == {k}
  <1>19. k \in [tbl : Names, ses : {s}, kind : {"shared", "unique"}] /\ k.tbl = t
    BY <1>3, <1>12
  <1>20. locks' = locks \cup L
    BY <1>12
  <1>21. /\ L \subseteq [tbl : Names, ses : {s}, kind : {"shared", "unique"}]
         /\ \A l, j \in L : l = j
         /\ \A l \in L : cache'[l.tbl] # "none"
         /\ \A l \in L, j \in locks : l.tbl = j.tbl /\ j.ses # s => l.kind = "shared" /\ j.kind = "shared"
    BY <1>16, <1>18, <1>19
  <1> HIDE DEF L
  <1>22. \A l \in locks' : l.ses = s => x.pc \in {"open", "parents", "undefined"}
    BY <1>9, <1>11
  <1> HIDE <1>0
  <1> QED
    BY <1>9, <1>10, <1>15, <1>17, <1>18, <1>20, <1>21, <1>22, GoOnKeeps, Zenon

LEMMA OpenKeeps ==
  ASSUME Inv, NEW s \in Sessions, OpenAndLock(s)
  PROVE  Inv'
  <1> DEFINE t == Head(ses[s].todo)
             kind == IF ses[s].st.op = "select" THEN "shared" ELSE "unique"
             rest == Tail(ses[s].todo)
             todo == IF rest = <<>> /\ ses[s].pc = "open" THEN load_foreign_tree(ses[s].st) ELSE rest
             pc == IF rest = <<>> THEN "parents" ELSE ses[s].pc
  <1>1. /\ ses[s].pc \in {"open", "parents"} /\ ses[s].todo # <<>> /\ ~ Outdated(s) /\ cache[t] # "old"
        /\ UNCHANGED <<sch, disk, file, rows, sent, want, thrown, robbed, mixed>>
    BY Zenon DEF OpenAndLock
  <1>2. \/ Finish(s, "error") /\ cache' = cache
        \/ /\ CanLock(s, t, kind)
           /\ locks' = locks \cup {[tbl |-> t, ses |-> s, kind |-> kind]}
           /\ cache' = [cache EXCEPT ![t] = "own"]
           /\ ses' = [ses EXCEPT ![s] = [@ EXCEPT !.todo = todo, !.pc = pc]]
    BY Zenon DEF OpenAndLock
  <1>3. CASE Finish(s, "error") /\ cache' = cache
    BY <1>1, <1>3, QuietKeeps
  <1>4. CASE ~ (Finish(s, "error") /\ cache' = cache)
    <2>1. ses' = [ses EXCEPT ![s] = [ses[s] EXCEPT !.todo = todo, !.pc = pc]]
      BY <1>2, <1>4, Zenon
    <2>2. t \in Names
      <3>1. ses[s] \in SessionStates
        BY SessionTypes
      <3>2. ses[s].todo \in Seq(Names)
        BY <3>1 DEF SessionStates
      <3> QED
        BY <1>1, <3>2, RestFacts
    <2>3. LockTaken(s, t, kind, rest, todo, pc)
      BY <1>1, <1>2, <1>4, <2>1, <2>2, Zenon DEF LockTaken
    <2> HIDE DEF t, kind, rest, todo, pc
    <2> QED
      BY <1>1, <2>3, LockKeeps
  <1> QED
    BY <1>3, <1>4

LEMMA LoseKeeps ==
  ASSUME Inv, NEW s \in Sessions, LoseTrack(s)
  PROVE  Inv'
  <1> DEFINE x == [ses[s] EXCEPT !.pc = "undefined"]
  <1>1. /\ ses[s].pc \in {"open", "parents"} /\ ses' = [ses EXCEPT ![s] = x] /\ locks' = locks
        /\ sch' = sch /\ cache' = cache /\ file' = file /\ robbed' = robbed /\ mixed' = mixed
        /\ thrown' = thrown /\ sent' = sent
    BY Zenon DEF LoseTrack
  <1>2. ses[s] \in SessionStates /\ ses[s].st \in Statements
    BY <1>1, SessionTypes DEF SessionOK
  <1>3. x \in SessionStates /\ x.pc = "undefined" /\ x.st = ses[s].st
    BY <1>2 DEF SessionStates, PCs
  <1> HIDE DEF x
  <1>4. ses'[s] = x
    BY <1>1 DEF Inv, TypeInv
  <1>5. SessionOK(s)'
    BY <1>2, <1>3, <1>4 DEF SessionOK
  <1>6. sent' \in 0..MaxStatements /\ robbed' \subseteq Names /\ mixed' \subseteq Names /\ file' \subseteq file
    BY <1>1 DEF Inv, TypeInv
  <1> QED
    BY <1>1, <1>3, <1>5, <1>6, PlaceKeeps


-----------------------------------------------------------------------------
(* The invariant holds.                                                    *)

LEMMA InvInit == Init => Inv
  <1> SUFFICES ASSUME Init PROVE Inv
    OBVIOUS
  <1>1. IdleSession \in SessionStates /\ IdleSession.pc = "idle" /\ IdleSession.st = None
    BY EmptySeq DEF IdleSession, SessionStates, PCs
  <1>2. /\ ses = [s \in Sessions |-> IdleSession] /\ locks = {} /\ file = DOMAIN Installed
        /\ robbed = {} /\ mixed = {} /\ thrown = FALSE /\ sent = 0
        /\ cache = [t \in Names |-> "none"]
        /\ sch = [t \in Names |-> IF t \in DOMAIN Installed THEN Installed[t] ELSE NoSchema]
    BY DEF Init
  <1>3. MaxStatements \in Nat /\ DOMAIN Installed \subseteq Names
    BY TablesAssumption, Zenon
  <1>4. TypeInv
    <2>1. ses \in [Sessions -> SessionStates]
      BY <1>1, <1>2
    <2>2. sent \in 0..MaxStatements
      BY <1>2, <1>3
    <2> QED
      BY <1>2, <1>3, <2>1, <2>2 DEF TypeInv
  <1>5. LockInv
    BY <1>2 DEF LockInv
  <1>6. \A s \in Sessions : SessionOK(s)
    BY <1>1, <1>2 DEF SessionOK
  <1>7. SchemasOK(sch)
    <2>1. IsSchema(NoSchema) /\ DOMAIN NoSchema.fgn = {}
      <3>1. <<>> \in Seq({<<>>[i] : i \in DOMAIN <<>>}) /\ DOMAIN <<>> = {}
        BY EmptySeq
      <3> QED
        BY <3>1 DEF IsList, IsSchema, NoSchema
    <2>2. ASSUME NEW t \in DOMAIN Installed
          PROVE  IsSchema(Installed[t]) /\ \A i \in DOMAIN Installed[t].fgn : Installed[t].fgn[i].tbl \in Names
      BY <1>3, TablesAssumption, Zenon
    <2>3. sch = [t \in Names |-> sch[t]]
      BY <1>2
    <2>4. \A t \in Names : (t \in DOMAIN Installed /\ sch[t] = Installed[t]) \/ sch[t] = NoSchema
      BY <1>2
    <2> HIDE DEF NoSchema
    <2>5. ASSUME NEW t \in Names
          PROVE  IsSchema(sch[t]) /\ \A i \in DOMAIN sch[t].fgn : sch[t].fgn[i].tbl \in Names
      BY <2>1, <2>2, <2>4
    <2> QED
      BY <2>3, <2>5 DEF SchemasOK
  <1> QED
    BY <1>4, <1>5, <1>6, <1>7 DEF Inv

LEMMA InvNext == Inv /\ [Next]_vars => Inv'
  <1> SUFFICES ASSUME Inv, [Next]_vars PROVE Inv'
    OBVIOUS
  <1>1. CASE UNCHANGED vars
    <2>1. /\ sch' = sch /\ file' = file /\ locks' = locks /\ ses' = ses /\ sent' = sent
          /\ thrown' = thrown /\ robbed' = robbed /\ cache' = cache /\ mixed' = mixed
      BY <1>1 DEF vars
    <2>2. TypeInv' /\ SchemasOK(sch')
      BY <2>1 DEF Inv, TypeInv
    <2>4. LockInv'
      BY <2>1 DEF Inv, LockInv
    <2>5. \A s \in Sessions : OrderKept(s)' <=> OrderKept(s)
      BY <2>1 DEF OrderKept, KeyBefore
    <2>6. ASSUME NEW s \in Sessions PROVE SessionOK(s)'
      <3>1. SessionOK(s)
        BY DEF Inv
      <3>2. ses[s].pc = "open" => OpenOK(s)'
        BY <2>1, <3>1 DEF SessionOK, OpenOK
      <3>3. ASSUME ses[s].pc = "parents" PROVE ParentsOK(s)'
        <4>1. PICK c : c = ses[s].st.tbl
          OBVIOUS
        <4>2. ses'[s].st.tbl = c /\ (OrderKept(s)' <=> OrderKept(s))
          BY <2>1, <2>5, <4>1
        <4>3. ParentsOK(s)
          BY <3>1, <3>3 DEF SessionOK
        <4> QED
          BY <2>1, <4>1, <4>2, <4>3 DEF ParentsOK
      <3>4. RefsOK(s) => RefsOK(s)'
        BY <2>1 DEF RefsOK
      <3> QED
        BY <2>1, <3>1, <3>2, <3>3, <3>4 DEF SessionOK
    <2> QED
      BY <2>1, <2>2, <2>4, <2>6 DEF Inv, SchemasOK
  <1>2. ASSUME NEW s \in Sessions, Step(s) PROVE Inv'
    <2>1. CASE OpenAndLock(s) \/ LoseTrack(s)
      BY <2>1, OpenKeeps, LoseKeeps
    <2>2. CASE insert(s) \/ load_data(s) \/ delete_row(s) \/ update(s) \/ select(s)
      BY <2>2, RowsKeep
    <2>3. CASE \/ add_foreign_key(s) \/ drop_foreign_key(s)
               \/ add_index(s) \/ drop_index(s) \/ alter_column(s)
      <3>1. PICK z, names : /\ ses[s].pc = "parents" /\ SchemaStep(s, z)
                            /\ Alter(s, z, names) \/ Throw(s, z)
        BY <2>3, AddKeyKeeps, DropKeyKeeps, IndexKeeps, Zenon
      <3> QED
        BY <3>1, AlterKeeps
    <2>4. CASE CheckKeys(s)
      BY <2>4, CheckKeysKeeps
    <2>5. CASE \/ create_table(s) \/ add_schema(s) \/ save_schema(s) \/ create_file(s)
               \/ make_reference(s) \/ EndCreate(s)
      BY <2>5, CreateKeeps, AddSchemaKeeps, CreateFileKeeps, ReferenceKeeps, EndKeeps
    <2>6. CASE drop_table(s) \/ unlink_schema(s) \/ TakeMutex(s) \/ drop_block_cache(s)
      BY <2>6, DropKeeps
    <2> QED
      BY <1>2, <2>1, <2>2, <2>3, <2>4, <2>5, <2>6 DEF Step
  <1>3. ASSUME NEW s \in Sessions, NEW st \in Statements, Send(s, st) PROVE Inv'
    BY <1>3, SendKeeps
  <1> QED
    BY <1>1, <1>2, <1>3 DEF Next

LEMMA InvCorrect == Spec => []Inv
  BY InvInit, InvNext, PTL DEF Spec

\* The sessions, the locks and the statements they work on fit together: a lock
\* belongs to a session that is executing a statement, and the reader/writer
\* lock of block_cache gives a table to one writer or to readers, whichever
\* sessions open, alter, create and drop tables at the same time.
THEOREM TypeCorrect == Spec => []TypeOK
  <1>1. Inv => TypeOK
    <2> SUFFICES ASSUME Inv PROVE TypeOK
      OBVIOUS
    <2>1. /\ file \subseteq Names /\ robbed \subseteq Names /\ mixed \subseteq Names /\ thrown \in BOOLEAN
          /\ cache \in [Names -> {"none", "own", "old"}] /\ sent \in 0..MaxStatements
      BY DEF Inv, TypeInv
    <2>2. ASSUME NEW s \in Sessions
          PROVE  /\ ses[s].pc \in PCs
                 /\ ses[s].todo \in Seq(Names)
                 /\ IF ses[s].pc = "idle" THEN ses[s].st = None ELSE ses[s].st \in Statements
      <3>1. ses[s] \in SessionStates /\ SessionOK(s)
        BY SessionTypes
      <3> QED
        BY <3>1 DEF SessionStates, PCs, SessionOK
    <2>3. \A l \in locks :
            /\ l.tbl \in Names /\ l.ses \in Sessions /\ l.kind \in {"shared", "unique"}
            /\ ses[l.ses].pc \in {"open", "parents", "undefined"}
      BY DEF Inv, TypeInv, LockInv
    <2>4. \A l, k \in locks : l.tbl = k.tbl /\ l.ses # k.ses => l.kind = "shared" /\ k.kind = "shared"
      BY DEF Inv, LockInv
    <2> QED
      BY <2>1, <2>2, <2>3, <2>4 DEF TypeOK, PCs
  <1> QED
    BY <1>1, InvCorrect, PTL

\* A session that waits for a lock waits for one that waits in its turn, for a
\* table that comes later in the order of the foreign keys.
LEMMA WaitsFor ==
  ASSUME Inv, NEW s \in Sessions, Waiting(s), ses[s].pc # "idle",
         \A u \in Sessions : ses[u].pc # "idle" =>
           Waiting(u) /\ ses[u].st.op # "drop" /\ ~ Several(ses[u].st)
  PROVE  \E u \in Sessions, c \in {n \in Names : CanOpen(n)} :
           ses[u].pc # "idle" /\ KeyBefore(c, Head(ses[s].todo), Head(ses[u].todo))
  <1>1. \A u \in Sessions : ses[u].pc \notin {"take", "erase"}
    <2> SUFFICES ASSUME NEW u \in Sessions, ses[u].pc \in {"take", "erase"} PROVE FALSE
      OBVIOUS
    <2>1. SessionOK(u)
      BY SessionTypes
    <2> QED
      BY <2>1 DEF SessionOK
  <1>2. \A u \in Sessions : ~ CacheBusy(u)
    BY <1>1 DEF CacheBusy
  <1>3. ASSUME NEW u \in Sessions, ses[u].pc # "idle"
        PROVE  ses[u].pc \in {"open", "parents"} /\ ses[u].todo # <<>> /\ ~ Outdated(u) /\
               \E l \in locks : l.tbl = Head(ses[u].todo) /\ l.ses # u
    <2>1. /\ ses[u].pc \in {"open", "parents"} /\ ses[u].todo # <<>> /\ ~ Outdated(u)
          /\ \E kind : ~ CanLock(u, Head(ses[u].todo), kind)
      BY <1>1, <1>2, <1>3 DEF Waiting
    <2> QED
      BY <2>1 DEF CanLock
  <1>4. PICK l \in locks : l.tbl = Head(ses[s].todo) /\ l.ses # s
    BY <1>3
  <1>5. PICK u \in Sessions : u = l.ses /\ ses[u].pc # "idle"
    <2>1. l.ses \in Sessions /\ ses[l.ses].pc \in {"open", "parents", "undefined"}
      BY DEF Inv, TypeInv, LockInv
    <2> QED
      BY <2>1
  <1>6. ses[u].pc \in {"open", "parents"} /\ ses[u].todo # <<>> /\ ~ Outdated(u)
    BY <1>3, <1>5
  <1>7. ses[u] \in SessionStates /\ SessionOK(u) /\ ses[u].st.op # "drop" /\ ~ Several(ses[u].st)
    BY <1>5, SessionTypes
  <1>8. ses[u].pc = "parents"
    <2> SUFFICES ASSUME ses[u].pc = "open" PROVE FALSE
      BY <1>6
    <2>1. OpenOK(u)
      BY <1>7 DEF SessionOK
    <2> QED
      BY <1>5, <1>7, <2>1 DEF OpenOK
  <1>9. /\ ses[u].st.op \in {"insert", "load", "drop_fk"} /\ UniqueLock(u, ses[u].st.tbl) \in locks
        /\ cache[ses[u].st.tbl] = "old" \/ OrderKept(u)
    BY <1>6, <1>7, <1>8 DEF SessionOK, ParentsOK
  <1>10. UniqueLock(u, ses[u].st.tbl).tbl = ses[u].st.tbl /\ UniqueLock(u, ses[u].st.tbl).ses = u
    BY DEF UniqueLock
  <1>11. /\ ses[u].st.tbl \in Names /\ CanOpen(ses[u].st.tbl) /\ OrderKept(u)
    <2>1. cache[ses[u].st.tbl] # "none" /\ ses[u].st.tbl \in Names
      BY <1>9, <1>10 DEF Inv, TypeInv, LockInv
    <2>2. cache[ses[u].st.tbl] # "old"
      BY <1>6, <1>9, <1>10 DEF Outdated
    <2> QED
      BY <1>9, <2>1, <2>2 DEF CanOpen
  <1>12. ses[u].todo \in Seq(Names) /\ 1 \in DOMAIN ses[u].todo /\ Head(ses[u].todo) = ses[u].todo[1]
    <2>1. ses[u].todo \in Seq(Names)
      BY <1>7 DEF SessionStates
    <2> QED
      BY <1>6, <2>1, RestFacts
  <1>13. KeyBefore(ses[u].st.tbl, l.tbl, ses[u].todo[1])
    BY <1>5, <1>11, <1>12 DEF OrderKept
  <1> QED
    BY <1>4, <1>5, <1>11, <1>12, <1>13

\* Sessions that all wait for each other have a DROP TABLE, an ADD FOREIGN KEY or
\* a SELECT of several tables among them, or wait for tables that the foreign keys
\* put in no order: with any number of sessions and tables, the locks that
\* vm::open_table() and load_foreign_tree() take one after the other cannot
\* deadlock INSERT, LOAD, UPDATE, DELETE and the other ALTER TABLE statements.
THEOREM StuckCorrect == Spec => []StuckOnlyByOrder
  <1>1. Inv => StuckOnlyByOrder
    <2> DEFINE busy == {s \in Sessions : ses[s].pc # "idle"}
    <2> SUFFICES ASSUME Inv, \A s \in busy : Waiting(s),
                        \A s \in busy : /\ ses[s].st.op \notin {"drop", "add_fk"}
                                        /\ ~ (ses[s].st.op = "select" /\ Len(ses[s].st.tbls) > 1)
                 PROVE  NoOrder({Head(ses[s].todo) : s \in busy})
      BY Zenon DEF StuckOnlyByOrder
    <2>1. \A u \in Sessions : ses[u].pc # "idle" =>
            Waiting(u) /\ ses[u].st.op # "drop" /\ ~ Several(ses[u].st)
      BY DEF Several
    <2>2. ASSUME NEW s \in busy
          PROVE  \E u \in busy, c \in {n \in Names : CanOpen(n)} : KeyBefore(c, Head(ses[s].todo), Head(ses[u].todo))
      BY <2>1, <2>2, WaitsFor
    <2> HIDE DEF busy
    <2> QED
      BY <2>2, Zenon DEF NoOrder
  <1> QED
    BY <1>1, InvCorrect, PTL

-----------------------------------------------------------------------------
(* Lists.                                                                  *)

\* A list and the set of its elements.
LEMMA ListFacts ==
  ASSUME NEW x, IsList(x)
  PROVE  /\ Len(x) \in Nat /\ DOMAIN x = 1..Len(x) /\ x \in Seq(ToSet(x))
         /\ \A i \in DOMAIN x : x[i] \in ToSet(x)
         /\ \A e \in ToSet(x) : \E i \in DOMAIN x : x[i] = e
         /\ x = <<>> <=> Len(x) = 0
  <1>1. x \in Seq(ToSet(x))
    BY DEF IsList, ToSet
  <1>2. Len(x) \in Nat /\ DOMAIN x = 1..Len(x)
    BY <1>1
  <1>3. x = <<>> <=> Len(x) = 0
    BY <1>1, EmptySeq
  <1> QED
    BY <1>1, <1>2, <1>3 DEF ToSet

LEMMA SeqIsList ==
  ASSUME NEW S, NEW x \in Seq(S)
  PROVE  IsList(x)
  <1>1. x = [i \in 1..Len(x) |-> x[i]] /\ Len(x) \in Nat /\ DOMAIN x = 1..Len(x)
    OBVIOUS
  <1>2. \A i \in 1..Len(x) : x[i] \in {x[j] : j \in DOMAIN x}
    BY <1>1
  <1> QED
    BY <1>1, <1>2, IsASeq DEF IsList

LEMMA EmptyIsList == IsList(<<>>) /\ ToSet(<<>>) = {} /\ DOMAIN <<>> = {}
  <1>1. <<>> \in Seq({}) /\ DOMAIN <<>> = {}
    BY EmptySeq
  <1> QED
    BY <1>1, SeqIsList DEF ToSet

\* A list with an element added, and with one removed.
LEMMA AppendFacts ==
  ASSUME NEW x, IsList(x), NEW e
  PROVE  LET y == Append(x, e)
         IN  /\ IsList(y) /\ Len(y) = Len(x) + 1 /\ ToSet(y) = ToSet(x) \cup {e}
             /\ \A i \in DOMAIN x : y[i] = x[i]
             /\ y[Len(x) + 1] = e /\ DOMAIN y = 1..(Len(x) + 1)
  <1> DEFINE y == Append(x, e)
             S == ToSet(x) \cup {e}
  <1>1. x \in Seq(S) /\ e \in S /\ Len(x) \in Nat /\ DOMAIN x = 1..Len(x)
    <2>1. x \in Seq(ToSet(x)) /\ Len(x) \in Nat /\ DOMAIN x = 1..Len(x)
      BY ListFacts
    <2> QED
      BY <2>1, SeqMonotonic
  <1>2. /\ y \in Seq(S) /\ Len(y) = Len(x) + 1
        /\ \A i \in 1..Len(x) : y[i] = x[i]
        /\ y[Len(x) + 1] = e
    <2> HIDE DEF S
    <2> QED
      BY <1>1, AppendProperties
  <1>3. IsList(y) /\ DOMAIN y = 1..(Len(x) + 1)
    <2>1. IsList(y)
      BY <1>2, SeqIsList
    <2> HIDE DEF y
    <2> QED
      BY <1>2, <2>1, ListFacts
  <1> HIDE DEF y
  <1>4. ToSet(y) = S
    <2>1. \A i \in 1..Len(x) : y[i] \in ToSet(x)
      BY <1>1, <1>2 DEF ToSet
    <2>2. ASSUME NEW i \in DOMAIN y PROVE y[i] \in S
      <3>1. i \in 1..Len(x) \/ i = Len(x) + 1
        BY <1>1, <1>3
      <3> QED
        BY <1>2, <2>1, <3>1
    <2>3. ASSUME NEW v \in S PROVE \E i \in DOMAIN y : y[i] = v
      <3>1. CASE v = e
        <4>1. Len(x) + 1 \in DOMAIN y
          BY <1>1, <1>3
        <4> QED
          BY <1>2, <3>1, <4>1
      <3>2. CASE v \in ToSet(x)
        <4>1. PICK i \in DOMAIN x : x[i] = v
          BY <3>2 DEF ToSet
        <4>2. i \in DOMAIN y /\ y[i] = v
          BY <1>1, <1>2, <1>3, <4>1
        <4> QED
          BY <4>2
      <3> QED
        BY <3>1, <3>2
    <2> QED
      BY <2>2, <2>3 DEF ToSet
  <1> QED
    BY <1>1, <1>2, <1>3, <1>4 DEF y

LEMMA RemoveFacts ==
  ASSUME NEW x, IsList(x), NEW k \in DOMAIN x
  PROVE  LET y == RemoveAt(x, k)
         IN  /\ IsList(y) /\ Len(y) = Len(x) - 1 /\ DOMAIN y = 1..(Len(x) - 1)
             /\ \A i \in DOMAIN y : y[i] = x[IF i < k THEN i ELSE i + 1]
  <1> DEFINE S == ToSet(x)
             y == RemoveAt(x, k)
             a == SubSeq(x, 1, k - 1)
             b == SubSeq(x, k + 1, Len(x))
  <1>1. x \in Seq(S) /\ Len(x) \in Nat /\ DOMAIN x = 1..Len(x)
    BY ListFacts
  <1>2. k \in 1..Len(x) /\ \A i \in 1..Len(x) : x[i] \in S
    BY <1>1, ElementOfSeq
  <1>3. /\ a \in Seq(S) /\ Len(a) = k - 1
        /\ \A i \in 1..(k - 1) : a[i] = x[i]
    <2>1. 1 \in Int /\ k - 1 \in Int /\ \A i \in 1..(k - 1) : x[i] \in S
      BY <1>1, <1>2
    <2> HIDE DEF S
    <2>2. /\ a \in Seq(S) /\ Len(a) = IF 1 <= k - 1 THEN k - 1 - 1 + 1 ELSE 0
          /\ \A i \in 1..(k - 1 - 1 + 1) : a[i] = x[1 + i - 1]
      BY <2>1, SubSeqProperties
    <2> HIDE DEF a
    <2>3. \A i \in 1..(k - 1) : i \in 1..(k - 1 - 1 + 1) /\ 1 + i - 1 = i
      BY <1>2
    <2>4. \A i \in 1..(k - 1) : a[i] = x[i]
      BY <2>2, <2>3
    <2> QED
      BY <1>1, <1>2, <2>2, <2>4
  <1>4. /\ b \in Seq(S) /\ Len(b) = Len(x) - k
        /\ \A i \in 1..(Len(x) - k) : b[i] = x[k + i]
    <2>1. k + 1 \in Int /\ Len(x) \in Int /\ \A i \in (k + 1)..Len(x) : x[i] \in S
      BY <1>1, <1>2
    <2> HIDE DEF S
    <2>2. /\ b \in Seq(S) /\ Len(b) = IF k + 1 <= Len(x) THEN Len(x) - (k + 1) + 1 ELSE 0
          /\ \A i \in 1..(Len(x) - (k + 1) + 1) : b[i] = x[k + 1 + i - 1]
      BY <2>1, SubSeqProperties
    <2> HIDE DEF b
    <2>3. \A i \in 1..(Len(x) - k) : i \in 1..(Len(x) - (k + 1) + 1) /\ k + 1 + i - 1 = k + i
      BY <1>1, <1>2
    <2>4. \A i \in 1..(Len(x) - k) : b[i] = x[k + i]
      BY <2>2, <2>3
    <2> QED
      BY <1>1, <1>2, <2>2, <2>4
  <1>5. /\ y \in Seq(S) /\ Len(y) = Len(a) + Len(b)
        /\ \A i \in 1..(Len(a) + Len(b)) : y[i] = IF i <= Len(a) THEN a[i] ELSE b[i - Len(a)]
    <2>1. y = a \o b
      BY DEF RemoveAt
    <2> HIDE DEF S, a, b, y
    <2> QED
      BY <1>3, <1>4, <2>1, ConcatProperties
  <1> HIDE DEF a, b, y
  <1>6. Len(y) = Len(x) - 1
    BY <1>1, <1>2, <1>3, <1>4, <1>5
  <1>7. ASSUME NEW i \in 1..(Len(x) - 1)
        PROVE  y[i] = x[IF i < k THEN i ELSE i + 1]
    <2>1. i \in 1..(Len(a) + Len(b)) /\ Len(a) = k - 1
      BY <1>1, <1>2, <1>3, <1>4
    <2>2. CASE i < k
      <3>1. i \in 1..(k - 1) /\ i <= Len(a)
        BY <1>2, <1>3, <2>2
      <3>2. y[i] = a[i]
        BY <1>5, <2>1, <3>1
      <3> QED
        BY <1>3, <2>2, <3>1, <3>2
    <2>3. CASE ~ (i < k)
      <3>1. i - (k - 1) \in 1..(Len(x) - k) /\ ~ (i <= Len(a)) /\ k + (i - (k - 1)) = i + 1
        BY <1>1, <1>2, <1>3, <2>3
      <3>2. y[i] = b[i - (k - 1)]
        BY <1>5, <2>1, <3>1
      <3>3. b[i - (k - 1)] = x[k + (i - (k - 1))]
        BY <1>4, <3>1
      <3> QED
        BY <2>3, <3>1, <3>2, <3>3
    <2> QED
      BY <2>2, <2>3
  <1>8. IsList(y) /\ DOMAIN y = 1..(Len(x) - 1)
    <2>1. IsList(y)
      BY <1>5, SeqIsList
    <2> QED
      BY <1>6, <2>1, ListFacts
  <1> QED
    BY <1>6, <1>7, <1>8 DEF y

(* The elements of a list from which one was removed.                      *)
LEMMA RemoveElements ==
  ASSUME NEW x, IsList(x), NEW k \in DOMAIN x
  PROVE  LET y == RemoveAt(x, k)
         IN  /\ IsList(y) /\ ToSet(y) = {x[m] : m \in DOMAIN x \ {k}}
             /\ ToSet(y) \subseteq ToSet(x) /\ ToSet(x) \ {x[k]} \subseteq ToSet(y)
  <1> DEFINE y == RemoveAt(x, k)
             f(i) == IF i < k THEN i ELSE i + 1
  <1>1. Len(x) \in Nat /\ DOMAIN x = 1..Len(x)
    BY ListFacts
  <1>2. /\ IsList(y) /\ Len(y) = Len(x) - 1 /\ DOMAIN y = 1..(Len(x) - 1)
        /\ \A i \in DOMAIN y : y[i] = x[f(i)]
    BY RemoveFacts
  <1> HIDE DEF y
  <1>3. /\ \A i \in DOMAIN y : f(i) \in DOMAIN x \ {k}
        /\ \A i, j \in DOMAIN y : f(i) = f(j) => i = j
    BY <1>1, <1>2
  <1>4. ASSUME NEW m \in DOMAIN x \ {k} PROVE \E i \in DOMAIN y : f(i) = m
    <2>1. CASE m < k
      <3>1. m \in DOMAIN y /\ f(m) = m
        BY <1>1, <1>2, <2>1
      <3> QED
        BY <3>1
    <2>2. CASE ~ (m < k)
      <3>1. m - 1 \in DOMAIN y /\ f(m - 1) = m
        BY <1>1, <1>2, <2>2
      <3> QED
        BY <3>1
    <2> QED
      BY <2>1, <2>2
  <1> HIDE DEF f
  <1>5. ToSet(y) = {x[m] : m \in DOMAIN x \ {k}}
    <2>1. ToSet(y) = {y[i] : i \in DOMAIN y}
      BY DEF ToSet
    <2> QED
      BY <1>2, <1>3, <1>4, <2>1
  <1>6. ToSet(y) \subseteq ToSet(x) /\ ToSet(x) \ {x[k]} \subseteq ToSet(y)
    BY <1>5 DEF ToSet
  <1> QED
    BY <1>2, <1>5, <1>6 DEF y

-----------------------------------------------------------------------------
(* Columns and their references.                                           *)

ColsOK(cols) == IsList(cols) /\ \A k \in DOMAIN cols : IsColumn(cols[k])

HasRef(cols, t, name) ==
  \E k \in DOMAIN cols : \E r \in ToSet(cols[k].refs) : r.tbl = t /\ r.fgn = name

\* KnowsOf in terms of the columns.
LEMMA KnowsIsRef ==
  ASSUME NEW y, NEW t, NEW f
  PROVE  KnowsOf(y, t, f) <=> HasRef(y.cols, t, f.name)
  BY DEF KnowsOf, HasRef, ToSet

\* The columns are the same but for references and flags, and the same of them
\* are flagged as primary key.
SameCols(a, b) ==
  /\ ColsOK(b) /\ DOMAIN b = DOMAIN a
  /\ \A k \in DOMAIN a : /\ b[k].name = a[k].name
                         /\ "PRIMARY" \in b[k].flag <=> "PRIMARY" \in a[k].flag

\* ... and no reference is lost.
Grown(a, b) == SameCols(a, b) /\ \A k \in DOMAIN a : ToSet(a[k].refs) \subseteq ToSet(b[k].refs)

\* Columns may grow several times.
LEMMA GrownFacts ==
  ASSUME NEW a, ColsOK(a)
  PROVE  /\ Grown(a, a)
         /\ \A b : Grown(a, b) => /\ ColsOK(b) /\ \A c : Grown(b, c) => Grown(a, c)
                                  /\ \A t, name : HasRef(a, t, name) => HasRef(b, t, name)
                                  /\ (b = <<>> <=> a = <<>>)
  <1>1. Grown(a, a)
    BY DEF Grown, SameCols
  <1>2. ASSUME NEW b, Grown(a, b)
        PROVE  /\ ColsOK(b) /\ \A c : Grown(b, c) => Grown(a, c)
               /\ \A t, name : HasRef(a, t, name) => HasRef(b, t, name)
    <2>1. /\ ColsOK(b) /\ DOMAIN b = DOMAIN a
          /\ \A k \in DOMAIN a : /\ b[k].name = a[k].name
                                 /\ "PRIMARY" \in b[k].flag <=> "PRIMARY" \in a[k].flag
                                 /\ ToSet(a[k].refs) \subseteq ToSet(b[k].refs)
      BY <1>2 DEF Grown, SameCols
    <2>2. \A t, name : HasRef(a, t, name) => HasRef(b, t, name)
      BY <2>1 DEF HasRef
    <2>3. ASSUME NEW c, Grown(b, c) PROVE Grown(a, c)
      <3>1. /\ ColsOK(c) /\ DOMAIN c = DOMAIN b
            /\ \A k \in DOMAIN b : /\ c[k].name = b[k].name
                                   /\ "PRIMARY" \in c[k].flag <=> "PRIMARY" \in b[k].flag
                                   /\ ToSet(b[k].refs) \subseteq ToSet(c[k].refs)
        BY <2>3 DEF Grown, SameCols
      <3>2. ASSUME NEW k \in DOMAIN a
            PROVE  /\ c[k].name = a[k].name
                   /\ "PRIMARY" \in c[k].flag <=> "PRIMARY" \in a[k].flag
                   /\ ToSet(a[k].refs) \subseteq ToSet(c[k].refs)
        <4>1. k \in DOMAIN b
          BY <2>1
        <4>2. /\ b[k].name = a[k].name
              /\ "PRIMARY" \in b[k].flag <=> "PRIMARY" \in a[k].flag
              /\ ToSet(a[k].refs) \subseteq ToSet(b[k].refs)
          BY <2>1
        <4>3. /\ c[k].name = b[k].name
              /\ "PRIMARY" \in c[k].flag <=> "PRIMARY" \in b[k].flag
              /\ ToSet(b[k].refs) \subseteq ToSet(c[k].refs)
          BY <3>1, <4>1
        <4> QED
          BY <4>2, <4>3
      <3>3. DOMAIN c = DOMAIN a
        BY <2>1, <3>1
      <3> QED
        BY <3>1, <3>2, <3>3, Zenon DEF Grown, SameCols
    <2> QED
      BY <2>1, <2>2, <2>3
  <1>3. ASSUME NEW b, Grown(a, b) PROVE b = <<>> <=> a = <<>>
    <2>1. IsList(a) /\ IsList(b) /\ DOMAIN a = DOMAIN b
      BY <1>3 DEF Grown, SameCols, ColsOK
    <2>2. Len(a) \in Nat /\ DOMAIN a = 1..Len(a) /\ (a = <<>> <=> Len(a) = 0)
      BY <2>1, ListFacts
    <2>3. Len(b) \in Nat /\ DOMAIN b = 1..Len(b) /\ (b = <<>> <=> Len(b) = 0)
      BY <2>1, ListFacts
    <2>4. ASSUME NEW m \in Nat, NEW n \in Nat, 1..m = 1..n PROVE m = 0 <=> n = 0
      BY <2>4
    <2>5. Len(a) = 0 <=> Len(b) = 0
      BY <2>1, <2>2, <2>3, <2>4
    <2> QED
      BY <2>2, <2>3, <2>5, Zenon
  <1> QED
    BY <1>1, <1>2, <1>3

\* A list with one element replaced.
LEMMA ReplaceFacts ==
  ASSUME NEW x, IsList(x), NEW i, NEW v
  PROVE  LET y == [x EXCEPT ![i] = v]
         IN  /\ IsList(y) /\ DOMAIN y = DOMAIN x
             /\ \A k \in DOMAIN x : y[k] = IF k = i THEN v ELSE x[k]
  <1> DEFINE y == [x EXCEPT ![i] = v]
             S == ToSet(x) \cup {v}
  <1>1. Len(x) \in Nat /\ DOMAIN x = 1..Len(x) /\ \A k \in DOMAIN x : x[k] \in ToSet(x)
    BY ListFacts
  <1>2. DOMAIN y = DOMAIN x /\ \A k \in DOMAIN x : y[k] = IF k = i THEN v ELSE x[k]
    OBVIOUS
  <1>3. y = [k \in 1..Len(x) |-> IF k = i THEN v ELSE x[k]]
    BY <1>1
  <1>4. \A k \in 1..Len(x) : (IF k = i THEN v ELSE x[k]) \in S
    BY <1>1
  <1> HIDE DEF y, S
  <1>5. y \in Seq(S)
    BY <1>1, <1>3, <1>4, IsASeq
  <1> QED
    BY <1>2, <1>5, SeqIsList DEF y

\* A column gets one more reference.
LEMMA AddRefFacts ==
  ASSUME NEW cols, ColsOK(cols), NEW i, NEW ref
  PROVE  LET b == AddRef(cols, i, ref)
         IN  Grown(cols, b) /\ (i \in DOMAIN cols => HasRef(b, ref.tbl, ref.fgn))
  <1> DEFINE r == cols[i].refs
             e == [name |-> MakeName(r), tbl |-> ref.tbl, fgn |-> ref.fgn]
             g == Append(r, e)
             v == [cols[i] EXCEPT !.refs = g]
             b == [cols EXCEPT ![i] = v]
  <1>1. AddRef(cols, i, ref) = b
    BY Zenon DEF AddRef
  <1>2. /\ IsList(b) /\ DOMAIN b = DOMAIN cols
        /\ \A k \in DOMAIN cols : b[k] = IF k = i THEN v ELSE cols[k]
    BY ReplaceFacts DEF ColsOK
  <1>3. e.tbl = ref.tbl /\ e.fgn = ref.fgn
    OBVIOUS
  <1> HIDE DEF b, e
  <1>4. ASSUME i \in DOMAIN cols
        PROVE  /\ IsColumn(v) /\ v.name = cols[i].name /\ v.flag = cols[i].flag
               /\ ToSet(v.refs) = ToSet(r) \cup {e}
    <2>1. IsColumn(cols[i])
      BY <1>4 DEF ColsOK
    <2>2. IsList(r)
      BY <2>1 DEF IsColumn
    <2>3. IsList(g) /\ ToSet(g) = ToSet(r) \cup {e}
      BY <2>2, AppendFacts
    <2> HIDE DEF g
    <2>4. v = [name |-> cols[i].name, refs |-> g, flag |-> cols[i].flag]
      BY <2>1 DEF IsColumn
    <2> HIDE DEF v
    <2>5. v.name = cols[i].name /\ v.refs = g /\ v.flag = cols[i].flag
      BY <2>4
    <2> QED
      BY <2>3, <2>4, <2>5 DEF IsColumn
  <1> HIDE DEF v
  <1>5. ASSUME NEW k \in DOMAIN cols
        PROVE  /\ IsColumn(b[k]) /\ b[k].name = cols[k].name /\ b[k].flag = cols[k].flag
               /\ ToSet(cols[k].refs) \subseteq ToSet(b[k].refs)
    <2>1. CASE k = i
      BY <1>2, <1>4, <2>1
    <2>2. CASE k # i
      BY <1>2, <2>2 DEF ColsOK
    <2> QED
      BY <2>1, <2>2
  <1>6. Grown(cols, b)
    BY <1>2, <1>5 DEF Grown, SameCols, ColsOK
  <1>7. ASSUME i \in DOMAIN cols PROVE HasRef(b, ref.tbl, ref.fgn)
    <2>1. e \in ToSet(b[i].refs)
      BY <1>2, <1>4, <1>7
    <2> QED
      BY <1>2, <1>3, <1>7, <2>1 DEF HasRef
  <1> QED
    BY <1>1, <1>6, <1>7

\* The references that ADD FOREIGN KEY adds to the columns cols.
KeyRefs(z, st, name, cols) ==
  FoldLeft(LAMBDA acc, n : AddRef(acc, ColumnPos(z[st.to], n), [tbl |-> st.tbl, fgn |-> name]), cols, st.fcols)

KeyRefRound(c, acc, n) == AddRef(acc, ColumnPos(c.z[c.st.to], n), [tbl |-> c.st.tbl, fgn |-> c.name])

KeyRefKept(c, i, acc) ==
  /\ Grown(c.z[c.st.to].cols, acc)
  /\ i # 0 => HasRef(acc, c.st.tbl, c.name)

KeyRefLoop == INSTANCE FoldTheorems WITH Round <- KeyRefRound, Kept <- KeyRefKept

\* Every named column of the referenced table gets the reference.
LEMMA KeyRefsFacts ==
  ASSUME NEW z, NEW st, NEW name, ColsOK(z[st.to].cols), IsList(st.fcols), st.fcols # <<>>,
         ToSet(st.fcols) \subseteq ColumnNames(z[st.to])
  PROVE  LET b == KeyRefs(z, st, name, z[st.to].cols)
         IN  Grown(z[st.to].cols, b) /\ HasRef(b, st.tbl, name)
  <1>0. PICK c : c = [z |-> z, st |-> st, name |-> name]
    OBVIOUS
  <1>1. c.z = z /\ c.st = st /\ c.name = name
    BY <1>0
  <1> DEFINE y == z[st.to]
             a == y.cols
             seq == st.fcols
  <1>2. KeyRefs(c.z, c.st, c.name, a) = KeyRefLoop!Fold(c, a, c.st.fcols)
    BY Zenon DEF KeyRefs, KeyRefLoop!Fold, KeyRefRound, FoldLeft, MapThenFoldSet, Max,
                 KeyRefLoop!FoldLeft, KeyRefLoop!MapThenFoldSet, KeyRefLoop!Max
  <1>3. seq \in Seq(ToSet(seq)) /\ Len(seq) \in Nat /\ DOMAIN seq = 1..Len(seq) /\ Len(seq) # 0
    BY ListFacts
  <1>4. KeyRefKept(c, 0, a)
    BY <1>1, GrownFacts DEF KeyRefKept
  <1>5. ASSUME NEW i \in 1..Len(seq), NEW acc, KeyRefKept(c, i - 1, acc)
        PROVE  KeyRefKept(c, i, KeyRefRound(c, acc, seq[i]))
    <2> DEFINE ref == [tbl |-> st.tbl, fgn |-> name]
               k == ColumnPos(y, seq[i])
    <2>1. Grown(a, acc)
      BY <1>1, <1>5 DEF KeyRefKept
    <2>2. ColsOK(acc) /\ DOMAIN acc = DOMAIN a
      BY <2>1 DEF Grown, SameCols
    <2>3. k \in DOMAIN acc
      <3>1. seq[i] \in ColumnNames(y)
        BY <1>3 DEF ToSet
      <3>2. \E j \in DOMAIN y.cols : y.cols[j].name = seq[i]
        BY <3>1 DEF ColumnNames
      <3>3. k \in DOMAIN y.cols
        BY <3>2, Zenon DEF ColumnPos
      <3> QED
        BY <2>2, <3>3
    <2>4. KeyRefRound(c, acc, seq[i]) = AddRef(acc, k, ref)
      BY <1>1 DEF KeyRefRound
    <2>5. ref.tbl = st.tbl /\ ref.fgn = name
      OBVIOUS
    <2> HIDE DEF ref, k, a
    <2>6. Grown(acc, AddRef(acc, k, ref)) /\ HasRef(AddRef(acc, k, ref), st.tbl, name)
      BY <2>2, <2>3, <2>5, AddRefFacts
    <2>7. Grown(a, AddRef(acc, k, ref))
      BY <2>1, <2>6, GrownFacts DEF a
    <2> QED
      BY <1>1, <2>4, <2>6, <2>7 DEF KeyRefKept, a
  <1>6. KeyRefKept(c, Len(seq), KeyRefLoop!Fold(c, a, seq))
    <2> HIDE DEF seq, a
    <2> QED
      BY <1>3, <1>4, <1>5, KeyRefLoop!FoldKeeps
  <1> QED
    BY <1>1, <1>2, <1>3, <1>6 DEF KeyRefKept

-----------------------------------------------------------------------------
\* make_reference(): the references of one key of table t.
LeadRefs(t, name, cols, seq) == FoldLeft(LAMBDA y, i : AddRef(y, i, [tbl |-> t, fgn |-> name]), cols, seq)

LeadRound(c, acc, i) == AddRef(acc, i, [tbl |-> c.t, fgn |-> c.name])

LeadKept(c, i, acc) == Grown(c.cols, acc) /\ (i # 0 /\ c.cols # <<>> => HasRef(acc, c.t, c.name))

LeadLoop == INSTANCE FoldTheorems WITH Round <- LeadRound, Kept <- LeadKept

\* ... which is in a leading column of the referenced table.
LEMMA LeadFacts ==
  ASSUME NEW t, NEW name, NEW cols, ColsOK(cols), cols # <<>>, NEW x, IsList(x), x # <<>>
  PROVE  LET b == LeadRefs(t, name, cols, [i \in DOMAIN x |-> i])
         IN  Grown(cols, b) /\ HasRef(b, t, name)
  <1>0. PICK c : c = [t |-> t, name |-> name, cols |-> cols]
    OBVIOUS
  <1>1. c.t = t /\ c.name = name /\ c.cols = cols
    BY <1>0
  <1> DEFINE seq == [i \in DOMAIN x |-> i]
  <1>2. LeadRefs(c.t, c.name, cols, seq) = LeadLoop!Fold(c, cols, seq)
    BY Zenon DEF LeadRefs, LeadLoop!Fold, LeadRound, FoldLeft, MapThenFoldSet, Max,
                 LeadLoop!FoldLeft, LeadLoop!MapThenFoldSet, LeadLoop!Max
  <1>3. seq \in Seq(Nat) /\ Len(seq) \in Nat /\ DOMAIN seq = 1..Len(seq) /\ Len(seq) # 0 /\ seq[1] = 1
    <2>1. Len(x) \in Nat /\ DOMAIN x = 1..Len(x) /\ Len(x) # 0
      BY ListFacts
    <2>2. seq = [i \in 1..Len(x) |-> i] /\ \A i \in 1..Len(x) : i \in Nat
      BY <2>1
    <2>3. seq \in Seq(Nat) /\ Len(seq) = Len(x)
      BY <2>1, <2>2
    <2> QED
      BY <2>1, <2>2, <2>3
  <1>4. 1 \in DOMAIN cols
    <2>1. Len(cols) \in Nat /\ DOMAIN cols = 1..Len(cols) /\ Len(cols) # 0
      BY ListFacts DEF ColsOK
    <2> QED
      BY <2>1
  <1>5. LeadKept(c, 0, cols)
    BY <1>1, GrownFacts DEF LeadKept
  <1> HIDE DEF seq
  <1>6. ASSUME NEW i \in 1..Len(seq), NEW acc, LeadKept(c, i - 1, acc)
        PROVE  LeadKept(c, i, LeadRound(c, acc, seq[i]))
    <2> DEFINE ref == [tbl |-> t, fgn |-> name]
               b == AddRef(acc, seq[i], ref)
    <2>1. Grown(cols, acc) /\ (i - 1 # 0 => HasRef(acc, t, name))
      BY <1>1, <1>6 DEF LeadKept
    <2>2. ColsOK(acc) /\ DOMAIN acc = DOMAIN cols
      BY <2>1 DEF Grown, SameCols
    <2>3. LeadRound(c, acc, seq[i]) = b
      BY <1>1 DEF LeadRound
    <2>4. ref.tbl = t /\ ref.fgn = name
      OBVIOUS
    <2> HIDE DEF ref
    <2>5. Grown(acc, b) /\ (seq[i] \in DOMAIN acc => HasRef(b, t, name))
      BY <2>2, <2>4, AddRefFacts
    <2> HIDE DEF b
    <2>6. Grown(cols, b)
      BY <2>1, <2>5, GrownFacts
    <2>7. HasRef(b, t, name)
      <3>1. CASE i = 1
        BY <1>3, <1>4, <2>2, <2>5, <3>1
      <3>2. CASE i # 1
        <4>1. HasRef(acc, t, name)
          BY <1>3, <2>1, <3>2
        <4> QED
          BY <2>2, <2>5, <4>1, GrownFacts
      <3> QED
        BY <3>1, <3>2
    <2> QED
      BY <1>1, <2>3, <2>6, <2>7 DEF LeadKept
  <1>7. LeadKept(c, Len(seq), LeadLoop!Fold(c, cols, seq))
    BY <1>3, <1>5, <1>6, LeadLoop!FoldKeeps
  <1>8. Grown(cols, LeadRefs(t, name, cols, seq)) /\ HasRef(LeadRefs(t, name, cols, seq), t, name)
    BY <1>1, <1>2, <1>3, <1>7 DEF LeadKept
  <1> QED
    BY <1>8 DEF seq

-----------------------------------------------------------------------------
DropRound(c, acc, n) ==
  LET at == {i \in DOMAIN c.cols : c.cols[i].name = n}
      i == CHOOSE j \in at : TRUE
      hit == {j \in DOMAIN acc.cols[i].refs : acc.cols[i].refs[j].fgn = c.fgn.name}
  IN  IF ~ acc.ok \/ at = {} THEN [acc EXCEPT !.ok = FALSE]
      ELSE IF hit = {} THEN [acc EXCEPT !.ok = FALSE]
      ELSE [acc EXCEPT !.cols[i].refs =
              RemoveAt(@, CHOOSE j \in hit : \A k \in hit : j <= k)]

\* Only references to keys of the name are lost.
DropKept(c, i, acc) ==
  /\ acc = [cols |-> acc.cols, ok |-> acc.ok] /\ SameCols(c.cols, acc.cols)
  /\ \A k \in DOMAIN c.cols : \A r \in ToSet(c.cols[k].refs) : r.fgn # c.fgn.name => r \in ToSet(acc.cols[k].refs)

DropLoop == INSTANCE FoldTheorems WITH Round <- DropRound, Kept <- DropKept

LEMMA DropAcc ==
  ASSUME NEW acc, acc = [cols |-> acc.cols, ok |-> acc.ok], NEW w, NEW b
  PROVE  /\ [acc EXCEPT !.ok = b] = [cols |-> acc.cols, ok |-> b]
         /\ [acc EXCEPT !.cols = w] = [cols |-> w, ok |-> acc.ok]
  OBVIOUS

\* DROP FOREIGN KEY, in order or not, leaves the references to keys of other names.
LEMMA DropRefsFacts ==
  ASSUME NEW cols, ColsOK(cols), NEW fgn, IsList(fgn.cols)
  PROVE  LET b == DropRefs(cols, fgn).cols
         IN  /\ SameCols(cols, b)
             /\ \A k \in DOMAIN cols : \A r \in ToSet(cols[k].refs) : r.fgn # fgn.name => r \in ToSet(b[k].refs)
  <1>0. PICK c : c = [cols |-> cols, fgn |-> fgn]
    OBVIOUS
  <1>1. c.cols = cols /\ c.fgn = fgn
    BY <1>0
  <1> DEFINE base == [cols |-> c.cols, ok |-> TRUE]
             seq == c.fgn.cols
  <1>2. DropRefs(c.cols, c.fgn) = DropLoop!Fold(c, base, seq)
    BY Zenon DEF DropRefs, DropLoop!Fold, DropRound, FoldLeft, MapThenFoldSet, Max,
                 DropLoop!FoldLeft, DropLoop!MapThenFoldSet, DropLoop!Max
  <1>3. seq \in Seq(ToSet(seq)) /\ Len(seq) \in Nat /\ DOMAIN seq = 1..Len(seq)
    BY <1>1, ListFacts
  <1>4. DropKept(c, 0, base)
    <2>1. base.cols = cols
      BY <1>1
    <2> QED
      BY <1>1, <2>1 DEF DropKept, SameCols
  <1>5. ASSUME NEW i \in 1..Len(seq), NEW acc, DropKept(c, i - 1, acc)
        PROVE  DropKept(c, i, DropRound(c, acc, seq[i]))
    <2>1. /\ acc = [cols |-> acc.cols, ok |-> acc.ok] /\ SameCols(cols, acc.cols)
          /\ \A k \in DOMAIN cols : \A r \in ToSet(cols[k].refs) : r.fgn # fgn.name => r \in ToSet(acc.cols[k].refs)
      BY <1>1, <1>5 DEF DropKept
    <2> DEFINE at == {k \in DOMAIN c.cols : c.cols[k].name = seq[i]}
               p == CHOOSE k \in at : TRUE
               refs == acc.cols[p].refs
               hit == {j \in DOMAIN refs : refs[j].fgn = c.fgn.name}
               h == CHOOSE j \in hit : \A k \in hit : j <= k
               x == [acc EXCEPT !.ok = FALSE]
               v == [acc.cols[p] EXCEPT !.refs = RemoveAt(refs, h)]
               w == [acc.cols EXCEPT ![p] = v]
               y == [acc EXCEPT !.cols = w]
    <2>2. DropRound(c, acc, seq[i]) = IF ~ acc.ok \/ at = {} THEN x ELSE IF hit = {} THEN x ELSE y
      BY Zenon DEF DropRound
    <2>3. DropKept(c, i, x)
      <3>1. x = [cols |-> acc.cols, ok |-> FALSE]
        BY <2>1, Zenon, DropAcc
      <3> HIDE DEF x
      <3>2. x.cols = acc.cols /\ x.ok = FALSE
        BY <3>1
      <3> QED
        BY <1>1, <2>1, <3>1, <3>2 DEF DropKept
    <2>4. ASSUME at # {}, hit # {} PROVE DropKept(c, i, y)
      <3>1. p \in DOMAIN cols /\ p \in DOMAIN acc.cols /\ IsList(acc.cols) /\ IsColumn(acc.cols[p])
        <4>1. p \in at
          <5> HIDE DEF at
          <5> QED
            BY <2>4, Zenon
        <4> HIDE DEF p
        <4> QED
          BY <1>1, <2>1, <4>1 DEF SameCols, ColsOK
      <3> HIDE DEF p
      <3>2. IsList(refs)
        BY <3>1 DEF IsColumn
      <3>3. h \in hit
        <4>1. hit \subseteq Nat
          BY <3>2, ListFacts
        <4> HIDE DEF hit
        <4>2. \E n \in hit : \A k \in hit : n <= k
          BY <2>4, <4>1, KeyRefLoop!NatMin
        <4> QED
          BY <4>2, Zenon
      <3>4. h \in DOMAIN refs /\ refs[h].fgn = fgn.name
        <4> HIDE DEF h
        <4> QED
          BY <1>1, <3>3
      <3> HIDE DEF h
      <3> DEFINE g == RemoveAt(refs, h)
      <3>5. IsList(g) /\ ToSet(refs) \ {refs[h]} \subseteq ToSet(g)
        BY <3>2, <3>4, RemoveElements
      <3> HIDE DEF g
      <3>6. v = [name |-> acc.cols[p].name, refs |-> g, flag |-> acc.cols[p].flag]
        BY <3>1 DEF IsColumn, g
      <3> HIDE DEF v
      <3>7. v.name = acc.cols[p].name /\ v.refs = g /\ v.flag = acc.cols[p].flag /\ IsColumn(v)
        BY <3>5, <3>6 DEF IsColumn
      <3>8. /\ IsList(w) /\ DOMAIN w = DOMAIN acc.cols
            /\ \A k \in DOMAIN acc.cols : w[k] = IF k = p THEN v ELSE acc.cols[k]
        BY <3>1, ReplaceFacts
      <3>9. y = [cols |-> w, ok |-> acc.ok]
        <4> HIDE DEF w
        <4> QED
          BY <2>1, Zenon, DropAcc
      <3> HIDE DEF w, y
      <3>10. y.cols = w /\ y.ok = acc.ok
        BY <3>9
      <3>11. DOMAIN acc.cols = DOMAIN cols /\ ColsOK(acc.cols)
        BY <2>1 DEF SameCols
      <3>12. SameCols(cols, w)
        <4>1. ASSUME NEW k \in DOMAIN cols
              PROVE  /\ IsColumn(w[k]) /\ w[k].name = acc.cols[k].name /\ w[k].flag = acc.cols[k].flag
          <5>1. CASE k = p
            BY <3>7, <3>8, <3>11, <5>1
          <5>2. CASE k # p
            BY <3>8, <3>11, <5>2 DEF ColsOK
          <5> QED
            BY <5>1, <5>2
        <4> QED
          BY <2>1, <3>8, <3>11, <4>1 DEF SameCols, ColsOK
      <3>13. ASSUME NEW k \in DOMAIN cols, NEW r \in ToSet(cols[k].refs), r.fgn # fgn.name
             PROVE  r \in ToSet(w[k].refs)
        <4>1. r \in ToSet(acc.cols[k].refs)
          BY <2>1, <3>13
        <4>2. CASE k = p
          <5>1. r \in ToSet(refs) /\ r # refs[h]
            BY <3>4, <3>13, <4>1, <4>2
          <5> QED
            BY <3>5, <3>7, <3>8, <3>11, <4>2, <5>1
        <4>3. CASE k # p
          BY <3>8, <3>11, <4>1, <4>3
        <4> QED
          BY <4>2, <4>3
      <3> QED
        BY <1>1, <3>9, <3>10, <3>12, <3>13 DEF DropKept
    <2> HIDE DEF at, hit, x, y
    <2> QED
      BY <2>2, <2>3, <2>4
  <1>6. DropKept(c, Len(seq), DropLoop!Fold(c, base, seq))
    <2> HIDE DEF base, seq
    <2> QED
      BY <1>3, <1>4, <1>5, DropLoop!FoldKeeps
  <1> QED
    BY <1>1, <1>2, <1>6 DEF DropKept

\* name<T>::make() finds a name that no entry has.
LEMMA MakeNameFresh ==
  ASSUME NEW list, IsList(list)
  PROVE  \A i \in DOMAIN list : list[i].name # MakeName(list)
  <1> DEFINE n == Len(list)
             Free == {m \in 0..n : \A i \in DOMAIN list : list[i].name # m}
  <1>1. n \in Nat /\ DOMAIN list = 1..n
    BY ListFacts
  <1> HIDE DEF n
  <1>2. Free # {}
    <2> SUFFICES ASSUME Free = {} PROVE FALSE
      OBVIOUS
    <2>1. \A m \in 0..n : \E i \in 1..n : list[i].name = m
      BY <1>1
    <2> DEFINE f == [m \in 0..n |-> CHOOSE i \in 1..n : list[i].name = m]
    <2>2. \A m \in 0..n : f[m] \in 1..n /\ list[f[m]].name = m
      BY <2>1
    <2>3. f \in [0..n -> 1..n]
      BY <2>2
    <2> HIDE DEF f
    <2>4. IsFiniteSet(0..n) /\ IsFiniteSet(1..n) /\ Cardinality(1..n) < Cardinality(0..n)
      <3>1. /\ IsFiniteSet(0..n) /\ Cardinality(0..n) = IF 0 > n THEN 0 ELSE n - 0 + 1
            /\ IsFiniteSet(1..n) /\ Cardinality(1..n) = IF 1 > n THEN 0 ELSE n - 1 + 1
        BY <1>1, FS_Interval
      <3> QED
        BY <1>1, <3>1
    <2>5. \E x, y \in 0..n : x # y /\ f[x] = f[y]
      <3> DEFINE S == 0..n
                 T == 1..n
      <3>1. f \in [S -> T] /\ IsFiniteSet(S) /\ IsFiniteSet(T) /\ Cardinality(T) < Cardinality(S)
        BY <2>3, <2>4
      <3> HIDE DEF S, T
      <3>2. \E x, y \in S : x # y /\ f[x] = f[y]
        BY <3>1, FS_PigeonHole
      <3> QED
        BY <3>2 DEF S
    <2> QED
      BY <2>2, <2>5
  <1>3. PICK m \in Free : \A y \in Free : m <= y
    <2>1. Free \subseteq Nat
      BY <1>1
    <2> HIDE DEF Free
    <2> QED
      BY <1>2, <2>1, KeyRefLoop!NatMin
  <1>4. \A k \in 0..(m - 1) : \E i \in DOMAIN list : list[i].name = k
    <2> SUFFICES ASSUME NEW k \in 0..(m - 1), \A i \in DOMAIN list : list[i].name # k PROVE FALSE
      OBVIOUS
    <2>1. k \in 0..n /\ ~ (m <= k)
      BY <1>1, <1>3
    <2>2. k \in Free
      BY <2>1
    <2> HIDE DEF Free
    <2> QED
      BY <1>3, <2>1, <2>2
  <1>5. \E k \in 0..n : /\ \A i \in DOMAIN list : list[i].name # k
                        /\ \A x \in 0..(k - 1) : \E i \in DOMAIN list : list[i].name = x
    BY <1>3, <1>4
  <1> QED
    BY <1>5, Zenon DEF MakeName, n

-----------------------------------------------------------------------------
(* Altered tables.                                                         *)

OnePK(ndx) == \A i, j \in DOMAIN ndx : ndx[i].name = PK_NDX /\ ndx[j].name = PK_NDX => i = j

KeysOK(fgn) ==
  \A i \in DOMAIN fgn : IsList(fgn[i].cols) /\ \A j \in DOMAIN fgn : fgn[i].name = fgn[j].name => i = j

KeyOK(z) ==
  /\ HasKey(z) => IsList(KeyColumns(z)) /\ KeyColumns(z) # <<>> /\ ToSet(KeyColumns(z)) \subseteq ColumnNames(z)
  /\ ~ HasKey(z) => \A i \in DOMAIN z.cols : "PRIMARY" \notin z.cols[i].flag

\* IsTable in its parts.
LEMMA TableParts ==
  ASSUME NEW z
  PROVE  IsTable(z) <=> ColsOK(z.cols) /\ IsList(z.ndx) /\ OnePK(z.ndx) /\ KeysOK(z.fgn) /\ KeyOK(z)
  BY Zenon DEF IsTable, ColsOK, OnePK, KeysOK, KeyOK

\* A statement other than CREATE TABLE made y of the schema z of a table: its
\* columns and its primary key stay.
Altered(z, y) ==
  /\ IsTable(y) /\ SameCols(z.cols, y.cols)
  /\ HasKey(z) => HasKey(y) /\ KeyColumns(y) = KeyColumns(z)

\* The primary key names the columns that are flagged (see KeyIsFlagged).
FlaggedKey(z) ==
  HasKey(z) /\ \A i \in DOMAIN z.cols :
                 ("PRIMARY" \in z.cols[i].flag) = (z.cols[i].name \in ToSet(KeyColumns(z)))

\* The names of the columns stay.
LEMMA SameColsFacts ==
  ASSUME NEW z, NEW y, SameCols(z.cols, y.cols), ColsOK(z.cols)
  PROVE  ColumnNames(y) = ColumnNames(z) /\ (y.cols = <<>> <=> z.cols = <<>>)
  <1> DEFINE a == z.cols
             b == y.cols
  <1>1. IsList(a) /\ IsList(b) /\ DOMAIN b = DOMAIN a /\ \A k \in DOMAIN a : b[k].name = a[k].name
    BY DEF SameCols, ColsOK
  <1>2. ColumnNames(y) = ColumnNames(z)
    <2>1. ColumnNames(y) = {b[k].name : k \in DOMAIN b} /\ ColumnNames(z) = {a[k].name : k \in DOMAIN a}
      BY DEF ColumnNames
    <2> HIDE DEF a, b
    <2> QED
      BY <1>1, <2>1
  <1>3. b = <<>> <=> a = <<>>
    <2> HIDE DEF a, b
    <2>2. Len(a) \in Nat /\ DOMAIN a = 1..Len(a) /\ (a = <<>> <=> Len(a) = 0)
      BY <1>1, ListFacts
    <2>3. Len(b) \in Nat /\ DOMAIN b = 1..Len(b) /\ (b = <<>> <=> Len(b) = 0)
      BY <1>1, ListFacts
    <2>4. ASSUME NEW m \in Nat, NEW n \in Nat, 1..m = 1..n PROVE m = 0 <=> n = 0
      BY <2>4
    <2>5. Len(a) = 0 <=> Len(b) = 0
      BY <1>1, <2>2, <2>3, <2>4
    <2> QED
      BY <2>2, <2>3, <2>5, Zenon
  <1> QED
    BY <1>2, <1>3

\* An altered table has its columns; if its key is flagged now, it was before.
LEMMA AlteredFacts ==
  ASSUME NEW z, IsTable(z), NEW y, Altered(z, y)
  PROVE  /\ ColumnNames(y) = ColumnNames(z) /\ (y.cols = <<>> <=> z.cols = <<>>)
         /\ FlaggedKey(y) => FlaggedKey(z) /\ KeyColumns(y) = KeyColumns(z)
  <1>0. /\ ColsOK(z.cols) /\ ColsOK(y.cols) /\ SameCols(z.cols, y.cols) /\ KeyOK(z) /\ KeyOK(y)
        /\ HasKey(z) => HasKey(y) /\ KeyColumns(y) = KeyColumns(z)
    BY TableParts DEF Altered
  <1>1. ColumnNames(y) = ColumnNames(z) /\ (y.cols = <<>> <=> z.cols = <<>>)
    BY <1>0, SameColsFacts
  <1>2. /\ DOMAIN y.cols = DOMAIN z.cols
        /\ \A k \in DOMAIN z.cols : /\ y.cols[k].name = z.cols[k].name
                                    /\ "PRIMARY" \in y.cols[k].flag <=> "PRIMARY" \in z.cols[k].flag
    BY <1>0 DEF SameCols
  <1>3. ASSUME FlaggedKey(y), HasKey(z) PROVE FlaggedKey(z) /\ KeyColumns(y) = KeyColumns(z)
    <2>1. KeyColumns(y) = KeyColumns(z)
      BY <1>0, <1>3
    <2>2. ASSUME NEW k \in DOMAIN z.cols
          PROVE  ("PRIMARY" \in z.cols[k].flag) = (z.cols[k].name \in ToSet(KeyColumns(z)))
      <3>1. ("PRIMARY" \in y.cols[k].flag) = (y.cols[k].name \in ToSet(KeyColumns(y)))
        BY <1>2, <1>3, Zenon DEF FlaggedKey
      <3> QED
        BY <1>2, <2>1, <3>1
    <2> QED
      BY <1>3, <2>1, <2>2, Zenon DEF FlaggedKey
  <1>4. ASSUME FlaggedKey(y), ~ HasKey(z) PROVE FALSE
    <2> DEFINE K == KeyColumns(y)
    <2>1. IsList(K) /\ K # <<>> /\ ToSet(K) \subseteq ColumnNames(y)
      BY <1>0, <1>4 DEF KeyOK, FlaggedKey
    <2>2. K[1] \in ToSet(K)
      <3> HIDE DEF K
      <3>1. Len(K) \in Nat /\ DOMAIN K = 1..Len(K) /\ Len(K) # 0
        BY <2>1, ListFacts
      <3> QED
        BY <3>1 DEF ToSet
    <2>3. PICK k \in DOMAIN y.cols : y.cols[k].name = K[1]
      BY <2>1, <2>2 DEF ColumnNames
    <2>4. "PRIMARY" \notin y.cols[k].flag
      BY <1>0, <1>2, <1>4 DEF KeyOK
    <2>5. ("PRIMARY" \in y.cols[k].flag) = (y.cols[k].name \in ToSet(K))
      BY <1>4 DEF FlaggedKey
    <2> QED
      BY <2>2, <2>3, <2>4, <2>5
  <1> QED
    BY <1>1, <1>3, <1>4

\* The indexes stay.
LEMMA AlterColumns ==
  ASSUME NEW z, IsTable(z), NEW y, y.ndx = z.ndx, SameCols(z.cols, y.cols), KeysOK(y.fgn)
  PROVE  Altered(z, y)
  <1>0. ColsOK(z.cols) /\ IsList(z.ndx) /\ OnePK(z.ndx) /\ KeyOK(z)
    BY TableParts
  <1>1. (HasKey(y) <=> HasKey(z)) /\ KeyColumns(y) = KeyColumns(z)
    BY DEF HasKey, KeyColumns
  <1>2. ColumnNames(y) = ColumnNames(z) /\ ColsOK(y.cols)
    BY <1>0, SameColsFacts DEF SameCols
  <1>3. KeyOK(y)
    BY <1>0, <1>1, <1>2 DEF KeyOK, SameCols
  <1>4. IsTable(y)
    BY <1>0, <1>2, <1>3, TableParts
  <1> QED
    BY <1>1, <1>4 DEF Altered

\* ALTER TABLE ADD INDEX.
LEMMA AlterAddIndex ==
  ASSUME NEW z, IsTable(z), NEW y, y.fgn = z.fgn, SameCols(z.cols, y.cols), NEW x, IsList(x), x # <<>>,
         ToSet(x) \subseteq ColumnNames(z), NEW n, n.name = MakeName(z.ndx), n.cols = x,
         y.ndx = Append(z.ndx, n)
  PROVE  Altered(z, y)
  <1>0. ColsOK(z.cols) /\ IsList(z.ndx) /\ OnePK(z.ndx) /\ KeyOK(z) /\ KeysOK(z.fgn)
    BY TableParts
  <1> DEFINE a == z.ndx
             b == y.ndx
  <1>1. Len(a) \in Nat /\ DOMAIN a = 1..Len(a)
    BY <1>0, ListFacts
  <1>2. /\ IsList(b) /\ DOMAIN b = 1..(Len(a) + 1)
        /\ \A i \in DOMAIN a : b[i] = a[i]
        /\ b[Len(a) + 1] = n
    BY <1>0, AppendFacts
  <1>3. \A i \in DOMAIN a : a[i].name # n.name
    BY <1>0, MakeNameFresh
  <1>4. DOMAIN a \subseteq DOMAIN b /\ Len(a) + 1 \in DOMAIN b /\ \A i \in DOMAIN b : i \in DOMAIN a \/ i = Len(a) + 1
    BY <1>1, <1>2
  <1>5. ASSUME NEW i \in DOMAIN b, NEW j \in DOMAIN b, b[i].name = PK_NDX, b[j].name = PK_NDX PROVE i = j
    <2> HIDE DEF a, b
    <2>1. OnePK(a)
      BY <1>0 DEF a
    <2> QED
      BY <1>2, <1>3, <1>4, <1>5, <2>1 DEF OnePK
  <1>6. OnePK(b)
    BY <1>5 DEF OnePK
  <1>7. ASSUME NEW i \in DOMAIN b, b[i].name = PK_NDX PROVE HasKey(y) /\ KeyColumns(y) = b[i].cols
    <2>1. HasKey(y)
      BY <1>7 DEF HasKey
    <2> DEFINE k == CHOOSE j \in DOMAIN b : b[j].name = PK_NDX
    <2>2. k \in DOMAIN b /\ b[k].name = PK_NDX
      BY <1>7, Zenon
    <2>3. k = i
      <3> HIDE DEF k
      <3> QED
        BY <1>5, <1>7, <2>2
    <2> QED
      BY <2>1, <2>3 DEF KeyColumns
  <1>8. ASSUME HasKey(z) PROVE HasKey(y) /\ KeyColumns(y) = KeyColumns(z)
    <2> DEFINE i == CHOOSE j \in DOMAIN a : a[j].name = PK_NDX
    <2>1. i \in DOMAIN a /\ a[i].name = PK_NDX
      BY <1>8, Zenon DEF HasKey
    <2>2. KeyColumns(z) = a[i].cols
      BY DEF KeyColumns
    <2> HIDE DEF i
    <2>3. i \in DOMAIN b /\ b[i] = a[i]
      BY <1>2, <1>4, <2>1
    <2> QED
      BY <1>7, <2>1, <2>2, <2>3
  <1>9. ASSUME HasKey(y), ~ HasKey(z) PROVE KeyColumns(y) = x
    <2>1. PICK i \in DOMAIN b : b[i].name = PK_NDX
      BY <1>9 DEF HasKey
    <2>2. i = Len(a) + 1
      BY <1>2, <1>4, <1>9, <2>1 DEF HasKey
    <2> QED
      BY <1>2, <1>7, <2>1, <2>2
  <1>10. ColumnNames(y) = ColumnNames(z) /\ ColsOK(y.cols)
    BY <1>0, SameColsFacts DEF SameCols
  <1>11. KeyOK(y)
    <2>1. ASSUME HasKey(y) PROVE IsList(KeyColumns(y)) /\ KeyColumns(y) # <<>> /\ ToSet(KeyColumns(y)) \subseteq ColumnNames(y)
      <3>1. CASE HasKey(z)
        BY <1>0, <1>8, <1>10, <3>1 DEF KeyOK
      <3>2. CASE ~ HasKey(z)
        BY <1>9, <1>10, <2>1, <3>2
      <3> QED
        BY <3>1, <3>2
    <2>2. ASSUME ~ HasKey(y) PROVE \A i \in DOMAIN y.cols : "PRIMARY" \notin y.cols[i].flag
      <3>1. ~ HasKey(z)
        BY <1>8, <2>2
      <3> QED
        BY <1>0, <3>1 DEF KeyOK, SameCols
    <2> QED
      BY <2>1, <2>2 DEF KeyOK
  <1>12. IsTable(y)
    BY <1>0, <1>2, <1>6, <1>10, <1>11, TableParts
  <1> QED
    BY <1>8, <1>12 DEF Altered

\* ALTER TABLE DROP INDEX.
LEMMA AlterDropIndex ==
  ASSUME NEW z, IsTable(z), NEW y, y.fgn = z.fgn, y.cols = z.cols, NEW d \in DOMAIN z.ndx,
         z.ndx[d].name # PK_NDX, y.ndx = RemoveAt(z.ndx, d)
  PROVE  Altered(z, y)
  <1>0. ColsOK(z.cols) /\ IsList(z.ndx) /\ OnePK(z.ndx) /\ KeyOK(z) /\ KeysOK(z.fgn)
    BY TableParts
  <1> DEFINE a == z.ndx
             b == y.ndx
             f(i) == IF i < d THEN i ELSE i + 1
             g(i) == IF i < d THEN i ELSE i - 1
  <1>1. Len(a) \in Nat /\ DOMAIN a = 1..Len(a)
    BY <1>0, ListFacts
  <1>2. /\ IsList(b) /\ DOMAIN b = 1..(Len(a) - 1)
        /\ \A i \in DOMAIN b : b[i] = a[f(i)]
    BY <1>0, RemoveFacts
  <1>3. d \in DOMAIN a /\ a[d].name # PK_NDX /\ OnePK(a)
    BY <1>0
  <1> HIDE DEF a, b
  <1>4. /\ \A i \in DOMAIN b : f(i) \in DOMAIN a
        /\ \A i, j \in DOMAIN b : f(i) = f(j) => i = j
        /\ \A i \in DOMAIN a : i # d => g(i) \in DOMAIN b /\ f(g(i)) = i
    BY <1>1, <1>2, <1>3
  <1> HIDE DEF f, g
  <1>5. OnePK(b)
    BY <1>2, <1>3, <1>4 DEF OnePK
  <1>6. ASSUME NEW i \in DOMAIN b, b[i].name = PK_NDX PROVE HasKey(y) /\ KeyColumns(y) = b[i].cols
    <2>1. HasKey(y)
      BY <1>6 DEF HasKey, b
    <2> DEFINE k == CHOOSE j \in DOMAIN b : b[j].name = PK_NDX
    <2>2. k \in DOMAIN b /\ b[k].name = PK_NDX
      BY <1>6, Zenon
    <2>3. k = i
      <3> HIDE DEF k
      <3> QED
        BY <1>5, <1>6, <2>2 DEF OnePK
    <2> QED
      BY <2>1, <2>3 DEF KeyColumns, b
  <1>7. ASSUME HasKey(z) PROVE HasKey(y) /\ KeyColumns(y) = KeyColumns(z)
    <2> DEFINE i == CHOOSE j \in DOMAIN a : a[j].name = PK_NDX
    <2>1. i \in DOMAIN a /\ a[i].name = PK_NDX
      BY <1>7, Zenon DEF HasKey, a
    <2>2. KeyColumns(z) = a[i].cols
      BY DEF KeyColumns, a
    <2> HIDE DEF i
    <2>3. i # d
      BY <1>3, <2>1
    <2>4. g(i) \in DOMAIN b /\ b[g(i)] = a[i]
      BY <1>2, <1>4, <2>1, <2>3
    <2> QED
      BY <1>6, <2>1, <2>2, <2>4
  <1>8. ASSUME HasKey(y) PROVE HasKey(z)
    <2>1. PICK i \in DOMAIN b : b[i].name = PK_NDX
      BY <1>8 DEF HasKey, b
    <2>2. f(i) \in DOMAIN a /\ a[f(i)].name = PK_NDX
      BY <1>2, <1>4, <2>1
    <2> QED
      BY <2>2 DEF HasKey, a
  <1>9. ColumnNames(y) = ColumnNames(z)
    BY DEF ColumnNames
  <1>10. KeyOK(y)
    BY <1>0, <1>7, <1>8, <1>9 DEF KeyOK
  <1>11. IsTable(y)
    BY <1>0, <1>2, <1>5, <1>10, TableParts DEF b
  <1>12. SameCols(z.cols, y.cols)
    BY <1>0 DEF SameCols
  <1> QED
    BY <1>7, <1>11, <1>12 DEF Altered

\* The tables that have a schema: the schema manager keeps those of dropped ones.
Known == {t \in Names : sch[t].cols # <<>>}

TablesOK ==
  \A t \in Names : /\ IsTable(sch[t])
                   /\ t \in Known => ColumnNames(sch[t]) \in ColumnSets(t)
                   /\ \A i \in DOMAIN sch[t].fgn : sch[t].fgn[i].tbl \in Known

\* What an ALTER TABLE of session s may make of the schemas: a key is an old one,
\* known to its table as before if it is a key of the altered table, or new.
AlterStep(s, z) ==
  /\ \A t \in Names : Altered(sch[t], z[t])
  /\ \A t \in Names : \A f \in ToSet(z[t].fgn) :
       \/ f \in ToSet(sch[t].fgn) /\ (t = ses[s].st.tbl /\ KnowsOf(sch[f.tbl], t, f) => KnowsOf(z[f.tbl], t, f))
       \/ f.tbl \in Known /\ KnowsOf(z[f.tbl], t, f)

\* Nothing is altered.
LEMMA AlterSame ==
  ASSUME NEW s, TablesOK
  PROVE  AlterStep(s, sch)
  <1>1. ASSUME NEW t \in Names PROVE Altered(sch[t], sch[t])
    <2>1. IsTable(sch[t]) /\ ColsOK(sch[t].cols)
      BY TableParts DEF TablesOK
    <2> QED
      BY <2>1 DEF Altered, SameCols
  <1> QED
    BY <1>1 DEF AlterStep

\* Table t gets a list of keys, table p columns.
TwoTables(t, p, g, x) == [[sch EXCEPT ![t].fgn = g] EXCEPT ![p].cols = x]

LEMMA TwoTablesFacts ==
  ASSUME SchemasOK(sch), NEW t \in Names, NEW p \in Names, NEW g, NEW x, NEW u \in Names
  PROVE  LET y == TwoTables(t, p, g, x)
         IN  /\ y[u].ndx = sch[u].ndx
             /\ y[u].fgn = (IF u = t THEN g ELSE sch[u].fgn)
             /\ y[u].cols = (IF u = p THEN x ELSE sch[u].cols)
  <1> DEFINE y == TwoTables(t, p, g, x)
             c == [sch EXCEPT ![t] = [sch[t] EXCEPT !.fgn = g]]
  <1>1. sch = [v \in Names |-> sch[v]] /\ \A v \in Names : sch[v] = [cols |-> sch[v].cols, ndx |-> sch[v].ndx, fgn |-> sch[v].fgn]
    BY DEF SchemasOK, IsSchema
  <1>2. c = [v \in Names |-> IF v = t THEN [sch[t] EXCEPT !.fgn = g] ELSE sch[v]]
    BY <1>1, Zenon
  <1>3. \A v \in Names : c[v] = [cols |-> sch[v].cols, ndx |-> sch[v].ndx, fgn |-> IF v = t THEN g ELSE sch[v].fgn]
    BY <1>1, <1>2
  <1>4. y = [c EXCEPT ![p] = [c[p] EXCEPT !.cols = x]]
    BY Zenon DEF TwoTables
  <1> HIDE DEF c
  <1>5. y[u] = IF u = p THEN [c[p] EXCEPT !.cols = x] ELSE c[u]
    BY <1>2, <1>4
  <1>6. y[u] = [cols |-> IF u = p THEN x ELSE sch[u].cols, ndx |-> sch[u].ndx, fgn |-> IF u = t THEN g ELSE sch[u].fgn]
    <2> DEFINE G(v) == IF v = t THEN g ELSE sch[v].fgn
    <2>1. c[p] = [cols |-> sch[p].cols, ndx |-> sch[p].ndx, fgn |-> G(p)]
      BY <1>3
    <2>2. c[u] = [cols |-> sch[u].cols, ndx |-> sch[u].ndx, fgn |-> G(u)]
      BY <1>3
    <2> HIDE DEF G, y
    <2>3. [c[p] EXCEPT !.cols = x] = [cols |-> x, ndx |-> sch[p].ndx, fgn |-> G(p)]
      BY <2>1
    <2>4. CASE u = p
      <3>1. y[u] = [cols |-> x, ndx |-> sch[u].ndx, fgn |-> G(u)]
        BY <1>5, <2>3, <2>4
      <3> QED
        BY <2>4, <3>1 DEF G
    <2>5. CASE u # p
      <3>1. y[u] = [cols |-> sch[u].cols, ndx |-> sch[u].ndx, fgn |-> G(u)]
        BY <1>5, <2>2, <2>5
      <3> QED
        BY <2>5, <3>1 DEF G
    <2> QED
      BY <2>4, <2>5
  <1> HIDE DEF y
  <1>7. /\ y[u].ndx = sch[u].ndx
        /\ y[u].fgn = (IF u = t THEN g ELSE sch[u].fgn)
        /\ y[u].cols = (IF u = p THEN x ELSE sch[u].cols)
    BY <1>6
  <1> QED
    BY <1>7 DEF y

\* A key with a fresh name is added to the keys of a table; a key is erased.
LEMMA KeysAppend ==
  ASSUME NEW fgn, IsList(fgn), KeysOK(fgn), NEW f, f.name = MakeName(fgn), IsList(f.cols)
  PROVE  KeysOK(Append(fgn, f)) /\ ToSet(Append(fgn, f)) = ToSet(fgn) \cup {f}
  <1> DEFINE g == Append(fgn, f)
  <1>1. Len(fgn) \in Nat /\ DOMAIN fgn = 1..Len(fgn)
    BY ListFacts
  <1>2. /\ \A i \in DOMAIN fgn : g[i] = fgn[i]
        /\ g[Len(fgn) + 1] = f /\ DOMAIN g = 1..(Len(fgn) + 1) /\ ToSet(g) = ToSet(fgn) \cup {f}
    BY AppendFacts
  <1>3. \A i \in DOMAIN fgn : fgn[i].name # f.name
    BY MakeNameFresh
  <1>4. \A i \in DOMAIN g : i \in DOMAIN fgn \/ i = Len(fgn) + 1
    BY <1>1, <1>2
  <1> HIDE DEF g
  <1>5. KeysOK(g)
    BY <1>2, <1>3, <1>4 DEF KeysOK
  <1> QED
    BY <1>2, <1>5 DEF g

LEMMA KeysRemove ==
  ASSUME NEW fgn, IsList(fgn), KeysOK(fgn), NEW k \in DOMAIN fgn
  PROVE  LET g == RemoveAt(fgn, k)
         IN  KeysOK(g) /\ \A f \in ToSet(g) : f \in ToSet(fgn) /\ f.name # fgn[k].name
  <1> DEFINE g == RemoveAt(fgn, k)
             m(i) == IF i < k THEN i ELSE i + 1
  <1>1. Len(fgn) \in Nat /\ DOMAIN fgn = 1..Len(fgn)
    BY ListFacts
  <1>2. DOMAIN g = 1..(Len(fgn) - 1) /\ \A i \in DOMAIN g : g[i] = fgn[m(i)]
    BY RemoveFacts
  <1> HIDE DEF g
  <1>3. \A i \in DOMAIN g : m(i) \in DOMAIN fgn /\ m(i) # k /\ \A j \in DOMAIN g : m(i) = m(j) => i = j
    BY <1>1, <1>2
  <1> HIDE DEF m
  <1>4. KeysOK(g)
    BY <1>2, <1>3 DEF KeysOK
  <1>5. \A f \in ToSet(g) : f \in ToSet(fgn) /\ f.name # fgn[k].name
    BY <1>2, <1>3 DEF KeysOK, ToSet
  <1> QED
    BY <1>4, <1>5 DEF g

\* A table with a primary key has columns.
LEMMA KeyedKnown ==
  ASSUME TablesOK, NEW t \in Names, HasKey(sch[t])
  PROVE  t \in Known /\ ToSet(KeyColumns(sch[t])) \subseteq ColumnNames(sch[t])
  <1>1. KeyOK(sch[t])
    BY TableParts DEF TablesOK
  <1> DEFINE K == KeyColumns(sch[t])
  <1>2. IsList(K) /\ K # <<>> /\ ToSet(K) \subseteq ColumnNames(sch[t])
    BY <1>1 DEF KeyOK
  <1>3. K[1] \in ToSet(K)
    <2> HIDE DEF K
    <2>1. Len(K) \in Nat /\ DOMAIN K = 1..Len(K) /\ Len(K) # 0
      BY <1>2, ListFacts
    <2> QED
      BY <2>1 DEF ToSet
  <1>4. sch[t].cols # <<>>
    BY <1>2, <1>3, EmptyIsList DEF ColumnNames
  <1> QED
    BY <1>2, <1>4 DEF Known

\* ADD FOREIGN KEY: the new key is known to its table, and the old ones stay known.
LEMMA AddKeyAlter ==
  ASSUME SchemasOK(sch), TablesOK, NEW s, NEW st \in Statements, ses[s].st = st, st.op = "add_fk",
         st.tbl \in Names, st.to \in Names,
         HasKey(sch[st.to]), ToSet(st.fcols) \subseteq ToSet(KeyColumns(sch[st.to]))
  PROVE  AlterStep(s, AddForeignKey(sch, st, MakeName(sch[st.tbl].fgn)))
  <1> DEFINE t == st.tbl
             p == st.to
             fgn == sch[t].fgn
             name == MakeName(fgn)
             f == [name |-> name, tbl |-> p, cols |-> st.cols]
             g == Append(fgn, f)
             x == KeyRefs(sch, st, name, sch[p].cols)
             y == TwoTables(t, p, g, x)
  <1>1. AddForeignKey(sch, st, name) = y
    <2> DEFINE child == [sch EXCEPT ![st.tbl].fgn = g]
    <2>1. AddForeignKey(sch, st, name) = TwoTables(t, p, g, KeyRefs(sch, st, name, child[st.to].cols))
      BY Zenon DEF AddForeignKey, TwoTables, KeyRefs
    <2>2. child[st.to].cols = sch[st.to].cols
      BY DEF SchemasOK, IsSchema
    <2> QED
      BY <2>1, <2>2, Zenon
  <1>2. /\ IsTable(sch[p]) /\ KeyOK(sch[p]) /\ ColsOK(sch[p].cols) /\ ToSet(KeyColumns(sch[p])) \subseteq ColumnNames(sch[p])
        /\ IsList(st.cols) /\ IsList(st.fcols) /\ st.fcols # <<>>
    BY TableParts, StatementsAssumption DEF TablesOK, KeyOK
  <1>3. IsList(fgn) /\ KeysOK(fgn)
    BY TableParts DEF TablesOK, SchemasOK, IsSchema
  <1>4. Grown(sch[p].cols, x) /\ HasRef(x, t, name)
    BY <1>2, KeyRefsFacts
  <1>5. f.name = name /\ f.tbl = p /\ f.cols = st.cols
    OBVIOUS
  <1> HIDE DEF x, f
  <1>6. KeysOK(g) /\ ToSet(g) = ToSet(fgn) \cup {f}
    BY <1>2, <1>3, <1>5, KeysAppend
  <1> HIDE DEF g
  <1>7. \A u \in Names : /\ y[u].ndx = sch[u].ndx
                         /\ y[u].fgn = (IF u = t THEN g ELSE sch[u].fgn)
                         /\ y[u].cols = (IF u = p THEN x ELSE sch[u].cols)
    BY TwoTablesFacts
  <1> HIDE DEF y
  <1>8. p \in Known
    BY KeyedKnown
  <1>9. ASSUME NEW u \in Names PROVE Altered(sch[u], y[u]) /\ Grown(sch[u].cols, y[u].cols)
    <2>1. IsTable(sch[u]) /\ ColsOK(sch[u].cols) /\ KeysOK(sch[u].fgn)
      BY TableParts DEF TablesOK
    <2>2. Grown(sch[u].cols, y[u].cols)
      BY <1>4, <1>7, <2>1, GrownFacts
    <2>3. KeysOK(y[u].fgn)
      BY <1>6, <1>7, <2>1
    <2> QED
      BY <1>7, <2>1, <2>2, <2>3, AlterColumns DEF Grown
  <1>10. ASSUME NEW u \in Names, NEW h \in ToSet(y[u].fgn)
         PROVE  \/ h \in ToSet(sch[u].fgn) /\ (u = ses[s].st.tbl /\ KnowsOf(sch[h.tbl], u, h) => KnowsOf(y[h.tbl], u, h))
                \/ h.tbl \in Known /\ KnowsOf(y[h.tbl], u, h)
    <2>1. CASE h \in ToSet(sch[u].fgn)
      <3>1. h.tbl \in Names
        BY <2>1 DEF SchemasOK, ToSet
      <3>2. ColsOK(sch[h.tbl].cols)
        BY <3>1, TableParts DEF TablesOK
      <3>3. KnowsOf(sch[h.tbl], u, h) => KnowsOf(y[h.tbl], u, h)
        BY <1>9, <3>1, <3>2, GrownFacts, KnowsIsRef
      <3> QED
        BY <2>1, <3>3
    <2>2. CASE h \notin ToSet(sch[u].fgn)
      <3>1. u = t /\ h = f
        BY <1>6, <1>7, <1>10, <2>2
      <3>2. y[p].cols = x
        BY <1>7
      <3> QED
        BY <1>4, <1>5, <1>8, <3>1, <3>2, KnowsIsRef
    <2> QED
      BY <2>1, <2>2
  <1>11. AlterStep(s, y)
    BY <1>9, <1>10 DEF AlterStep
  <1> QED
    BY <1>1, <1>11

\* DROP FOREIGN KEY: the keys of the altered table that stay have other names.
LEMMA DropKeyAlter ==
  ASSUME SchemasOK(sch), TablesOK, NEW s, NEW t \in Names, ses[s].st.tbl = t, NEW i \in DOMAIN sch[t].fgn
  PROVE  AlterStep(s, WithoutKey(t, i, DropRefs(sch[sch[t].fgn[i].tbl].cols, sch[t].fgn[i]).cols))
  <1> DEFINE f == sch[t].fgn[i]
             p == f.tbl
             g == RemoveAt(sch[t].fgn, i)
             x == DropRefs(sch[p].cols, f).cols
             y == TwoTables(t, p, g, x)
  <1>1. WithoutKey(t, i, x) = y
    BY Zenon DEF WithoutKey, TwoTables
  <1>2. IsList(sch[t].fgn) /\ KeysOK(sch[t].fgn) /\ p \in Names
    BY TableParts DEF TablesOK, SchemasOK, IsSchema
  <1>3. ColsOK(sch[p].cols) /\ IsList(f.cols)
    BY <1>2, TableParts DEF TablesOK, KeysOK
  <1>4. /\ SameCols(sch[p].cols, x)
        /\ \A k \in DOMAIN sch[p].cols : \A r \in ToSet(sch[p].cols[k].refs) : r.fgn # f.name => r \in ToSet(x[k].refs)
    BY <1>3, DropRefsFacts, Zenon
  <1> HIDE DEF x
  <1>5. KeysOK(g) /\ \A h \in ToSet(g) : h \in ToSet(sch[t].fgn) /\ h.name # f.name
    BY <1>2, KeysRemove
  <1> HIDE DEF g
  <1>6. \A u \in Names : /\ y[u].ndx = sch[u].ndx
                         /\ y[u].fgn = (IF u = t THEN g ELSE sch[u].fgn)
                         /\ y[u].cols = (IF u = p THEN x ELSE sch[u].cols)
    BY <1>2, TwoTablesFacts
  <1> HIDE DEF y, f
  <1>7. ASSUME NEW u \in Names PROVE Altered(sch[u], y[u])
    <2>1. IsTable(sch[u]) /\ ColsOK(sch[u].cols) /\ KeysOK(sch[u].fgn)
      BY TableParts DEF TablesOK
    <2>2. SameCols(sch[u].cols, y[u].cols)
      <3>1. SameCols(sch[u].cols, sch[u].cols)
        BY <2>1 DEF SameCols
      <3> QED
        BY <1>4, <1>6, <3>1
    <2>3. KeysOK(y[u].fgn)
      BY <1>5, <1>6, <2>1
    <2> QED
      BY <1>6, <2>1, <2>2, <2>3, AlterColumns
  <1>8. ASSUME NEW u \in Names, NEW h \in ToSet(y[u].fgn)
        PROVE  h \in ToSet(sch[u].fgn) /\ (u = t /\ KnowsOf(sch[h.tbl], u, h) => KnowsOf(y[h.tbl], u, h))
    <2>1. h \in ToSet(sch[u].fgn) /\ (u = t => h.name # f.name)
      BY <1>5, <1>6, <1>8
    <2>2. h.tbl \in Names
      BY <2>1 DEF SchemasOK, ToSet
    <2>3. ASSUME u = t, HasRef(sch[h.tbl].cols, u, h.name) PROVE HasRef(y[h.tbl].cols, u, h.name)
      <3>1. CASE h.tbl # p
        BY <1>6, <2>2, <2>3, <3>1
      <3>2. CASE h.tbl = p
        <4>0. PICK k \in DOMAIN sch[p].cols : \E r \in ToSet(sch[p].cols[k].refs) : r.tbl = u /\ r.fgn = h.name
          BY <2>3, <3>2 DEF HasRef
        <4>1. PICK r \in ToSet(sch[p].cols[k].refs) : r.tbl = u /\ r.fgn = h.name
          BY <4>0
        <4>2. r \in ToSet(x[k].refs) /\ k \in DOMAIN x
          BY <1>4, <2>1, <2>3, <4>1 DEF SameCols
        <4>3. y[p].cols = x
          BY <1>2, <1>6
        <4> QED
          BY <3>2, <4>1, <4>2, <4>3 DEF HasRef
      <3> QED
        BY <3>1, <3>2
    <2> QED
      BY <2>1, <2>3, KnowsIsRef
  <1>9. AlterStep(s, y)
    BY <1>7, <1>8 DEF AlterStep
  <1> QED
    BY <1>1, <1>9 DEF x, f

\* ADD INDEX flags columns, and changes nothing else of them.
LEMMA FlagKnownFacts ==
  ASSUME NEW z, IsSchema(z), ColsOK(z.cols), NEW names
  PROVE  LET y == FlagKnown(z, names)
         IN  /\ IsSchema(y) /\ y.ndx = z.ndx /\ y.fgn = z.fgn /\ SameCols(z.cols, y.cols)
             /\ \A k \in DOMAIN z.cols : y.cols[k].refs = z.cols[k].refs
  <1> DEFINE N == ToSet(SubSeq(names, 1, CHOOSE k \in {n \in 0..Len(names) : ToSet(SubSeq(names, 1, n)) \subseteq ColumnNames(z)} :
                      \A m \in {n \in 0..Len(names) : ToSet(SubSeq(names, 1, n)) \subseteq ColumnNames(z)} : m <= k))
             F == {"NOT_NULL", "MULTIPLE"}
             C(i) == IF z.cols[i].name \in N THEN Flagged(z.cols[i], F) ELSE z.cols[i]
             x == [i \in DOMAIN z.cols |-> C(i)]
             y == [z EXCEPT !.cols = x]
  <1>1. FlagKnown(z, names) = y
    BY Zenon DEF FlagKnown
  <1> HIDE DEF N
  <1>2. ASSUME NEW i \in DOMAIN z.cols
        PROVE  /\ IsColumn(C(i)) /\ C(i).name = z.cols[i].name /\ C(i).refs = z.cols[i].refs
               /\ "PRIMARY" \in C(i).flag <=> "PRIMARY" \in z.cols[i].flag
    <2> DEFINE c == z.cols[i]
    <2>1. c = [name |-> c.name, refs |-> c.refs, flag |-> c.flag] /\ IsList(c.refs)
      BY DEF ColsOK, IsColumn
    <2> HIDE DEF c
    <2> DEFINE d == Flagged(c, F)
    <2>2. d = [name |-> c.name, refs |-> c.refs, flag |-> c.flag \cup F]
      BY <2>1 DEF Flagged
    <2>3. "PRIMARY" \notin F
      OBVIOUS
    <2> HIDE DEF d, F
    <2>4. d.name = c.name /\ d.refs = c.refs /\ d.flag = c.flag \cup F /\ IsColumn(d)
      BY <2>1, <2>2 DEF IsColumn
    <2>5. IsColumn(c)
      BY <2>1 DEF IsColumn
    <2> QED
      BY <2>3, <2>4, <2>5 DEF c, d
  <1> HIDE DEF C
  <1>3. IsList(x) /\ DOMAIN x = DOMAIN z.cols /\ \A i \in DOMAIN z.cols : x[i] = C(i)
    <2>1. Len(z.cols) \in Nat /\ DOMAIN z.cols = 1..Len(z.cols)
      BY ListFacts DEF ColsOK
    <2>2. DOMAIN x = DOMAIN z.cols /\ \A i \in DOMAIN z.cols : x[i] = C(i)
      OBVIOUS
    <2>3. x = [i \in 1..Len(z.cols) |-> C(i)]
      BY <2>1
    <2> DEFINE S == {C(i) : i \in 1..Len(z.cols)}
    <2>4. x \in Seq(S)
      <3>1. \A i \in 1..Len(z.cols) : C(i) \in S
        OBVIOUS
      <3> HIDE DEF S, x
      <3> QED
        BY <2>1, <2>3, <3>1, IsASeq
    <2> QED
      BY <2>2, <2>4, SeqIsList
  <1> HIDE DEF x
  <1>4. y = [cols |-> x, ndx |-> z.ndx, fgn |-> z.fgn]
    BY DEF IsSchema
  <1> HIDE DEF y
  <1>5. y.cols = x /\ y.ndx = z.ndx /\ y.fgn = z.fgn /\ IsSchema(y)
    BY <1>4 DEF IsSchema
  <1>6. SameCols(z.cols, x)
    BY <1>2, <1>3 DEF SameCols, ColsOK
  <1> QED
    BY <1>1, <1>2, <1>3, <1>5, <1>6

\* Only table t is altered, and its foreign keys and references stay.
LEMMA OneAlter ==
  ASSUME SchemasOK(sch), TablesOK, NEW s, NEW t \in Names, NEW r, Altered(sch[t], r), r.fgn = sch[t].fgn,
         \A k \in DOMAIN sch[t].cols : r.cols[k].refs = sch[t].cols[k].refs
  PROVE  AlterStep(s, [sch EXCEPT ![t] = r])
  <1> DEFINE y == [sch EXCEPT ![t] = r]
  <1>1. y[t] = r /\ \A u \in Names : u # t => y[u] = sch[u]
    BY DEF SchemasOK
  <1> HIDE DEF y
  <1>2. ASSUME NEW u \in Names
        PROVE  /\ Altered(sch[u], y[u]) /\ y[u].fgn = sch[u].fgn
               /\ \A v, n : HasRef(sch[u].cols, v, n) => HasRef(y[u].cols, v, n)
    <2>1. CASE u = t
      <3>1. DOMAIN r.cols = DOMAIN sch[t].cols
        BY DEF Altered, SameCols
      <3> QED
        BY <1>1, <2>1, <3>1 DEF HasRef
    <2>2. CASE u # t
      <3>1. AlterStep(s, sch)
        BY AlterSame
      <3> QED
        BY <1>1, <2>2, <3>1 DEF AlterStep
    <2> QED
      BY <2>1, <2>2
  <1>3. ASSUME NEW u \in Names, NEW h \in ToSet(y[u].fgn)
        PROVE  h \in ToSet(sch[u].fgn) /\ (KnowsOf(sch[h.tbl], u, h) => KnowsOf(y[h.tbl], u, h))
    <2>1. h \in ToSet(sch[u].fgn)
      BY <1>2
    <2>2. h.tbl \in Names
      BY <2>1 DEF SchemasOK, ToSet
    <2> QED
      BY <1>2, <2>1, <2>2, KnowsIsRef
  <1>4. AlterStep(s, y)
    BY <1>2, <1>3 DEF AlterStep
  <1> QED
    BY <1>4 DEF y

LEMMA NdxReplaced ==
  ASSUME NEW z, IsSchema(z), NEW x
  PROVE  [z EXCEPT !.ndx = x] = [cols |-> z.cols, ndx |-> x, fgn |-> z.fgn]
  BY DEF IsSchema

\* ADD INDEX, DROP INDEX, and the statements that are not supported.
LEMMA IndexAlter ==
  ASSUME Inv, TablesOK, NEW s \in Sessions, add_index(s) \/ drop_index(s) \/ alter_column(s)
  PROVE  \E z : AlterStep(s, z) /\ ((\E names : Alter(s, z, names)) \/ Throw(s, z))
  <1> DEFINE t == ses[s].st.tbl
             st == ses[s].st
  <1>1. ses[s].pc = "parents" /\ ses[s].st.op # "select"
    BY Zenon DEF add_index, drop_index, alter_column, Ready
  <1>2. SchemasOK(sch) /\ t \in Names /\ IsSchema(sch[t]) /\ st \in Statements
    BY <1>1, LockedKnown, SessionTypes DEF SchemasOK
  <1>3. AlterStep(s, sch)
    BY AlterSame
  <1>4. IsTable(sch[t]) /\ ColsOK(sch[t].cols) /\ IsList(sch[t].ndx) /\ KeysOK(sch[t].fgn)
    BY <1>2, TableParts DEF TablesOK
  <1>5. CASE add_index(s)
    <2> DEFINE z == FlagKnown(sch[t], st.cols)
               n == [name |-> MakeName(z.ndx), cols |-> st.cols]
               r == [z EXCEPT !.ndx = Append(z.ndx, n)]
    <2>1. \/ /\ ToSet(st.cols) \subseteq ColumnNames(z)
             /\ Alter(s, [sch EXCEPT ![t] = r], {t})
          \/ Throw(s, [sch EXCEPT ![t] = z])
      BY <1>5, Zenon DEF add_index
    <2>2. st.op = "add_index"
      BY <1>5, Zenon DEF add_index, Ready
    <2>3. IsList(st.cols) /\ st.cols # <<>>
      BY <1>2, <2>2, StatementsAssumption
    <2>4. /\ IsSchema(z) /\ z.ndx = sch[t].ndx /\ z.fgn = sch[t].fgn /\ SameCols(sch[t].cols, z.cols)
          /\ \A k \in DOMAIN sch[t].cols : z.cols[k].refs = sch[t].cols[k].refs
      <3>1. PICK w : w = sch[t] /\ IsSchema(w) /\ ColsOK(w.cols)
        BY <1>2, <1>4
      <3>2. PICK x : x = st.cols
        OBVIOUS
      <3>3. /\ IsSchema(FlagKnown(w, x)) /\ FlagKnown(w, x).ndx = w.ndx /\ FlagKnown(w, x).fgn = w.fgn
            /\ SameCols(w.cols, FlagKnown(w, x).cols)
            /\ \A k \in DOMAIN w.cols : FlagKnown(w, x).cols[k].refs = w.cols[k].refs
        BY <3>1, FlagKnownFacts
      <3> QED
        BY <3>1, <3>2, <3>3, Zenon
    <2> HIDE DEF z
    <2>5. n.name = MakeName(sch[t].ndx) /\ n.cols = st.cols
      BY <2>4
    <2> HIDE DEF n
    <2>6. r = [cols |-> z.cols, ndx |-> Append(z.ndx, n), fgn |-> z.fgn]
      BY <2>4, NdxReplaced, Zenon
    <2> HIDE DEF r
    <2>7. r.cols = z.cols /\ r.ndx = Append(sch[t].ndx, n) /\ r.fgn = sch[t].fgn
      BY <2>4, <2>6, Zenon
    <2>8. ColumnNames(z) = ColumnNames(sch[t])
      BY <1>4, <2>4, SameColsFacts, Zenon
    <2>9. ToSet(st.cols) \subseteq ColumnNames(z) => Altered(sch[t], r)
      BY <1>4, <2>3, <2>4, <2>5, <2>7, <2>8, AlterAddIndex, Zenon
    <2>10. Altered(sch[t], z)
      BY <1>4, <2>4, AlterColumns, Zenon
    <2>11. ToSet(st.cols) \subseteq ColumnNames(z) => AlterStep(s, [sch EXCEPT ![t] = r])
      <3> HIDE DEF t
      <3> QED
        BY <1>2, <2>4, <2>7, <2>9, OneAlter
    <2>12. AlterStep(s, [sch EXCEPT ![t] = z])
      <3> HIDE DEF t
      <3> QED
        BY <1>2, <2>4, <2>10, OneAlter
    <2> HIDE DEF t
    <2> QED
      BY <2>1, <2>11, <2>12, Zenon
  <1>6. CASE drop_index(s)
    <2> DEFINE list == sch[t].ndx
               hit == {j \in DOMAIN list : list[j].name = st.ndx}
               i == CHOOSE k \in hit : TRUE
               r == [sch[t] EXCEPT !.ndx = RemoveAt(list, i)]
    <2>1. \/ hit # {} /\ st.ndx # PK_NDX /\ Alter(s, [sch EXCEPT ![t] = r], {t})
          \/ Alter(s, sch, {t})
          \/ Throw(s, sch)
      BY <1>6, Zenon DEF drop_index
    <2>2. ASSUME hit # {}, st.ndx # PK_NDX PROVE AlterStep(s, [sch EXCEPT ![t] = r])
      <3>1. i \in hit
        BY <2>2, Zenon
      <3> HIDE DEF i
      <3>2. i \in DOMAIN list /\ list[i].name # PK_NDX
        BY <2>2, <3>1
      <3>3. r = [cols |-> sch[t].cols, ndx |-> RemoveAt(list, i), fgn |-> sch[t].fgn]
        BY <1>2 DEF IsSchema
      <3> HIDE DEF r
      <3>4. r.cols = sch[t].cols /\ r.ndx = RemoveAt(list, i) /\ r.fgn = sch[t].fgn
        BY <3>3
      <3>5. Altered(sch[t], r)
        BY <1>4, <3>2, <3>4, AlterDropIndex
      <3> HIDE DEF t
      <3> QED
        BY <1>2, <3>4, <3>5, OneAlter
    <2> HIDE DEF hit, r, t
    <2> QED
      BY <1>3, <2>1, <2>2, Zenon
  <1>7. CASE alter_column(s)
    BY <1>3, <1>7, Zenon DEF alter_column
  <1> QED
    BY <1>5, <1>6, <1>7

\* Every ALTER TABLE, with its exceptions, is such a step.
LEMMA StatementAlters ==
  ASSUME Inv, TablesOK, NEW s \in Sessions,
         \/ add_foreign_key(s) \/ drop_foreign_key(s) \/ add_index(s) \/ drop_index(s) \/ alter_column(s)
  PROVE  \E z : AlterStep(s, z) /\ ((\E names : Alter(s, z, names)) \/ Throw(s, z))
  <1> DEFINE t == ses[s].st.tbl
             st == ses[s].st
  <1>1. AlterStep(s, sch)
    BY AlterSame
  <1>2. CASE add_foreign_key(s)
    <2> DEFINE z == AddForeignKey(sch, st, MakeName(sch[st.tbl].fgn))
    <2>1. ses[s].pc = "parents" /\ st.op = "add_fk"
      BY <1>2, Zenon DEF add_foreign_key, Ready
    <2>2. \/ Throw(s, sch)
          \/ /\ HasKey(sch[st.to]) /\ ToSet(st.fcols) \subseteq ToSet(KeyColumns(sch[st.to]))
             /\ Alter(s, z, {st.tbl, st.to})
      BY <1>2, Zenon DEF add_foreign_key
    <2>3. SchemasOK(sch) /\ st.tbl \in Names /\ st.to \in Names /\ st \in Statements
      BY <2>1, LockedKnown, SessionTypes
    <2>4. ASSUME HasKey(sch[st.to]), ToSet(st.fcols) \subseteq ToSet(KeyColumns(sch[st.to]))
          PROVE  AlterStep(s, z)
      <3>1. PICK x \in Statements : x = st
        BY <2>3
      <3>2. AlterStep(s, AddForeignKey(sch, x, MakeName(sch[x.tbl].fgn)))
        BY <2>1, <2>3, <2>4, <3>1, AddKeyAlter
      <3> QED
        BY <3>1, <3>2, Zenon
    <2> HIDE DEF z
    <2> QED
      BY <1>1, <2>2, <2>4, Zenon
  <1>3. CASE drop_foreign_key(s)
    <2> DEFINE list == sch[t].fgn
               hit == {i \in DOMAIN list : list[i].name = ses[s].st.fk}
               i == CHOOSE j \in hit : TRUE
               x == DropRefs(sch[list[i].tbl].cols, list[i]).cols
               z == WithoutKey(t, i, x)
    <2>1. ses[s].pc = "parents" /\ ses[s].st.op = "drop_fk"
      BY <1>3, Zenon DEF drop_foreign_key, Ready
    <2>2. \/ Throw(s, sch)
          \/ hit # {} /\ (Throw(s, z) \/ Alter(s, z, {t, list[i].tbl}))
      BY <1>3, Zenon DEF drop_foreign_key, WithoutKey
    <2>3. SchemasOK(sch) /\ t \in Names
      BY <2>1, LockedKnown
    <2>4. ASSUME hit # {} PROVE AlterStep(s, z)
      <3>1. i \in hit
        BY <2>4, Zenon
      <3>2. PICK u \in Names : u = t
        BY <2>3
      <3>3. PICK k \in DOMAIN sch[u].fgn : k = i
        <4> HIDE DEF i
        <4> QED
          BY <3>1, <3>2
      <3>4. AlterStep(s, WithoutKey(u, k, DropRefs(sch[sch[u].fgn[k].tbl].cols, sch[u].fgn[k]).cols))
        BY <2>3, <3>2, DropKeyAlter, Zenon
      <3> QED
        BY <3>2, <3>3, <3>4, Zenon
    <2> HIDE DEF z, hit
    <2> QED
      BY <1>1, <2>2, <2>4, Zenon
  <1> QED
    BY <1>2, <1>3, IndexAlter

-----------------------------------------------------------------------------
(* The schemas, and what tables know of each other's foreign keys.         *)

\* The keys of a CREATE TABLE statement were checked.
KeysKnown(st) ==
  ToSet(st.pk) \subseteq ToSet(st.cols) /\ \A i \in DOMAIN st.fks : st.fks[i].to \in Known

\* A table with a file or a cache has a schema, and so have the tables of checked keys.
KnownInv ==
  /\ \A t \in Names : t \in file \/ cache[t] # "none" => t \in Known
  /\ \A s \in Sessions : /\ ses[s].pc \in {"create", "add"} => KeysKnown(ses[s].st)
                         /\ ses[s].pc \in {"save", "make"} => ses[s].st.tbl \in Known

\* A key is known to its table, or will be, also while one of the two is made.
KeysTold ==
  \A t \in Names : \A f \in ToSet(sch[t].fgn) :
    f.tbl \in robbed \/ KnowsOf(sch[f.tbl], t, f) \/ \E s \in Sessions : ToTell(s, t, f)

SchemaInv == TablesOK /\ KnownInv /\ KeysTold

\* The installed tables.
LEMMA SchemaInit == Init => SchemaInv
  <1> SUFFICES ASSUME Init PROVE SchemaInv
    OBVIOUS
  <1>1. /\ sch = [t \in Names |-> IF t \in DOMAIN Installed THEN Installed[t] ELSE NoSchema]
        /\ file = DOMAIN Installed /\ \A t \in Names : cache[t] = "none"
        /\ \A s \in Sessions : ses[s].pc = "idle"
    BY DEF Init, IdleSession
  <1>2. DOMAIN Installed \subseteq Names
    BY TablesAssumption
  <1>3. NoSchema.cols = <<>> /\ NoSchema.ndx = <<>> /\ NoSchema.fgn = <<>> /\ DOMAIN <<>> = {} /\ IsList(<<>>)
    BY EmptyIsList DEF NoSchema
  <1>4. \A t \in DOMAIN Installed : t \in Names /\ sch[t] = Installed[t] /\ t \in Known
    BY <1>1, <1>2, InstalledAssumption DEF Known
  <1>5. ASSUME NEW t \in Names
        PROVE  /\ IsTable(sch[t])
               /\ t \in Known => ColumnNames(sch[t]) \in ColumnSets(t)
               /\ \A i \in DOMAIN sch[t].fgn : sch[t].fgn[i].tbl \in Known
    <2>1. CASE t \in DOMAIN Installed
      <3>1. sch[t] = Installed[t]
        BY <1>1, <2>1
      <3>2. IsTable(Installed[t])
        BY <2>1, InstalledAssumption
      <3>3. \A i \in DOMAIN Installed[t].fgn : Installed[t].fgn[i].tbl \in DOMAIN Installed
        BY <2>1, TablesAssumption
      <3>4. ColumnNames(Installed[t]) \in ColumnSets(t)
        BY <2>1 DEF ColumnSets
      <3> QED
        BY <1>4, <3>1, <3>2, <3>3, <3>4
    <2>2. CASE t \notin DOMAIN Installed
      <3>1. sch[t] = NoSchema
        BY <1>1, <2>2
      <3>2. IsTable(NoSchema)
        BY <1>3, Zenon DEF IsTable, HasKey
      <3> QED
        BY <1>3, <3>1, <3>2 DEF Known
    <2> QED
      BY <2>1, <2>2
  <1>6. TablesOK
    BY <1>5 DEF TablesOK
  <1>7. KnownInv
    BY <1>1, <1>4 DEF KnownInv
  <1>8. KeysTold
    <2>1. ASSUME NEW t \in Names, NEW i \in DOMAIN sch[t].fgn
          PROVE  KnowsOf(sch[sch[t].fgn[i].tbl], t, sch[t].fgn[i])
      <3>1. t \in DOMAIN Installed /\ sch[t] = Installed[t]
        BY <1>1, <1>3
      <3>2. Installed[t].fgn[i].tbl \in DOMAIN Installed
        BY <2>1, <3>1, TablesAssumption
      <3>3. KnowsOf(Installed[Installed[t].fgn[i].tbl], t, Installed[t].fgn[i])
        BY <2>1, <3>1, InstalledAssumption
      <3>4. sch[Installed[t].fgn[i].tbl] = Installed[Installed[t].fgn[i].tbl]
        BY <1>4, <3>2
      <3> QED
        BY <3>1, <3>3, <3>4
    <2> QED
      BY <2>1 DEF KeysTold, ToSet
  <1> QED
    BY <1>6, <1>7, <1>8 DEF SchemaInv

\* One session moves.
LEMMA OneMoves ==
  ASSUME Inv, NEW s \in Sessions, NEW e, ses' = [ses EXCEPT ![s] = e]
  PROVE  ses'[s] = e /\ \A u \in Sessions \ {s} : ses'[u] = ses[u]
  BY DEF Inv, TypeInv

LEMMA KnownKeeps ==
  ASSUME Inv, KnownInv, NEW s \in Sessions, NEW e, ses' = [ses EXCEPT ![s] = e], Known \subseteq Known',
         \A t \in Names : t \in file' \/ cache'[t] # "none" => t \in file \/ cache[t] # "none" \/ t \in Known',
         e.pc \in {"create", "add"} => KeysKnown(e.st),
         e.pc \in {"save", "make"} => e.st.tbl \in Known'
  PROVE  KnownInv'
  <1>1. ses'[s] = e /\ \A u \in Sessions \ {s} : ses'[u] = ses[u]
    BY OneMoves
  <1>3. ASSUME NEW u \in Sessions
        PROVE  /\ ses'[u].pc \in {"create", "add"} =>
                    /\ ToSet(ses'[u].st.pk) \subseteq ToSet(ses'[u].st.cols)
                    /\ \A i \in DOMAIN ses'[u].st.fks : ses'[u].st.fks[i].to \in Known'
               /\ ses'[u].pc \in {"save", "make"} => ses'[u].st.tbl \in Known'
    <2>1. CASE u = s
      BY <1>1, <2>1 DEF KeysKnown
    <2>2. CASE u # s
      BY <1>1, <2>2 DEF KnownInv, KeysKnown
    <2> QED
      BY <2>1, <2>2
  <1>4. \A t \in Names : t \in file' \/ cache'[t] # "none" => t \in Known'
    BY DEF KnownInv
  <1> QED
    BY <1>3, <1>4 DEF KnownInv, KeysKnown

LEMMA TellSame ==
  ASSUME NEW w, ses'[w] = ses[w], NEW t, NEW f, ToTell(w, t, f)
  PROVE  ToTell(w, t, f)'
  BY DEF ToTell

\* What the other sessions have to tell, they still have.
LEMMA TellStays ==
  ASSUME Inv, NEW s \in Sessions, NEW e, ses' = [ses EXCEPT ![s] = e], NEW t, NEW f,
         ToTell(s, t, f) => ToTell(s, t, f)', \E u \in Sessions : ToTell(u, t, f)
  PROVE  \E u \in Sessions : ToTell(u, t, f)'
  <1>1. PICK u \in Sessions : ToTell(u, t, f)
    OBVIOUS
  <1>2. CASE u = s
    BY <1>1, <1>2
  <1>3. CASE u # s
    <2>1. ses'[u] = ses[u]
      BY <1>3, OneMoves
    <2>2. ToTell(u, t, f)'
      BY <1>1, <2>1 DEF ToTell
    <2> QED
      BY <2>2
  <1> QED
    BY <1>2, <1>3

\* These sessions have nothing to tell.
LEMMA NothingToTell ==
  ASSUME Inv, NEW s \in Sessions,
         ses[s].pc \notin {"save", "make", "refs", "undefined"} \/ (ses[s].pc = "refs" /\ ses[s].todo = <<>>)
  PROVE  \A t, f : ~ ToTell(s, t, f)
  <1>1. CASE ses[s].pc \notin {"save", "make", "refs", "undefined"}
    BY <1>1 DEF ToTell
  <1>2. CASE ses[s].pc = "refs" /\ ses[s].todo = <<>>
    <2> DEFINE fks == ses[s].st.fks
    <2>1. ses[s].st \in Statements /\ ses[s].st.op = "create"
      BY <1>2, SessionTypes DEF SessionOK
    <2>2. Len(fks) \in Nat /\ DOMAIN fks = 1..Len(fks)
      BY <2>1, TablesAssumption, ListFacts
    <2>3. Len(ses[s].todo) = 0
      BY <1>2
    <2>4. \A i \in DOMAIN fks : ~ (i > Len(fks) - Len(ses[s].todo))
      BY <2>2, <2>3
    <2> QED
      BY <1>2, <2>4 DEF ToTell
  <1> QED
    BY <1>1, <1>2

\* Steps that leave the schemas as they are.
LEMMA SchemaQuiet ==
  ASSUME Inv, SchemaInv, NEW s \in Sessions, NEW e, ses' = [ses EXCEPT ![s] = e], sch' = sch,
         robbed \subseteq robbed',
         \A t \in Names : t \in file' \/ cache'[t] # "none" => t \in file \/ cache[t] # "none" \/ t \in Known,
         e.pc \in {"create", "add"} => KeysKnown(e.st), e.pc \in {"save", "make"} => e.st.tbl \in Known,
         \A t, f : ToTell(s, t, f) => ToTell(s, t, f)'
  PROVE  SchemaInv'
  <1>1. Known' = Known
    BY DEF Known
  <1>2. TablesOK'
    BY <1>1 DEF SchemaInv, TablesOK
  <1>3. KnownInv'
    BY <1>1, KnownKeeps DEF SchemaInv
  <1>4. ASSUME NEW t \in Names, NEW f \in ToSet(sch[t].fgn)
        PROVE  f.tbl \in robbed' \/ KnowsOf(sch[f.tbl], t, f) \/ \E u \in Sessions : ToTell(u, t, f)'
    BY TellStays DEF SchemaInv, KeysTold
  <1>5. KeysTold'
    BY <1>4 DEF KeysTold
  <1> QED
    BY <1>2, <1>3, <1>5 DEF SchemaInv

\* A statement ends.
LEMMA SchemaFinish ==
  ASSUME Inv, SchemaInv, NEW s \in Sessions, NEW out, Finish(s, out), sch' = sch, robbed \subseteq robbed',
         \A t \in Names : t \in file' \/ cache'[t] # "none" => t \in file \/ cache[t] # "none",
         ses[s].pc \notin {"save", "make", "refs", "undefined"} \/ (ses[s].pc = "refs" /\ ses[s].todo = <<>>)
  PROVE  SchemaInv'
  <1> DEFINE e == [IdleSession EXCEPT !.out = out]
  <1>1. ses' = [ses EXCEPT ![s] = e]
    BY Zenon DEF Finish
  <1>2. e.pc = "idle"
    BY DEF IdleSession
  <1> HIDE DEF e
  <1>3. \A t, f : ~ ToTell(s, t, f)
    BY NothingToTell
  <1> QED
    BY <1>1, <1>2, <1>3, SchemaQuiet

\* CREATE TABLE checks its keys: the tables they name are known, and stay so.
LEMMA SchemaCheckKeys ==
  ASSUME Inv, SchemaInv, NEW s \in Sessions, CheckKeys(s)
  PROVE  SchemaInv'
  <1> DEFINE st == ses[s].st
             e == [ses[s] EXCEPT !.pc = "create"]
  <1>1. /\ ses[s].pc = "keys" /\ sch' = sch /\ file' = file /\ cache' = cache /\ robbed' = robbed
        /\ \/ KeysWellFormed(st) /\ ses' = [ses EXCEPT ![s] = e]
           \/ Finish(s, "error")
    BY Zenon DEF CheckKeys
  <1>2. \A t, f : ~ ToTell(s, t, f)
    BY <1>1, NothingToTell
  <1>3. CASE Finish(s, "error")
    BY <1>1, <1>3, SchemaFinish
  <1>4. CASE KeysWellFormed(st) /\ ses' = [ses EXCEPT ![s] = e]
    <2>1. st \in Statements /\ st.op = "create" /\ e.pc = "create" /\ e.st = st
      BY <1>1, SessionTypes DEF SessionOK, SessionStates
    <2>2. \A i \in DOMAIN st.fks : st.fks[i].to \in Names /\ HasKey(sch[st.fks[i].to])
      BY <1>4, <2>1, TablesAssumption DEF KeysWellFormed
    <2>3. KeysKnown(st)
      BY <1>4, <2>2, KeyedKnown DEF KeysWellFormed, KeysKnown, SchemaInv
    <2> HIDE DEF e, st
    <2> QED
      BY <1>1, <1>2, <1>4, <2>1, <2>3, SchemaQuiet
  <1> QED
    BY <1>1, <1>3, <1>4

\* CREATE TABLE goes on when there is no data file.
LEMMA SchemaCreate ==
  ASSUME Inv, SchemaInv, NEW s \in Sessions, create_table(s)
  PROVE  SchemaInv'
  <1> DEFINE e == [ses[s] EXCEPT !.pc = "add"]
  <1>1. /\ ses[s].pc = "create" /\ sch' = sch /\ file' = file /\ cache' = cache /\ robbed' = robbed
        /\ ses' = [ses EXCEPT ![s] = e] \/ Finish(s, "error")
    BY Zenon DEF create_table
  <1>2. \A t, f : ~ ToTell(s, t, f)
    BY <1>1, NothingToTell
  <1>3. CASE Finish(s, "error")
    BY <1>1, <1>3, SchemaFinish
  <1>4. CASE ses' = [ses EXCEPT ![s] = e]
    <2>1. e.pc = "add" /\ e.st = ses[s].st
      BY SessionTypes DEF SessionStates
    <2>2. KeysKnown(ses[s].st)
      BY <1>1 DEF SchemaInv, KnownInv
    <2> HIDE DEF e
    <2> QED
      BY <1>1, <1>2, <1>4, <2>1, <2>2, SchemaQuiet
  <1> QED
    BY <1>1, <1>3, <1>4

\* The schema is saved: the session has the same to tell.
LEMMA SchemaSave ==
  ASSUME Inv, SchemaInv, NEW s \in Sessions, save_schema(s)
  PROVE  SchemaInv'
  <1> DEFINE e == [ses[s] EXCEPT !.pc = "make"]
  <1>1. /\ ses[s].pc = "save" /\ sch' = sch /\ file' = file /\ cache' = cache /\ robbed' = robbed
        /\ ses' = [ses EXCEPT ![s] = e]
    BY Zenon DEF save_schema
  <1>2. e.pc = "make" /\ e.st = ses[s].st
    BY SessionTypes DEF SessionStates
  <1>3. ses[s].st.tbl \in Known
    BY <1>1 DEF SchemaInv, KnownInv
  <1> HIDE DEF e
  <1>4. ses'[s] = e
    BY <1>1, OneMoves
  <1>5. \A t, f : ToTell(s, t, f) => ToTell(s, t, f)'
    BY <1>1, <1>2, <1>4 DEF ToTell
  <1> QED
    BY <1>1, <1>2, <1>3, <1>5, SchemaQuiet

\* The data file is made: all keys have yet to be told.
LEMMA SchemaFile ==
  ASSUME Inv, SchemaInv, NEW s \in Sessions, create_file(s)
  PROVE  SchemaInv'
  <1> DEFINE st == ses[s].st
             todo == [i \in DOMAIN st.fks |-> st.fks[i].to]
             e == [ses[s] EXCEPT !.pc = "refs", !.todo = todo]
  <1>1. /\ ses[s].pc = "make" /\ sch' = sch /\ file' = file \cup {st.tbl} /\ OldCache(st.tbl) /\ robbed' = robbed
        /\ ses' = [ses EXCEPT ![s] = e]
    BY Zenon DEF create_file
  <1>2. st \in Statements /\ st.op = "create" /\ st.tbl \in Names /\ st.tbl \in Known
    BY <1>1, SessionTypes DEF SessionOK, SchemaInv, KnownInv
  <1>3. Len(todo) = Len(st.fks) /\ Len(st.fks) \in Nat /\ DOMAIN st.fks = 1..Len(st.fks)
    BY <1>2, FirstRefs, TablesAssumption, ListFacts
  <1> HIDE DEF todo
  <1>4. e.pc = "refs" /\ e.st = st /\ e.todo = todo
    BY SessionTypes DEF SessionStates
  <1> HIDE DEF e
  <1>5. ses'[s] = e
    BY <1>1, OneMoves
  <1>6. \A t \in Names : t \in file' \/ cache'[t] # "none" => t \in file \/ cache[t] # "none" \/ t \in Known
    BY <1>1, <1>2 DEF OldCache, Inv, TypeInv
  <1>7. \A i \in DOMAIN st.fks : i > Len(st.fks) - Len(todo)
    BY <1>3
  <1>8. ASSUME NEW t, NEW f, ToTell(s, t, f) PROVE ToTell(s, t, f)'
    <2>1. ses'[s].pc = "refs" /\ ses'[s].st = st /\ ses'[s].todo = todo
      BY <1>4, <1>5
    <2>2. st.tbl = t /\ \E i \in DOMAIN st.fks : make_foreign_key(st)[i] = f
      BY <1>8 DEF ToTell
    <2> HIDE DEF st
    <2> QED
      BY <1>2, <1>7, <2>1, <2>2 DEF ToTell
  <1> QED
    BY <1>1, <1>4, <1>6, <1>8, SchemaQuiet

\* The schema of a new table.
LEMMA NewTable ==
  ASSUME NEW st \in Statements, st.op = "create", ToSet(st.pk) \subseteq ToSet(st.cols)
  PROVE  LET n == NewSchema(st)
         IN  /\ IsTable(n) /\ n.cols # <<>> /\ ColumnNames(n) = ToSet(st.cols) /\ n.fgn = make_foreign_key(st)
             /\ \A i \in DOMAIN n.fgn : n.fgn[i].cols # <<>>
  <1> DEFINE x == make_primary_key(st)
             f == make_foreign_key(st)
             n == NewSchema(st)
             C(i) == [name |-> st.cols[i], refs |-> <<>>,
                      flag |-> IF i <= Len(st.pk) THEN {"PRIMARY", "NOT_NULL", "UNIQUE"} ELSE {}]
             F(i) == [name |-> i - 1, tbl |-> st.fks[i].to, cols |-> st.fks[i].fcols]
  <1>1. /\ IsList(st.cols) /\ st.cols # <<>> /\ IsList(st.pk) /\ IsList(st.fks)
        /\ \A i \in DOMAIN st.fks : IsList(st.fks[i].fcols) /\ st.fks[i].fcols # <<>>
    BY StatementsAssumption, TablesAssumption
  <1>2. /\ Len(st.cols) \in Nat \ {0} /\ DOMAIN st.cols = 1..Len(st.cols)
        /\ Len(st.pk) \in Nat /\ (st.pk = <<>> <=> Len(st.pk) = 0)
        /\ Len(st.fks) \in Nat /\ DOMAIN st.fks = 1..Len(st.fks)
    BY <1>1, ListFacts
  <1>3. n.cols = x /\ n.fgn = f /\ n.ndx = (IF st.pk = <<>> THEN <<>> ELSE << [name |-> PK_NDX, cols |-> st.pk] >>)
    BY DEF NewSchema
  <1>4. x = [i \in 1..Len(st.cols) |-> C(i)]
    BY <1>2 DEF make_primary_key
  <1>5. f = [i \in 1..Len(st.fks) |-> F(i)]
    BY <1>2 DEF make_foreign_key
  <1>6. \A i : /\ C(i) = [name |-> C(i).name, refs |-> C(i).refs, flag |-> C(i).flag]
               /\ C(i).name = st.cols[i] /\ C(i).refs = <<>>
    OBVIOUS
  <1>7. ASSUME Len(st.pk) = 0, NEW i \in 1..Len(st.cols) PROVE "PRIMARY" \notin C(i).flag
    BY <1>2, <1>7
  <1>8. \A i \in Nat : F(i).name = i - 1 /\ F(i).cols = st.fks[i].fcols
    OBVIOUS
  <1> HIDE DEF x, f, n, C, F
  <1>9. DOMAIN x = DOMAIN st.cols /\ (\A i \in DOMAIN x : x[i] = C(i)) /\ DOMAIN f = DOMAIN st.fks /\ \A i \in DOMAIN f : f[i] = F(i)
    BY <1>2, <1>4, <1>5
  <1>10. IsList(x)
    <2>1. \A i \in 1..Len(st.cols) : C(i) \in {x[k] : k \in DOMAIN x}
      BY <1>2, <1>9
    <2> QED
      BY <1>2, <1>4, <2>1, IsASeq DEF IsList
  <1>11. ColsOK(x)
    <2>1. ASSUME NEW i \in DOMAIN x PROVE IsColumn(x[i])
      BY <1>6, <1>9, EmptyIsList DEF IsColumn
    <2> QED
      BY <1>10, <2>1 DEF ColsOK
  <1>12. x # <<>> /\ ColumnNames(n) = ToSet(st.cols)
    <2>1. 1 \in DOMAIN x
      BY <1>2, <1>9
    <2>2. x # <<>>
      BY <2>1, EmptyIsList
    <2>3. ColumnNames(n) = {x[i].name : i \in DOMAIN x}
      BY <1>3 DEF ColumnNames
    <2> QED
      BY <1>6, <1>9, <2>2, <2>3 DEF ToSet
  <1>13. KeysOK(f) /\ \A i \in DOMAIN f : f[i].cols # <<>>
    <2>1. ASSUME NEW i \in DOMAIN f PROVE i \in Nat /\ f[i].name = i - 1 /\ IsList(f[i].cols) /\ f[i].cols # <<>>
      <3>1. i \in DOMAIN st.fks /\ i \in Nat /\ f[i] = F(i)
        BY <1>2, <1>9
      <3>2. F(i).name = i - 1 /\ F(i).cols = st.fks[i].fcols
        BY <1>8, <3>1
      <3>3. IsList(st.fks[i].fcols) /\ st.fks[i].fcols # <<>>
        BY <1>1, <3>1
      <3> QED
        BY <3>1, <3>2, <3>3, Zenon
    <2>2. \A i, j \in DOMAIN f : f[i].name = f[j].name => i = j
      BY <2>1
    <2> QED
      BY <2>1, <2>2 DEF KeysOK
  <1>14. IsList(n.ndx) /\ OnePK(n.ndx) /\ KeyOK(n)
    <2>1. CASE st.pk = <<>>
      <3>1. n.ndx = <<>> /\ ~ HasKey(n)
        BY <1>3, <2>1, EmptyIsList DEF HasKey
      <3>2. \A i \in DOMAIN n.cols : "PRIMARY" \notin n.cols[i].flag
        BY <1>2, <1>3, <1>7, <1>9, <2>1
      <3> QED
        BY <3>1, <3>2, EmptyIsList DEF OnePK, KeyOK
    <2>2. CASE st.pk # <<>>
      <3> DEFINE e == [name |-> PK_NDX, cols |-> st.pk]
      <3>1. n.ndx = <<e>> /\ DOMAIN <<e>> = {1} /\ <<e>>[1] = e /\ e.name = PK_NDX /\ e.cols = st.pk /\ <<e>> \in Seq({e})
        BY <1>3, <2>2
      <3> HIDE DEF e
      <3>2. IsList(n.ndx) /\ OnePK(n.ndx)
        <4>1. PICK w : w = n.ndx
          OBVIOUS
        <4>2. w \in Seq({e}) /\ DOMAIN w = {1}
          BY <3>1, <4>1, Zenon
        <4>3. IsList(w)
          BY <4>2, SeqIsList
        <4>4. OnePK(w)
          BY <4>2 DEF OnePK
        <4> QED
          BY <4>1, <4>3, <4>4
      <3>3. HasKey(n)
        BY <3>1 DEF HasKey
      <3>4. (CHOOSE i \in DOMAIN n.ndx : n.ndx[i].name = PK_NDX) = 1
        BY <3>1
      <3>5. KeyColumns(n) = st.pk
        BY <3>1, <3>4 DEF KeyColumns
      <3> QED
        BY <1>1, <1>12, <2>2, <3>2, <3>3, <3>5 DEF KeyOK
    <2> QED
      BY <2>1, <2>2
  <1>15. IsTable(n)
    BY <1>3, <1>11, <1>13, <1>14, TableParts
  <1> QED
    BY <1>3, <1>12, <1>13, <1>15 DEF n, f

\* A schema is added: keys to it are those of tables that come later, unless there
\* was one before.
LEMMA SchemaAdd ==
  ASSUME Inv, SchemaInv, NEW s \in Sessions, add_schema(s)
  PROVE  SchemaInv'
  <1> DEFINE st == ses[s].st
             t == st.tbl
             n == NewSchema(st)
             f == make_foreign_key(st)
             e == [ses[s] EXCEPT !.pc = "save"]
  <1>1. /\ ses[s].pc = "add" /\ sch' = [sch EXCEPT ![t] = n] /\ file' = file /\ OldCache(t)
        /\ robbed' = (IF sch[t] = NoSchema THEN robbed ELSE robbed \cup {t})
        /\ ses' = [ses EXCEPT ![s] = e]
    BY Zenon DEF add_schema
  <1>2. st \in Statements /\ st.op = "create" /\ KeysKnown(st)
    BY <1>1, SessionTypes DEF SessionOK, SchemaInv, KnownInv
  <1>3. t \in Names /\ sch'[t] = n /\ \A u \in Names \ {t} : sch'[u] = sch[u]
    BY <1>1, <1>2, CreateStep DEF Inv
  <1>4. /\ IsTable(n) /\ n.cols # <<>> /\ ColumnNames(n) = ToSet(st.cols) /\ n.fgn = f
    BY <1>2, NewTable DEF KeysKnown
  <1>5. DOMAIN f = DOMAIN st.fks /\ \A i \in DOMAIN f : f[i].tbl \in Known
    BY <1>2 DEF make_foreign_key, KeysKnown
  <1>6. ToSet(st.cols) \in ColumnSets(t)
    BY <1>2 DEF ColumnSets
  <1>7. e.pc = "save" /\ e.st = st
    BY SessionTypes DEF SessionStates
  <1> HIDE DEF e, n
  <1>8. Known' = Known \cup {t}
    BY <1>3, <1>4 DEF Known
  <1>9. TablesOK'
    <2>1. ASSUME NEW u \in Names
          PROVE  /\ IsTable(sch'[u])
                 /\ u \in Known' => ColumnNames(sch'[u]) \in ColumnSets(u)
                 /\ \A i \in DOMAIN sch'[u].fgn : sch'[u].fgn[i].tbl \in Known'
      <3>1. CASE u = t
        <4> HIDE DEF f, t, st
        <4> QED
          BY <1>3, <1>4, <1>5, <1>6, <1>8, <3>1
      <3>2. CASE u # t
        BY <1>3, <1>8, <3>2 DEF SchemaInv, TablesOK
      <3> QED
        BY <3>1, <3>2
    <2> QED
      BY <2>1 DEF TablesOK
  <1>10. KnownInv'
    <2>1. \A u \in Names : u \in file' \/ cache'[u] # "none" => u \in file \/ cache[u] # "none"
      BY <1>1 DEF OldCache, Inv, TypeInv
    <2> QED
      BY <1>1, <1>7, <1>8, <2>1, KnownKeeps DEF SchemaInv
  <1>11. ses'[s] = e
    BY <1>1, OneMoves
  <1>12. \A u, h : ~ ToTell(s, u, h)
    BY <1>1, NothingToTell
  <1>13. ASSUME NEW u \in Names, NEW h \in ToSet(sch'[u].fgn)
         PROVE  h.tbl \in robbed' \/ KnowsOf(sch'[h.tbl], u, h) \/ \E w \in Sessions : ToTell(w, u, h)'
    <2>1. CASE u = t
      <3>1. sch'[u].fgn = f
        BY <1>3, <1>4, <2>1
      <3>2. PICK i \in DOMAIN st.fks : f[i] = h
        BY <1>5, <1>13, <3>1 DEF ToSet
      <3>3. ToTell(s, u, h)'
        BY <1>2, <1>7, <1>11, <2>1, <3>2 DEF ToTell
      <3> QED
        BY <3>3
    <2>2. CASE u # t
      <3>1. sch'[u] = sch[u] /\ h \in ToSet(sch[u].fgn)
        BY <1>3, <1>13, <2>2
      <3>2. h.tbl \in Known /\ (h.tbl \in robbed \/ KnowsOf(sch[h.tbl], u, h) \/ \E w \in Sessions : ToTell(w, u, h))
        BY <1>13, <3>1 DEF SchemaInv, TablesOK, KeysTold, ToSet
      <3>3. CASE h.tbl = t
        <4>1. NoSchema.cols = <<>>
          BY DEF NoSchema
        <4>2. sch[t] # NoSchema
          BY <3>2, <3>3, <4>1 DEF Known
        <4> QED
          BY <1>1, <3>3, <4>2
      <3>4. CASE h.tbl # t
        <4>1. sch'[h.tbl] = sch[h.tbl] /\ robbed \subseteq robbed'
          BY <1>1, <1>3, <3>2, <3>4 DEF Known
        <4>2. (\E w \in Sessions : ToTell(w, u, h)) => \E w \in Sessions : ToTell(w, u, h)'
          BY <1>1, <1>12, TellStays
        <4> QED
          BY <3>2, <4>1, <4>2
      <3> QED
        BY <3>3, <3>4
    <2> QED
      BY <2>1, <2>2
  <1>14. KeysTold'
    BY <1>13 DEF KeysTold
  <1> QED
    BY <1>9, <1>10, <1>14 DEF SchemaInv

\* The referenced table learns of the key whose turn it is.
LEMMA ToldTable ==
  ASSUME Inv, SchemaInv, NEW s \in Sessions, ses[s].pc = "refs", ses[s].todo # <<>>,
         ~ (Len(NextKey(s).cols) > Len(sch[Head(ses[s].todo)].cols))
  PROVE  LET p == Head(ses[s].todo)
             t == ses[s].st.tbl
             f == NextKey(s)
             y == LeadingRefs(sch[p].cols, t, f)
         IN  p \in Names /\ f.tbl = p /\ Grown(sch[p].cols, y) /\ HasRef(y, t, f.name)
  <1> DEFINE st == ses[s].st
             fks == st.fks
             q == ses[s].todo
             p == Head(q)
             t == st.tbl
             f == NextKey(s)
             cols == sch[p].cols
             k == Len(fks) - Len(q) + 1
  <1>1. ses[s] \in SessionStates /\ SessionOK(s) /\ st \in Statements /\ st.op = "create"
    BY SessionTypes DEF SessionOK
  <1>2. q \in Seq(Names) /\ RefsOK(s)
    BY <1>1 DEF SessionStates, SessionOK
  <1>3. p = q[1] /\ p \in Names /\ Len(q) \in Nat \ {0} /\ 1 \in DOMAIN q
    BY <1>2, RestFacts
  <1>4. Len(fks) \in Nat /\ DOMAIN fks = 1..Len(fks)
    BY <1>1, TablesAssumption, ListFacts
  <1>5. k \in DOMAIN fks /\ p = fks[k].to
    <2>1. Len(q) <= Len(fks) /\ \A i \in DOMAIN q : q[i] = fks[Len(fks) - Len(q) + i].to
      BY <1>2, Zenon DEF RefsOK
    <2>2. q[1] = fks[k].to
      BY <1>3, <2>1, Zenon
    <2>3. k \in 1..Len(fks)
      <3> HIDE DEF fks, q
      <3> QED
        BY <1>3, <1>4, <2>1
    <2> QED
      BY <1>3, <1>4, <2>2, <2>3
  <1>6. f = [name |-> k - 1, tbl |-> fks[k].to, cols |-> fks[k].fcols]
    BY <1>5, Zenon DEF NextKey, make_foreign_key
  <1>7. IsList(fks[k].fcols) /\ fks[k].fcols # <<>>
    BY <1>1, <1>5, StatementsAssumption
  <1> HIDE DEF k
  <1>8. f.tbl = p /\ IsList(f.cols) /\ f.cols # <<>>
    BY <1>5, <1>6, <1>7
  <1>9. ColsOK(cols)
    BY <1>3, TableParts DEF SchemaInv, TablesOK
  <1>10. cols # <<>>
    <2>1. Len(f.cols) \in Nat /\ Len(f.cols) # 0 /\ Len(cols) \in Nat
      BY <1>8, <1>9, ListFacts DEF ColsOK
    <2>2. Len(<<>>) = 0
      OBVIOUS
    <2>3. ~ (Len(f.cols) > Len(cols))
      BY Zenon
    <2> HIDE DEF f, cols
    <2> QED
      BY <2>1, <2>2, <2>3
  <1> HIDE DEF f, cols, p, t
  <1>11. Grown(cols, LeadRefs(t, f.name, cols, [i \in DOMAIN f.cols |-> i]))
         /\ HasRef(LeadRefs(t, f.name, cols, [i \in DOMAIN f.cols |-> i]), t, f.name)
    BY <1>8, <1>9, <1>10, LeadFacts
  <1>12. LeadingRefs(cols, t, f) = LeadRefs(t, f.name, cols, [i \in DOMAIN f.cols |-> i])
    BY Zenon DEF LeadingRefs, LeadRefs
  <1> QED
    BY <1>3, <1>8, <1>11, <1>12 DEF f, cols, p, t

\* The schemas after a reference was made: one table's columns may have grown.
LEMMA ReferenceAlters ==
  ASSUME Inv, SchemaInv, NEW s \in Sessions, make_reference(s)
  PROVE  \A u \in Names : Altered(sch[u], sch'[u]) /\ Grown(sch[u].cols, sch'[u].cols) /\ sch'[u].fgn = sch[u].fgn
  <1> DEFINE p == Head(ses[s].todo)
             y == LeadingRefs(sch[p].cols, ses[s].st.tbl, NextKey(s))
  <1>1. /\ ses[s].pc = "refs" /\ ses[s].todo # <<>>
        /\ \/ sch' = sch
           \/ ~ (Len(NextKey(s).cols) > Len(sch[p].cols)) /\ sch' = [sch EXCEPT ![p].cols = y]
    BY Zenon DEF make_reference
  <1>2. ASSUME NEW u \in Names PROVE IsTable(sch[u]) /\ ColsOK(sch[u].cols) /\ KeysOK(sch[u].fgn) /\ IsSchema(sch[u])
    BY TableParts DEF SchemaInv, TablesOK, Inv, SchemasOK
  <1>3. ASSUME NEW u \in Names, sch'[u] = sch[u]
        PROVE  Altered(sch[u], sch'[u]) /\ Grown(sch[u].cols, sch'[u].cols) /\ sch'[u].fgn = sch[u].fgn
    BY <1>2, <1>3, GrownFacts, AlterColumns DEF Grown
  <1>4. CASE sch' = sch
    BY <1>3, <1>4
  <1>5. CASE ~ (Len(NextKey(s).cols) > Len(sch[p].cols)) /\ sch' = [sch EXCEPT ![p].cols = y]
    <2>1. p \in Names /\ Grown(sch[p].cols, y)
      BY <1>1, <1>5, ToldTable
    <2> HIDE DEF p, y
    <2>2. sch'[p] = [sch[p] EXCEPT !.cols = y] /\ \A u \in Names \ {p} : sch'[u] = sch[u]
      BY <1>5, <2>1 DEF Inv, SchemasOK
    <2>3. sch'[p].cols = y /\ sch'[p].ndx = sch[p].ndx /\ sch'[p].fgn = sch[p].fgn
      BY <1>2, <2>1, <2>2 DEF IsSchema
    <2>4. Altered(sch[p], sch'[p])
      BY <1>2, <2>1, <2>3, AlterColumns DEF Grown
    <2>5. ASSUME NEW u \in Names
          PROVE  Altered(sch[u], sch'[u]) /\ Grown(sch[u].cols, sch'[u].cols) /\ sch'[u].fgn = sch[u].fgn
      BY <1>3, <2>1, <2>2, <2>3, <2>4
    <2> QED
      BY <2>5
  <1> QED
    BY <1>1, <1>4, <1>5

\* What the session that makes references has to tell becomes less by that one key.
LEMMA ToldKeys ==
  ASSUME Inv, SchemaInv, NEW s \in Sessions, make_reference(s), NEW t, NEW f, ToTell(s, t, f)
  PROVE  KnowsOf(sch'[f.tbl], t, f) \/ ToTell(s, t, f)'
  <1> DEFINE st == ses[s].st
             q == ses[s].todo
             p == Head(q)
             m == Len(st.fks)
             y == LeadingRefs(sch[p].cols, st.tbl, NextKey(s))
             x == [ses[s] EXCEPT !.todo = Tail(q)]
             e == [ses[s] EXCEPT !.pc = "undefined"]
  <1>1. /\ ses[s].pc = "refs" /\ q # <<>>
        /\ \/ ses' = [ses EXCEPT ![s] = e]
           \/ /\ ~ (Len(NextKey(s).cols) > Len(sch[p].cols))
              /\ sch' = [sch EXCEPT ![p].cols = y] /\ ses' = [ses EXCEPT ![s] = x]
    BY Zenon DEF make_reference
  <1>2. ses[s] \in SessionStates /\ st \in Statements /\ st.op = "create" /\ q \in Seq(Names)
    BY <1>1, SessionTypes DEF SessionOK, SessionStates
  <1>3. PICK i \in DOMAIN st.fks : make_foreign_key(st)[i] = f /\ i > m - Len(q)
    BY <1>1 DEF ToTell
  <1>4. st.tbl = t
    BY DEF ToTell
  <1>5. CASE ses' = [ses EXCEPT ![s] = e]
    <2>1. e.pc = "undefined" /\ e.st = st /\ e.todo = q
      BY <1>2 DEF SessionStates
    <2> HIDE DEF e
    <2>2. ses'[s] = e
      BY <1>5, OneMoves
    <2>3. ToTell(s, t, f)'
      BY <1>2, <1>3, <1>4, <2>1, <2>2 DEF ToTell
    <2> QED
      BY <2>3
  <1>6. CASE /\ ~ (Len(NextKey(s).cols) > Len(sch[p].cols))
             /\ sch' = [sch EXCEPT ![p].cols = y] /\ ses' = [ses EXCEPT ![s] = x]
    <2>1. x.pc = "refs" /\ x.st = st /\ x.todo = Tail(q)
      BY <1>1, <1>2 DEF SessionStates
    <2> HIDE DEF x
    <2>2. ses'[s] = x
      BY <1>6, OneMoves
    <2>3. Len(q) \in Nat \ {0} /\ Len(Tail(q)) = Len(q) - 1
      BY <1>1, <1>2, RestFacts
    <2>4. m \in Nat /\ DOMAIN st.fks = 1..m
      BY <1>2, TablesAssumption, ListFacts
    <2>5. CASE i = m - Len(q) + 1
      <3>1. NextKey(s) = f
        BY <1>3, <2>5 DEF NextKey
      <3>2. p \in Names /\ f.tbl = p /\ HasRef(y, t, f.name)
        BY <1>1, <1>4, <1>6, <3>1, ToldTable
      <3> HIDE DEF p, y
      <3>3. sch'[p] = [sch[p] EXCEPT !.cols = y]
        BY <1>6, <3>2 DEF Inv, SchemasOK
      <3>4. sch'[p].cols = y
        BY <3>2, <3>3 DEF Inv, SchemasOK, IsSchema
      <3> QED
        BY <3>2, <3>4, KnowsIsRef
    <2>6. CASE i # m - Len(q) + 1
      <3>1. i > m - Len(Tail(q))
        <4>1. i \in 1..m /\ i > m - Len(q)
          BY <1>3, <2>4
        <4>2. \A a, b, c \in Int : a > b - c /\ a # b - c + 1 => a > b - (c - 1)
          OBVIOUS
        <4>3. i \in Int /\ m \in Int /\ Len(q) \in Int
          BY <2>3, <2>4, <4>1
        <4> HIDE DEF m, q
        <4>4. i > m - (Len(q) - 1)
          BY <2>6, <4>1, <4>2, <4>3, Zenon
        <4> QED
          BY <2>3, <4>4, Zenon
      <3>2. ToTell(s, t, f)'
        BY <1>2, <1>3, <1>4, <2>1, <2>2, <3>1 DEF ToTell
      <3> QED
        BY <3>2
    <2> QED
      BY <2>5, <2>6
  <1> QED
    BY <1>1, <1>5, <1>6

LEMMA SchemaReference ==
  ASSUME Inv, SchemaInv, NEW s \in Sessions, make_reference(s)
  PROVE  SchemaInv'
  <1> DEFINE x == [ses[s] EXCEPT !.todo = Tail(ses[s].todo)]
             e == [ses[s] EXCEPT !.pc = "undefined"]
  <1>1. /\ ses[s].pc = "refs" /\ file' = file /\ cache' = cache /\ robbed' = robbed
        /\ ses' = [ses EXCEPT ![s] = e] \/ ses' = [ses EXCEPT ![s] = x]
    BY Zenon DEF make_reference
  <1>2. \A u \in Names : Altered(sch[u], sch'[u]) /\ Grown(sch[u].cols, sch'[u].cols) /\ sch'[u].fgn = sch[u].fgn
    BY ReferenceAlters
  <1>3. \A u \in Names : ColumnNames(sch'[u]) = ColumnNames(sch[u]) /\ (sch'[u].cols = <<>> <=> sch[u].cols = <<>>)
    BY <1>2, AlteredFacts DEF SchemaInv, TablesOK
  <1>4. Known' = Known
    BY <1>3 DEF Known
  <1>5. TablesOK'
    BY <1>2, <1>3, <1>4 DEF SchemaInv, TablesOK, Altered
  <1>6. e.pc = "undefined" /\ x.pc = "refs"
    BY <1>1, SessionTypes DEF SessionStates
  <1> HIDE DEF e, x
  <1>7. KnownInv'
    BY <1>1, <1>4, <1>6, KnownKeeps DEF SchemaInv
  <1>8. ASSUME NEW t \in Names, NEW h \in ToSet(sch'[t].fgn)
        PROVE  h.tbl \in robbed' \/ KnowsOf(sch'[h.tbl], t, h) \/ \E w \in Sessions : ToTell(w, t, h)'
    <2>1. h \in ToSet(sch[t].fgn) /\ h.tbl \in Known /\ h.tbl \in Names
      BY <1>2, <1>8 DEF SchemaInv, TablesOK, Known, ToSet
    <2>2. h.tbl \in robbed \/ KnowsOf(sch[h.tbl], t, h) \/ \E w \in Sessions : ToTell(w, t, h)
      BY <2>1 DEF SchemaInv, KeysTold
    <2>3. ASSUME KnowsOf(sch[h.tbl], t, h) PROVE KnowsOf(sch'[h.tbl], t, h)
      <3>1. ColsOK(sch[h.tbl].cols)
        BY <2>1, TableParts DEF SchemaInv, TablesOK
      <3> QED
        BY <1>2, <2>1, <2>3, <3>1, GrownFacts, KnowsIsRef
    <2>4. ASSUME NEW w \in Sessions, ToTell(w, t, h)
          PROVE  KnowsOf(sch'[h.tbl], t, h) \/ \E u \in Sessions : ToTell(u, t, h)'
      <3>1. CASE w = s
        BY <2>4, <3>1, ToldKeys
      <3>2. CASE w # s
        <4>1. ses'[w] = ses[w]
          BY <1>1, <3>2, OneMoves
        <4> QED
          BY <2>4, <4>1, TellSame
      <3> QED
        BY <3>1, <3>2
    <2> QED
      BY <1>1, <2>1, <2>2, <2>3, <2>4
  <1>9. KeysTold'
    BY <1>8 DEF KeysTold
  <1> QED
    BY <1>5, <1>7, <1>9 DEF SchemaInv

\* ALTER TABLE.  The references that other tables' keys have in a table stay,
\* unless Rob() notes that it lost some.
LEMMA SchemaAlter ==
  ASSUME Inv, SchemaInv, NEW s \in Sessions, ses[s].pc = "parents", NEW z, AlterStep(s, z),
         (\E names : Alter(s, z, names)) \/ Throw(s, z)
  PROVE  SchemaInv'
  <1> DEFINE a == ses[s].st.tbl
             Others(y, p, k) == {r \in ToSet(y[p].cols[k].refs) : r.tbl # a}
  <1>1. /\ \E out : Finish(s, out)
        /\ sch' = z /\ file' = file /\ cache' = cache /\ Rob(s, z)
    BY DEF Alter, Throw
  <1>2. robbed' = robbed \cup {p \in Names : sch[p] # z[p] /\
                  \E k \in DOMAIN sch[p].cols : Others(sch, p, k) # Others(z, p, k)}
    BY <1>1, Zenon DEF Rob
  <1>3. TablesOK /\ KnownInv /\ KeysTold
    BY DEF SchemaInv
  <1>4. \A t \in Names : /\ IsTable(z[t]) /\ ColumnNames(z[t]) = ColumnNames(sch[t])
                         /\ (z[t].cols = <<>> <=> sch[t].cols = <<>>)
    BY <1>3, AlteredFacts DEF AlterStep, TablesOK, Altered
  <1>5. Known' = Known
    BY <1>1, <1>4 DEF Known
  <1>6. PICK e : ses' = [ses EXCEPT ![s] = e] /\ e.pc = "idle"
    <2>1. PICK out : Finish(s, out)
      BY <1>1
    <2>2. ses' = [ses EXCEPT ![s] = [IdleSession EXCEPT !.out = out]]
      BY <2>1, Zenon DEF Finish
    <2>3. [IdleSession EXCEPT !.out = out].pc = "idle"
      BY DEF IdleSession
    <2> QED
      BY <2>2, <2>3, Zenon
  <1>7. KnownInv'
    BY <1>1, <1>3, <1>5, <1>6, KnownKeeps
  <1>8. ASSUME NEW t \in Names, NEW i \in DOMAIN z[t].fgn PROVE z[t].fgn[i].tbl \in Known
    <2>1. z[t].fgn[i] \in ToSet(z[t].fgn)
      BY DEF ToSet
    <2>2. z[t].fgn[i] \in ToSet(sch[t].fgn) \/ z[t].fgn[i].tbl \in Known
      BY <2>1 DEF AlterStep
    <2> QED
      BY <1>3, <2>2 DEF TablesOK, ToSet
  <1>9. TablesOK'
    BY <1>1, <1>3, <1>4, <1>5, <1>8 DEF TablesOK
  <1>10. \A t, f : ~ ToTell(s, t, f)
    BY NothingToTell
  <1>11. ASSUME NEW t \in Names, NEW f \in ToSet(z[t].fgn)
         PROVE  f.tbl \in robbed' \/ KnowsOf(z[f.tbl], t, f) \/ \E w \in Sessions : ToTell(w, t, f)'
    <2> DEFINE p == f.tbl
    <2>1. f \in ToSet(z[t].fgn) /\ p \in Names
      BY <1>8, <1>11 DEF ToSet, Known
    <2>2. \/ f \in ToSet(sch[t].fgn) /\ (t = a /\ KnowsOf(sch[p], t, f) => KnowsOf(z[p], t, f))
          \/ KnowsOf(z[p], t, f)
      BY <2>1 DEF AlterStep
    <2>3. ASSUME f \in ToSet(sch[t].fgn)
          PROVE  p \in robbed \/ KnowsOf(sch[p], t, f) \/ \E w \in Sessions : ToTell(w, t, f)
      BY <1>3, <2>3 DEF KeysTold
    <2>4. ASSUME t # a, KnowsOf(sch[p], t, f), p \notin robbed' PROVE KnowsOf(z[p], t, f)
      <3>1. CASE z[p] = sch[p]
        BY <2>4, <3>1
      <3>2. CASE z[p] # sch[p]
        <4>1. PICK k \in DOMAIN sch[p].cols : \E r \in ToSet(sch[p].cols[k].refs) : r.tbl = t /\ r.fgn = f.name
          BY <2>4, KnowsIsRef DEF HasRef
        <4>2. PICK r \in ToSet(sch[p].cols[k].refs) : r.tbl = t /\ r.fgn = f.name
          BY <4>1
        <4>3. Others(sch, p, k) = Others(z, p, k)
          BY <1>2, <2>1, <2>4, <3>2
        <4>4. r \in ToSet(z[p].cols[k].refs)
          BY <2>4, <4>2, <4>3
        <4>5. DOMAIN z[p].cols = DOMAIN sch[p].cols
          BY <2>1 DEF AlterStep, Altered, SameCols
        <4> QED
          BY <4>2, <4>4, <4>5, KnowsIsRef DEF HasRef
      <3> QED
        BY <3>1, <3>2
    <2>5. (\E w \in Sessions : ToTell(w, t, f)) => \E w \in Sessions : ToTell(w, t, f)'
      BY <1>6, <1>10, TellStays
    <2>6. p \in robbed => p \in robbed'
      BY <1>2
    <2>7. p \in robbed' \/ KnowsOf(z[p], t, f) \/ \E w \in Sessions : ToTell(w, t, f)'
      BY <2>2, <2>3, <2>4, <2>5, <2>6
    <2> QED
      BY <2>7
  <1>12. KeysTold'
    BY <1>1, <1>11 DEF KeysTold
  <1> QED
    BY <1>7, <1>9, <1>12 DEF SchemaInv

\* A table is opened.
LEMMA SchemaOpen ==
  ASSUME Inv, SchemaInv, NEW s \in Sessions, OpenAndLock(s) \/ LoseTrack(s)
  PROVE  SchemaInv'
  <1> DEFINE t == Head(ses[s].todo)
  <1>1. \/ Finish(s, "error") /\ cache' = cache
        \/ ses' = [ses EXCEPT ![s].pc = "undefined"] /\ cache' = cache
        \/ /\ CanOpen(t) /\ cache' = [cache EXCEPT ![t] = "own"]
           /\ \E todo, pc : pc \in {"parents", ses[s].pc} /\ ses' = [ses EXCEPT ![s] = [ses[s] EXCEPT !.todo = todo, !.pc = pc]]
    <2> DEFINE st == ses[s].st
               rest == Tail(ses[s].todo)
               todo == IF rest = <<>> /\ ses[s].pc = "open" THEN load_foreign_tree(st) ELSE rest
               pc == IF rest = <<>> THEN "parents" ELSE ses[s].pc
    <2>1. \/ Finish(s, "error") /\ cache' = cache
          \/ ses' = [ses EXCEPT ![s].pc = "undefined"] /\ cache' = cache
          \/ /\ CanOpen(t) /\ cache' = [cache EXCEPT ![t] = "own"]
             /\ ses' = [ses EXCEPT ![s] = [ses[s] EXCEPT !.todo = todo, !.pc = pc]]
      BY Zenon DEF OpenAndLock, LoseTrack
    <2>2. pc \in {"parents", ses[s].pc}
      OBVIOUS
    <2> HIDE DEF todo, pc, t
    <2> QED
      BY <2>1, <2>2, Zenon
  <1> HIDE DEF t
  <1>2. sch' = sch /\ file' = file /\ robbed' = robbed /\ ses[s].pc \in {"open", "parents"}
    BY Zenon DEF OpenAndLock, LoseTrack
  <1>3. ses[s].pc \notin {"save", "make", "refs", "undefined"} /\ \A u, f : ~ ToTell(s, u, f)
    <2>1. ses[s].pc \notin {"save", "make", "refs", "undefined"}
      BY <1>2
    <2> QED
      BY <2>1, NothingToTell
  <1>4. ses[s] \in SessionStates
    BY SessionTypes
  <1>5. CASE Finish(s, "error") /\ cache' = cache
    BY <1>3, <1>2, <1>5, SchemaFinish
  <1>6. CASE ses' = [ses EXCEPT ![s].pc = "undefined"] /\ cache' = cache
    <2>1. [ses[s] EXCEPT !.pc = "undefined"].pc = "undefined"
      BY <1>4 DEF SessionStates
    <2> QED
      BY <1>3, <1>6, <1>2, <2>1, SchemaQuiet
  <1>7. ASSUME CanOpen(t), cache' = [cache EXCEPT ![t] = "own"], NEW todo, NEW pc, pc \in {"parents", ses[s].pc},
               ses' = [ses EXCEPT ![s] = [ses[s] EXCEPT !.todo = todo, !.pc = pc]]
        PROVE  SchemaInv'
    <2>1. [ses[s] EXCEPT !.todo = todo, !.pc = pc].pc \in {"open", "parents"}
      BY <1>4, <1>7, <1>2, Zenon DEF SessionStates
    <2>2. \A u \in Names : u \in file' \/ cache'[u] # "none" => u \in file \/ cache[u] # "none"
      BY <1>7, <1>2 DEF CanOpen, Inv, TypeInv
    <2> QED
      BY <1>3, <1>7, <1>2, <2>1, <2>2, SchemaQuiet
  <1> QED
    BY <1>1, <1>5, <1>6, <1>7, Zenon

\* DROP TABLE: the schema stays with the manager.
LEMMA SchemaDrop ==
  ASSUME Inv, SchemaInv, NEW s \in Sessions,
         drop_table(s) \/ unlink_schema(s) \/ TakeMutex(s) \/ drop_block_cache(s)
  PROVE  SchemaInv'
  <1>1. /\ ses[s].pc \in {"unlink", "unschema", "take", "erase"}
        /\ sch' = sch /\ file' \subseteq file /\ robbed \subseteq robbed'
        /\ cache' = cache \/ cache' = [cache EXCEPT ![ses[s].st.tbl] = "none"]
        /\ \/ \E out : Finish(s, out)
           \/ \E pc \in {"unschema", "take", "erase"} : ses' = [ses EXCEPT ![s].pc = pc]
    BY DEF drop_table, unlink_schema, TakeMutex, drop_block_cache
  <1>2. \A t \in Names : t \in file' \/ cache'[t] # "none" => t \in file \/ cache[t] # "none"
    BY <1>1 DEF Inv, TypeInv
  <1>3. CASE \E out : Finish(s, out)
    BY <1>1, <1>2, <1>3, SchemaFinish
  <1>4. ASSUME NEW pc \in {"unschema", "take", "erase"}, ses' = [ses EXCEPT ![s].pc = pc] PROVE SchemaInv'
    <2>1. [ses[s] EXCEPT !.pc = pc].pc = pc
      BY SessionTypes DEF SessionStates
    <2>2. \A t, f : ~ ToTell(s, t, f)
      BY <1>1, NothingToTell
    <2> QED
      BY <1>1, <1>2, <1>4, <2>1, <2>2, SchemaQuiet
  <1> QED
    BY <1>1, <1>3, <1>4

\* A statement is sent.
LEMMA SchemaSend ==
  ASSUME Inv, SchemaInv, NEW s \in Sessions, NEW st \in Statements, Send(s, st)
  PROVE  SchemaInv'
  <1> DEFINE pc == CASE st.op = "create" -> "keys" [] st.op = "drop" -> "unlink" [] OTHER -> "open"
             e == [pc |-> pc, st |-> st, todo |-> Opens(st), out |-> "none"]
  <1>1. /\ ses[s].pc = "idle" /\ ses' = [ses EXCEPT ![s] = e]
        /\ cache' = cache /\ sch' = sch /\ file' = file /\ robbed' = robbed
    BY Zenon DEF Send
  <1>2. pc \in {"keys", "unlink", "open"}
    OBVIOUS
  <1> HIDE DEF pc
  <1>3. e.pc \in {"keys", "unlink", "open"}
    BY <1>2
  <1> HIDE DEF e
  <1>4. \A t, f : ~ ToTell(s, t, f)
    BY <1>1, NothingToTell
  <1> QED
    BY <1>1, <1>3, <1>4, SchemaQuiet

\* The invariant about schemas is inductive.
LEMMA SchemaNext == Inv /\ SchemaInv /\ [Next]_vars => SchemaInv'
  <1> SUFFICES ASSUME Inv, SchemaInv, [Next]_vars PROVE SchemaInv'
    OBVIOUS
  <1>1. CASE UNCHANGED vars
    <2>1. sch' = sch /\ file' = file /\ cache' = cache /\ ses' = ses /\ robbed' = robbed
      BY <1>1 DEF vars
    <2>2. Known' = Known
      BY <2>1 DEF Known
    <2>3. TablesOK'
      BY <2>1, <2>2 DEF SchemaInv, TablesOK
    <2>4. KnownInv'
      BY <2>1, <2>2 DEF SchemaInv, KnownInv, KeysKnown
    <2>5. \A u \in Sessions : \A t, f : ToTell(u, t, f) => ToTell(u, t, f)'
      BY <2>1 DEF ToTell
    <2>6. KeysTold'
      BY <2>1, <2>5 DEF SchemaInv, KeysTold
    <2> QED
      BY <2>3, <2>4, <2>6 DEF SchemaInv
  <1>2. ASSUME NEW s \in Sessions, Step(s) PROVE SchemaInv'
    <2>1. CASE OpenAndLock(s) \/ LoseTrack(s)
      BY <2>1, SchemaOpen
    <2>2. CASE insert(s) \/ load_data(s) \/ delete_row(s) \/ update(s) \/ select(s)
      <3>1. ses[s].pc = "parents"
        BY <2>2, Zenon DEF insert, load_data, delete_row, update, select, Ready
      <3>2. \/ \E op, new, asked : ModifyRows(s, op, new, asked)
            \/ (\E out : Finish(s, out)) /\ UNCHANGED <<sch, disk, file, cache, rows, sent, want, thrown, robbed, mixed>>
        BY <2>2, Zenon DEF insert, load_data, delete_row, update, select
      <3>3. (\E out : Finish(s, out)) /\ sch' = sch /\ file' = file /\ cache' = cache /\ robbed' = robbed
        BY <3>2, Zenon DEF ModifyRows
      <3> QED
        BY <3>1, <3>3, SchemaFinish
    <2>3. CASE \/ add_foreign_key(s) \/ drop_foreign_key(s)
               \/ add_index(s) \/ drop_index(s) \/ alter_column(s)
      <3>1. ses[s].pc = "parents"
        BY <2>3, Zenon DEF add_foreign_key, drop_foreign_key, add_index, drop_index, alter_column, Ready
      <3> QED
        BY <2>3, <3>1, StatementAlters, SchemaAlter DEF SchemaInv
    <2>4. CASE CheckKeys(s)
      BY <2>4, SchemaCheckKeys
    <2>5. CASE create_table(s)
      BY <2>5, SchemaCreate
    <2>6. CASE add_schema(s)
      BY <2>6, SchemaAdd
    <2>7. CASE save_schema(s)
      BY <2>7, SchemaSave
    <2>8. CASE create_file(s)
      BY <2>8, SchemaFile
    <2>9. CASE make_reference(s)
      BY <2>9, SchemaReference
    <2>10. CASE EndCreate(s)
      <3>1. /\ ses[s].pc = "refs" /\ ses[s].todo = <<>> /\ Finish(s, "ok")
            /\ sch' = sch /\ file' = file /\ cache' = cache /\ robbed' = robbed
        BY <2>10, Zenon DEF EndCreate
      <3> QED
        BY <3>1, SchemaFinish
    <2>11. CASE drop_table(s) \/ unlink_schema(s) \/ TakeMutex(s) \/ drop_block_cache(s)
      BY <2>11, SchemaDrop
    <2> QED
      BY <1>2, <2>1, <2>2, <2>3, <2>4, <2>5, <2>6, <2>7, <2>8, <2>9, <2>10, <2>11 DEF Step
  <1>3. ASSUME NEW s \in Sessions, NEW st \in Statements, Send(s, st) PROVE SchemaInv'
    BY <1>3, SchemaSend
  <1> QED
    BY <1>1, <1>2, <1>3 DEF Next

LEMMA SchemaInvCorrect == Spec => [](Inv /\ SchemaInv)
  <1>1. Init => Inv /\ SchemaInv
    BY InvInit, SchemaInit
  <1>2. (Inv /\ SchemaInv) /\ [Next]_vars => (Inv /\ SchemaInv)'
    BY InvNext, SchemaNext
  <1> QED
    BY <1>1, <1>2, PTL DEF Spec

-----------------------------------------------------------------------------
(* The schema files.                                                       *)

\* Session s is making table t, or dropping it.
At(s, t) == ses[s].pc \in Making \cup Dropping /\ ses[s].st.tbl = t

\* Unless it was mixed up, a table has no file while a session makes or drops it,
\* and no other session does.
Alone(t) ==
  \A s \in Sessions : At(s, t) => t \notin file /\ \A u \in Sessions : At(u, t) => u = s

\* The schema of t was saved.
Ripe(t) == t \in file \/ \E s \in Sessions : ses[s].pc = "make" /\ ses[s].st.tbl = t

SavedInv ==
  /\ disk = [t \in Names |-> disk[t]]
  /\ \A t \in Names \ mixed : Alone(t) /\ (~ thrown /\ Ripe(t) => disk[t] = sch[t])

\* A session that was not making or dropping a table is not at it now, and the
\* others are where they were.
LEMMA SavedQuiet ==
  ASSUME Inv, SavedInv, NEW s \in Sessions, NEW e, ses' = [ses EXCEPT ![s] = e],
         e.pc \in Making \cup Dropping => ses[s].pc \in Making \cup Dropping /\ e.st = ses[s].st,
         e.pc = "make" => ses[s].pc = "make",
         file' \subseteq file, mixed' = mixed, disk' = [t \in Names |-> disk'[t]],
         thrown => thrown',
         \A t \in Names \ mixed : ~ thrown' /\ Ripe(t) => disk'[t] = sch'[t] \/ ~ Ripe(t)'
  PROVE  SavedInv'
  <1>1. ses'[s] = e /\ \A u \in Sessions \ {s} : ses'[u] = ses[u]
    BY OneMoves
  <1>2. ASSUME NEW u \in Sessions, NEW t, At(u, t)' PROVE At(u, t)
    BY <1>1, <1>2 DEF At
  <1>3. ASSUME NEW t \in Names, Alone(t) PROVE Alone(t)'
    BY <1>2, <1>3 DEF Alone
  <1>4. ASSUME NEW t \in Names, Ripe(t)' PROVE Ripe(t)
    <2>1. CASE t \in file'
      BY <2>1 DEF Ripe
    <2>2. ASSUME NEW u \in Sessions, ses'[u].pc = "make", ses'[u].st.tbl = t PROVE Ripe(t)
      <3>1. CASE u = s
        <4>1. ses[s].pc = "make" /\ e.st = ses[s].st
          BY <1>1, <2>2, <3>1 DEF Making
        <4> QED
          BY <1>1, <2>2, <3>1, <4>1 DEF Ripe
      <3>2. CASE u # s
        BY <1>1, <2>2, <3>2 DEF Ripe
      <3> QED
        BY <3>1, <3>2
    <2> QED
      BY <1>4, <2>1, <2>2 DEF Ripe
  <1>5. ASSUME NEW t \in Names \ mixed PROVE Alone(t)' /\ (~ thrown' /\ Ripe(t)' => disk'[t] = sch'[t])
    BY <1>3, <1>4 DEF SavedInv
  <1> QED
    BY <1>5 DEF SavedInv

\* Nothing happens to the files and the schemas.
LEMMA SavedSame ==
  ASSUME Inv, SavedInv, NEW s \in Sessions, NEW e, ses' = [ses EXCEPT ![s] = e],
         e.pc \in Making \cup Dropping => ses[s].pc \in Making \cup Dropping /\ e.st = ses[s].st,
         e.pc = "make" => ses[s].pc = "make",
         UNCHANGED <<sch, disk, mixed, thrown>>, file' \subseteq file
  PROVE  SavedInv'
  <1>1. \A t \in Names \ mixed : ~ thrown' /\ Ripe(t) => disk'[t] = sch'[t]
    BY DEF SavedInv
  <1>2. disk' = [t \in Names |-> disk'[t]]
    BY DEF SavedInv
  <1> QED
    BY <1>1, <1>2, SavedQuiet

LEMMA SavedFinish ==
  ASSUME Inv, SavedInv, NEW s \in Sessions, NEW out, Finish(s, out),
         UNCHANGED <<sch, disk, file, mixed, thrown>>
  PROVE  SavedInv'
  <1> DEFINE e == [IdleSession EXCEPT !.out = out]
  <1>1. ses' = [ses EXCEPT ![s] = e] /\ e.pc = "idle"
    BY DEF Finish, IdleSession
  <1> HIDE DEF e
  <1> QED
    BY <1>1, SavedSame DEF Making, Dropping

\* ALTER TABLE saves what it altered, or fails.
LEMMA SavedAlter ==
  ASSUME Inv, SavedInv, NEW s \in Sessions, NEW z, NEW names, \A u \in Names \ names : z[u] = sch[u],
         Alter(s, z, names) \/ Throw(s, z)
  PROVE  SavedInv'
  <1>1. PICK e : ses' = [ses EXCEPT ![s] = e] /\ e.pc = "idle"
    <2>1. PICK out : Finish(s, out)
      BY DEF Alter, Throw
    <2>2. ses' = [ses EXCEPT ![s] = [IdleSession EXCEPT !.out = out]]
      BY <2>1, Zenon DEF Finish
    <2>3. [IdleSession EXCEPT !.out = out].pc = "idle"
      BY DEF IdleSession
    <2> QED
      BY <2>2, <2>3, Zenon
  <1>2. sch' = z /\ file' = file /\ mixed' = mixed /\ thrown \in BOOLEAN
    BY DEF Alter, Throw, Inv, TypeInv
  <1>3. CASE Alter(s, z, names)
    <2>1. disk' = [t \in Names |-> IF t \in names THEN z[t] ELSE disk[t]] /\ thrown' = thrown
      BY <1>3 DEF Alter, Saved
    <2>2. disk' = [t \in Names |-> disk'[t]]
      BY <2>1
    <2>3. \A t \in Names \ mixed : ~ thrown' /\ Ripe(t) => disk'[t] = sch'[t]
      BY <1>2, <2>1 DEF SavedInv
    <2> QED
      BY <1>1, <1>2, <2>1, <2>2, <2>3, SavedQuiet DEF Making, Dropping
  <1>4. CASE Throw(s, z)
    <2>1. thrown' = (thrown \/ z # sch) /\ disk' = disk
      BY <1>4 DEF Throw
    <2>2. disk' = [t \in Names |-> disk'[t]]
      BY <2>1 DEF SavedInv
    <2>3. thrown => thrown'
      BY <2>1, Zenon
    <2>4. ~ thrown' => ~ thrown /\ z = sch
      BY <2>1, Zenon
    <2>5. \A t \in Names \ mixed : ~ thrown' /\ Ripe(t) => disk'[t] = sch'[t]
      BY <1>2, <2>1, <2>4 DEF SavedInv
    <2> QED
      BY <1>1, <1>2, <2>2, <2>3, <2>5, SavedQuiet DEF Making, Dropping
  <1> QED
    BY <1>3, <1>4

\* CREATE TABLE goes on: another session at the table mixes it up.
LEMMA SavedCreate ==
  ASSUME Inv, SavedInv, NEW s \in Sessions, create_table(s)
  PROVE  SavedInv'
  <1> DEFINE t == ses[s].st.tbl
             e == [ses[s] EXCEPT !.pc = "add"]
  <1>1. /\ ses[s].pc = "create" /\ UNCHANGED <<sch, disk, file, thrown>>
        /\ \/ Finish(s, "error") /\ mixed' = mixed
           \/ /\ t \notin file /\ ses' = [ses EXCEPT ![s] = e]
              /\ mixed' = IF \E u \in Sessions : ses[u].pc \in Making \cup Dropping /\ ses[u].st.tbl = t
                          THEN mixed \cup {t} ELSE mixed
    BY Zenon DEF create_table
  <1>2. CASE Finish(s, "error") /\ mixed' = mixed
    BY <1>1, <1>2, SavedFinish
  <1>3. CASE /\ t \notin file /\ ses' = [ses EXCEPT ![s] = e]
             /\ mixed' = IF \E u \in Sessions : ses[u].pc \in Making \cup Dropping /\ ses[u].st.tbl = t
                         THEN mixed \cup {t} ELSE mixed
    <2>1. e.pc = "add" /\ e.st = ses[s].st
      BY SessionTypes DEF SessionStates
    <2> HIDE DEF e
    <2>2. ses'[s] = e /\ \A u \in Sessions \ {s} : ses'[u] = ses[u]
      BY <1>3, OneMoves
    <2> HIDE DEF t
    <2>3. ASSUME NEW y \in Names \ mixed' PROVE Alone(y)' /\ (~ thrown' /\ Ripe(y)' => disk'[y] = sch'[y])
      <3>1. y \notin mixed /\ Alone(y) /\ (~ thrown /\ Ripe(y) => disk[y] = sch[y])
        BY <1>3, <2>3 DEF SavedInv
      <3>2. y = t => \A u \in Sessions : ~ At(u, y)
        BY <1>3, <2>3 DEF At
      <3>3. \A u \in Sessions : At(u, y)' => At(u, y) \/ (u = s /\ y = t)
        BY <2>1, <2>2 DEF At, t
      <3>4. Alone(y)'
        BY <1>1, <1>3, <3>1, <3>2, <3>3 DEF Alone
      <3>5. Ripe(y)' => Ripe(y)
        BY <1>1, <2>1, <2>2 DEF Ripe
      <3> QED
        BY <1>1, <3>1, <3>4, <3>5
    <2>4. disk' = [y \in Names |-> disk'[y]]
      BY <1>1 DEF SavedInv
    <2> QED
      BY <2>3, <2>4 DEF SavedInv
  <1> QED
    BY <1>1, <1>2, <1>3

\* The schema in memory changes, and then the file.
LEMMA SavedAdd ==
  ASSUME Inv, SavedInv, NEW s \in Sessions, add_schema(s)
  PROVE  SavedInv'
  <1> DEFINE t == ses[s].st.tbl
             e == [ses[s] EXCEPT !.pc = "save"]
  <1>1. /\ ses[s].pc = "add" /\ ses' = [ses EXCEPT ![s] = e] /\ UNCHANGED <<disk, file, thrown, mixed>>
        /\ sch' = [sch EXCEPT ![t] = NewSchema(ses[s].st)]
    BY Zenon DEF add_schema
  <1>2. e.pc = "save" /\ e.st = ses[s].st
    BY SessionTypes DEF SessionStates
  <1> HIDE DEF e
  <1>3. At(s, t)
    BY <1>1 DEF At, Making
  <1> HIDE DEF t
  <1>4. ASSUME NEW y \in Names \ mixed, ~ thrown', Ripe(y) PROVE disk'[y] = sch'[y]
    <2>1. CASE y = t
      <3>1. y \notin file /\ \A u \in Sessions : At(u, y) => u = s
        BY <1>3, <2>1 DEF SavedInv, Alone
      <3>2. PICK u \in Sessions : ses[u].pc = "make" /\ ses[u].st.tbl = y
        BY <1>4, <3>1 DEF Ripe
      <3> QED
        BY <1>1, <3>1, <3>2 DEF At, Making
    <2>2. CASE y # t
      BY <1>1, <1>4, <2>2 DEF SavedInv, Inv, SchemasOK
    <2> QED
      BY <2>1, <2>2
  <1>5. disk' = [y \in Names |-> disk'[y]]
    BY <1>1 DEF SavedInv
  <1> QED
    BY <1>1, <1>2, <1>4, <1>5, SavedQuiet DEF Making

LEMMA SavedSave ==
  ASSUME Inv, SavedInv, NEW s \in Sessions, save_schema(s)
  PROVE  SavedInv'
  <1> DEFINE t == ses[s].st.tbl
             e == [ses[s] EXCEPT !.pc = "make"]
  <1>1. /\ ses[s].pc = "save" /\ ses' = [ses EXCEPT ![s] = e] /\ UNCHANGED <<sch, file, thrown, mixed>>
        /\ disk' = [u \in Names |-> IF u \in {t} THEN sch[u] ELSE disk[u]]
    BY Zenon DEF save_schema, Saved
  <1>2. e.pc = "make" /\ e.st = ses[s].st
    BY SessionTypes DEF SessionStates
  <1> HIDE DEF e
  <1>3. ses'[s] = e /\ \A u \in Sessions \ {s} : ses'[u] = ses[u]
    BY <1>1, OneMoves
  <1>4. disk' = [y \in Names |-> disk'[y]] /\ \A y \in Names : disk'[y] = IF y = t THEN sch[y] ELSE disk[y]
    BY <1>1
  <1>5. \A u \in Sessions : \A y : At(u, y)' => At(u, y)
    BY <1>1, <1>2, <1>3 DEF At, Making
  <1>6. \A y : Ripe(y)' => Ripe(y) \/ y = t
    BY <1>1, <1>2, <1>3 DEF Ripe
  <1> HIDE DEF t
  <1>7. ASSUME NEW y \in Names \ mixed PROVE Alone(y)' /\ (~ thrown' /\ Ripe(y)' => disk'[y] = sch'[y])
    <2>1. Alone(y) /\ (~ thrown /\ Ripe(y) => disk[y] = sch[y])
      BY DEF SavedInv
    <2>2. Alone(y)'
      BY <1>1, <1>5, <2>1 DEF Alone
    <2> QED
      BY <1>1, <1>4, <1>6, <2>1, <2>2
  <1> QED
    BY <1>1, <1>4, <1>7 DEF SavedInv

\* The table has a file again, which is as good as a session about to make it.
LEMMA SavedFile ==
  ASSUME Inv, SavedInv, NEW s \in Sessions, create_file(s)
  PROVE  SavedInv'
  <1> DEFINE t == ses[s].st.tbl
             e == [ses[s] EXCEPT !.pc = "refs", !.todo = [i \in DOMAIN ses[s].st.fks |-> ses[s].st.fks[i].to]]
  <1>1. /\ ses[s].pc = "make" /\ ses' = [ses EXCEPT ![s] = e] /\ UNCHANGED <<sch, disk, thrown, mixed>>
        /\ file' = file \cup {t}
    BY Zenon DEF create_file
  <1>2. e.pc = "refs"
    BY SessionTypes DEF SessionStates
  <1> HIDE DEF e
  <1>3. ses'[s] = e /\ \A u \in Sessions \ {s} : ses'[u] = ses[u]
    BY <1>1, OneMoves
  <1>4. At(s, t) /\ Ripe(t)
    BY <1>1 DEF At, Making, Ripe
  <1>5. \A u \in Sessions : \A y : At(u, y)' => u # s /\ At(u, y)
    BY <1>2, <1>3 DEF At, Making, Dropping
  <1>6. \A y : Ripe(y)' => Ripe(y)
    BY <1>1, <1>2, <1>3, <1>4 DEF Ripe
  <1> HIDE DEF t
  <1>7. ASSUME NEW y \in Names \ mixed PROVE Alone(y)' /\ (~ thrown' /\ Ripe(y)' => disk'[y] = sch'[y])
    <2>1. Alone(y) /\ (~ thrown /\ Ripe(y) => disk[y] = sch[y])
      BY DEF SavedInv
    <2>2. y = t => \A u \in Sessions : ~ At(u, y)'
      BY <1>4, <1>5, <2>1 DEF Alone
    <2>3. Alone(y)'
      BY <1>1, <1>5, <2>1, <2>2 DEF Alone
    <2> QED
      BY <1>1, <1>6, <2>1, <2>3
  <1>8. disk' = [y \in Names |-> disk'[y]]
    BY <1>1 DEF SavedInv
  <1> QED
    BY <1>1, <1>7, <1>8 DEF SavedInv

LEMMA SavedReference ==
  ASSUME Inv, SavedInv, NEW s \in Sessions, make_reference(s)
  PROVE  SavedInv'
  <1> DEFINE p == Head(ses[s].todo)
             y == LeadingRefs(sch[p].cols, ses[s].st.tbl, NextKey(s))
             x == [ses[s] EXCEPT !.todo = Tail(ses[s].todo)]
             e == [ses[s] EXCEPT !.pc = "undefined"]
  <1>1. /\ ses[s].pc = "refs" /\ UNCHANGED <<file, thrown, mixed>>
        /\ \/ ses' = [ses EXCEPT ![s] = e] /\ sch' = sch /\ disk' = disk
           \/ /\ ses' = [ses EXCEPT ![s] = x] /\ sch' = [sch EXCEPT ![p].cols = y]
              /\ disk' = [u \in Names |-> IF u \in {p} THEN sch'[u] ELSE disk[u]]
    BY Zenon DEF make_reference, Saved
  <1>2. e.pc = "undefined" /\ x.pc = "refs"
    BY <1>1, SessionTypes DEF SessionStates
  <1> HIDE DEF e, x
  <1>3. CASE ses' = [ses EXCEPT ![s] = e] /\ sch' = sch /\ disk' = disk
    BY <1>1, <1>2, <1>3, SavedSame DEF Making, Dropping
  <1>4. CASE /\ ses' = [ses EXCEPT ![s] = x] /\ sch' = [sch EXCEPT ![p].cols = y]
             /\ disk' = [u \in Names |-> IF u \in {p} THEN sch'[u] ELSE disk[u]]
    <2> HIDE DEF p, y
    <2>1. \A u \in Names : u # p => sch'[u] = sch[u]
      BY <1>4 DEF Inv, SchemasOK
    <2>2. disk' = [u \in Names |-> disk'[u]] /\ \A u \in Names : disk'[u] = IF u = p THEN sch'[u] ELSE disk[u]
      BY <1>4
    <2>3. \A u \in Names \ mixed : ~ thrown' /\ Ripe(u) => disk'[u] = sch'[u]
      BY <1>1, <2>1, <2>2 DEF SavedInv
    <2> QED
      BY <1>1, <1>2, <1>4, <2>2, <2>3, SavedQuiet DEF Making, Dropping
  <1> QED
    BY <1>1, <1>3, <1>4

\* DROP TABLE unlinks the two files, one after the other.
LEMMA SavedDrop ==
  ASSUME Inv, SavedInv, NEW s \in Sessions, drop_table(s)
  PROVE  SavedInv'
  <1> DEFINE t == ses[s].st.tbl
             e == [ses[s] EXCEPT !.pc = "unschema"]
  <1>1. /\ ses[s].pc = "unlink" /\ UNCHANGED <<sch, disk, thrown, mixed>>
        /\ \/ Finish(s, "error") /\ file' = file
           \/ t \in file /\ ses' = [ses EXCEPT ![s] = e] /\ file' = file \ {t}
    BY Zenon DEF drop_table
  <1>2. CASE Finish(s, "error") /\ file' = file
    BY <1>1, <1>2, SavedFinish
  <1>3. CASE t \in file /\ ses' = [ses EXCEPT ![s] = e] /\ file' = file \ {t}
    <2>1. e.pc = "unschema" /\ e.st = ses[s].st
      BY SessionTypes DEF SessionStates
    <2> HIDE DEF e
    <2>2. ses'[s] = e /\ \A u \in Sessions \ {s} : ses'[u] = ses[u]
      BY <1>3, OneMoves
    <2>3. \A u \in Sessions : \A y : At(u, y)' => At(u, y) \/ (u = s /\ y = t)
      BY <2>1, <2>2 DEF At
    <2>4. \A y : Ripe(y)' => Ripe(y)
      BY <1>3, <2>1, <2>2 DEF Ripe
    <2> HIDE DEF t
    <2>5. ASSUME NEW y \in Names \ mixed PROVE Alone(y)' /\ (~ thrown' /\ Ripe(y)' => disk'[y] = sch'[y])
      <3>1. Alone(y) /\ (~ thrown /\ Ripe(y) => disk[y] = sch[y])
        BY DEF SavedInv
      <3>2. y = t => \A u \in Sessions : ~ At(u, y)
        BY <1>3, <3>1 DEF Alone
      <3>3. Alone(y)'
        BY <1>3, <2>3, <3>1, <3>2 DEF Alone
      <3> QED
        BY <1>1, <2>4, <3>1, <3>3
    <2>6. disk' = [y \in Names |-> disk'[y]]
      BY <1>1 DEF SavedInv
    <2> QED
      BY <1>1, <2>5, <2>6 DEF SavedInv
  <1> QED
    BY <1>1, <1>2, <1>3

LEMMA SavedUnlink ==
  ASSUME Inv, SavedInv, NEW s \in Sessions, unlink_schema(s)
  PROVE  SavedInv'
  <1> DEFINE t == ses[s].st.tbl
             e == [ses[s] EXCEPT !.pc = "take"]
  <1>1. /\ ses[s].pc = "unschema" /\ UNCHANGED <<sch, file, thrown, mixed>>
        /\ \/ Finish(s, "error") /\ disk' = disk
           \/ ses' = [ses EXCEPT ![s] = e] /\ disk' = [disk EXCEPT ![t] = NoSchema]
    BY Zenon DEF unlink_schema
  <1>2. CASE Finish(s, "error") /\ disk' = disk
    BY <1>1, <1>2, SavedFinish
  <1>3. CASE ses' = [ses EXCEPT ![s] = e] /\ disk' = [disk EXCEPT ![t] = NoSchema]
    <2>1. e.pc = "take" /\ e.st = ses[s].st
      BY SessionTypes DEF SessionStates
    <2> HIDE DEF e
    <2>2. At(s, t)
      BY <1>1 DEF At, Dropping
    <2> HIDE DEF t
    <2>3. disk' = [y \in Names |-> disk'[y]] /\ \A y \in Names : y # t => disk'[y] = disk[y]
      BY <1>3 DEF SavedInv
    <2>4. ASSUME NEW y \in Names \ mixed, ~ thrown', Ripe(y) PROVE disk'[y] = sch'[y]
      <3>1. CASE y = t
        <4>1. y \notin file /\ \A u \in Sessions : At(u, y) => u = s
          BY <2>2, <3>1 DEF SavedInv, Alone
        <4>2. PICK u \in Sessions : ses[u].pc = "make" /\ ses[u].st.tbl = y
          BY <2>4, <4>1 DEF Ripe
        <4> QED
          BY <1>1, <4>1, <4>2 DEF At, Making
      <3>2. CASE y # t
        BY <1>1, <2>3, <2>4, <3>2 DEF SavedInv
      <3> QED
        BY <3>1, <3>2
    <2> QED
      BY <1>1, <1>3, <2>1, <2>3, <2>4, SavedQuiet DEF Making, Dropping
  <1> QED
    BY <1>1, <1>2, <1>3

LEMMA SavedNext == Inv /\ SavedInv /\ [Next]_vars => SavedInv'
  <1> SUFFICES ASSUME Inv, SavedInv, [Next]_vars PROVE SavedInv'
    OBVIOUS
  <1>1. CASE UNCHANGED vars
    BY <1>1 DEF vars, SavedInv, Alone, At, Ripe
  <1>2. ASSUME NEW s \in Sessions, Step(s) PROVE SavedInv'
    <2> DEFINE To(pc) == ses' = [ses EXCEPT ![s].pc = pc]
    <2>1. \A pc : [ses[s] EXCEPT !.pc = pc].pc = pc /\ [ses[s] EXCEPT !.pc = pc].st = ses[s].st
      BY SessionTypes DEF SessionStates
    <2>2. ASSUME UNCHANGED <<sch, disk, file, mixed, thrown>>, NEW pc, To(pc),
                 pc \in {"undefined", "create"} \/ (pc = "erase" /\ ses[s].pc = "take")
          PROVE  SavedInv'
      BY <2>1, <2>2, SavedSame DEF Making, Dropping
    <2>3. CASE OpenAndLock(s) \/ LoseTrack(s)
      <3> DEFINE t == Head(ses[s].todo)
                 rest == Tail(ses[s].todo)
                 todo == IF rest = <<>> /\ ses[s].pc = "open" THEN load_foreign_tree(ses[s].st) ELSE rest
                 pc == IF rest = <<>> THEN "parents" ELSE ses[s].pc
                 e == [ses[s] EXCEPT !.todo = todo, !.pc = pc]
      <3>1. /\ UNCHANGED <<sch, disk, file, mixed, thrown>> /\ ses[s].pc \in {"open", "parents"}
            /\ Finish(s, "error") \/ To("undefined") \/ ses' = [ses EXCEPT ![s] = e]
        BY <2>3, Zenon DEF OpenAndLock, LoseTrack
      <3>2. pc \in {"open", "parents"}
        BY <3>1
      <3> HIDE DEF todo, pc
      <3>3. e.pc = pc
        BY SessionTypes DEF SessionStates
      <3> HIDE DEF e
      <3>4. CASE ses' = [ses EXCEPT ![s] = e]
        BY <3>1, <3>2, <3>3, <3>4, SavedSame DEF Making, Dropping
      <3> QED
        BY <2>2, <3>1, <3>4, SavedFinish
    <2>4. CASE insert(s) \/ load_data(s) \/ delete_row(s) \/ update(s) \/ select(s) \/ EndCreate(s) \/ drop_block_cache(s)
      <3>1. \/ \E op, new, asked : ModifyRows(s, op, new, asked)
            \/ (\E out : Finish(s, out)) /\ UNCHANGED <<sch, disk, file, mixed, thrown>>
        BY <2>4, Zenon DEF insert, load_data, delete_row, update, select, EndCreate, drop_block_cache
      <3>2. (\E out : Finish(s, out)) /\ UNCHANGED <<sch, disk, file, mixed, thrown>>
        BY <3>1, Zenon DEF ModifyRows
      <3> QED
        BY <3>2, SavedFinish
    <2>5. CASE \/ add_foreign_key(s) \/ drop_foreign_key(s)
               \/ add_index(s) \/ drop_index(s) \/ alter_column(s)
      <3>1. PICK z, names : /\ \A u \in Names \ names : z[u] = sch[u]
                            /\ Alter(s, z, names) \/ Throw(s, z)
        BY <2>5, AddKeyKeeps, DropKeyKeeps, IndexKeeps, Zenon
      <3> QED
        BY <3>1, SavedAlter
    <2>6. CASE CheckKeys(s) \/ TakeMutex(s)
      <3>1. /\ UNCHANGED <<sch, disk, file, mixed, thrown>>
            /\ Finish(s, "error") \/ To("create") \/ (To("erase") /\ ses[s].pc = "take")
        BY <2>6, Zenon DEF CheckKeys, TakeMutex
      <3> HIDE DEF To
      <3> QED
        BY <2>2, <3>1, SavedFinish
    <2>7. CASE create_table(s)
      BY <2>7, SavedCreate
    <2>8. CASE add_schema(s)
      BY <2>8, SavedAdd
    <2>9. CASE save_schema(s)
      BY <2>9, SavedSave
    <2>10. CASE create_file(s)
      BY <2>10, SavedFile
    <2>11. CASE make_reference(s)
      BY <2>11, SavedReference
    <2>12. CASE drop_table(s)
      BY <2>12, SavedDrop
    <2>13. CASE unlink_schema(s)
      BY <2>13, SavedUnlink
    <2> QED
      BY <1>2, <2>3, <2>4, <2>5, <2>6, <2>7, <2>8, <2>9, <2>10, <2>11, <2>12, <2>13 DEF Step
  <1>3. ASSUME NEW s \in Sessions, NEW st \in Statements, Send(s, st) PROVE SavedInv'
    <2> DEFINE pc == CASE st.op = "create" -> "keys" [] st.op = "drop" -> "unlink" [] OTHER -> "open"
               e == [pc |-> pc, st |-> st, todo |-> Opens(st), out |-> "none"]
    <2>1. ses' = [ses EXCEPT ![s] = e] /\ UNCHANGED <<sch, disk, file, mixed, thrown>>
      BY <1>3, Zenon DEF Send
    <2>2. pc \in {"keys", "unlink", "open"}
      OBVIOUS
    <2> HIDE DEF pc
    <2>3. e.pc \in {"keys", "unlink", "open"}
      BY <2>2
    <2> HIDE DEF e
    <2> QED
      BY <2>1, <2>3, SavedSame DEF Making, Dropping
  <1> QED
    BY <1>1, <1>2, <1>3 DEF Next

\* As long as no statement has failed half way, the schema file of a table is there
\* and is what the schema manager holds: every statement that alters a schema, its
\* own or that of a referenced table, saves all that it has altered, in any order
\* of the steps of CREATE, ALTER and DROP TABLE of any number of sessions, but
\* for tables made while another session made or dropped them.
THEOREM SchemaCorrect == Spec => []SchemaSaved
  <1>1. Init => SavedInv
    <2> SUFFICES ASSUME Init PROVE SavedInv
      OBVIOUS
    <2>1. disk = sch /\ sch = [t \in Names |-> sch[t]] /\ \A s \in Sessions : ses[s].pc = "idle"
      BY DEF Init, IdleSession
    <2> QED
      BY <2>1 DEF SavedInv, Alone, At, Making, Dropping
  <1>2. Inv /\ SchemaInv /\ SavedInv => SchemaSaved
    <2> SUFFICES ASSUME Inv, SchemaInv, SavedInv, ~ thrown, NEW t \in file \ mixed
                 PROVE  disk[t] = sch[t] /\ disk[t] # NoSchema
      BY DEF SchemaSaved
    <2>1. t \in Names /\ t \in Known
      BY DEF Inv, TypeInv, SchemaInv, KnownInv
    <2>2. NoSchema.cols = <<>>
      BY DEF NoSchema
    <2>3. disk[t] = sch[t]
      BY <2>1 DEF SavedInv, Ripe
    <2> QED
      BY <2>1, <2>2, <2>3 DEF Known
  <1> QED
    BY <1>1, <1>2, SavedNext, InvCorrect, SchemaInvCorrect, PTL DEF Spec

\* Whatever the order of the steps in which sessions create, alter and drop tables,
\* ALTERs that fail half way included, the schemas agree: a table knows of every
\* foreign key to it, or a CREATE TABLE is about to tell it, unless it was
\* dropped, made anew, or DROP FOREIGN KEY of another table took its reference for
\* one of its own (robbed); and the schema files are what the manager holds.
THEOREM AgreeCorrect == Spec => []SchemasAgree
  <1>1. Inv /\ SchemaInv /\ SchemaSaved => SchemasAgree
    BY DEF Inv, TypeInv, SchemaInv, KeysTold, KeysReferenced, SchemasAgree, ToSet
  <1> QED
    BY <1>1, SchemaInvCorrect, SchemaCorrect, PTL

=============================================================================
