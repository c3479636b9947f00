------------------------- MODULE GeneratedStoreProofs -------------------------
(***************************************************************************)
(* The merge into the generated store, for any offers and any images:      *)
(* stored revisions never change, a merge that reports success is whole    *)
(* and one that fails has a row to blame, a part resolves to its latest    *)
(* published revision, and its id leads back to it.  The merge needs no    *)
(* more of the parser than the comparison of pin counts that Drifted       *)
(* makes; what the parser accepts, and on what the extraction panics, is   *)
(* proved by itself.                                                       *)
(***************************************************************************)
EXTENDS GeneratedStore, ExtremesProofs, FiniteSetTheorems, TLAPS

(* The row of the catalog that the merge has made of the source's i-th. *)
Has(rows, i) == \E r \in rows : /\ r.rev = Rev(i) /\ r.text = Offers[source[i]].text
                                /\ Len(r.body.pins) = Offers[source[i]].pins

Keeps(f, g) == \A r \in f.rows : r \in g.rows /\ g.registry[r.key] = f.registry[r.key]

(* What the transaction has on top of the file, and what it has done. *)
Ahead == pc = "merging" => /\ file.there /\ ~file.torn /\ Keeps(file, work)
                           /\ work.there /\ work.tables /\ work.column
                           /\ \A i \in (1 .. seen) \ todo : Has(work.rows, i)
Away == pc = "building" => ~file.there
InGenerated == \A f \in {file, work} : \A r \in f.rows : r.lib \in Generated
Inv == TypeOK /\ Ahead /\ Away /\ InGenerated /\ MergedWhole

-----------------------------------------------------------------------------
(* A row that validates is of a generated library, and is stored with as   *)
(* many pins as it says.                                                   *)
LEMMA PreparedRow ==
    ASSUME NEW o \in DOMAIN Offers, Prepared[o].error = "none"
    PROVE  /\ Stored(o).lib \in Generated
           /\ Len(Prepared[o].body.pins) = Offers[o].pins
<1>1. Prepare(Offers[o]).error = "none" /\ Prepared[o] = Prepare(Offers[o])
  BY DEF Prepared
<1> DEFINE row == Offers[o]
           lib == ExtractLib(Parse(row.text).root[1])
<1>2. /\ Canonical(row) /\ ~Drifted(row, lib.symbols[1])
      /\ Prepare(row) = [error |-> "none", body |-> BodyOf(lib.symbols[1])]
  BY <1>1 DEF Prepare, Refused, BodyIn
<1>3. Len(BodyOf(lib.symbols[1]).pins) = row.pins
  BY <1>2 DEF Drifted, BodyOf
<1>4. row.lib \in Generated
  BY <1>2 DEF Canonical
<1> QED BY <1>1, <1>2, <1>3, <1>4 DEF Stored, Store

LEMMA StoredRow ==
    ASSUME NEW o \in DOMAIN Offers
    PROVE  /\ Stored(o).rev = Offers[o].rev /\ Stored(o).text = Offers[o].text
           /\ Stored(o).body = Prepared[o].body /\ Stored(o).at \in Instant
           /\ Stored(o).key = Key(PartId(Offers[o].part))
  BY StoreAssumption DEF Stored, Store

(* What WithRow makes of a catalog that has no row of that revision. *)
LEMMA WithRowAdds ==
    ASSUME NEW f, Catalog(f), NEW o \in DOMAIN Offers,
           \A r \in f.rows : r.rev # Offers[o].rev,
           f.there, f.tables, f.column
    PROVE  LET g == WithRow(f, o) IN
           /\ Catalog(g) /\ Keeps(f, g) /\ g.rows = f.rows \cup {Stored(o)}
           /\ g.there /\ g.tables /\ g.column
<1> DEFINE g == WithRow(f, o)
           k == Key(PartId(Offers[o].part))
           added == Registered(f.registry, PartId(Offers[o].part))
<1>1. /\ DOMAIN added = DOMAIN f.registry \cup {k}
      /\ \A x \in DOMAIN f.registry : added[x] = f.registry[x]
  BY DEF Registered
<1>2. /\ DOMAIN g = DOMAIN f /\ g.rows = f.rows \cup {Stored(o)} /\ g.registry = added
      /\ g.there = f.there /\ g.tables = f.tables /\ g.column = f.column
  BY DEF WithRow, Catalog
<1> HIDE DEF g, added
<1>3. Keeps(f, g)
  BY <1>1, <1>2 DEF Keeps, Catalog
<1>4. \A r \in g.rows : r.key \in DOMAIN g.registry /\ r.at \in Instant
  <2> TAKE r \in g.rows
  <2>1. CASE r \in f.rows
    BY <1>1, <1>2, <2>1 DEF Catalog
  <2>2. CASE r = Stored(o)
    BY <1>1, <1>2, <2>2, StoredRow DEF k
  <2> QED BY <1>2, <2>1, <2>2
<1>5. \A r, q \in g.rows : r.rev = q.rev => r = q
  BY <1>2, StoredRow DEF Catalog
<1>6. Catalog(g)
  BY <1>2, <1>4, <1>5 DEF Catalog
<1> QED BY <1>2, <1>3, <1>6 DEF g

-----------------------------------------------------------------------------
LEMMA EmptyCatalog ==
    ASSUME NEW there \in BOOLEAN, NEW torn \in BOOLEAN, NEW tables \in BOOLEAN
    PROVE  LET f == Empty(there, torn, tables) IN
           /\ Catalog(f) /\ f.rows = {} /\ f.there = there /\ f.torn = torn
           /\ f.tables = tables
  BY DEF Empty, Catalog

(* WithTables gives nothing but the tables. *)
LEMMA TablesKeepRows ==
    ASSUME NEW f, Catalog(f)
    PROVE  LET g == WithTables(f) IN
           /\ Catalog(g) /\ g.tables /\ g.rows = f.rows /\ g.registry = f.registry
           /\ g.there = f.there /\ g.torn = f.torn
<1>1. CASE f.tables
  BY <1>1 DEF WithTables
<1>2. CASE ~f.tables
  <2> DEFINE t == [f EXCEPT !.tables = TRUE]
  <2>1. WithTables(f) = [t EXCEPT !.column = TRUE]
    BY <1>2 DEF WithTables
  <2>2. /\ DOMAIN t = DOMAIN f /\ t.tables /\ t.rows = f.rows /\ t.registry = f.registry
        /\ t.there = f.there /\ t.torn = f.torn
    BY DEF Catalog
  <2> DEFINE g == WithTables(f)
  <2> HIDE DEF t
  <2>3. /\ DOMAIN g = DOMAIN f /\ g.tables /\ g.rows = f.rows /\ g.registry = f.registry
        /\ g.there = f.there /\ g.torn = f.torn
    BY <2>1, <2>2 DEF Catalog
  <2> HIDE DEF g
  <2>4. f.rows = {}
    BY <1>2 DEF Catalog
  <2> QED BY <2>3, <2>4 DEF Catalog, g
<1> QED BY <1>1, <1>2

LEMMA Initially == Init => Inv
<1> SUFFICES ASSUME Init PROVE Inv
  OBVIOUS
<1>1. source \in Seq(DOMAIN Offers) /\ Len(source) = 0
  BY DEF Init
<1>2. Catalog(file) /\ Catalog(work)
  BY StoreAssumption, EmptyCatalog DEF Init, Missing
<1>3. seen \in 0 .. Len(source) /\ todo \subseteq 1 .. seen /\ Len(source) <= MaxRows
  BY <1>1, StoreAssumption DEF Init
<1>4. TypeOK
  BY <1>1, <1>2, <1>3 DEF Init, TypeOK
<1>5. InGenerated
  BY StoreAssumption, EmptyCatalog DEF Init, InGenerated, Missing
<1> QED BY <1>4, <1>5 DEF Init, Inv, Ahead, Away, MergedWhole

(* A producer's commit moves no row that a merge has read. *)
LEMMA PublishSafe == ASSUME Inv, Publish PROVE Inv'
<1> USE DEF Inv
<1>1. PICK o \in DOMAIN Offers : source' = Append(source, o)
  BY DEF Publish
<1>2. Len(source') = Len(source) + 1 /\ Len(source) \in Nat /\ seen \in Nat
  BY <1>1 DEF TypeOK
<1>3. TypeOK'
  BY <1>1, <1>2, StoreAssumption DEF TypeOK, Publish
<1>4. \A i \in 1 .. seen : source'[i] = source[i]
  BY <1>1 DEF TypeOK
<1>5. \A i \in 1 .. seen : Rev(i)' = Rev(i) /\ (Has(work.rows, i) => Has(work.rows, i)')
  BY <1>4 DEF Rev, Has, Publish
<1>6. Ahead' /\ Away' /\ InGenerated'
  BY <1>5 DEF Publish, Ahead, Away, InGenerated, Keeps
<1>7. MergedWhole'
  <2>1. (pc' = "idle" /\ result' = "ok") => \A i \in 1 .. seen : Has(file.rows, i)
    BY DEF MergedWhole, Has, Publish
  <2>2. \A i \in 1 .. seen : Has(file.rows, i) => Has(file.rows, i)'
    BY <1>4, <1>5 DEF Has, Publish
  <2>3. (pc' = "idle" /\ result' = "ok") => \A i \in 1 .. seen' : Has(file.rows, i)'
    BY <2>1, <2>2 DEF Publish
  <2> QED BY <2>3 DEF MergedWhole, Has
<1> QED BY <1>3, <1>6, <1>7

LEMMA BeginSafe ==
    ASSUME Inv, Begin
    PROVE  Inv' /\ Keeps(file, file')
<1> USE DEF Inv
<1> DEFINE t == WithTables(file)
<1>0. /\ Catalog(t) /\ t.tables /\ t.rows = file.rows /\ t.registry = file.registry
      /\ t.there /\ ~t.torn /\ file' = t /\ work' = [t EXCEPT !.column = TRUE]
  BY TablesKeepRows DEF Begin, TypeOK
<1> HIDE DEF t
<1>1. /\ Catalog(file') /\ Catalog(work') /\ file'.rows = file.rows /\ work'.rows = file.rows
      /\ file'.there /\ ~file'.torn /\ work'.there /\ work'.tables /\ work'.column
      /\ file'.registry = file.registry /\ work'.registry = file.registry
  BY <1>0 DEF Catalog
<1>2. TypeOK'
  BY <1>1 DEF Begin, TypeOK
<1>3. (1 .. seen') \ todo' = {}
  BY DEF Begin, TypeOK
<1>4. Ahead' /\ Away' /\ InGenerated' /\ MergedWhole' /\ Keeps(file, file')
  BY <1>1, <1>3 DEF Begin, Ahead, Away, InGenerated, MergedWhole, Keeps
<1> QED BY <1>2, <1>4

LEMMA RowsAreOffers == ASSUME TypeOK, NEW i \in todo PROVE source[i] \in DOMAIN Offers
  BY DEF TypeOK

LEMMA SkipSafe ==
    ASSUME Inv, NEW i \in todo, Skip(i)
    PROVE  Inv'
<1> USE DEF Inv
<1>1. source[i] \in DOMAIN Offers
  BY RowsAreOffers
<1>2. Has(work.rows, i)
  BY <1>1, PreparedRow DEF Skip, Taken, Outcome, Repeated, SameRev, Has
<1>3. \A j \in 1 .. seen : Has(work.rows, j)' = Has(work.rows, j)
  BY DEF Has, Skip, Taken, Rev
<1>4. Ahead'
  BY <1>2, <1>3 DEF Skip, Taken, Ahead
<1>5. TypeOK' /\ Away' /\ InGenerated' /\ MergedWhole'
  BY DEF Skip, Taken, TypeOK, Away, InGenerated, MergedWhole
<1> QED BY <1>4, <1>5

LEMMA InsertSafe ==
    ASSUME Inv, NEW i \in todo, Insert(i)
    PROVE  Inv'
<1> USE DEF Inv
<1> DEFINE o == source[i]
<1>1. o \in DOMAIN Offers /\ Prepared[o].error = "none"
  <2>1. o \in DOMAIN Offers
    BY RowsAreOffers
  <2>2. Prepared[o].error = "none"
    BY DEF Insert, Taken, Outcome
  <2> QED BY <2>1, <2>2
<1>2. \A r \in work.rows : r.rev # Offers[o].rev
  BY DEF Insert, SameRev, Rev
<1>3. work' = WithRow(work, o) /\ pc = "merging" /\ work.there /\ work.tables /\ work.column
  BY DEF Insert, Taken, Ahead
<1>4. Catalog(work)
  BY DEF TypeOK
<1> HIDE DEF o
<1>5. /\ Catalog(work') /\ Keeps(work, work') /\ work'.rows = work.rows \cup {Stored(o)}
      /\ work'.there /\ work'.tables /\ work'.column
  BY <1>1, <1>2, <1>3, <1>4, WithRowAdds
<1>6. TypeOK'
  BY <1>5 DEF TypeOK, Insert, Taken
<1>7. \A r \in file.rows : r \in work.rows
  BY <1>3 DEF Ahead, Keeps
<1>8. Keeps(file', work')
  BY <1>3, <1>5, <1>7 DEF Ahead, Keeps, Insert, Taken
<1>9. Has(work.rows, i)'
  <2>1. /\ Stored(o).rev = Offers[o].rev /\ Stored(o).text = Offers[o].text
        /\ Len(Stored(o).body.pins) = Offers[o].pins
    BY <1>1, PreparedRow, StoredRow
  <2> QED BY <1>5, <2>1 DEF Has, o, Rev, Insert, Taken
<1>10. \A j \in 1 .. seen : Has(work.rows, j) => Has(work.rows, j)'
  BY <1>5 DEF Has, Rev, Insert, Taken
<1>11. Ahead'
  BY <1>3, <1>5, <1>8, <1>9, <1>10 DEF Ahead, Insert, Taken
<1>12. InGenerated'
  BY <1>1, <1>5, PreparedRow DEF InGenerated, Insert, Taken
<1>13. Away' /\ MergedWhole'
  BY DEF Insert, Taken, Away, MergedWhole
<1> QED BY <1>6, <1>11, <1>12, <1>13

(* What is left of a transaction that has ended. *)
LEMMA NothingLeft == Catalog(Missing) /\ Missing.rows = {}
  BY EmptyCatalog DEF Missing

LEMMA CommitSafe ==
    ASSUME Inv, Commit
    PROVE  Inv' /\ Keeps(file, file')
<1> USE DEF Inv
<1>1. TypeOK' /\ Ahead' /\ Away' /\ InGenerated'
  BY NothingLeft DEF Commit, TypeOK, Ahead, Away, InGenerated
<1>2. \A i \in 1 .. seen : Has(work.rows, i)
  BY DEF Commit, Ahead
<1>3. MergedWhole'
  BY <1>2 DEF Commit, MergedWhole, Has, Rev
<1>4. Keeps(file, file')
  BY DEF Commit, Ahead
<1> QED BY <1>1, <1>3, <1>4

LEMMA DroppedSafe ==
    ASSUME Inv, Dropped, result' \in {"error", "panic", "killed"}
    PROVE  Inv' /\ Keeps(file, file')
<1> USE DEF Inv
<1>1. Catalog(file') /\ file'.rows = file.rows /\ file'.registry = file.registry
  BY DEF Dropped, TypeOK, Catalog
<1>2. TypeOK'
  <2>1. Catalog(work') /\ pc' = "idle" /\ source' = source /\ seen' = 0 /\ todo' = {}
    BY NothingLeft DEF Dropped
  <2>2. Len(source) \in Nat
    BY DEF TypeOK
  <2> QED BY <1>1, <2>1, <2>2 DEF TypeOK
<1>3. Ahead' /\ Away' /\ InGenerated' /\ MergedWhole' /\ Keeps(file, file')
  BY <1>1, NothingLeft DEF Dropped, Ahead, Away, InGenerated, MergedWhole, Keeps
<1> QED BY <1>2, <1>3

LEMMA RebuildSafe ==
    ASSUME Inv, Unlink \/ Built \/ BuildKilled
    PROVE  Inv' /\ ~(Whole /\ Whole')
<1> USE DEF Inv
<1>1. CASE Unlink
  <2>1. Catalog(file') /\ file'.rows = {} /\ ~file'.there
    BY <1>1, EmptyCatalog DEF Unlink, Missing
  <2>2. UNCHANGED <<source, work, result>> /\ pc' = "building" /\ seen' = 0 /\ todo' = {}
    BY <1>1 DEF Unlink
  <2>3. Len(source) \in Nat
    BY DEF TypeOK
  <2> QED BY <2>1, <2>2, <2>3 DEF TypeOK, Ahead, Away, InGenerated, MergedWhole, Whole
<1>2. CASE Built \/ BuildKilled
  <2>1. Catalog(file') /\ file'.rows = {} /\ ~file.there
    BY <1>2, EmptyCatalog DEF Built, BuildKilled, Away, Missing, Fresh
  <2>2. UNCHANGED <<source, work, seen, todo>> /\ pc' = "idle" /\ result' \in {"none", "killed"}
    BY <1>2 DEF Built, BuildKilled
  <2> QED BY <2>1, <2>2 DEF TypeOK, Ahead, Away, InGenerated, MergedWhole, Whole
<1> QED BY <1>1, <1>2

-----------------------------------------------------------------------------
LEMMA Stutters == ASSUME Inv, UNCHANGED vars PROVE Inv'
  BY DEF Inv, vars, TypeOK, Ahead, Away, InGenerated, MergedWhole, Has, Rev, Keeps

(* Every step keeps the invariant, and either every row of the file or not *)
(* the file.                                                               *)
LEMMA StepSafe ==
    ASSUME Inv, [Next]_vars
    PROVE  Inv' /\ (Whole /\ Whole' => Keeps(file, file'))
<1>1. CASE Merge
  <2>1. CASE Begin \/ Commit
    BY <2>1, BeginSafe, CommitSafe
  <2>2. CASE Killed
    BY <2>2, DroppedSafe DEF Killed
  <2>3. ASSUME NEW i \in todo, Skip(i) \/ Insert(i)
        PROVE  Inv' /\ file' = file
    BY <2>3, SkipSafe, InsertSafe DEF Skip, Insert, Taken
  <2>4. ASSUME NEW i \in todo, Fail(i) \/ Panic(i)
        PROVE  Inv' /\ Keeps(file, file')
    BY <2>4, DroppedSafe DEF Fail, Panic
  <2> QED BY <1>1, <2>1, <2>2, <2>3, <2>4 DEF Merge, Keeps
<1>2. CASE Publish
  BY <1>2, PublishSafe DEF Publish, Keeps
<1>3. CASE Unlink \/ Built \/ BuildKilled
  BY <1>3, RebuildSafe
<1>4. CASE UNCHANGED vars
  BY <1>4, Stutters DEF vars, Keeps
<1> QED BY <1>1, <1>2, <1>3, <1>4 DEF Next

LEMMA InvHolds == Spec => []Inv
<1>1. Inv /\ [Next]_vars => Inv'
  BY StepSafe
<1> QED BY Initially, <1>1, PTL DEF Spec

-----------------------------------------------------------------------------
(* revision_id stays unique and part_id resolvable in the file and inside  *)
(* the transaction.                                                        *)
THEOREM StoreTypes == Spec => []TypeOK
<1>1. Inv => TypeOK
  BY DEF Inv
<1> QED BY InvHolds, <1>1, PTL

(* A merge that reports success has all the rows it read. *)
THEOREM MergesAreWhole == Spec => []MergedWhole
<1>1. Inv => MergedWhole
  BY DEF Inv
<1> QED BY InvHolds, <1>1, PTL

(* A stored revision never changes while its file lasts. *)
THEOREM RevisionsNeverChange == Spec => RevisionsImmutable
<1> DEFINE Immutable == Whole /\ Whole' => \A r \in file.rows : \E q \in file'.rows :
                            q = r /\ file'.registry[q.key] = file.registry[r.key]
<1>1. Inv /\ [Next]_vars => [Immutable]_vars
  BY StepSafe DEF Keeps
<1> QED BY InvHolds, <1>1, PTL DEF Spec, RevisionsImmutable

(* Of two timestamps one is first, or they are the same text. *)
LEMMA TextOrder ==
    ASSUME NEW a \in Instant, NEW b \in Instant, ~TextBefore(a, b), ~TextBefore(b, a)
    PROVE  a = b
  BY DEF Instant, TextBefore

(* The symbol id of a resolved part leads back to its revision. *)
THEOREM IdsLeadBack == Spec => []IdLeadsBack
<1>1. ASSUME Inv PROVE IdLeadsBack
  <2> SUFFICES ASSUME NEW s \in Spellings, NEW r \in ResolveByMpn(s[1]),
                      \A q \in file.rows :
                         q.lib = r.lib /\ q.name = r.name /\ q.status = "published" =>
                            q.key = r.key /\ (q.at = r.at => q = r)
               PROVE  /\ CurrentByLibName(r.lib, r.name) = {r}
                      /\ ProvenanceForSymbol(r.lib, r.name) = {r.prov}
                      /\ ProvenanceForRevision(r.rev) = {r.prov}
    BY DEF IdLeadsBack
  <2> DEFINE of == {q \in Published : file.registry[q.key] = PartId(s[1])}
             same == {q \in Published : q.lib = r.lib /\ q.name = r.name}
  <2>1. r \in of /\ \A q \in of : ~TextBefore(r.at, q.at)
    BY DEF ResolveByMpn, Latest
  <2>2. \A q \in same : q \in of /\ (q.at = r.at => q = r)
    BY <2>1 DEF Published
  <2>3. \A q \in same : q.at \in Instant
    BY <1>1 DEF Inv, TypeOK, Catalog, Published
  <2>4. r \in same
    BY <2>1
  <2>5. \A q \in same : ~TextBefore(q.at, r.at) => q = r
    BY <2>1, <2>2, <2>3, <2>4, TextOrder
  <2>6. Latest(same) = {r}
    BY <2>1, <2>2, <2>4, <2>5 DEF Latest
  <2>7. r.lib \in Generated /\ \A q \in file.rows : q.rev = r.rev => q = r
    BY <1>1, <2>1 DEF Inv, InGenerated, TypeOK, Catalog, Published
  <2>8. {r.prov} = {q.prov : q \in {p \in file.rows : p.rev = r.rev}}
    BY <2>1, <2>7 DEF Published
  <2> QED BY <2>6, <2>7, <2>8 DEF CurrentByLibName, ProvenanceForSymbol, ProvenanceForRevision
<1> QED BY InvHolds, <1>1, PTL

-----------------------------------------------------------------------------
(* The parser.  A list of lists is a sequence of something. *)
IsSeq(s) == \E S : s \in Seq(S)

LEMMA SeqSteps ==
    ASSUME NEW s, IsSeq(s)
    PROVE  /\ Len(s) \in Nat /\ (s = <<>> <=> Len(s) = 0)
           /\ \A e : IsSeq(Append(s, e)) /\ Len(Append(s, e)) = Len(s) + 1
           /\ s # <<>> => \A e : IsSeq([s EXCEPT ![Len(s)] = e]) /\ Len([s EXCEPT ![Len(s)] = e]) = Len(s)
           /\ s # <<>> => IsSeq(Front(s)) /\ Len(Front(s)) = Len(s) - 1
<1>1. PICK S : s \in Seq(S)
  BY DEF IsSeq
<1>2. Len(s) \in Nat /\ (s = <<>> <=> Len(s) = 0)
  BY <1>1
<1>3. ASSUME NEW e
      PROVE  IsSeq(Append(s, e)) /\ Len(Append(s, e)) = Len(s) + 1
  <2>1. s \in Seq(S \cup {e}) /\ e \in S \cup {e}
    BY <1>1
  <2>2. Append(s, e) \in Seq(S \cup {e}) /\ Len(Append(s, e)) = Len(s) + 1
    BY <2>1
  <2> QED BY <2>2 DEF IsSeq
<1>4. ASSUME NEW e, s # <<>>
      PROVE  IsSeq([s EXCEPT ![Len(s)] = e]) /\ Len([s EXCEPT ![Len(s)] = e]) = Len(s)
  <2>1. s \in Seq(S \cup {e}) /\ e \in S \cup {e} /\ Len(s) \in 1 .. Len(s)
    BY <1>1, <1>4
  <2>2. [s EXCEPT ![Len(s)] = e] \in Seq(S \cup {e}) /\ Len([s EXCEPT ![Len(s)] = e]) = Len(s)
    BY <2>1
  <2> QED BY <2>2 DEF IsSeq
<1>5. ASSUME s # <<>>
      PROVE  IsSeq(Front(s)) /\ Len(Front(s)) = Len(s) - 1
  <2>1. Len(s) - 1 \in Nat
    BY <1>2, <1>5
  <2> DEFINE n == Len(s) - 1
             front == [i \in 1 .. n |-> s[i]]
  <2>2. Front(s) = front /\ \A i \in 1 .. n : s[i] \in S
    BY <1>1, <2>1 DEF Front
  <2>3. front \in Seq(S) /\ Len(front) = n
    <3> HIDE DEF n
    <3> QED BY <2>1, <2>2 DEF n
  <2> QED BY <2>2, <2>3 DEF IsSeq
<1> QED BY <1>2, <1>3, <1>4, <1>5

(* What the parser has in hand. *)
ReadState(at) == DOMAIN at = {"lists", "root", "error"} /\ IsSeq(at.lists)

LEMMA PutSteps ==
    ASSUME NEW at, ReadState(at), NEW node
    PROVE  LET r == Put(at, node) IN
           /\ ReadState(r) /\ r.error = at.error /\ Len(r.lists) = Len(at.lists)
           /\ at.lists = <<>> => r.root # <<>>
           /\ at.lists # <<>> => r.root = at.root
<1> DEFINE r == Put(at, node)
<1>1. CASE at.lists = <<>>
  <2>1. r = [at EXCEPT !.root = <<node>>]
    BY <1>1 DEF Put
  <2>2. DOMAIN r = DOMAIN at /\ r.error = at.error /\ r.lists = at.lists /\ r.root = <<node>>
    BY <2>1 DEF ReadState
  <2> QED BY <1>1, <2>2 DEF ReadState
<1>2. CASE at.lists # <<>>
  <2> DEFINE new == Append(at.lists[Len(at.lists)], node)
             l == [at.lists EXCEPT ![Len(at.lists)] = new]
  <2>1. r = [at EXCEPT !.lists = l]
    BY <1>2 DEF Put
  <2>2. IsSeq(l) /\ Len(l) = Len(at.lists)
    <3> HIDE DEF new
    <3> QED BY <1>2, SeqSteps DEF ReadState
  <2> HIDE DEF l
  <2>3. DOMAIN r = DOMAIN at /\ r.error = at.error /\ r.lists = l /\ r.root = at.root
    BY <2>1 DEF ReadState
  <2> QED BY <1>2, <2>2, <2>3 DEF ReadState
<1> QED BY <1>1, <1>2

(* What one token does to it, as far as trees go. *)
LEMMA ReadSteps ==
    ASSUME NEW at, ReadState(at), at.error = "none", NEW token, Token(token)
    PROVE  LET r == Read(at, token)
               depth == Len(at.lists) IN
           /\ ReadState(r)
           /\ \/ r.error # "none" /\ \/ at.root # <<>>
                                     \/ depth > MaxNesting /\ token # Close
                                     \/ token = Close /\ depth = 0
                                     \/ token = Cut
              \/ /\ r.error = "none" /\ at.root = <<>> /\ token # Cut
                 /\ token # Close => depth <= MaxNesting
                 /\ \/ token = Open /\ Len(r.lists) = depth + 1 /\ r.root = <<>>
                    \/ token = Close /\ depth = 1 /\ Len(r.lists) = 0 /\ r.root # <<>>
                    \/ token = Close /\ depth > 1 /\ Len(r.lists) = depth - 1 /\ r.root = <<>>
                    \/ /\ token \notin {Open, Close} /\ Len(r.lists) = depth
                       /\ r.root = <<>> <=> depth > 0
<1> DEFINE r == Read(at, token)
           depth == Len(at.lists)
<1>1. /\ token.is = "close" <=> token = Close
      /\ token.is = "open" <=> token = Open
      /\ token.is = "cut" <=> token = Cut
  BY DEF Token, Open, Close, Cut
<1>2. Close # Open /\ Close # Cut /\ Open # Cut
  BY DEF Open, Close, Cut
<1>3. depth \in Nat /\ (at.lists = <<>> <=> depth = 0) /\ MaxNesting \in Nat
  BY SeqSteps, TextAssumption DEF ReadState
<1>4. \A e \in {"Trailing", "TooDeep", "UnbalancedClose", "UnterminatedString"} :
         ReadState(Stop(at, e)) /\ Stop(at, e).error # "none"
  BY DEF Stop, ReadState
<1>5. CASE at.root # <<>>
  <2>1. r = Stop(at, "Trailing")
    BY <1>5 DEF Read, ReadOne
  <2> QED BY <1>4, <1>5, <2>1
<1>6. CASE at.root = <<>> /\ token = Close /\ depth > 0
  <2> DEFINE popped == [at EXCEPT !.lists = Front(@)]
             node == List(Last(at.lists))
  <2>1. r = Put(popped, node)
    BY <1>1, <1>3, <1>6 DEF Read, ReadOne, Return
  <2>2. IsSeq(Front(at.lists)) /\ Len(Front(at.lists)) = depth - 1
    BY <1>3, <1>6, SeqSteps DEF ReadState
  <2>3. /\ ReadState(popped) /\ popped.lists = Front(at.lists) /\ popped.error = "none"
        /\ popped.root = <<>>
    BY <1>6, <2>2 DEF ReadState
  <2> HIDE DEF popped, node
  <2>4. popped.lists = <<>> <=> depth = 1
    <3>1. Front(at.lists) = <<>> <=> Len(Front(at.lists)) = 0
      BY <2>2, SeqSteps
    <3> QED BY <1>3, <2>2, <2>3, <3>1
  <2>5. /\ ReadState(r) /\ r.error = "none" /\ Len(r.lists) = depth - 1
        /\ depth = 1 => r.root # <<>>
        /\ depth # 1 => r.root = <<>>
    BY <2>1, <2>2, <2>3, <2>4, PutSteps
  <2> HIDE DEF r, depth
  <2>6. (depth = 1 /\ Len(r.lists) = 0) \/ depth > 1
    BY <1>3, <1>6, <2>5
  <2> QED BY <1>2, <1>6, <2>5, <2>6 DEF r, depth
<1>7. CASE at.root = <<>> /\ ~(token = Close /\ depth > 0)
  <2>1. CASE depth > MaxNesting
    <3>1. r = Stop(at, "TooDeep")
      BY <1>1, <1>3, <1>7, <2>1 DEF Read, ReadOne
    <3>2. token # Close
      BY <1>3, <1>7, <2>1
    <3> QED BY <1>4, <2>1, <3>1, <3>2
  <2>2. CASE ~(depth > MaxNesting) /\ token = Close
    <3>1. r = Stop(at, "UnbalancedClose")
      BY <1>1, <1>3, <1>7, <2>2 DEF Read, ReadOne
    <3> QED BY <1>3, <1>4, <1>7, <2>2, <3>1
  <2>3. CASE ~(depth > MaxNesting) /\ token = Cut
    <3>1. r = Stop(at, "UnterminatedString")
      BY <1>1, <1>2, <1>3, <1>7, <2>3 DEF Read, ReadOne
    <3> QED BY <1>4, <2>3, <3>1
  <2>4. CASE ~(depth > MaxNesting) /\ token = Open
    <3> DEFINE l == Append(at.lists, <<>>)
    <3>1. r = [at EXCEPT !.lists = l]
      BY <1>1, <1>2, <1>3, <1>7, <2>4 DEF Read, ReadOne
    <3>2. IsSeq(l) /\ Len(l) = depth + 1
      BY SeqSteps DEF ReadState
    <3> HIDE DEF l
    <3>3. ReadState(r) /\ r.error = "none" /\ r.lists = l /\ r.root = <<>>
      BY <1>7, <3>1, <3>2 DEF ReadState
    <3> QED BY <1>2, <1>3, <1>7, <2>4, <3>2, <3>3
  <2>5. CASE ~(depth > MaxNesting) /\ token \notin {Open, Close, Cut}
    <3>1. r = Put(at, Leaf(token))
      BY <1>1, <1>3, <1>7, <2>5 DEF Read, ReadOne
    <3>2. /\ ReadState(r) /\ r.error = "none" /\ Len(r.lists) = depth
          /\ r.root = <<>> <=> depth > 0
      BY <1>3, <1>7, <3>1, PutSteps
    <3> QED BY <1>3, <1>7, <2>5, <3>2
  <2> QED BY <2>1, <2>2, <2>3, <2>4, <2>5
<1> QED BY <1>3, <1>5, <1>6, <1>7

(* The readings exist: each number of tokens has one. *)
NextReading(text, at, n) == IF n = 0 THEN Reading ELSE Read(at[n - 1], text[n])

LEMMA ReadingsExist ==
    ASSUME NEW text
    PROVE  \A m \in Nat : \E at : at = [n \in 0 .. m |-> NextReading(text, at, n)]
<1> DEFINE Reached == {m \in Nat : \E at : at = [n \in 0 .. m |-> NextReading(text, at, n)]}
<1>1. 0 \in Reached
  <2> DEFINE at == [n \in 0 .. 0 |-> Reading]
  <2>1. at = [n \in 0 .. 0 |-> NextReading(text, at, n)]
    BY DEF NextReading
  <2> HIDE DEF at
  <2> QED BY <2>1
<1>2. ASSUME NEW m \in Nat, m \in Reached
      PROVE  m + 1 \in Reached
  <2>1. PICK f : f = [n \in 0 .. m |-> NextReading(text, f, n)]
    BY <1>2
  <2> DEFINE at == [n \in 0 .. m + 1 |-> NextReading(text, f, n)]
             known == [n \in 0 .. m |-> NextReading(text, f, n)]
  <2>2. \A n \in 0 .. m : at[n] = f[n]
    <3>1. \A n \in 0 .. m : at[n] = known[n]
      OBVIOUS
    <3> HIDE DEF at, known
    <3> QED BY <2>1, <3>1 DEF known
  <2>3. \A n \in 0 .. m + 1 : NextReading(text, f, n) = NextReading(text, at, n)
    <3> SUFFICES ASSUME NEW n \in 0 .. m + 1 PROVE NextReading(text, f, n) = NextReading(text, at, n)
      OBVIOUS
    <3>1. n = 0 \/ n - 1 \in 0 .. m
      OBVIOUS
    <3> HIDE DEF at
    <3> QED BY <2>2, <3>1 DEF NextReading
  <2>4. at = [n \in 0 .. m + 1 |-> NextReading(text, at, n)]
    <3> DEFINE next == [n \in 0 .. m + 1 |-> NextReading(text, at, n)]
    <3>1. at = next
      BY <2>3, Zenon
    <3> QED BY <3>1
  <2> HIDE DEF at
  <2> QED BY <2>4
<1> HIDE DEF Reached
<1>3. \A m \in Nat : m \in Reached
  BY <1>1, <1>2, Induction
<1> QED BY <1>3 DEF Reached

LEMMA ReadingsAre ==
    ASSUME NEW text, IsSeq(text)
    PROVE  /\ Readings(text)[0] = Reading
           /\ \A n \in 1 .. Len(text) : Readings(text)[n] = Read(Readings(text)[n - 1], text[n])
<1>1. Len(text) \in Nat
  BY SeqSteps
<1>2. \E at : at = [n \in 0 .. Len(text) |-> NextReading(text, at, n)]
  BY <1>1, ReadingsExist
<1>3. Readings(text) = [n \in 0 .. Len(text) |-> NextReading(text, Readings(text), n)]
  BY <1>2, Zenon DEF Readings, NextReading
<1> DEFINE at == Readings(text)
           all == [n \in 0 .. Len(text) |-> NextReading(text, at, n)]
<1>4. \A n \in 0 .. Len(text) : all[n] = NextReading(text, at, n)
  OBVIOUS
<1>5. at = all
  BY <1>3
<1> HIDE DEF at, all
<1>6. \A n \in 0 .. Len(text) : at[n] = NextReading(text, at, n)
  BY <1>4, <1>5
<1> QED BY <1>1, <1>6 DEF at, NextReading

(* A token changes the level by what it is. *)
LEMMA LevelSteps ==
    ASSUME NEW text, NEW n \in Nat \ {0}
    PROVE  /\ Level(text, 0) = 0 /\ Level(text, n - 1) \in Int
           /\ Level(text, n) = Level(text, n - 1) + CASE text[n] = Open -> 1
                                                      [] text[n] = Close -> -1
                                                      [] OTHER -> 0
<1> DEFINE Of(t, m) == {i \in 1 .. m : text[i] = t}
<1>1. \A t : IsFiniteSet(Of(t, n - 1)) /\ Cardinality(Of(t, n - 1)) \in Nat
  <2> TAKE t
  <2>1. IsFiniteSet(1 .. n - 1)
    BY FS_Interval
  <2>2. IsFiniteSet(Of(t, n - 1))
    BY <2>1, FS_Subset
  <2> HIDE DEF Of
  <2> QED BY <2>2, FS_CardinalityType
<1>2. ASSUME NEW t
      PROVE  Cardinality(Of(t, n)) = Cardinality(Of(t, n - 1)) + IF text[n] = t THEN 1 ELSE 0
  <2>1. CASE text[n] = t
    <3>1. Of(t, n) = Of(t, n - 1) \cup {n} /\ n \notin Of(t, n - 1)
      BY <2>1
    <3> HIDE DEF Of
    <3> QED BY <1>1, <2>1, <3>1, FS_AddElement
  <2>2. CASE text[n] # t
    <3>1. Of(t, n) = Of(t, n - 1)
      BY <2>2
    <3> HIDE DEF Of
    <3> QED BY <1>1, <2>2, <3>1
  <2> QED BY <2>1, <2>2
<1>3. Of(Open, 0) = {} /\ Of(Close, 0) = {}
  OBVIOUS
<1>4. Level(text, n) = Cardinality(Of(Open, n)) - Cardinality(Of(Close, n))
  BY DEF Level
<1>5. Level(text, n - 1) = Cardinality(Of(Open, n - 1)) - Cardinality(Of(Close, n - 1))
  BY DEF Level
<1>6. Level(text, 0) = Cardinality(Of(Open, 0)) - Cardinality(Of(Close, 0))
  BY DEF Level
<1>7. Open # Close
  BY DEF Open, Close
<1> HIDE DEF Of
<1>8. Level(text, 0) = 0
  BY <1>3, <1>6, FS_EmptySet
<1> QED BY <1>1, <1>2, <1>4, <1>5, <1>7, <1>8

(* A reader in good order has seen the beginning of a tree, with as many    *)
(* lists open as the tokens have; one that has stopped has no tree.         *)
InOrder(text, at, n) ==
    /\ \A i \in 1 .. n : text[i] # Cut /\ (text[i] # Close => Level(text, i - 1) <= MaxNesting)
    /\ \A i \in 1 .. n - 1 : Level(text, i) > 0
    /\ Len(at.lists) = Level(text, n)
    /\ at.root = <<>> => n = 0 \/ Level(text, n) > 0
    /\ at.root # <<>> => n > 0 /\ Level(text, n) = 0
ReadRight(text, at, n) ==
    /\ ReadState(at)
    /\ at.error = "none" => InOrder(text, at, n)
    /\ at.error # "none" => ~OneTree(text)

LEMMA ReadsOn ==
    ASSUME NEW text, IsSeq(text), NEW n \in 1 .. Len(text), Token(text[n]),
           NEW at, ReadRight(text, at, n - 1)
    PROVE  ReadRight(text, Read(at, text[n]), n)
<1> DEFINE r == Read(at, text[n])
           depth == Len(at.lists)
<1>1. Len(text) \in Nat /\ n \in Nat \ {0} /\ n - 1 \in Nat /\ MaxNesting \in Nat
  BY SeqSteps, TextAssumption
<1>2. /\ Level(text, 0) = 0 /\ Level(text, n - 1) \in Int
      /\ Level(text, n) = Level(text, n - 1) + CASE text[n] = Open -> 1
                                                 [] text[n] = Close -> -1
                                                 [] OTHER -> 0
  BY <1>1, LevelSteps
<1>3. Open # Close
  BY DEF Open, Close
<1>4. CASE at.error # "none"
  <2>1. r = at
    BY <1>4 DEF Read, ReadOne
  <2> QED BY <1>4, <2>1 DEF ReadRight
<1>5. CASE at.error = "none" /\ r.error # "none"
  <2>1. /\ ReadState(r)
        /\ \/ at.root # <<>>
           \/ at.root = <<>> /\ depth > MaxNesting /\ text[n] # Close
           \/ at.root = <<>> /\ text[n] = Close /\ depth = 0
           \/ text[n] = Cut
    BY <1>5, ReadSteps DEF ReadRight
  <2>2. InOrder(text, at, n - 1)
    BY <1>5 DEF ReadRight
  <2>3. CASE at.root # <<>>
    <3>1. n - 1 > 0 /\ Level(text, n - 1) = 0 /\ n - 1 \in 1 .. Len(text) - 1
      BY <1>1, <2>2, <2>3 DEF InOrder
    <3> QED BY <1>5, <2>1, <3>1 DEF ReadRight, OneTree
  <2>4. CASE depth > MaxNesting /\ text[n] # Close
    <3>1. Level(text, n - 1) > MaxNesting /\ n \in DOMAIN text
      BY <1>1, <2>2, <2>4 DEF InOrder, IsSeq
    <3>2. ~OneTree(text)
      BY <1>1, <1>2, <2>4, <3>1 DEF OneTree
    <3> QED BY <1>5, <2>1, <3>2 DEF ReadRight
  <2>5. CASE at.root = <<>> /\ text[n] = Close /\ depth = 0
    <3>1. n = 1 /\ Level(text, 1) = -1
      BY <1>1, <1>2, <1>3, <2>2, <2>5 DEF InOrder
    <3>2. ~OneTree(text)
      <4>1. Len(text) = 1 \/ 1 \in 1 .. Len(text) - 1
        BY <1>1
      <4> QED BY <3>1, <4>1 DEF OneTree
    <3> QED BY <1>5, <2>1, <3>2 DEF ReadRight
  <2>6. CASE text[n] = Cut
    <3>1. n \in DOMAIN text
      BY <1>1 DEF IsSeq
    <3> QED BY <1>5, <2>1, <2>6, <3>1 DEF ReadRight, OneTree
  <2> QED BY <2>1, <2>3, <2>4, <2>5, <2>6
<1>6. CASE at.error = "none" /\ r.error = "none"
  <2>1. InOrder(text, at, n - 1)
    BY <1>6 DEF ReadRight
  <2>2. /\ ReadState(r) /\ at.root = <<>> /\ text[n] # Cut
        /\ text[n] # Close => depth <= MaxNesting
        /\ \/ text[n] = Open /\ Len(r.lists) = depth + 1 /\ r.root = <<>>
           \/ text[n] = Close /\ depth = 1 /\ Len(r.lists) = 0 /\ r.root # <<>>
           \/ text[n] = Close /\ depth > 1 /\ Len(r.lists) = depth - 1 /\ r.root = <<>>
           \/ /\ text[n] \notin {Open, Close} /\ Len(r.lists) = depth
              /\ r.root = <<>> <=> depth > 0
    BY <1>6, ReadSteps DEF ReadRight
  <2>3. depth = Level(text, n - 1) /\ depth \in Nat /\ (n = 1 \/ depth > 0)
    BY <1>1, <2>1, <2>2, SeqSteps DEF InOrder, ReadState
  <2> HIDE DEF r, depth
  <2>4. \A i \in 1 .. n : text[i] # Cut /\ (text[i] # Close => Level(text, i - 1) <= MaxNesting)
    <3> SUFFICES ASSUME NEW i \in 1 .. n
                 PROVE  text[i] # Cut /\ (text[i] # Close => Level(text, i - 1) <= MaxNesting)
      OBVIOUS
    <3>1. i \in 1 .. n - 1 \/ i = n
      BY <1>1
    <3> QED BY <2>1, <2>2, <2>3, <3>1 DEF InOrder
  <2>5. \A i \in 1 .. n - 1 : Level(text, i) > 0
    <3> SUFFICES ASSUME NEW i \in 1 .. n - 1 PROVE Level(text, i) > 0
      OBVIOUS
    <3>1. i \in 1 .. (n - 1) - 1 \/ (i = n - 1 /\ n # 1)
      BY <1>1
    <3> QED BY <2>1, <2>3, <3>1 DEF InOrder
  <2>6. /\ Len(r.lists) = Level(text, n)
        /\ r.root = <<>> => Level(text, n) > 0
        /\ r.root # <<>> => Level(text, n) = 0
    BY <1>2, <1>3, <2>2, <2>3
  <2>7. InOrder(text, r, n)
    BY <1>1, <2>4, <2>5, <2>6 DEF InOrder
  <2> QED BY <1>6, <2>2, <2>7 DEF ReadRight, r
<1> QED BY <1>4, <1>5, <1>6

(* The parser accepts a sequence of tokens just when it is one tree. *)
THEOREM AcceptsTrees ==
    ASSUME NEW text, IsSeq(text), \A n \in 1 .. Len(text) : Token(text[n])
    PROVE  Parse(text).error = "none" <=> OneTree(text)
<1> DEFINE at == Readings(text)
           end == at[Len(text)]
           Right == {n \in Nat : n <= Len(text) => ReadRight(text, at[n], n)}
<1>1. Len(text) \in Nat /\ (text = <<>> <=> Len(text) = 0) /\ DOMAIN text = 1 .. Len(text)
  BY SeqSteps DEF IsSeq
<1>2. at[0] = Reading /\ \A n \in 1 .. Len(text) : at[n] = Read(at[n - 1], text[n])
  BY ReadingsAre
<1>3. Level(text, 0) = 0 /\ Level(text, Len(text)) \in Int
  <2>1. \A n \in Nat \ {0} : Level(text, 0) = 0 /\ Level(text, n - 1) \in Int
    BY LevelSteps
  <2>2. Len(text) + 1 \in Nat \ {0} /\ (Len(text) + 1) - 1 = Len(text)
    BY <1>1
  <2> QED BY <2>1, <2>2
<1> HIDE DEF at
<1>4. 0 \in Right
  <2>1. IsSeq(<<>>) /\ Len(<<>>) = 0
    BY DEF IsSeq
  <2>2. ReadState(Reading)
    BY <2>1 DEF ReadState, Reading
  <2>3. Reading.error = "none" /\ InOrder(text, Reading, 0)
    BY <1>3, <2>1 DEF InOrder, Reading
  <2> QED BY <1>2, <2>2, <2>3 DEF ReadRight
<1>5. ASSUME NEW n \in Nat, n \in Right
      PROVE  n + 1 \in Right
  <2> SUFFICES ASSUME n + 1 <= Len(text) PROVE ReadRight(text, at[n + 1], n + 1)
    OBVIOUS
  <2>1. n + 1 \in 1 .. Len(text) /\ (n + 1) - 1 = n
    BY <1>1
  <2>2. ReadRight(text, at[n], n)
    BY <1>1, <1>5
  <2>3. at[n + 1] = Read(at[n], text[n + 1])
    BY <1>2, <2>1
  <2> QED BY <2>1, <2>2, <2>3, ReadsOn
<1> HIDE DEF Right
<1>6. \A n \in Nat : n \in Right
  BY <1>4, <1>5, Induction
<1>7. ReadRight(text, end, Len(text))
  BY <1>1, <1>6 DEF Right
<1> HIDE DEF end
<1>8. Parse(text) = IF end.error = "none" /\ end.root = <<>> THEN Stop(end, "Eof") ELSE end
  BY DEF Parse, end, at
<1>9. CASE end.error = "none" /\ end.root = <<>>
  <2>1. Parse(text).error = "Eof"
    BY <1>7, <1>8, <1>9 DEF Stop, ReadRight, ReadState
  <2>2. ~OneTree(text)
    BY <1>1, <1>3, <1>7, <1>9 DEF ReadRight, InOrder, OneTree
  <2> QED BY <2>1, <2>2
<1>10. CASE end.error = "none" /\ end.root # <<>>
  <2>1. InOrder(text, end, Len(text))
    BY <1>7, <1>10 DEF ReadRight
  <2>2. OneTree(text)
    BY <1>1, <1>10, <2>1 DEF InOrder, OneTree
  <2> QED BY <1>8, <1>10, <2>2
<1>11. CASE end.error # "none"
  BY <1>7, <1>8, <1>11 DEF ReadRight
<1> QED BY <1>9, <1>10, <1>11

(* The offers' texts are such sequences. *)
LEMMA OffersReadRight ==
    ASSUME NEW o \in DOMAIN Offers
    PROVE  Parse(Offers[o].text).error = "none" <=> OneTree(Offers[o].text)
<1> DEFINE text == Offers[o].text
           Of == {t \in Range(text) : Token(t)}
<1>1. text \in Seq(Of)
  BY StoreAssumption
<1> HIDE DEF text
<1>2. IsSeq(text)
  BY <1>1 DEF IsSeq
<1>3. \A n \in 1 .. Len(text) : text[n] \in Of
  <2> HIDE DEF Of
  <2> QED BY <1>1
<1> QED BY <1>2, <1>3, AcceptsTrees DEF text

(* Of the texts that the producer writes, the parser accepts the trees. *)
THEOREM ParserAcceptsTrees == Spec => []ParsesOneTree
<1>1. \A o \in DOMAIN Offers : o \in Parsed <=> o \in Trees
  BY OffersReadRight DEF Parsed, Trees
<1>2. Inv => ParsesOneTree
  BY <1>1 DEF Inv, TypeOK, ParsesOneTree
<1> QED BY InvHolds, <1>2, PTL

-----------------------------------------------------------------------------
(* Every row comes from the compiler, in the file and in the transaction.   *)
AllCompiled == FromCompiled(file) /\ FromCompiled(work)

LEMMA EmptyIsCompiled == \A there, torn, tables : FromCompiled(Empty(there, torn, tables))
  BY DEF Empty, FromCompiled

LEMMA SameIsCompiled ==
    ASSUME NEW f, FromCompiled(f), NEW g, g.rows = f.rows, g.registry = f.registry
    PROVE  FromCompiled(g)
  BY DEF FromCompiled

LEMMA WithRowIsCompiled ==
    ASSUME NEW f, Catalog(f), FromCompiled(f), NEW o \in DOMAIN Offers, Prepared[o].error = "none"
    PROVE  FromCompiled(WithRow(f, o))
<1> DEFINE g == WithRow(f, o)
           part == PartId(Offers[o].part)
           added == Registered(f.registry, part)
<1>1. PICK c \in Compiled : SaysOf(Stored(o), c) /\ part = c.part
  BY CompiledAssumption
<1>2. /\ DOMAIN added = DOMAIN f.registry \cup {Key(part)}
      /\ \A k \in DOMAIN f.registry : added[k] = f.registry[k]
      /\ Key(part) \notin DOMAIN f.registry => added[Key(part)] = part
  BY DEF Registered
<1>3. g.rows = f.rows \cup {Stored(o)} /\ g.registry = added
  BY DEF WithRow, Catalog
<1> HIDE DEF g, added, part
<1>4. \A r \in g.rows : \E d \in Compiled : SaysOf(r, d)
  BY <1>1, <1>3 DEF FromCompiled
<1>5. ASSUME NEW k \in DOMAIN g.registry
      PROVE  \E r \in g.rows, d \in Compiled :
                r.rev = d.rev /\ g.registry[k] = d.part /\ k = Key(d.part)
  <2>1. CASE k \in DOMAIN f.registry
    <3>1. PICK r \in f.rows, d \in Compiled :
             r.rev = d.rev /\ f.registry[k] = d.part /\ k = Key(d.part)
      BY <2>1 DEF FromCompiled
    <3> QED BY <1>2, <1>3, <2>1, <3>1
  <2>2. CASE k \notin DOMAIN f.registry
    <3>1. k = Key(part) /\ g.registry[k] = c.part /\ k = Key(c.part)
      BY <1>1, <1>2, <1>3, <1>5, <2>2
    <3>2. Stored(o) \in g.rows /\ Stored(o).rev = c.rev
      BY <1>1, <1>3 DEF SaysOf
    <3> QED BY <3>1, <3>2
  <2> QED BY <2>1, <2>2
<1> QED BY <1>4, <1>5 DEF FromCompiled, g

LEMMA CompiledInitially == Init => AllCompiled
<1>1. FromCompiled(Missing)
  BY EmptyIsCompiled DEF Missing
<1>2. \A f \in Images : FromCompiled(f)
  BY CompiledAssumption
<1> QED BY <1>1, <1>2 DEF Init, AllCompiled

LEMMA CompiledStep ==
    ASSUME Inv, AllCompiled, [Next]_vars
    PROVE  AllCompiled'
<1> USE DEF AllCompiled
<1>0. FromCompiled(Missing) /\ FromCompiled(Fresh)
  BY EmptyIsCompiled DEF Missing, Fresh
<1>1. CASE Begin
  <2> DEFINE t == WithTables(file)
  <2>1. /\ t.rows = file.rows /\ t.registry = file.registry /\ Catalog(t)
        /\ file' = t /\ work' = [t EXCEPT !.column = TRUE]
    BY <1>1, TablesKeepRows DEF Begin, Inv, TypeOK
  <2> HIDE DEF t
  <2>2. /\ file'.rows = file.rows /\ file'.registry = file.registry
        /\ work'.rows = file.rows /\ work'.registry = file.registry
    BY <2>1 DEF Catalog
  <2> QED BY <2>2, SameIsCompiled
<1>2. CASE Commit
  BY <1>0, <1>2 DEF Commit
<1>3. CASE Dropped
  <2>1. file'.rows = file.rows /\ file'.registry = file.registry /\ work' = Missing
    BY <1>3 DEF Dropped, Inv, TypeOK, Catalog
  <2> QED BY <1>0, <2>1, SameIsCompiled
<1>4. ASSUME NEW i \in todo, Insert(i)
      PROVE  AllCompiled'
  <2>1. source[i] \in DOMAIN Offers /\ Catalog(work)
    BY RowsAreOffers DEF Inv, TypeOK
  <2>2. Prepared[source[i]].error = "none" /\ work' = WithRow(work, source[i]) /\ file' = file
    BY <1>4 DEF Insert, Taken, Outcome
  <2> QED BY <2>1, <2>2, WithRowIsCompiled
<1>5. ASSUME NEW i \in todo, Skip(i) \/ Fail(i) \/ Panic(i)
      PROVE  AllCompiled'
  BY <1>3, <1>5 DEF Skip, Taken, Fail, Panic
<1>6. CASE Unlink \/ Built \/ BuildKilled
  BY <1>0, <1>6, EmptyIsCompiled DEF Unlink, Built, BuildKilled
<1>7. CASE Publish \/ UNCHANGED vars
  BY <1>7 DEF Publish, vars
<1> QED BY <1>1, <1>2, <1>3, <1>4, <1>5, <1>6, <1>7 DEF Next, Merge, Killed

(* A row of the file and what the compiler said of its revision.            *)
LEMMA RowsAreKnown ==
    ASSUME Inv, AllCompiled
    PROVE  /\ \A r \in file.rows : \E c \in Known : SaysOf(r, c)
           /\ \A c \in Known : \E r \in file.rows : SaysOf(r, c)
           /\ \A r \in file.rows : \E c \in Known : file.registry[r.key] = c.part /\ r.key = Key(c.part)
<1>1. \A r \in file.rows : \E c \in Compiled : SaysOf(r, c)
  BY DEF AllCompiled, FromCompiled
<1>2. \A r \in file.rows : \E c \in Known : SaysOf(r, c)
  BY <1>1 DEF Known, SaysOf
<1>3. ASSUME NEW c \in Known
      PROVE  \E r \in file.rows : SaysOf(r, c)
  <2>1. PICK r \in file.rows : r.rev = c.rev
    BY DEF Known
  <2>2. PICK d \in Compiled : SaysOf(r, d)
    BY <1>1
  <2>3. c = d
    BY <2>1, <2>2, CompiledAssumption DEF Known, SaysOf
  <2> QED BY <2>2, <2>3
<1>4. ASSUME NEW r \in file.rows
      PROVE  \E c \in Known : file.registry[r.key] = c.part /\ r.key = Key(c.part)
  <2>1. r.key \in DOMAIN file.registry
    BY DEF Inv, TypeOK, Catalog
  <2>2. PICK q \in file.rows, c \in Compiled :
           q.rev = c.rev /\ file.registry[r.key] = c.part /\ r.key = Key(c.part)
    BY <2>1 DEF AllCompiled, FromCompiled
  <2> QED BY <2>2 DEF Known
<1> QED BY <1>2, <1>3, <1>4

(* Timestamps of one precision sort as text the way they do in time.        *)
LEMMA OnePrecisionSorts ==
    ASSUME NEW a \in Instant, NEW b \in Instant, (a[2] = 0) = (b[2] = 0)
    PROVE  TextBefore(a, b) <=> Before(a, b)
  BY DEF Instant, TextBefore, Before

(* A client gets the newest published revision of the part that it names.   *)
THEOREM PartsResolve == Spec => []ResolvesExactly
<1>1. ASSUME Inv, AllCompiled PROVE ResolvesExactly
  <2> SUFFICES ASSUME NEW s \in Spellings, OneKey(s[2]),
                      OnePrecision({o \in Known : o.part = s[2] /\ o.status = "published"})
               PROVE  {r.rev : r \in ResolveByMpn(s[1])} =
                         {o.rev : o \in {p \in {o \in Known : o.part = s[2] /\ o.status = "published"} :
                            \A q \in {o \in Known : o.part = s[2] /\ o.status = "published"} :
                               ~Before(p.at, q.at)}}
    BY DEF ResolvesExactly
  <2> DEFINE of == {o \in Known : o.part = s[2] /\ o.status = "published"}
             rows == {r \in Published : file.registry[r.key] = s[2]}
             newest == {p \in of : \A q \in of : ~Before(p.at, q.at)}
  <2>1. PartId(s[1]) = s[2]
    BY CompiledAssumption
  <2>2. \A r \in rows : \E o \in of : SaysOf(r, o)
    <3> SUFFICES ASSUME NEW r \in rows PROVE \E o \in of : SaysOf(r, o)
      OBVIOUS
    <3>1. PICK o \in Known : SaysOf(r, o)
      BY <1>1, RowsAreKnown DEF Published
    <3>2. PICK c \in Known : file.registry[r.key] = c.part /\ r.key = Key(c.part)
      BY <1>1, RowsAreKnown DEF Published
    <3>3. c.part = s[2] /\ Key(o.part) = Key(s[2])
      BY <3>1, <3>2 DEF SaysOf
    <3>4. o.part = s[2]
      BY <3>3 DEF OneKey
    <3> QED BY <3>1, <3>4 DEF SaysOf, Published
  <2>3. \A o \in of : \E r \in rows : SaysOf(r, o)
    <3> SUFFICES ASSUME NEW o \in of PROVE \E r \in rows : SaysOf(r, o)
      OBVIOUS
    <3>1. PICK r \in file.rows : SaysOf(r, o)
      BY <1>1, RowsAreKnown
    <3>2. PICK c \in Known : file.registry[r.key] = c.part /\ r.key = Key(c.part)
      BY <1>1, RowsAreKnown
    <3>3. c.part = s[2]
      BY <3>1, <3>2 DEF SaysOf, OneKey
    <3> QED BY <3>1, <3>2, <3>3 DEF SaysOf, Published
  <2>4. \A r \in rows : r.at \in Instant
    BY <1>1 DEF Inv, TypeOK, Catalog, Published
  <2>5. \A o, p \in of : TextBefore(o.at, p.at) <=> Before(o.at, p.at)
    <3>1. \A o \in of : o.at \in Instant
      BY <2>3, <2>4 DEF SaysOf
    <3>2. \A o, p \in of : (o.at[2] = 0) = (p.at[2] = 0)
      BY DEF OnePrecision
    <3> HIDE DEF of
    <3> QED BY <3>1, <3>2, OnePrecisionSorts
  <2>6. ResolveByMpn(s[1]) = Latest(rows)
    <3>1. CASE IsPart(s[2])
      BY <2>1, <3>1 DEF ResolveByMpn
    <3>2. CASE ~IsPart(s[2])
      <4>1. of = {}
        BY <3>2, CompiledAssumption DEF Known
      <4>2. rows = {}
        BY <2>2, <4>1
      <4> HIDE DEF rows
      <4> QED BY <2>1, <3>2, <4>2 DEF ResolveByMpn, Latest
    <3> QED BY <3>1, <3>2
  <2> HIDE DEF of, rows
  <2>7. \A r \in rows, o \in of : SaysOf(r, o) => (r \in Latest(rows) <=> o \in newest)
    BY <2>2, <2>3, <2>5 DEF Latest, SaysOf
  <2>8. {r.rev : r \in Latest(rows)} = {o.rev : o \in newest}
    <3>1. ASSUME NEW r \in Latest(rows) PROVE \E o \in newest : o.rev = r.rev
      BY <2>2, <2>7, <3>1 DEF Latest, SaysOf
    <3>2. ASSUME NEW o \in newest PROVE \E r \in Latest(rows) : r.rev = o.rev
      BY <2>3, <2>7, <3>2 DEF SaysOf
    <3> HIDE DEF newest
    <3> QED BY <3>1, <3>2
  <2> QED BY <2>6, <2>8 DEF of
<1>2. AllCompiled /\ Inv /\ [Next]_vars => AllCompiled'
  BY CompiledStep
<1>3. Spec => []AllCompiled
  BY CompiledInitially, <1>2, InvHolds, PTL DEF Spec
<1> QED BY InvHolds, <1>1, <1>3, PTL

-----------------------------------------------------------------------------
(* A body is what its text says, no two rows of the source share a          *)
(* revision, and the transaction has what the file and the rows that it has *)
(* read account for.                                                        *)
Bodies == \A f \in {file, work} : \A r \in f.rows : r.text # <<>> => r.body = BodyIn(r.text)
Unique == \A i, j \in DOMAIN source : Rev(i) = Rev(j) => i = j
Accounted == pc = "merging" =>
                 \A r \in work.rows : r \in file.rows \/ \E j \in (1 .. seen) \ todo : r.rev = Rev(j)
Merges == Bodies /\ Unique /\ Accounted

LEMMA PreparedBody ==
    ASSUME NEW o \in DOMAIN Offers, Prepared[o].error = "none"
    PROVE  Offers[o].text # <<>> /\ Prepared[o].body = BodyIn(Offers[o].text)
<1>1. Prepare(Offers[o]).error = "none" /\ Prepared[o] = Prepare(Offers[o])
  BY DEF Prepared
<1>2. Parse(Offers[o].text).error = "none" /\ Prepared[o].body = BodyIn(Offers[o].text)
  BY <1>1 DEF Prepare, Refused
<1>3. OneTree(Offers[o].text)
  BY <1>2, OffersReadRight
<1> QED BY <1>2, <1>3 DEF OneTree

LEMMA MergesInitially == Init => Merges
<1> SUFFICES ASSUME Init PROVE Merges
  OBVIOUS
<1>1. Missing.rows = {} /\ file \in Images /\ work = Missing /\ source = <<>> /\ pc = "idle"
  BY NothingLeft DEF Init
<1>2. Bodies
  BY <1>1, StoreAssumption DEF Bodies
<1> QED BY <1>1, <1>2 DEF Merges, Unique, Accounted

LEMMA MergesStep ==
    ASSUME Inv, Merges, [Next]_vars
    PROVE  Merges'
<1>0. Missing.rows = {} /\ Fresh.rows = {} /\ \A there, torn, tables : Empty(there, torn, tables).rows = {}
  BY DEF Missing, Fresh, Empty
<1>1. ASSUME NEW o \in DOMAIN Offers, Publish, source' = Append(source, o),
             \A i \in DOMAIN source : Offers[source[i]].rev # Offers[o].rev
      PROVE  Merges'
  <2>1. /\ DOMAIN source = 1 .. Len(source) /\ Len(source) \in Nat
        /\ DOMAIN source' = 1 .. Len(source) + 1 /\ source'[Len(source) + 1] = o
        /\ \A i \in DOMAIN source : source'[i] = source[i]
    BY <1>1 DEF Inv, TypeOK
  <2>2. \A i \in DOMAIN source' : i \in DOMAIN source \/ i = Len(source) + 1
    BY <2>1
  <2>3. Unique'
    BY <1>1, <2>1, <2>2 DEF Unique, Rev, Merges
  <2>4. \A j \in 1 .. seen : j \in DOMAIN source
    BY <2>1 DEF Inv, TypeOK
  <2>5. Bodies' /\ Accounted'
    BY <1>1, <2>1, <2>4 DEF Bodies, Accounted, Rev, Merges, Publish
  <2> QED BY <2>3, <2>5 DEF Merges
<1>2. CASE Begin
  <2> DEFINE t == WithTables(file)
  <2>1. /\ t.rows = file.rows /\ Catalog(t) /\ file' = t /\ work' = [t EXCEPT !.column = TRUE]
    BY <1>2, TablesKeepRows DEF Begin, Inv, TypeOK
  <2> HIDE DEF t
  <2>2. file'.rows = file.rows /\ work'.rows = file.rows
    BY <2>1 DEF Catalog
  <2> QED BY <1>2, <2>2 DEF Begin, Merges, Bodies, Unique, Accounted, Rev
<1>3. CASE Commit
  BY <1>0, <1>3 DEF Commit, Merges, Bodies, Unique, Accounted, Rev
<1>4. CASE Dropped
  <2>1. file'.rows = file.rows /\ work' = Missing
    BY <1>4 DEF Dropped, Inv, TypeOK, Catalog
  <2> QED BY <1>0, <1>4, <2>1 DEF Dropped, Merges, Bodies, Unique, Accounted, Rev
<1>5. ASSUME NEW i \in todo, Insert(i)
      PROVE  Merges'
  <2>1. source[i] \in DOMAIN Offers /\ Catalog(work) /\ i \in 1 .. seen
    BY RowsAreOffers DEF Inv, TypeOK
  <2>2. /\ Prepared[source[i]].error = "none" /\ work' = WithRow(work, source[i])
        /\ UNCHANGED <<source, file, pc, seen>> /\ todo' = todo \ {i} /\ pc = "merging"
    BY <1>5 DEF Insert, Taken, Outcome
  <2>3. work'.rows = work.rows \cup {Stored(source[i])}
    BY <2>1, <2>2 DEF WithRow, Catalog
  <2>4. /\ Stored(source[i]).body = BodyIn(Stored(source[i]).text)
        /\ Stored(source[i]).rev = Rev(i)
    BY <2>1, <2>2, PreparedBody, StoredRow DEF Rev
  <2>5. Bodies' /\ Unique'
    BY <2>2, <2>3, <2>4 DEF Merges, Bodies, Unique, Rev
  <2>6. Accounted'
    BY <2>1, <2>2, <2>3, <2>4 DEF Merges, Accounted, Rev
  <2> QED BY <2>5, <2>6 DEF Merges
<1>6. ASSUME NEW i \in todo, Skip(i)
      PROVE  Merges'
  BY <1>6 DEF Skip, Taken, Merges, Bodies, Unique, Accounted, Rev
<1>7. CASE Unlink
  BY <1>0, <1>7 DEF Unlink, Merges, Bodies, Unique, Accounted, Rev
<1>8. CASE Built \/ BuildKilled
  <2>1. file'.rows = {} /\ UNCHANGED <<source, work, seen, todo>> /\ pc' = "idle"
    BY <1>0, <1>8 DEF Built, BuildKilled
  <2> QED BY <2>1 DEF Merges, Bodies, Unique, Accounted, Rev
<1>9. CASE UNCHANGED vars
  BY <1>9 DEF vars, Merges, Bodies, Unique, Accounted, Rev
<1>10. CASE Publish
  BY <1>1, <1>10 DEF Publish
<1>11. CASE Merge
  BY <1>2, <1>3, <1>4, <1>5, <1>6, <1>11 DEF Merge, Killed, Fail, Panic
<1> QED BY <1>7, <1>8, <1>9, <1>10, <1>11 DEF Next

(* A merge ends in an error only on a row that does not validate or that    *)
(* contradicts the file: rows that it has merged before never stop it.      *)
ErrorsHaveCause ==
    [][pc = "merging" /\ pc' = "idle" /\ result' = "error" =>
         \E i \in 1 .. seen : Outcome(i) # "none" \/ Contradicts(Offers[source[i]])]_vars

THEOREM MergesFailForCause == Spec => ErrorsHaveCause
<1> DEFINE Caused == pc = "merging" /\ pc' = "idle" /\ result' = "error" =>
                        \E i \in 1 .. seen : Outcome(i) # "none" \/ Contradicts(Offers[source[i]])
<1>1. ASSUME Inv, Merges, NEW i \in todo, Fail(i), Outcome(i) = "none"
      PROVE  Contradicts(Offers[source[i]])
  <2>1. PICK r \in work.rows : r.rev = Rev(i) /\ ~Repeated(i) /\ pc = "merging"
    BY <1>1 DEF Fail, SameRev
  <2>2. /\ source[i] \in DOMAIN Offers /\ i \in DOMAIN source
        /\ \A j \in 1 .. seen : j \in DOMAIN source
    BY <1>1, RowsAreOffers DEF Inv, TypeOK
  <2>3. r \in file.rows
    BY <1>1, <2>1, <2>2 DEF Merges, Accounted, Unique
  <2>4. Offers[source[i]].text # <<>> /\ Prepared[source[i]].body = BodyIn(Offers[source[i]].text)
    BY <1>1, <2>2, PreparedBody DEF Outcome
  <2>5. r.text # Offers[source[i]].text
    BY <1>1, <2>1, <2>4 DEF Merges, Bodies, Repeated, SameRev
  <2> QED BY <2>1, <2>3, <2>5 DEF Contradicts, Rev
<1>2. ASSUME Inv, Merges, [Next]_vars PROVE [Caused]_vars
  <2> SUFFICES ASSUME pc = "merging", pc' = "idle", result' = "error"
               PROVE  \E i \in 1 .. seen : Outcome(i) # "none" \/ Contradicts(Offers[source[i]])
    OBVIOUS
  <2>1. PICK i \in todo : Fail(i)
    BY <1>2 DEF Next, Publish, Unlink, Built, BuildKilled, Merge, Begin, Commit, Killed, Skip, Insert,
                Taken, Panic, vars
  <2>2. i \in 1 .. seen
    BY <1>2 DEF Inv, TypeOK
  <2> QED BY <1>1, <1>2, <2>1, <2>2
<1>3. Merges /\ Inv /\ [Next]_vars => Merges'
  BY MergesStep
<1>4. Spec => []Merges
  BY MergesInitially, <1>3, InvHolds, PTL DEF Spec
<1>5. Inv /\ Merges /\ [Next]_vars => [Caused]_vars
  BY <1>2
<1> QED BY InvHolds, <1>4, <1>5, PTL DEF Spec, ErrorsHaveCause
-----------------------------------------------------------------------------
(* What the parser builds.  A node of the first n tokens is a leaf of one   *)
(* of them, or the list that one of them closes.                            *)
IsLeaf(text, k, x) == text[k].is \in {"atom", "str"} /\ x = Leaf(text[k])
Shuts(text, k, x) ==
    LET at == Readings(text)[k - 1] IN
    /\ text[k] = Close /\ at.error = "none" /\ at.root = <<>> /\ at.lists # <<>>
    /\ x = List(Last(at.lists))
Node(text, n, x) == \E k \in 1 .. n : IsLeaf(text, k, x) \/ Shuts(text, k, x)

(* The open lists have such nodes only; the innermost is empty just after   *)
(* it was opened, and has one atom just after that.                         *)
Nodes(text, n, items) == IsSeq(items) /\ \A i \in 1 .. Len(items) : Node(text, n, items[i])
Inner(text, n, items) ==
    /\ items = <<>> => n > 0 /\ text[n] = Open
    /\ Len(items) = 1 /\ items[1].is = "atom" =>
          n > 1 /\ text[n - 1] = Open /\ IsLeaf(text, n, items[1])
Frames(text, n, at) ==
    /\ ReadState(at)
    /\ at.error = "none" =>
          /\ \A f \in 1 .. Len(at.lists) : Nodes(text, n, at.lists[f])
          /\ at.lists # <<>> => Inner(text, n, Last(at.lists))
          /\ at.root # <<>> => Nodes(text, n, at.root)

LEMMA NodesLast ==
    ASSUME NEW text, NEW n \in Nat, NEW items, NEW m \in Nat, m <= n, Nodes(text, m, items)
    PROVE  Nodes(text, n, items)
BY DEF Nodes, Node

Longer(text, n, items, x, new) ==
    Nodes(text, n, new) /\ new # <<>> /\ (Len(new) = 1 => items = <<>> /\ new[1] = x)

LEMMA NodesAppended ==
    ASSUME NEW text, NEW n \in Nat, NEW items, Nodes(text, n, items), NEW x, Node(text, n, x)
    PROVE  Longer(text, n, items, x, Append(items, x))
<1>1. PICK S : items \in Seq(S)
  BY DEF Nodes, IsSeq
<1>2. items \in Seq(S \cup {x}) /\ x \in S \cup {x}
  BY <1>1
<1>3. /\ Append(items, x) \in Seq(S \cup {x}) /\ Len(Append(items, x)) = Len(items) + 1
      /\ \A i \in 1 .. Len(items) : Append(items, x)[i] = items[i]
      /\ Append(items, x)[Len(items) + 1] = x /\ Len(items) \in Nat
  BY <1>2
<1>4. \A i \in 1 .. Len(items) + 1 : i \in 1 .. Len(items) \/ i = Len(items) + 1
  BY <1>3
<1>5. IsSeq(Append(items, x))
  BY <1>3 DEF IsSeq
<1>6. items = <<>> <=> Len(items) = 0
  BY <1>1
<1>7. Append(items, x) # <<>>
  BY <1>3
<1> QED
  BY <1>3, <1>4, <1>5, <1>6, <1>7 DEF Nodes, Longer

LEMMA NodesAlone ==
    ASSUME NEW text, NEW n \in Nat, NEW x, Node(text, n, x)
    PROVE  Nodes(text, n, <<x>>)
<1> DEFINE s == <<x>>
<1>1. s \in Seq({x}) /\ Len(s) = 1 /\ s[1] = x
  OBVIOUS
<1> HIDE DEF s
<1>2. \A i \in 1 .. Len(s) : i = 1
  BY <1>1
<1>3. Nodes(text, n, s)
  BY <1>1, <1>2 DEF Nodes, IsSeq
<1> QED
  BY <1>3 DEF s

(* What a token does to the state, by its kind. *)
LEMMA ReadKinds ==
    ASSUME NEW at, ReadState(at), at.error = "none", NEW token, Token(token)
    PROVE  LET r == Read(at, token) IN
           \/ r.error # "none" /\ ReadState(r)
           \/ /\ at.root = <<>>
              /\ \/ token = Close /\ at.lists # <<>> /\ r = Return(at)
                 \/ token = Open /\ r = [at EXCEPT !.lists = Append(@, <<>>)]
                 \/ token.is \in {"atom", "str"} /\ r = Put(at, Leaf(token))
<1>1. /\ token.is = "close" <=> token = Close
      /\ token.is = "open" <=> token = Open
      /\ token.is = "cut" <=> token = Cut
      /\ token.is \in {"open", "close", "cut", "atom", "str"}
  BY DEF Token, Open, Close, Cut
<1>2. \A e \in {"Trailing", "TooDeep", "UnbalancedClose", "UnterminatedString"} :
         ReadState(Stop(at, e)) /\ Stop(at, e).error # "none"
  BY DEF Stop, ReadState
<1> QED
  BY <1>1, <1>2 DEF Read, ReadOne

(* A node that is put into the innermost list, or becomes the root. *)
LEMMA PutFrames ==
    ASSUME NEW text, NEW n \in Nat, NEW at, ReadState(at), NEW x, Node(text, n, x),
           at.error = "none", at.root = <<>>,
           \A f \in 1 .. Len(at.lists) : Nodes(text, n, at.lists[f]),
           at.lists # <<>> /\ Last(at.lists) = <<>> /\ x.is = "atom"
              => n > 1 /\ text[n - 1] = Open /\ IsLeaf(text, n, x)
    PROVE  Frames(text, n, Put(at, x))
<1> DEFINE r == Put(at, x)
           d == Len(at.lists)
<1>1. ReadState(r) /\ r.error = "none" /\ Len(r.lists) = d
  BY PutSteps
<1>2. CASE at.lists = <<>>
  <2>1. r = [at EXCEPT !.root = <<x>>]
    BY <1>2 DEF Put
  <2>2. r.lists = <<>> /\ r.root = <<x>> /\ Len(r.lists) = 0
    BY <1>2, <2>1 DEF ReadState
  <2>3. Nodes(text, n, <<x>>)
    BY NodesAlone
  <2> HIDE DEF r
  <2> QED
    BY <1>1, <2>2, <2>3 DEF Frames, r
<1>3. CASE at.lists # <<>>
  <2> DEFINE last == at.lists[d]
             new == Append(last, x)
             l == [at.lists EXCEPT ![d] = new]
  <2>1. d \in Nat /\ d # 0
    BY <1>3, SeqSteps DEF ReadState
  <2>2. Nodes(text, n, last)
    BY <2>1
  <2>3. Longer(text, n, last, x, new)
    BY <2>2, NodesAppended, Zenon
  <2>4. r = [at EXCEPT !.lists = l]
    BY <1>3 DEF Put
  <2>5. DOMAIN at.lists = 1 .. d
    BY SeqSteps DEF ReadState, IsSeq
  <2>6. Last(at.lists) = last
    BY DEF Last
  <2> HIDE DEF new, last
  <2>7. l[d] = new /\ \A f \in 1 .. d : f # d => l[f] = at.lists[f]
    BY <2>1, <2>5
  <2> HIDE DEF l
  <2>8. r.lists = l /\ r.root = <<>> /\ Len(l) = d
    BY <1>1, <2>4 DEF ReadState
  <2>9. \A f \in 1 .. d : Nodes(text, n, l[f])
    BY <2>3, <2>7 DEF Longer
  <2>10. Last(l) = new
    BY <2>7, <2>8 DEF Last
  <2>11. Inner(text, n, new)
    BY <1>3, <2>3, <2>6 DEF Inner, Longer
  <2> HIDE DEF r, d
  <2> QED
    BY <1>1, <2>8, <2>9, <2>10, <2>11 DEF Frames, r
<1> QED
  BY <1>2, <1>3

LEMMA FramesOn ==
    ASSUME NEW text, IsSeq(text), NEW n \in 1 .. Len(text), Token(text[n]),
           Frames(text, n - 1, Readings(text)[n - 1])
    PROVE  Frames(text, n, Readings(text)[n])
<1> DEFINE at == Readings(text)[n - 1]
           d == Len(at.lists)
<1>1. Len(text) \in Nat /\ n \in Nat /\ n - 1 \in Nat /\ n > 0 /\ n - 1 <= n
  BY SeqSteps
<1>2. Readings(text)[n] = Read(at, text[n])
  BY ReadingsAre
<1>3. ReadState(at)
  BY DEF Frames
<1>4. CASE at.error # "none"
  <2>1. Readings(text)[n] = at
    BY <1>2, <1>4 DEF Read, ReadOne
  <2> QED
    BY <1>3, <1>4, <2>1 DEF Frames
<1>5. CASE at.error = "none" /\ Read(at, text[n]).error # "none" /\ ReadState(Read(at, text[n]))
  BY <1>2, <1>5 DEF Frames
<1>6. ASSUME at.error = "none", at.root = <<>>
      PROVE  /\ \A f \in 1 .. d : Nodes(text, n, at.lists[f])
             /\ at.lists # <<>> => Inner(text, n - 1, Last(at.lists))
             /\ d \in Nat /\ (at.lists = <<>> <=> d = 0)
  <2>1. \A f \in 1 .. d : Nodes(text, n - 1, at.lists[f])
    BY <1>6 DEF Frames
  <2>2. \A f \in 1 .. d : Nodes(text, n, at.lists[f])
    BY <1>1, <2>1, NodesLast
  <2>3. d \in Nat /\ (at.lists = <<>> <=> d = 0)
    BY <1>3, SeqSteps DEF ReadState
  <2> QED
    BY <1>6, <2>2, <2>3 DEF Frames
<1>7. CASE /\ at.error = "none" /\ at.root = <<>> /\ text[n].is \in {"atom", "str"}
           /\ Read(at, text[n]) = Put(at, Leaf(text[n]))
  <2>1. IsLeaf(text, n, Leaf(text[n])) /\ Node(text, n, Leaf(text[n]))
    BY <1>1, <1>7 DEF IsLeaf, Node
  <2>2. at.lists # <<>> /\ Last(at.lists) = <<>> => n - 1 > 0 /\ text[n - 1] = Open
    BY <1>6, <1>7 DEF Inner
  <2> HIDE DEF at
  <2> QED
    BY <1>1, <1>2, <1>3, <1>6, <1>7, <2>1, <2>2, PutFrames
<1>8. CASE /\ at.error = "none" /\ at.root = <<>> /\ text[n] = Open
           /\ Read(at, text[n]) = [at EXCEPT !.lists = Append(@, <<>>)]
  <2> DEFINE r == Read(at, text[n])
             l == Append(at.lists, <<>>)
  <2>1. PICK S : at.lists \in Seq(S)
    BY <1>3 DEF ReadState, IsSeq
  <2>2. at.lists \in Seq(S \cup {<<>>}) /\ <<>> \in S \cup {<<>>}
    BY <2>1
  <2>3. /\ l \in Seq(S \cup {<<>>}) /\ Len(l) = d + 1 /\ l[d + 1] = <<>>
        /\ \A f \in 1 .. d : l[f] = at.lists[f]
    BY <2>2
  <2>4. d \in Nat /\ \A f \in 1 .. d : Nodes(text, n, at.lists[f])
    BY <1>6, <1>8
  <2> HIDE DEF l
  <2>5. r.lists = l /\ r.root = <<>> /\ r.error = "none" /\ ReadState(r)
    <3>1. r = [at EXCEPT !.lists = l]
      BY <1>8 DEF l
    <3>2. IsSeq(l)
      BY <2>3 DEF IsSeq
    <3> HIDE DEF r, at
    <3> QED
      BY <1>3, <1>8, <3>1, <3>2 DEF ReadState
  <2>6. Nodes(text, n, <<>>)
    <3>1. <<>> \in Seq({}) /\ Len(<<>>) = 0
      OBVIOUS
    <3> QED
      BY <3>1 DEF Nodes, IsSeq
  <2> HIDE DEF r, at
  <2>7. \A f \in 1 .. d + 1 : f \in 1 .. d \/ f = d + 1
    BY <2>4
  <2>8. \A f \in 1 .. Len(r.lists) : Nodes(text, n, r.lists[f])
    BY <2>3, <2>4, <2>5, <2>6, <2>7
  <2>9. Last(r.lists) = <<>>
    BY <2>3, <2>5 DEF Last
  <2>10. Inner(text, n, <<>>)
    <3>1. Len(<<>>) = 0
      OBVIOUS
    <3> QED
      BY <1>1, <1>8, <3>1 DEF Inner
  <2> QED
    BY <1>2, <2>5, <2>8, <2>9, <2>10 DEF Frames, r
<1>9. CASE /\ at.error = "none" /\ at.root = <<>> /\ text[n] = Close /\ at.lists # <<>>
           /\ Read(at, text[n]) = Return(at)
  <2> DEFINE popped == [at EXCEPT !.lists = Front(@)]
             x == List(Last(at.lists))
             front == Front(at.lists)
  <2>1. Shuts(text, n, x) /\ Node(text, n, x) /\ x.is = "list"
    <3>1. Shuts(text, n, x)
      BY <1>9 DEF Shuts
    <3>2. x.is = "list"
      BY DEF List
    <3> HIDE DEF x
    <3> QED
      BY <1>1, <3>1, <3>2 DEF Node
  <2>2. Return(at) = Put(popped, x)
    BY DEF Return
  <2>3. IsSeq(front) /\ Len(front) = d - 1 /\ d \in Nat /\ d # 0
    BY <1>3, <1>6, <1>9, SeqSteps DEF ReadState
  <2>4. front = [i \in 1 .. d - 1 |-> at.lists[i]]
    BY DEF Front
  <2>5. \A f \in 1 .. d - 1 : front[f] = at.lists[f]
    BY <2>4
  <2>6. \A f \in 1 .. Len(front) : Nodes(text, n, front[f])
    BY <1>6, <1>9, <2>3, <2>5
  <2> HIDE DEF front
  <2>7. /\ ReadState(popped) /\ popped.lists = front /\ popped.error = "none" /\ popped.root = <<>>
    BY <1>3, <1>9, <2>3 DEF ReadState, front
  <2> HIDE DEF popped, x, at
  <2>8. Frames(text, n, Put(popped, x))
    BY <1>1, <2>1, <2>6, <2>7, PutFrames
  <2> QED
    BY <1>2, <1>9, <2>2, <2>8 DEF at
<1> QED
  BY <1>3, <1>4, <1>5, <1>7, <1>8, <1>9, ReadKinds

LEMMA FramesHold ==
    ASSUME NEW text, IsSeq(text), \A n \in 1 .. Len(text) : Token(text[n])
    PROVE  \A n \in 0 .. Len(text) : Frames(text, n, Readings(text)[n])
<1> DEFINE Good == {n \in Nat : n <= Len(text) => Frames(text, n, Readings(text)[n])}
<1>1. Len(text) \in Nat
  BY SeqSteps
<1>2. 0 \in Good
  <2>1. Readings(text)[0] = Reading
    BY ReadingsAre
  <2>2. DOMAIN Reading = {"lists", "root", "error"} /\ Reading.lists = <<>> /\ Reading.root = <<>>
    BY DEF Reading
  <2>3. IsSeq(<<>>) /\ Len(<<>>) = 0
    <3>1. <<>> \in Seq({})
      OBVIOUS
    <3> QED
      BY <3>1 DEF IsSeq
  <2>4. Frames(text, 0, Reading)
    BY <2>2, <2>3 DEF Frames, ReadState
  <2> QED
    BY <2>1, <2>4
<1>3. ASSUME NEW n \in Nat, n \in Good
      PROVE  n + 1 \in Good
  <2> SUFFICES ASSUME n + 1 <= Len(text) PROVE Frames(text, n + 1, Readings(text)[n + 1])
    OBVIOUS
  <2>1. n + 1 \in 1 .. Len(text) /\ (n + 1) - 1 = n /\ n <= Len(text)
    BY <1>1
  <2>2. Frames(text, n, Readings(text)[n])
    BY <1>3, <2>1
  <2> QED
    BY <2>1, <2>2, FramesOn
<1> HIDE DEF Good
<1>4. \A n \in Nat : n \in Good
  BY <1>2, <1>3, Induction
<1> QED
  BY <1>1, <1>4 DEF Good

(* A text of tokens, and a node of it. *)
Sane(text) == IsSeq(text) /\ \A n \in 1 .. Len(text) : Token(text[n])
NodeOf(text, x) == Node(text, Len(text), x)

(* What is in a list is in the text, and a list of one of the two words is  *)
(* written out there.                                                      *)
LEMMA ListNodes ==
    ASSUME NEW text, Sane(text), NEW x, NodeOf(text, x), x.is = "list"
    PROVE  /\ IsSeq(x.items) /\ Len(x.items) \in Nat
           /\ \A i \in 1 .. Len(x.items) : NodeOf(text, x.items[i])
           /\ Head1(x) \in {<<"symbol">>, <<"text">>} /\ Len(x.items) < 2 => Bare(text)
<1>1. Len(text) \in Nat
  BY SeqSteps DEF Sane
<1>2. PICK k \in 1 .. Len(text) : Shuts(text, k, x)
  <2>1. \A k : IsLeaf(text, k, x) => x.is # "list"
    BY DEF IsLeaf, Leaf
  <2> QED
    BY <2>1 DEF NodeOf, Node
<1> DEFINE at == Readings(text)[k - 1]
           items == Last(at.lists)
<1>3. text[k] = Close /\ at.error = "none" /\ at.lists # <<>> /\ x = List(items)
  BY <1>2 DEF Shuts
<1>4. x.items = items
  BY <1>3 DEF List
<1>5. Frames(text, k - 1, at) /\ k - 1 \in Nat /\ k \in Nat /\ k - 1 <= Len(text)
  BY <1>1, FramesHold DEF Sane
<1>6. Nodes(text, k - 1, items) /\ Inner(text, k - 1, items)
  <2>1. Len(at.lists) \in 1 .. Len(at.lists)
    BY <1>3, <1>5, SeqSteps DEF Frames, ReadState
  <2> QED
    BY <1>3, <1>5, <2>1 DEF Frames, Last
<1> HIDE DEF items, at
<1>7. Nodes(text, Len(text), items)
  BY <1>1, <1>5, <1>6, NodesLast
<1>8. IsSeq(items) /\ Len(items) \in Nat /\ (items = <<>> <=> Len(items) = 0)
  BY <1>7, SeqSteps DEF Nodes
<1>9. \A i \in 1 .. Len(items) : NodeOf(text, items[i])
  BY <1>7 DEF Nodes, NodeOf
<1>10. ASSUME Head1(x) \in {<<"symbol">>, <<"text">>}, Len(items) < 2
       PROVE  Bare(text)
  <2>1. /\ items # <<>> /\ items[1].is = "atom"
        /\ items[1].word \in {<<"symbol">>, <<"text">>}
    BY <1>4, <1>10 DEF Head1
  <2>2. Len(items) = 1
    <3>1. Len(items) # 0
      BY <1>8, <2>1, Zenon
    <3>2. Len(items) < 2 /\ Len(items) \in Nat
      BY <1>8, <1>10
    <3>3. \A m \in Nat : m # 0 /\ m < 2 => m = 1
      OBVIOUS
    <3> QED
      BY <3>1, <3>2, <3>3, Zenon
  <2>3. k - 1 > 1 /\ text[k - 1 - 1] = Open /\ IsLeaf(text, k - 1, items[1])
    BY <1>6, <2>1, <2>2 DEF Inner
  <2> DEFINE t == text[k - 1]
  <2>4. k - 1 \in 1 .. Len(text)
    BY <1>1, <1>5, <2>3
  <2>5. Token(t) /\ items[1] = Leaf(t)
    BY <2>3, <2>4 DEF Sane, IsLeaf
  <2>6. t.is = "atom" /\ t.word \in {<<"symbol">>, <<"text">>}
    BY <2>1, <2>5 DEF Leaf
  <2>7. t = [is |-> "atom", word |-> t.word]
    BY <2>5, <2>6 DEF Token, Open, Close, Cut
  <2> HIDE DEF t
  <2>8. t \in {Atom("symbol"), Atom("text")}
    BY <2>6, <2>7 DEF Atom
  <2>9. /\ k - 2 \in 1 .. Len(text) - 2 /\ k - 1 - 1 = k - 2
        /\ (k - 2) + 1 = k - 1 /\ (k - 2) + 2 = k
    BY <1>1, <1>5, <2>3
  <2> QED
    BY <1>3, <2>3, <2>8, <2>9 DEF Bare, t
<1> QED
  BY <1>4, <1>8, <1>9, <1>10

-----------------------------------------------------------------------------
(* The extraction.  It goes through the elements of lists; `kind` tells     *)
(* through which.                                                          *)
StepOf(kind, unit, s, e) == IF kind = "unit" THEN SubChild(unit, s, e)
                            ELSE IF kind = "symbol" THEN Child(s, e) ELSE Symbol(s, e)
NextStep(kind, unit, base, list, at, n) ==
    IF n = 0 THEN base ELSE StepOf(kind, unit, at[n - 1], list[n])

(* From s to r nothing panics without a bare list. *)
Calm(text, s, r) == "error" \in DOMAIN r /\ (r.error = "panic" => s.error = "panic" \/ Bare(text))

LEMMA StepsExist ==
    ASSUME NEW kind, NEW unit, NEW base, NEW list
    PROVE  \A m \in Nat : \E at : at = [n \in 0 .. m |-> NextStep(kind, unit, base, list, at, n)]
<1> DEFINE F(at, n) == NextStep(kind, unit, base, list, at, n)
           Reached == {m \in Nat : \E at : at = [n \in 0 .. m |-> F(at, n)]}
<1>1. 0 \in Reached
  <2> DEFINE at == [n \in 0 .. 0 |-> base]
  <2>1. at = [n \in 0 .. 0 |-> F(at, n)]
    BY DEF NextStep
  <2> HIDE DEF at
  <2> QED BY <2>1
<1>2. ASSUME NEW m \in Nat, m \in Reached
      PROVE  m + 1 \in Reached
  <2>1. PICK f : f = [n \in 0 .. m |-> F(f, n)]
    BY <1>2
  <2> DEFINE at == [n \in 0 .. m + 1 |-> F(f, n)]
             known == [n \in 0 .. m |-> F(f, n)]
  <2>2. \A n \in 0 .. m : at[n] = f[n]
    <3>1. \A n \in 0 .. m : at[n] = known[n]
      OBVIOUS
    <3> HIDE DEF at, known
    <3> QED BY <2>1, <3>1 DEF known
  <2>3. \A n \in 0 .. m + 1 : F(f, n) = F(at, n)
    <3> SUFFICES ASSUME NEW n \in 0 .. m + 1 PROVE F(f, n) = F(at, n)
      OBVIOUS
    <3>1. n = 0 \/ n - 1 \in 0 .. m
      OBVIOUS
    <3> HIDE DEF at
    <3> QED BY <2>2, <3>1 DEF NextStep
  <2>4. at = [n \in 0 .. m + 1 |-> F(at, n)]
    <3> DEFINE next == [n \in 0 .. m + 1 |-> F(at, n)]
    <3>1. at = next
      BY <2>3, Zenon
    <3> QED BY <3>1
  <2> HIDE DEF at
  <2> QED BY <2>4
<1> HIDE DEF Reached
<1>3. \A m \in Nat : m \in Reached
  BY <1>1, <1>2, Induction
<1> QED BY <1>3 DEF Reached

LEMMA StepsAreCalm ==
    ASSUME NEW text, NEW kind, NEW unit, NEW base, "error" \in DOMAIN base,
           NEW list, Len(list) \in Nat, \A i \in 1 .. Len(list) : NodeOf(text, list[i]),
           \A s, e : "error" \in DOMAIN s /\ NodeOf(text, e)
                       => Calm(text, s, StepOf(kind, unit, s, e)),
           NEW at, at = [n \in 0 .. Len(list) |-> NextStep(kind, unit, base, list, at, n)]
    PROVE  Calm(text, base, at[Len(list)])
<1> DEFINE all == [n \in 0 .. Len(list) |-> NextStep(kind, unit, base, list, at, n)]
           Good == {n \in Nat : n <= Len(list) => Calm(text, base, at[n])}
<1>1. \A n \in 0 .. Len(list) : at[n] = NextStep(kind, unit, base, list, at, n)
  <2>1. \A n \in 0 .. Len(list) : all[n] = NextStep(kind, unit, base, list, at, n)
    OBVIOUS
  <2>2. at = all
    OBVIOUS
  <2> HIDE DEF all
  <2> QED
    BY <2>1, <2>2
<1>2. 0 \in Good
  BY <1>1 DEF NextStep, Calm
<1>3. ASSUME NEW n \in Nat, n \in Good
      PROVE  n + 1 \in Good
  <2> SUFFICES ASSUME n + 1 <= Len(list) PROVE Calm(text, base, at[n + 1])
    OBVIOUS
  <2>1. Calm(text, base, at[n])
    BY <1>3
  <2>2. n + 1 \in 1 .. Len(list) /\ n + 1 \in 0 .. Len(list) /\ (n + 1) - 1 = n /\ n + 1 # 0
    OBVIOUS
  <2>3. at[n + 1] = StepOf(kind, unit, at[n], list[n + 1])
    BY <1>1, <2>2 DEF NextStep
  <2>4. Calm(text, at[n], at[n + 1])
    BY <2>1, <2>2, <2>3 DEF Calm
  <2> QED
    BY <2>1, <2>4 DEF Calm
<1> HIDE DEF Good
<1>4. \A n \in Nat : n \in Good
  BY <1>2, <1>3, Induction
<1> QED
  BY <1>4 DEF Good

LEMMA AfterTwo ==
    ASSUME NEW items, IsSeq(items), Len(items) >= 2
    PROVE  /\ Len(items) - 2 \in Nat /\ Len(After(items, 2)) = Len(items) - 2
           /\ \A i \in 1 .. Len(items) - 2 : After(items, 2)[i] = items[i + 2] /\ i + 2 \in 1 .. Len(items)
<1>1. PICK S : items \in Seq(S)
  BY DEF IsSeq
<1>2. After(items, 2) = SubSeq(items, 3, Len(items)) /\ Len(items) \in Nat
  BY <1>1 DEF After
<1> DEFINE n == Len(items)
           sub == [i \in 1 .. (1 + n - 3) |-> items[i + 3 - 1]]
<1>3. Len(SubSeq(items, 3, n)) = n - 2 /\ \A i \in 1 .. n - 2 : SubSeq(items, 3, n)[i] = items[i + 2]
  <2>1. SubSeq(items, 3, n) = sub /\ n \in Nat /\ n >= 2
    BY <1>1
  <2>2. 1 + n - 3 \in Nat /\ 1 + n - 3 = n - 2
    BY <2>1
  <2>3. Len(sub) = 1 + n - 3
    <3> HIDE DEF n
    <3> QED
      BY <2>2
  <2>4. \A i \in 1 .. 1 + n - 3 : sub[i] = items[i + 2]
    <3> HIDE DEF n
    <3> QED
      BY <2>2
  <2> QED
    BY <2>1, <2>2, <2>3, <2>4
<1> QED
  BY <1>2, <1>3

(* The functions of the three loops are what their equations say. *)
LEMMA LoopsAre ==
    ASSUME NEW list, Len(list) \in Nat
    PROVE  /\ \A unit, base : SubChildren(unit, base, list) = [n \in 0 .. Len(list) |->
                  NextStep("unit", unit, base, list, SubChildren(unit, base, list), n)]
           /\ \A base : Children(base, list) = [n \in 0 .. Len(list) |->
                  NextStep("symbol", 0, base, list, Children(base, list), n)]
           /\ Symbols(list) = [n \in 0 .. Len(list) |->
                  NextStep("library", 0, Library, list, Symbols(list), n)]
<1>1. \A kind, u, b : \E at : at = [n \in 0 .. Len(list) |-> NextStep(kind, u, b, list, at, n)]
  <2> TAKE kind, u, b
  <2>1. \A m \in Nat : \E at : at = [n \in 0 .. m |-> NextStep(kind, u, b, list, at, n)]
    BY StepsExist
  <2> QED
    BY <2>1
<1>2. /\ \A unit, s, e : StepOf("unit", unit, s, e) = SubChild(unit, s, e)
      /\ \A s, e : StepOf("symbol", 0, s, e) = Child(s, e)
      /\ \A s, e : StepOf("library", 0, s, e) = Symbol(s, e)
  BY DEF StepOf
<1>3. \A unit, base, at, n : NextStep("unit", unit, base, list, at, n)
                     = IF n = 0 THEN base ELSE SubChild(unit, at[n - 1], list[n])
  BY <1>2, Zenon DEF NextStep
<1>4. \A base, at, n : NextStep("symbol", 0, base, list, at, n)
                     = IF n = 0 THEN base ELSE Child(at[n - 1], list[n])
  BY <1>2, Zenon DEF NextStep
<1>5. \A at, n : NextStep("library", 0, Library, list, at, n)
                     = IF n = 0 THEN Library ELSE Symbol(at[n - 1], list[n])
  BY <1>2, Zenon DEF NextStep
<1>6. ASSUME NEW unit, NEW base
      PROVE  SubChildren(unit, base, list) = [n \in 0 .. Len(list) |->
          NextStep("unit", unit, base, list, SubChildren(unit, base, list), n)]
  <2>1. \A at, n : NextStep("unit", unit, base, list, at, n)
                      = IF n = 0 THEN base ELSE SubChild(unit, at[n - 1], list[n])
    BY <1>3
  <2>2. \E at : at = [n \in 0 .. Len(list) |-> IF n = 0 THEN base ELSE SubChild(unit, at[n - 1], list[n])]
    <3>1. PICK at : at = [n \in 0 .. Len(list) |-> NextStep("unit", unit, base, list, at, n)]
      BY <1>1
    <3>2. at = [n \in 0 .. Len(list) |-> IF n = 0 THEN base ELSE SubChild(unit, at[n - 1], list[n])]
      BY <2>1, <3>1, Zenon
    <3> QED
      BY <3>2
  <2>3. SubChildren(unit, base, list) = [n \in 0 .. Len(list) |->
            IF n = 0 THEN base ELSE SubChild(unit, SubChildren(unit, base, list)[n - 1], list[n])]
    BY <2>2, Zenon DEF SubChildren
  <2> QED
    BY <2>1, <2>3, Zenon
<1>7. ASSUME NEW base
      PROVE  Children(base, list) = [n \in 0 .. Len(list) |->
          NextStep("symbol", 0, base, list, Children(base, list), n)]
  <2>1. \A at, n : NextStep("symbol", 0, base, list, at, n)
                      = IF n = 0 THEN base ELSE Child(at[n - 1], list[n])
    BY <1>4
  <2>2. \E at : at = [n \in 0 .. Len(list) |-> IF n = 0 THEN base ELSE Child(at[n - 1], list[n])]
    <3>1. PICK at : at = [n \in 0 .. Len(list) |-> NextStep("symbol", 0, base, list, at, n)]
      BY <1>1
    <3>2. at = [n \in 0 .. Len(list) |-> IF n = 0 THEN base ELSE Child(at[n - 1], list[n])]
      BY <2>1, <3>1, Zenon
    <3> QED
      BY <3>2
  <2>3. Children(base, list) = [n \in 0 .. Len(list) |->
            IF n = 0 THEN base ELSE Child(Children(base, list)[n - 1], list[n])]
    BY <2>2, Zenon DEF Children
  <2> QED
    BY <2>1, <2>3, Zenon
<1>8. Symbols(list) = [n \in 0 .. Len(list) |->
          NextStep("library", 0, Library, list, Symbols(list), n)]
  <2>1. \E at : at = [n \in 0 .. Len(list) |-> IF n = 0 THEN Library ELSE Symbol(at[n - 1], list[n])]
    <3>1. PICK at : at = [n \in 0 .. Len(list) |-> NextStep("library", 0, Library, list, at, n)]
      BY <1>1
    <3>2. at = [n \in 0 .. Len(list) |-> IF n = 0 THEN Library ELSE Symbol(at[n - 1], list[n])]
      BY <1>5, <3>1, Zenon
    <3> QED
      BY <3>2
  <2>2. Symbols(list) = [n \in 0 .. Len(list) |->
            IF n = 0 THEN Library ELSE Symbol(Symbols(list)[n - 1], list[n])]
    BY <2>1, Zenon DEF Symbols
  <2> QED
    BY <1>5, <2>2, Zenon
<1> QED
  BY <1>6, <1>7, <1>8

LEMMA HeadsAreLists == \A x : Head1(x) # <<>> => x.is = "list"
BY DEF Head1

LEMMA SubChildIsCalm ==
    ASSUME NEW text, Sane(text), NEW unit, NEW s, "error" \in DOMAIN s, NEW e, NodeOf(text, e)
    PROVE  Calm(text, s, SubChild(unit, s, e))
<1>1. CASE s.error # "none"
  BY <1>1 DEF SubChild, Calm
<1>2. CASE s.error = "none" /\ Head1(e) = <<"pin">>
  <2>1. SubChild(unit, s, e) = Pin(unit, s, e.items)
    BY <1>2 DEF SubChild, GraphicKinds
  <2> QED
    BY <2>1 DEF Pin, Calm
<1>3. CASE s.error = "none" /\ \E g \in GraphicKinds : Head1(e) = <<g>>
  <2>1. SubChild(unit, s, e) = Graphic(unit, s, e.items)
    BY <1>3 DEF SubChild, GraphicKinds
  <2>2. Head1(e) # <<>>
    BY <1>3
  <2>3. e.items[1].word = Head1(e) /\ e.is = "list"
    BY <2>2 DEF Head1
  <2>4. CASE e.items[1].word = <<"text">> /\ Len(e.items) < 2
    BY <2>1, <2>3, <2>4, ListNodes DEF Graphic, Stop, Calm
  <2>5. CASE ~(e.items[1].word = <<"text">> /\ Len(e.items) < 2)
    BY <2>1, <2>5 DEF Graphic, Calm
  <2> QED
    BY <2>4, <2>5
<1>4. CASE s.error = "none" /\ Head1(e) # <<"pin">> /\ ~\E g \in GraphicKinds : Head1(e) = <<g>>
  <2>1. SubChild(unit, s, e) = s
    BY <1>4 DEF SubChild
  <2> QED
    BY <2>1 DEF Calm
<1> QED
  BY <1>1, <1>2, <1>3, <1>4

LEMMA SubSymbolIsCalm ==
    ASSUME NEW text, Sane(text), NEW s, "error" \in DOMAIN s,
           NEW e, NodeOf(text, e), Head1(e) = <<"symbol">>
    PROVE  Calm(text, s, SubSymbol(s, e.items))
<1> DEFINE items == e.items
           unit == UnitOf(TextAt(items, 2), s.name)
           listed == IF Contains(s.units, unit) THEN s ELSE [s EXCEPT !.units = Append(@, unit)]
           list == After(items, 2)
<1>1. /\ e.is = "list" /\ IsSeq(items) /\ Len(items) \in Nat
      /\ \A i \in 1 .. Len(items) : NodeOf(text, items[i])
      /\ Len(items) < 2 => Bare(text)
  <2>1. Head1(e) # <<>>
    OBVIOUS
  <2> QED
    BY <2>1, HeadsAreLists, ListNodes
<1>2. "error" \in DOMAIN listed /\ listed.error = s.error
  <2> HIDE DEF unit
  <2> QED
    OBVIOUS
<1>3. SubSymbol(s, items) = IF Len(items) < 2 THEN Stop(listed, "panic")
                            ELSE SubChildren(unit, listed, list)[Len(items) - 2]
  BY DEF SubSymbol
<1> HIDE DEF items, unit, listed, list
<1>4. CASE Len(items) < 2
  <2>1. Calm(text, s, Stop(listed, "panic"))
    BY <1>1, <1>2, <1>4 DEF Calm, Stop
  <2> QED
    BY <1>3, <1>4, <2>1 DEF items
<1>5. CASE ~(Len(items) < 2)
  <2>1. /\ Len(list) \in Nat /\ Len(list) = Len(items) - 2
        /\ \A i \in 1 .. Len(list) : NodeOf(text, list[i])
    <3>1. Len(items) >= 2
      BY <1>1, <1>5
    <3> QED
      BY <1>1, <3>1, AfterTwo DEF list
  <2> DEFINE at == SubChildren(unit, listed, list)
  <2>2. at = [n \in 0 .. Len(list) |-> NextStep("unit", unit, listed, list, at, n)]
    BY <2>1, LoopsAre
  <2>3. \A t, c : "error" \in DOMAIN t /\ NodeOf(text, c) => Calm(text, t, StepOf("unit", unit, t, c))
    BY SubChildIsCalm DEF StepOf
  <2> HIDE DEF at
  <2>4. Calm(text, listed, at[Len(list)])
    BY <1>2, <2>1, <2>2, <2>3, StepsAreCalm
  <2>5. SubSymbol(s, items) = at[Len(list)]
    BY <1>3, <1>5, <2>1 DEF at
  <2> QED
    BY <1>2, <2>4, <2>5 DEF Calm, items
<1> QED
  BY <1>4, <1>5

LEMMA ChildIsCalm ==
    ASSUME NEW text, Sane(text), NEW s, "error" \in DOMAIN s, NEW e, NodeOf(text, e)
    PROVE  Calm(text, s, Child(s, e))
<1>1. CASE s.error # "none"
  BY <1>1 DEF Child, Calm
<1>2. CASE s.error = "none" /\ Head1(e) = <<"symbol">>
  <2>1. Child(s, e) = SubSymbol(s, e.items)
    BY <1>2 DEF Child, Flags
  <2> QED
    BY <1>2, <2>1, SubSymbolIsCalm
<1>3. CASE s.error = "none" /\ Head1(e) # <<"symbol">>
  <2>1. \A flag, set : Calm(text, s, Flag(s, flag, set))
    BY DEF Calm, Flag
  <2>2. \A items : Calm(text, s, Property(s, items))
    BY DEF Calm, Property
  <2>3. \A word : Calm(text, s, [s EXCEPT !.extends = word])
    BY DEF Calm
  <2>4. Calm(text, s, s)
    BY DEF Calm
  <2>5. \/ Child(s, e) = s
        \/ Child(s, e) = [s EXCEPT !.extends = e.items[2].word]
        \/ Child(s, e) = Property(s, e.items)
        \/ \E flag, set : Child(s, e) = Flag(s, flag, set)
    <3> DEFINE head == Head1(e)
    <3>1. CASE head = <<"extends">>
      BY <1>3, <3>1 DEF Child, Flags
    <3>2. CASE head = <<"property">>
      BY <1>3, <3>2 DEF Child, Flags
    <3>3. CASE head = <<"pin_numbers">>
      BY <1>3, <3>3 DEF Child, Flags
    <3>4. CASE \E f \in Flags : head = <<f>>
      BY <1>3, <3>4 DEF Child, Flags
    <3>5. CASE /\ head \notin {<<"extends">>, <<"property">>, <<"pin_numbers">>}
               /\ ~\E f \in Flags : head = <<f>>
      BY <1>3, <3>5 DEF Child
    <3> QED
      BY <3>1, <3>2, <3>3, <3>4, <3>5
  <2> QED
    BY <2>1, <2>2, <2>3, <2>4, <2>5, Zenon
<1> QED
  BY <1>1, <1>2, <1>3

LEMMA ExtractIsCalm ==
    ASSUME NEW text, Sane(text), NEW e, NodeOf(text, e), Head1(e) = <<"symbol">>
    PROVE  Extract(e).error = "panic" => Bare(text)
<1> DEFINE items == e.items
           list == After(items, 2)
           base == Named(items[2].word)
<1>1. /\ IsSeq(items) /\ Len(items) \in Nat
      /\ \A i \in 1 .. Len(items) : NodeOf(text, items[i])
  <2>1. Head1(e) # <<>>
    OBVIOUS
  <2> QED
    BY <2>1, HeadsAreLists, ListNodes
<1>2. CASE Len(items) < 2 \/ ~IsText(items[2])
  <2>1. Extract(e) = Unnamed
    BY <1>2 DEF Extract
  <2>2. Unnamed.error = "UnnamedSymbol"
    BY DEF Unnamed, Stop, Named
  <2> QED
    BY <2>1, <2>2
<1>3. CASE ~(Len(items) < 2 \/ ~IsText(items[2]))
  <2> DEFINE at == Children(base, list)
  <2>1. Extract(e) = at[Len(items) - 2]
    BY <1>3 DEF Extract
  <2>2. "error" \in DOMAIN base /\ base.error = "none"
    BY DEF Named
  <2> HIDE DEF list, base
  <2>3. /\ Len(list) \in Nat /\ Len(list) = Len(items) - 2
        /\ \A i \in 1 .. Len(list) : NodeOf(text, list[i])
    <3>1. Len(items) >= 2
      BY <1>1, <1>3
    <3> HIDE DEF items
    <3> QED
      BY <1>1, <3>1, AfterTwo DEF list
  <2>4. at = [n \in 0 .. Len(list) |-> NextStep("symbol", 0, base, list, at, n)]
    <3>1. Len(list) \in Nat
      BY <2>3
    <3> QED
      BY <3>1, LoopsAre, Zenon
  <2>5. \A t, c : "error" \in DOMAIN t /\ NodeOf(text, c) => Calm(text, t, StepOf("symbol", 0, t, c))
    BY ChildIsCalm DEF StepOf
  <2> HIDE DEF at
  <2>6. Calm(text, base, at[Len(list)])
    BY <2>2, <2>3, <2>4, <2>5, StepsAreCalm
  <2> QED
    BY <2>1, <2>2, <2>3, <2>6 DEF Calm
<1> QED
  BY <1>2, <1>3

LEMMA SymbolIsCalm ==
    ASSUME NEW text, Sane(text), NEW s, "error" \in DOMAIN s, NEW e, NodeOf(text, e)
    PROVE  Calm(text, s, Symbol(s, e))
<1>1. CASE s.error # "none" \/ Head1(e) # <<"symbol">>
  BY <1>1 DEF Symbol, Calm
<1>2. CASE s.error = "none" /\ Head1(e) = <<"symbol">>
  <2> DEFINE sym == Extract(e)
  <2>1. sym.error = "panic" => Bare(text)
    BY <1>2, ExtractIsCalm
  <2>2. Symbol(s, e) = IF sym.error # "none" THEN Stop(s, sym.error)
                       ELSE [s EXCEPT !.symbols = Append(@, sym)]
    BY <1>2 DEF Symbol
  <2> HIDE DEF sym
  <2> QED
    BY <1>2, <2>1, <2>2 DEF Calm, Stop
<1> QED
  BY <1>1, <1>2

(* A text that makes the merge panic has a bare list. *)
LEMMA PanicsOnBare ==
    ASSUME NEW o \in DOMAIN Offers, Prepared[o].error = "panic"
    PROVE  Bare(Offers[o].text)
<1> DEFINE text == Offers[o].text
           tree == Parse(text)
           root == tree.root[1]
           Of == {t \in Range(text) : Token(t)}
<1>1. Sane(text)
  <2>1. text \in Seq(Of)
    BY StoreAssumption
  <2>2. \A t \in Of : Token(t)
    OBVIOUS
  <2> HIDE DEF text, Of
  <2> QED
    BY <2>1, <2>2 DEF Sane, IsSeq
<1>2. tree.error = "none" /\ ExtractLib(root).error = "panic"
  <2>1. Prepare(Offers[o]).error = "panic"
    BY DEF Prepared
  <2>2. \A why : Refused(why).error = why
    BY DEF Refused
  <2> QED
    BY <2>1, <2>2 DEF Prepare
<1> HIDE DEF text
<1> DEFINE end == Readings(text)[Len(text)]
<1>3. Len(text) \in Nat /\ Frames(text, Len(text), end)
  BY <1>1, SeqSteps, FramesHold DEF Sane
<1>4. tree = end /\ end.error = "none" /\ end.root # <<>>
  <2>1. CASE end.error = "none" /\ end.root = <<>>
    <3>1. tree = Stop(end, "Eof")
      BY <2>1 DEF Parse
    <3>2. tree.error = "Eof"
      BY <1>3, <3>1 DEF Stop, Frames, ReadState
    <3> QED
      BY <1>2, <3>2
  <2>2. CASE ~(end.error = "none" /\ end.root = <<>>)
    BY <1>2, <2>2 DEF Parse
  <2> QED
    BY <2>1, <2>2
<1> HIDE DEF end
<1>5. NodeOf(text, root)
  <2>1. Nodes(text, Len(text), end.root)
    BY <1>3, <1>4 DEF Frames
  <2>2. 1 \in 1 .. Len(end.root)
    BY <1>4, <2>1, SeqSteps DEF Nodes
  <2> QED
    BY <1>4, <2>1, <2>2 DEF Nodes, NodeOf
<1> HIDE DEF tree, root
<1>6. CASE Head1(root) \notin Roots
  BY <1>2, <1>6 DEF ExtractLib, Stop, Library
<1>7. CASE Head1(root) \in Roots
  <2> DEFINE list == root.items
             at == Symbols(list)
  <2>1. ExtractLib(root) = at[Len(list)]
    BY <1>7 DEF ExtractLib
  <2>2. Len(list) \in Nat /\ \A i \in 1 .. Len(list) : NodeOf(text, list[i])
    <3>1. Head1(root) # <<>>
      BY <1>7 DEF Roots
    <3> QED
      BY <1>1, <1>5, <3>1, HeadsAreLists, ListNodes
  <2> HIDE DEF list
  <2>3. at = [n \in 0 .. Len(list) |-> NextStep("library", 0, Library, list, at, n)]
    BY <2>2, LoopsAre
  <2>4. \A t, c : "error" \in DOMAIN t /\ NodeOf(text, c) => Calm(text, t, StepOf("library", 0, t, c))
    BY <1>1, SymbolIsCalm DEF StepOf
  <2>5. "error" \in DOMAIN Library /\ Library.error = "none"
    BY DEF Library
  <2> HIDE DEF at
  <2>6. Calm(text, Library, at[Len(list)])
    BY <2>2, <2>3, <2>4, <2>5, StepsAreCalm
  <2> QED
    BY <1>2, <2>1, <2>5, <2>6 DEF Calm, text
<1> QED
  BY <1>6, <1>7

(* A merge panics only on a row whose text has a bare (symbol) or (text).   *)
PanicsHaveCause ==
    [][pc = "merging" /\ pc' = "idle" /\ result' = "panic" =>
         \E i \in 1 .. seen : Bare(Offers[source[i]].text)]_vars

THEOREM PanicsNeedBareLists == Spec => PanicsHaveCause
<1> DEFINE Caused == pc = "merging" /\ pc' = "idle" /\ result' = "panic" =>
                        \E i \in 1 .. seen : Bare(Offers[source[i]].text)
<1>1. ASSUME Inv, [Next]_vars PROVE [Caused]_vars
  <2> SUFFICES ASSUME pc = "merging", pc' = "idle", result' = "panic"
               PROVE  \E i \in 1 .. seen : Bare(Offers[source[i]].text)
    OBVIOUS
  <2>1. PICK i \in todo : Panic(i)
    BY <1>1 DEF Next, Publish, Unlink, Built, BuildKilled, Merge, Begin, Commit, Killed, Skip, Insert,
                Taken, Fail, vars
  <2>2. i \in 1 .. seen /\ source[i] \in DOMAIN Offers
    BY <1>1, RowsAreOffers DEF Inv, TypeOK
  <2> QED BY <2>1, <2>2, PanicsOnBare DEF Panic, Outcome
<1>2. Inv /\ [Next]_vars => [Caused]_vars
  BY <1>1
<1> QED BY InvHolds, <1>2, PTL DEF Spec, PanicsHaveCause

(* If what the compiler writes validates, a merge fails only on a row of    *)
(* other origin or one that contradicts the file, and panics only on a      *)
(* bare list.                                                              *)
THEOREM FailuresHaveCause ==
    ASSUME CompiledValidate
    PROVE  Spec => FailsForCause
<1> DEFINE Errors == pc = "merging" /\ pc' = "idle" /\ result' = "error" =>
                         \E i \in 1 .. seen : Outcome(i) # "none" \/ Contradicts(Offers[source[i]])
           Panics == pc = "merging" /\ pc' = "idle" /\ result' = "panic" =>
                         \E i \in 1 .. seen : Bare(Offers[source[i]].text)
           Both == pc = "merging" /\ pc' = "idle" =>
                       LET rows == {Offers[source[i]] : i \in 1 .. seen} IN
                       /\ result' = "error" => \E row \in rows : row \notin Compiled \/ Contradicts(row)
                       /\ result' = "panic" => \E row \in rows : Bare(row.text)
<1>1. ASSUME TypeOK, NEW i \in 1 .. seen, Outcome(i) # "none"
      PROVE  Offers[source[i]] \notin Compiled
  <2>1. source[i] \in DOMAIN Offers
    BY <1>1 DEF TypeOK
  <2> QED BY <1>1, <2>1 DEF CompiledValidate, Outcome
<1>2. ASSUME TypeOK, [Errors]_vars, [Panics]_vars PROVE [Both]_vars
  BY <1>1, <1>2 DEF vars
<1>3. TypeOK /\ [Errors]_vars /\ [Panics]_vars => [Both]_vars
  BY <1>2
<1> HIDE DEF Errors, Panics
<1>4. Spec => [][Errors]_vars
  BY MergesFailForCause DEF ErrorsHaveCause, Errors
<1>5. Spec => [][Panics]_vars
  BY PanicsNeedBareLists DEF PanicsHaveCause, Panics
<1> QED BY StoreTypes, <1>3, <1>4, <1>5, PTL DEF FailsForCause

-----------------------------------------------------------------------------
(* The merge as PackPublish has it, in one step: Merged and Mergeable.      *)
Ids(f) == {r.rev : r \in f.rows}
Validated == pc = "merging" => \A i \in (1 .. seen) \ todo : Outcome(i) = "none"

LEMMA ValidatedStep ==
    ASSUME Inv, Validated, [Next]_vars
    PROVE  Validated'
<1>1. \A i \in 1 .. seen : i \in DOMAIN source
  BY DEF Inv, TypeOK
<1>2. ASSUME NEW o \in DOMAIN Offers, Publish, source' = Append(source, o)
      PROVE  Validated'
  <2>1. \A i \in DOMAIN source : source'[i] = source[i]
    BY <1>2 DEF Inv, TypeOK
  <2> QED BY <1>1, <1>2, <2>1 DEF Publish, Validated, Outcome
<1>3. CASE Begin
  <2>1. seen' = Len(source) /\ todo' = DOMAIN source /\ DOMAIN source = 1 .. Len(source)
    BY <1>3 DEF Begin, Inv, TypeOK
  <2> QED BY <2>1 DEF Validated
<1>4. ASSUME NEW i \in todo, Skip(i) \/ Insert(i)
      PROVE  Validated'
  BY <1>4 DEF Skip, Insert, Taken, Validated, Outcome
<1>5. CASE Commit \/ Dropped \/ Unlink \/ Built \/ BuildKilled
  BY <1>5 DEF Commit, Dropped, Unlink, Built, BuildKilled, Validated
<1>6. CASE UNCHANGED vars
  BY <1>6 DEF vars, Validated, Outcome
<1>7. CASE Merge
  BY <1>3, <1>4, <1>5, <1>7 DEF Merge, Killed, Fail, Panic
<1> QED BY <1>2, <1>5, <1>6, <1>7 DEF Next, Publish

(* PackPublish.Merge: a merge that reports success has added to the catalog *)
(* the revisions of the source as it was when the merge began, each of      *)
(* which validates, and nothing else; what was there is still there.        *)
MergesUnion ==
    [][pc = "merging" /\ pc' = "idle" /\ result' = "ok" =>
         /\ Ids(file') = Ids(file) \cup {Rev(i) : i \in 1 .. seen}
         /\ \A i \in 1 .. seen : Outcome(i) = "none"]_vars

THEOREM MergesAreUnions == Spec => MergesUnion
<1> DEFINE Union == pc = "merging" /\ pc' = "idle" /\ result' = "ok" =>
                        /\ Ids(file') = Ids(file) \cup {Rev(i) : i \in 1 .. seen}
                        /\ \A i \in 1 .. seen : Outcome(i) = "none"
<1>1. ASSUME Inv, Merges, Validated, [Next]_vars PROVE [Union]_vars
  <2> SUFFICES ASSUME pc = "merging", pc' = "idle", result' = "ok"
               PROVE  /\ Ids(file') = Ids(file) \cup {Rev(i) : i \in 1 .. seen}
                      /\ \A i \in 1 .. seen : Outcome(i) = "none"
    OBVIOUS
  <2>1. Commit
    BY <1>1 DEF Next, Publish, Unlink, Built, BuildKilled, Merge, Begin, Killed, Skip, Insert,
                Taken, Fail, Panic, vars
  <2>2. file' = work /\ todo = {} /\ (1 .. seen) \ todo = 1 .. seen
    BY <2>1 DEF Commit
  <2>3. \A i \in 1 .. seen : Outcome(i) = "none"
    BY <1>1, <2>2 DEF Validated
  <2>4. \A i \in 1 .. seen : Rev(i) \in Ids(work)
    BY <1>1, <2>2 DEF Inv, Ahead, Has, Ids
  <2>5. Ids(file) \subseteq Ids(work)
    BY <1>1 DEF Inv, Ahead, Keeps, Ids
  <2>6. Ids(work) \subseteq Ids(file) \cup {Rev(i) : i \in 1 .. seen}
    BY <1>1, <2>2 DEF Merges, Accounted, Ids
  <2> QED BY <2>2, <2>3, <2>4, <2>5, <2>6 DEF Ids
<1>2. Inv /\ Merges /\ Validated /\ [Next]_vars => [Union]_vars
  BY <1>1
<1>3. Merges /\ Inv /\ [Next]_vars => Merges'
  BY MergesStep
<1>4. Validated /\ Inv /\ [Next]_vars => Validated'
  BY ValidatedStep
<1>5. Init => Validated
  BY DEF Init, Validated
<1>6. Spec => []Merges
  BY MergesInitially, <1>3, InvHolds, PTL DEF Spec
<1>7. Spec => []Validated
  BY <1>4, <1>5, InvHolds, PTL DEF Spec
<1> QED BY InvHolds, <1>2, <1>6, <1>7, PTL DEF Spec, MergesUnion
=============================================================================
