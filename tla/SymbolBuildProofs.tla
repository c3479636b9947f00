------------------------- MODULE SymbolBuildProofs -------------------------
(***************************************************************************)
(* For every set of files, acyclic or not: where pin counts come from, how *)
(* many passes the back-fill needs, and that resolving a symbol finds what *)
(* the build linked, a search's pin count included.                        *)
(***************************************************************************)
EXTENDS SymbolBuild, ExtremesProofs, FiniteSetTheorems, TLAPS

(* What has been inserted, linked and counted at each pass. *)
LinksRight == pc \in {"backfill", "done"} => \A s \in Rows : parent[s] = Linked(s)

CountsFounded ==
    pc \in {"link", "backfill", "done"} =>
        \A s \in Rows : /\ count[s] = 0 => parsed[s].pins = 0
                        /\ count[s] # 0 => \E t \in Lineage(s) : parsed[t].pins = count[s]

Settled == pc = "done" => Starved = {}

BuildInv == TypeOK /\ LinksRight /\ CountsFounded /\ Settled

LEMMA LineageSelf == \A s \in Rows : s \in Lineage(s)
BY DEF Lineage

(* A child's lineage holds its parent's. *)
LEMMA LineageStep ==
    ASSUME NEW s \in Rows, NEW p \in Named(s)
    PROVE  Lineage(p) \subseteq Lineage(s)
<1> SUFFICES ASSUME NEW t \in Lineage(p), NEW S \in SUBSET Rows, s \in S, Closed(S)
             PROVE  t \in S
  BY DEF Lineage
<1>1. p \in S
  BY DEF Closed, Named
<1> QED
  BY <1>1 DEF Lineage

(* A set of rows that is closed and holds s holds all of its lineage. *)
LEMMA LineageLeast ==
    ASSUME NEW s \in Rows, NEW S \in SUBSET Rows, s \in S, Closed(S)
    PROVE  Lineage(s) \subseteq S
BY DEF Lineage

LEMMA LinkedIsNamed ==
    \A s \in Rows : IF Named(s) = {} THEN Linked(s) = Null ELSE Linked(s) \in Named(s) /\ Linked(s) \in Rows
BY DEF Linked, Named

LEMMA RowIsNotNull == TypeOK => Null \notin Rows
BY BuildAssumption DEF TypeOK

(* All of these are read off the files, which the build leaves alone. *)
LEMMA FilesStay ==
    ASSUME parsed' = parsed
    PROVE  /\ Rows' = Rows
           /\ \A s : Lineage(s)' = Lineage(s)
           /\ \A s : Linked(s)' = Linked(s)
BY DEF Rows, Lineage, Closed, Linked, Named, Extends

LEMMA InitBuild == Init => BuildInv
<1> SUFFICES ASSUME Init PROVE BuildInv
  OBVIOUS
<1>1. PICK S \in SUBSET Symbols : parsed \in [S -> Parsed]
  BY DEF Init
<1>2. Rows = S
  BY <1>1 DEF Rows
<1> QED
  BY <1>1, <1>2 DEF Init, BuildInv, TypeOK, LinksRight, CountsFounded, Settled

LEMMA InsertKeeps == BuildInv /\ Insert => BuildInv'
<1> SUFFICES ASSUME BuildInv, Insert PROVE BuildInv'
  OBVIOUS
<1>1. Rows' = Rows /\ \A s : Lineage(s)' = Lineage(s)
  BY FilesStay DEF Insert
<1>2. \A s \in Rows : parsed[s].pins \in Pins
  BY DEF BuildInv, TypeOK, Parsed
<1>3. TypeOK'
  BY <1>1, <1>2 DEF BuildInv, TypeOK, Insert
<1>4. CountsFounded'
  BY <1>1, LineageSelf DEF CountsFounded, Insert
<1> QED
  BY <1>3, <1>4 DEF BuildInv, Insert, LinksRight, Settled

LEMMA LinkKeeps == BuildInv /\ Link => BuildInv'
<1> SUFFICES ASSUME BuildInv, Link PROVE BuildInv'
  OBVIOUS
<1>1. Rows' = Rows /\ (\A s : Lineage(s)' = Lineage(s)) /\ \A s : Linked(s)' = Linked(s)
  BY FilesStay DEF Link
<1>2. parent' \in [Rows -> Rows \cup {Null}]
  BY LinkedIsNamed DEF Link
<1>3. TypeOK'
  BY <1>1, <1>2 DEF BuildInv, TypeOK, Link
<1>4. LinksRight'
  BY <1>1 DEF LinksRight, Link
<1>5. CountsFounded'
  BY <1>1 DEF BuildInv, CountsFounded, Link
<1> QED
  BY <1>3, <1>4, <1>5 DEF BuildInv, Link, Settled

LEMMA BackfillKeeps == BuildInv /\ Backfill => BuildInv'
<1> SUFFICES ASSUME BuildInv, Backfill PROVE BuildInv'
  OBVIOUS
<1>1. Rows' = Rows /\ (\A s : Lineage(s)' = Lineage(s)) /\ \A s : Linked(s)' = Linked(s)
  BY FilesStay DEF Backfill
<1>2. \A s \in Starved : s \in Rows /\ parent[s] \in Rows /\ count[parent[s]] \in Pins
                         /\ count[parent[s]] > 0
  BY DEF Starved, BuildInv, TypeOK, Backfill
<1>3. TypeOK'
  <2>1. count' \in [Rows -> Pins]
    BY <1>2 DEF Backfill, BuildInv, TypeOK
  <2> QED
    BY <1>1, <2>1 DEF BuildInv, TypeOK, Backfill
<1>4. LinksRight'
  BY <1>1 DEF BuildInv, LinksRight, Backfill
<1>5. CountsFounded'
  <2> SUFFICES ASSUME NEW s \in Rows
               PROVE  /\ count'[s] = 0 => parsed[s].pins = 0
                      /\ count'[s] # 0 => \E t \in Lineage(s) : parsed[t].pins = count'[s]
    BY <1>1 DEF CountsFounded, Backfill
  <2>1. CASE s \notin Starved
    BY <2>1 DEF Backfill, BuildInv, CountsFounded
  <2>2. CASE s \in Starved
    <3>1. count'[s] = count[parent[s]] /\ count[parent[s]] # 0 /\ parent[s] \in Rows
      BY <1>2, <2>2 DEF Backfill, Pins
    <3>2. parent[s] \in Named(s)
      <4>1. parent[s] = Linked(s) /\ Linked(s) # Null
        BY <2>2 DEF BuildInv, LinksRight, Backfill, Starved
      <4> QED
        BY <4>1, LinkedIsNamed
    <3>3. Lineage(parent[s]) \subseteq Lineage(s)
      BY <3>2, LineageStep
    <3>4. \E t \in Lineage(parent[s]) : parsed[t].pins = count[parent[s]]
      BY <3>1 DEF BuildInv, CountsFounded, Backfill
    <3> QED
      BY <3>1, <3>3, <3>4
  <2> QED
    BY <2>1, <2>2
<1> QED
  BY <1>3, <1>4, <1>5 DEF BuildInv, Backfill, Settled

LEMMA OthersKeep == BuildInv /\ (Duplicate \/ Commit \/ UNCHANGED vars) => BuildInv'
<1> SUFFICES ASSUME BuildInv, Duplicate \/ Commit \/ UNCHANGED vars PROVE BuildInv'
  OBVIOUS
<1>1. Rows' = Rows /\ (\A s : Lineage(s)' = Lineage(s)) /\ \A s : Linked(s)' = Linked(s)
  BY FilesStay DEF Duplicate, Commit, vars
<1>2. CASE Duplicate
  BY <1>1, <1>2 DEF Duplicate, BuildInv, TypeOK, LinksRight, CountsFounded, Settled
<1>3. CASE Commit
  <2>1. Starved' = Starved
    BY <1>1, <1>3 DEF Commit, Starved
  <2> QED
    BY <1>1, <1>3, <2>1 DEF Commit, BuildInv, TypeOK, LinksRight, CountsFounded, Settled
<1>4. CASE UNCHANGED vars
  <2>1. Starved' = Starved
    BY <1>1, <1>4 DEF vars, Starved
  <2> QED
    BY <1>1, <1>4, <2>1 DEF vars, BuildInv, TypeOK, LinksRight, CountsFounded, Settled
<1> QED
  BY <1>2, <1>3, <1>4

LEMMA BuildInductive == BuildInv /\ [Next]_vars => BuildInv'
BY InsertKeeps, LinkKeeps, BackfillKeeps, OthersKeep DEF Next

(* Rows without a count are closed once nothing is left to copy, so none   *)
(* of their lineage has a pin.                                             *)
LEMMA SettledCounts == BuildInv => CountsInherited
<1> SUFFICES ASSUME BuildInv, pc = "done", NEW s \in Rows, count[s] = 0
             PROVE  \A t \in Lineage(s) : parsed[t].pins = 0
  BY DEF CountsInherited, BuildInv, CountsFounded
<1> DEFINE Bare == {t \in Rows : count[t] = 0}
<1>1. Closed(Bare)
  <2> SUFFICES ASSUME NEW t \in Rows, count[t] = 0, NEW u \in Rows, u \in Named(t)
               PROVE  count[u] = 0
    BY DEF Closed, Named
  <2>1. Linked(t) = u
    BY DEF Linked, Named
  <2>2. parent[t] = u /\ u # Null
    BY <2>1, RowIsNotNull DEF BuildInv, LinksRight
  <2>3. ~(count[u] > 0)
    BY <2>2 DEF BuildInv, Settled, Starved
  <2>4. count[u] \in Nat
    BY DEF BuildInv, TypeOK, Pins
  <2> QED
    BY <2>3, <2>4
<1>2. Lineage(s) \subseteq Bare
  <2> HIDE DEF Bare
  <2>1. Bare \subseteq Rows /\ s \in Bare
    BY DEF Bare
  <2> QED
    BY <1>1, <2>1, LineageLeast
<1> QED
  BY <1>2 DEF BuildInv, CountsFounded

(* The pin count of every symbol comes from its own lineage, for every     *)
(* set of files (emit.rs 146-159).                                         *)
THEOREM CountsComeFromLineage == Spec => []CountsInherited
<1>1. Init => BuildInv
  BY InitBuild
<1>2. BuildInv /\ [Next]_vars => BuildInv'
  BY BuildInductive
<1>3. BuildInv => CountsInherited
  BY SettledCounts
<1> QED
  BY <1>1, <1>2, <1>3, PTL DEF Spec

(* The tables keep their types through all passes. *)
THEOREM BuildTypes == Spec => []TypeOK
<1>1. BuildInv => TypeOK
  BY DEF BuildInv
<1> QED
  BY <1>1, InitBuild, BuildInductive, PTL DEF Spec

-----------------------------------------------------------------------------
(* The rows of a symbol's lineage that have a count. *)
Fed(s) == {t \in Lineage(s) : count[t] > 0}

(* A row that waits for its count after some passes has fed one ancestor   *)
(* more than there were passes, and is none of them itself.                *)
Waits == pc = "backfill" => \A s \in Starved : Cardinality(Fed(s)) > passes

CountInv == BuildInv /\ Waits /\ PassesWithinDepth /\ (pc \in {"insert", "link"} => passes = 0)

LEMMA RowsFinite ==
    TypeOK => IsFiniteSet(Rows) /\ \A S \in SUBSET Rows : IsFiniteSet(S) /\ Cardinality(S) \in Nat
BY BuildAssumption, FS_Subset, FS_CardinalityType DEF TypeOK

(* A row that is linked finds its parent in its lineage. *)
LEMMA LinkedInLineage ==
    ASSUME NEW s \in Rows, Linked(s) # Null
    PROVE  /\ Linked(s) \in Rows /\ Linked(s) \in Lineage(s)
           /\ Lineage(Linked(s)) \subseteq Lineage(s)
<1>1. Linked(s) \in Named(s) /\ Linked(s) \in Rows
  BY LinkedIsNamed
<1> QED
  BY <1>1, LineageStep, LineageSelf

LEMMA CountStep ==
    ASSUME CountInv, Backfill
    PROVE  Waits' /\ PassesWithinDepth'
<1>1. TypeOK /\ TypeOK' /\ BuildInv'
  BY BackfillKeeps DEF CountInv, BuildInv
<1>2. Rows' = Rows /\ \A s : Lineage(s)' = Lineage(s)
  BY FilesStay DEF Backfill
<1>3. /\ pc = "backfill" /\ pc' = "backfill" /\ parent' = parent /\ passes' = passes + 1
      /\ passes \in Nat
      /\ \A s \in Rows : count'[s] = IF s \in Starved THEN count[parent[s]] ELSE count[s]
  BY <1>1 DEF Backfill, TypeOK
<1>4. \A s \in Starved : Cardinality(Fed(s)) > passes
  BY <1>3 DEF CountInv, Waits
<1>5. \A s : Lineage(s) \subseteq Rows
  BY DEF Lineage
<1>6. Waits'
  <2> SUFFICES ASSUME NEW s \in Starved'
               PROVE  Cardinality(Fed(s)') > passes'
    BY DEF Waits
  <2> DEFINE p == parent[s]
  <2>1. /\ s \in Rows /\ p \in Rows /\ count'[s] = 0 /\ count'[p] > 0
        /\ p \in Lineage(s) /\ Lineage(p) \subseteq Lineage(s)
    <3>1. s \in Rows /\ p # Null /\ count'[s] = 0 /\ count'[p] > 0
      BY <1>2, <1>3 DEF Starved
    <3>2. p = Linked(s)
      BY <1>3, <3>1 DEF CountInv, BuildInv, LinksRight
    <3> QED
      BY <3>1, <3>2, LinkedInLineage
  <2>2. s \notin Starved /\ count[s] = 0
    <3>1. s \in Starved => count[parent[s]] > 0
      BY DEF Starved
    <3> QED
      BY <1>3, <2>1, <3>1
  <2>3. ~ (count[p] > 0)
    <3>1. p # Null
      BY <1>1, <2>1, RowIsNotNull
    <3> QED
      BY <2>1, <2>2, <3>1 DEF Starved
  <2>4. p \in Starved
    BY <1>3, <2>1, <2>3
  <2>5. Fed(p) \cup {p} \subseteq Fed(s)'
    <3>1. \A t \in Rows : count[t] > 0 => count'[t] > 0
      <4> SUFFICES ASSUME NEW t \in Rows, count[t] > 0 PROVE count'[t] > 0
        OBVIOUS
      <4>1. t \notin Starved
        BY DEF Starved
      <4> QED
        BY <1>3, <4>1
    <3> QED
      BY <1>2, <1>5, <2>1, <3>1 DEF Fed
  <2>6. /\ IsFiniteSet(Fed(p)) /\ Cardinality(Fed(p)) \in Nat
        /\ IsFiniteSet(Fed(s)') /\ Cardinality(Fed(s)') \in Nat
    <3>1. Fed(p) \subseteq Rows /\ Fed(s)' \subseteq Rows
      BY <1>2, <1>5 DEF Fed
    <3> QED
      BY <1>1, <3>1, RowsFinite
  <2>7. Cardinality(Fed(p) \cup {p}) = Cardinality(Fed(p)) + 1
    <3>1. p \notin Fed(p)
      BY <2>3 DEF Fed
    <3> QED
      BY <2>6, <3>1, FS_AddElement
  <2>8. Cardinality(Fed(p) \cup {p}) <= Cardinality(Fed(s)')
    BY <2>5, <2>6, FS_Subset
  <2>9. Cardinality(Fed(p)) > passes
    BY <1>4, <2>4
  <2> HIDE DEF p
  <2> QED
    BY <1>3, <2>6, <2>7, <2>8, <2>9
<1>7. PassesWithinDepth'
  <2>1. PICK s \in Starved : TRUE
    BY DEF Backfill
  <2>2. s \in Rows /\ count[s] = 0
    BY DEF Starved
  <2>3. Fed(s) \cup {s} \subseteq Lineage(s) /\ s \notin Fed(s)
    BY <2>2, LineageSelf DEF Fed
  <2>4. /\ IsFiniteSet(Fed(s)) /\ Cardinality(Fed(s)) \in Nat
        /\ IsFiniteSet(Lineage(s)) /\ Cardinality(Lineage(s)) \in Nat
    BY <1>1, <1>5, <2>3, RowsFinite
  <2>5. Cardinality(Fed(s) \cup {s}) = Cardinality(Fed(s)) + 1
    BY <2>3, <2>4, FS_AddElement
  <2>6. Cardinality(Fed(s) \cup {s}) <= Cardinality(Lineage(s))
    BY <2>3, <2>4, FS_Subset
  <2>7. passes + 1 < Cardinality(Lineage(s))
    BY <1>3, <1>4, <2>4, <2>5, <2>6
  <2> QED
    BY <1>2, <1>3, <2>2, <2>7 DEF PassesWithinDepth
<1> QED
  BY <1>6, <1>7

LEMMA LinkWaits ==
    ASSUME CountInv, Link
    PROVE  Waits'
<1>1. BuildInv' /\ pc' = "backfill" /\ passes' = 0 /\ TypeOK'
  BY LinkKeeps DEF CountInv, Link, BuildInv
<1> SUFFICES ASSUME NEW s \in Starved'
             PROVE  Cardinality(Fed(s)') > passes'
  BY DEF Waits
<1>2. Rows' = Rows /\ \A t : Lineage(t)' = Lineage(t)
  BY FilesStay DEF Link
<1>3. Linked(s) \in Fed(s)' /\ Fed(s)' \subseteq Rows
  <2>1. s \in Rows /\ parent'[s] = Linked(s) /\ Linked(s) # Null /\ count'[Linked(s)] > 0
    BY <1>2 DEF Starved, Link
  <2> QED
    BY <1>2, <2>1, LinkedInLineage DEF Fed, Lineage
<1>4. IsFiniteSet(Fed(s)') /\ Cardinality(Fed(s)') \in Nat
  BY <1>3, RowsFinite DEF CountInv, BuildInv
<1>5. Cardinality(Fed(s)') # 0
  BY <1>3, <1>4, FS_EmptySet
<1> QED
  BY <1>1, <1>4, <1>5

LEMMA CountInductive == CountInv /\ [Next]_vars => CountInv'
<1> SUFFICES ASSUME CountInv, [Next]_vars PROVE CountInv'
  OBVIOUS
<1>1. BuildInv'
  BY BuildInductive DEF CountInv
<1>2. CASE Backfill
  BY <1>1, <1>2, CountStep DEF CountInv, Backfill
<1>3. CASE Link
  <2>1. passes = 0 /\ passes' = passes
    BY <1>3 DEF Link, CountInv
  <2> QED
    BY <1>1, <1>3, <2>1, LinkWaits DEF CountInv, Link, PassesWithinDepth
<1>4. CASE Duplicate \/ Insert \/ Commit \/ UNCHANGED vars
  <2>1. passes' = passes /\ parsed' = parsed
    BY <1>4 DEF Duplicate, Insert, Commit, vars
  <2>2. Rows' = Rows /\ \A s : Lineage(s)' = Lineage(s)
    BY <2>1, FilesStay
  <2>3. PassesWithinDepth'
    BY <2>1, <2>2 DEF CountInv, PassesWithinDepth
  <2>4. Waits'
    <3>1. CASE UNCHANGED vars
      BY <2>2, <3>1 DEF vars, CountInv, Waits, Starved, Fed
    <3> QED
      BY <1>4, <3>1 DEF Duplicate, Insert, Commit, Waits
  <2>5. pc' \in {"insert", "link"} => passes' = 0
    BY <1>4 DEF Duplicate, Insert, Commit, vars, CountInv
  <2> QED
    BY <1>1, <2>3, <2>4, <2>5 DEF CountInv
<1> QED
  BY <1>2, <1>3, <1>4 DEF Next

LEMMA InitCount == Init => CountInv
BY InitBuild DEF Init, CountInv, Waits, PassesWithinDepth

(* The third pass ends after fewer rounds than the longest lineage has     *)
(* rows, for every set of files, cyclic ones too (emit.rs 147, "This loop   *)
(* terminates in <= max-depth passes").                                    *)
THEOREM PassesAreBounded == Spec => []PassesWithinDepth
<1>1. CountInv => PassesWithinDepth
  BY DEF CountInv
<1> QED
  BY <1>1, InitCount, CountInductive, PTL DEF Spec

-----------------------------------------------------------------------------
(* The recursion of CHAIN_CTE has a result for every row: by induction on  *)
(* the depth it is cut at.                                                 *)
Up(s, at, d) == IF d = 0 THEN s ELSE IF at[d-1] = Null THEN Null ELSE parent[at[d-1]]

LEMMA ChainExists ==
    ASSUME NEW s
    PROVE  \A n \in Nat : \E at : at = [d \in 0 .. n |-> Up(s, at, d)]
<1> DEFINE Walked == {n \in Nat : \E at : at = [d \in 0 .. n |-> Up(s, at, d)]}
<1>1. 0 \in Walked
  <2> DEFINE at == [d \in 0 .. 0 |-> s]
  <2>1. at = [d \in 0 .. 0 |-> Up(s, at, d)]
    BY DEF Up
  <2> HIDE DEF at
  <2> QED
    BY <2>1
<1>2. ASSUME NEW n \in Nat, n \in Walked
      PROVE  n + 1 \in Walked
  <2>1. PICK f : f = [d \in 0 .. n |-> Up(s, f, d)]
    BY <1>2
  <2> DEFINE at == [d \in 0 .. n + 1 |-> Up(s, f, d)]
  <2>2. \A d \in 0 .. n : at[d] = f[d]
    <3> SUFFICES ASSUME NEW d \in 0 .. n PROVE at[d] = f[d]
      OBVIOUS
    <3>1. f[d] = Up(s, f, d)
      <4> DEFINE g == [e \in 0 .. n |-> Up(s, f, e)]
      <4>1. g[d] = Up(s, f, d)
        OBVIOUS
      <4> HIDE DEF g
      <4> QED
        BY <2>1, <4>1 DEF g
    <3> QED
      BY <3>1
  <2>3. \A d \in 0 .. n + 1 : Up(s, f, d) = Up(s, at, d)
    <3> SUFFICES ASSUME NEW d \in 0 .. n + 1 PROVE Up(s, f, d) = Up(s, at, d)
      OBVIOUS
    <3>1. d = 0 \/ d - 1 \in 0 .. n
      OBVIOUS
    <3> HIDE DEF at
    <3> QED
      BY <2>2, <3>1 DEF Up
  <2>4. at = [d \in 0 .. n + 1 |-> Up(s, at, d)]
    <3> DEFINE g == [d \in 0 .. n + 1 |-> Up(s, at, d)]
    <3>1. at = g
      BY <2>3, Zenon
    <3> QED
      BY <3>1
  <2> HIDE DEF at
  <2> QED
    BY <2>4
<1> HIDE DEF Walked
<1>3. \A n \in Nat : n \in Walked
  BY <1>1, <1>2, Induction
<1> QED
  BY <1>3 DEF Walked

LEMMA AncestorIs ==
    ASSUME NEW s
    PROVE  \A d \in 0 .. Deepest : Ancestor(s)[d] = Up(s, Ancestor(s), d)
<1>1. Deepest \in Nat
  BY BuildAssumption DEF Deepest
<1>2. \E at : at = [d \in 0 .. Deepest |-> Up(s, at, d)]
  BY <1>1, ChainExists
<1>3. Ancestor(s) = [d \in 0 .. Deepest |-> Up(s, Ancestor(s), d)]
  BY <1>2, Zenon DEF Ancestor, Up
<1> DEFINE a == Ancestor(s)
<1>4. a = [d \in 0 .. Deepest |-> Up(s, a, d)]
  BY <1>3
<1> HIDE DEF a
<1>5. \A d \in 0 .. Deepest : a[d] = Up(s, a, d)
  <2> DEFINE g == [d \in 0 .. Deepest |-> Up(s, a, d)]
  <2>1. \A d \in 0 .. Deepest : g[d] = Up(s, a, d)
    OBVIOUS
  <2>2. a = g
    BY <1>4
  <2> HIDE DEF g
  <2> QED
    BY <2>1, <2>2
<1> QED
  BY <1>5 DEF a

(* What the resolver finds in a finished build. *)
BodiesRight ==
    pc \in {"link", "backfill", "done"} =>
        \A s \in Rows : body[s] = IF Extends(s) THEN Null ELSE parsed[s].pins

Finished == BuildInv /\ BodiesRight /\ pc = "done"

LEMMA ChainSteps ==
    ASSUME Finished, NEW s \in Rows
    PROVE  /\ Ancestor(s)[0] = s
           /\ \A d \in 0 .. Deepest : Ancestor(s)[d] \in Rows \cup {Null}
           /\ \A d \in 0 .. Deepest : d # 0 /\ Ancestor(s)[d-1] = Null => Ancestor(s)[d] = Null
           /\ \A d \in 0 .. Deepest : d # 0 /\ Ancestor(s)[d-1] # Null =>
                 Ancestor(s)[d] = Linked(Ancestor(s)[d-1])
<1> DEFINE a == Ancestor(s)
<1>1. \A d \in 0 .. Deepest : a[d] = Up(s, a, d)
  BY AncestorIs
<1>2. Deepest \in Nat
  BY BuildAssumption DEF Deepest
<1> HIDE DEF a
<1>3. a[0] = s
  BY <1>1, <1>2 DEF Up
<1>4. \A d \in 0 .. Deepest : d # 0 => a[d] = IF a[d-1] = Null THEN Null ELSE parent[a[d-1]]
  BY <1>1 DEF Up
<1>5. \A d \in 0 .. Deepest : a[d] \in Rows \cup {Null}
  <2> DEFINE Right == {n \in Nat : n <= Deepest => a[n] \in Rows \cup {Null}}
  <2>1. 0 \in Right
    BY <1>3
  <2>2. ASSUME NEW n \in Nat, n \in Right
        PROVE  n + 1 \in Right
    <3> SUFFICES ASSUME n + 1 <= Deepest PROVE a[n + 1] \in Rows \cup {Null}
      OBVIOUS
    <3>1. a[n] \in Rows \cup {Null}
      BY <1>2, <2>2
    <3>2. a[n + 1] = IF a[n] = Null THEN Null ELSE parent[a[n]]
      <4>1. n + 1 \in 0 .. Deepest /\ n + 1 # 0 /\ (n + 1) - 1 = n
        BY <1>2
      <4> QED
        BY <1>4, <4>1
    <3> QED
      BY <3>1, <3>2 DEF Finished, BuildInv, TypeOK
  <2> HIDE DEF Right
  <2>3. \A n \in Nat : n \in Right
    BY <2>1, <2>2, Induction
  <2> QED
    BY <1>2, <2>3 DEF Right
<1>6. \A d \in 0 .. Deepest : d # 0 /\ a[d-1] # Null => a[d] = Linked(a[d-1])
  <2> SUFFICES ASSUME NEW d \in 0 .. Deepest, d # 0, a[d-1] # Null
               PROVE  a[d] = Linked(a[d-1])
    OBVIOUS
  <2>1. d - 1 \in 0 .. Deepest
    BY <1>2
  <2>2. a[d-1] \in Rows
    BY <1>5, <2>1
  <2>3. a[d] = parent[a[d-1]]
    BY <1>4
  <2> QED
    BY <2>2, <2>3 DEF Finished, BuildInv, LinksRight
<1> QED
  BY <1>3, <1>4, <1>5, <1>6 DEF a

(* Two rows of a chain that are the same have the same ancestors. *)
LEMMA ChainRepeats ==
    ASSUME Finished, NEW s \in Rows, NEW i \in Nat, NEW j \in Nat, i <= j,
           Ancestor(s)[i] = Ancestor(s)[j]
    PROVE  \A n \in Nat : j + n <= Deepest => Ancestor(s)[i + n] = Ancestor(s)[j + n]
<1> DEFINE a == Ancestor(s)
           Same == {n \in Nat : j + n <= Deepest => a[i + n] = a[j + n]}
<1>1. \A d \in 0 .. Deepest : d # 0 => a[d] = IF a[d-1] = Null THEN Null ELSE Linked(a[d-1])
  BY ChainSteps
<1>2. Deepest \in Nat /\ a[i] = a[j]
  BY BuildAssumption DEF Deepest
<1> HIDE DEF a
<1>3. 0 \in Same
  BY <1>2
<1>4. ASSUME NEW n \in Nat, n \in Same
      PROVE  n + 1 \in Same
  <2> SUFFICES ASSUME j + (n + 1) <= Deepest PROVE a[i + (n + 1)] = a[j + (n + 1)]
    OBVIOUS
  <2>1. a[i + n] = a[j + n]
    BY <1>2, <1>4
  <2>2. /\ i + (n + 1) \in 0 .. Deepest /\ i + (n + 1) # 0 /\ (i + (n + 1)) - 1 = i + n
        /\ j + (n + 1) \in 0 .. Deepest /\ j + (n + 1) # 0 /\ (j + (n + 1)) - 1 = j + n
    BY <1>2
  <2>3. a[i + (n + 1)] = IF a[i + n] = Null THEN Null ELSE Linked(a[i + n])
    BY <1>1, <2>2
  <2>4. a[j + (n + 1)] = IF a[j + n] = Null THEN Null ELSE Linked(a[j + n])
    BY <1>1, <2>2
  <2> QED
    BY <2>1, <2>3, <2>4
<1> HIDE DEF Same
<1>5. \A n \in Nat : n \in Same
  BY <1>3, <1>4, Induction
<1> QED
  BY <1>5 DEF Same, a

(* The rows of a chain are of the lineage. *)
LEMMA ChainInLineage ==
    ASSUME Finished, NEW s \in Rows
    PROVE  \A d \in 0 .. Deepest : Ancestor(s)[d] # Null => Ancestor(s)[d] \in Lineage(s)
<1> DEFINE a == Ancestor(s)
           In == {n \in Nat : n <= Deepest /\ a[n] # Null => Lineage(a[n]) \subseteq Lineage(s)}
<1>1. /\ a[0] = s
      /\ \A d \in 0 .. Deepest : a[d] \in Rows \cup {Null}
      /\ \A d \in 0 .. Deepest : d # 0 => a[d] = IF a[d-1] = Null THEN Null ELSE Linked(a[d-1])
  BY ChainSteps
<1>2. Deepest \in Nat
  BY BuildAssumption DEF Deepest
<1> HIDE DEF a
<1>3. 0 \in In
  BY <1>1
<1>4. ASSUME NEW n \in Nat, n \in In
      PROVE  n + 1 \in In
  <2> SUFFICES ASSUME n + 1 <= Deepest, a[n + 1] # Null
               PROVE  Lineage(a[n + 1]) \subseteq Lineage(s)
    OBVIOUS
  <2>1. n + 1 \in 0 .. Deepest /\ n + 1 # 0 /\ (n + 1) - 1 = n /\ n \in 0 .. Deepest /\ n <= Deepest
    BY <1>2
  <2>2. a[n] # Null /\ a[n + 1] = Linked(a[n])
    BY <1>1, <2>1
  <2>3. a[n] \in Rows
    BY <1>1, <2>1, <2>2
  <2>4. Lineage(Linked(a[n])) \subseteq Lineage(a[n])
    BY <2>2, <2>3, LinkedInLineage
  <2> QED
    BY <1>4, <2>1, <2>2, <2>4
<1> HIDE DEF In
<1>5. \A n \in Nat : n \in In
  BY <1>3, <1>4, Induction
<1>6. ASSUME NEW d \in 0 .. Deepest, a[d] # Null
      PROVE  a[d] \in Lineage(s)
  <2>1. d \in Nat /\ d <= Deepest /\ a[d] \in Rows
    BY <1>1, <1>2, <1>6
  <2>2. Lineage(a[d]) \subseteq Lineage(s)
    BY <1>5, <1>6, <2>1 DEF In
  <2> QED
    BY <2>1, <2>2, LineageSelf
<1> QED
  BY <1>6 DEF a

LEMMA NamedIsLinked ==
    ASSUME NEW t \in Rows, NEW u \in Rows, Extends(t), u = <<t[1], parsed[t].extends>>
    PROVE  Linked(t) = u
BY DEF Linked, Named

(* A chain that ends, or comes back to one of its rows, is the lineage.    *)
LEMMA ChainIsLineage ==
    ASSUME Finished, NEW s \in Rows, NEW n \in 1 .. Deepest,
           \A d \in 0 .. n - 1 : Ancestor(s)[d] # Null,
           Ancestor(s)[n] = Null \/ \E i \in 0 .. n - 1 : Ancestor(s)[n] = Ancestor(s)[i]
    PROVE  Lineage(s) = {Ancestor(s)[d] : d \in 0 .. n - 1}
<1> DEFINE a == Ancestor(s)
           C == {a[d] : d \in 0 .. n - 1}
<1>1. /\ a[0] = s
      /\ \A d \in 0 .. Deepest : a[d] \in Rows \cup {Null}
      /\ \A d \in 0 .. Deepest : d # 0 => a[d] = IF a[d-1] = Null THEN Null ELSE Linked(a[d-1])
  BY ChainSteps
<1>2. Deepest \in Nat /\ \A d \in 0 .. n - 1 : d \in 0 .. Deepest
  BY BuildAssumption DEF Deepest
<1>3. \A d \in 0 .. n - 1 : a[d] \in Lineage(s)
  BY <1>2, ChainInLineage
<1>4. /\ \A d \in 0 .. n - 1 : a[d] # Null
      /\ a[n] = Null \/ \E i \in 0 .. n - 1 : a[n] = a[i]
  OBVIOUS
<1> HIDE DEF a
<1>5. C \subseteq Rows /\ s \in C /\ \A d \in 0 .. n - 1 : a[d] \in C
  BY <1>1, <1>2, <1>4
<1>6. \A x \in C : \E d \in 0 .. n - 1 : x = a[d]
  OBVIOUS
<1> HIDE DEF C
<1>7. Closed(C)
  <2> SUFFICES ASSUME NEW t \in C, NEW u \in Rows, Extends(t), u = <<t[1], parsed[t].extends>>
               PROVE  u \in C
    BY DEF Closed
  <2>1. PICK d \in 0 .. n - 1 : t = a[d]
    BY <1>6
  <2>2. d + 1 \in 0 .. Deepest /\ d + 1 # 0 /\ (d + 1) - 1 = d
    BY <1>2
  <2>3. a[d + 1] = u
    <3>1. Linked(t) = u
      BY <1>5, NamedIsLinked
    <3> QED
      BY <1>1, <1>4, <2>1, <2>2, <3>1
  <2>4. u # Null
    BY RowIsNotNull DEF Finished, BuildInv
  <2>5. CASE d + 1 = n
    BY <1>4, <1>5, <2>3, <2>4, <2>5
  <2>6. CASE d + 1 # n
    <3>1. d + 1 \in 0 .. n - 1
      BY <2>6
    <3> QED
      BY <1>5, <2>3, <3>1
  <2> QED
    BY <2>5, <2>6
<1>8. Lineage(s) \subseteq C
  BY <1>5, <1>7, LineageLeast
<1>9. C \subseteq Lineage(s)
  BY <1>3, <1>6
<1>10. Lineage(s) = C
  BY <1>8, <1>9
<1> QED
  BY <1>10 DEF C, a

-----------------------------------------------------------------------------
(* Whoever names nobody that is there has no parent.                       *)
LEMMA EndIsUnlinked ==
    ASSUME Finished, NEW s \in Rows
    PROVE  Named(s) = {} <=> Linked(s) = Null
BY LinkedIsNamed, RowIsNotNull DEF Finished, BuildInv

(* A chain that ends within the cap: what the resolver and the files have  *)
(* in common.                                                              *)
LEMMA ChainEnds ==
    ASSUME Finished, NEW s \in Rows, NEW n \in 1 .. Deepest,
           \A d \in 0 .. n - 1 : Ancestor(s)[d] # Null, Ancestor(s)[n] = Null
    PROVE  /\ Chain(s) = 0 .. n - 1 /\ Cardinality(Chain(s)) = n
           /\ Cardinality(Lineage(s)) = n
           /\ \A i, j \in 0 .. n - 1 : Ancestor(s)[i] = Ancestor(s)[j] => i = j
           /\ Origins(s) = {Ancestor(s)[n - 1]}
<1> DEFINE a == Ancestor(s)
<1>1. /\ \A d \in 0 .. Deepest : a[d] \in Rows \cup {Null}
      /\ \A d \in 0 .. Deepest : d # 0 => a[d] = IF a[d-1] = Null THEN Null ELSE Linked(a[d-1])
  BY ChainSteps
<1>2. Deepest \in Nat /\ n \in Nat /\ n - 1 \in Nat /\ n <= Deepest
      /\ (\A d \in 0 .. n - 1 : a[d] # Null) /\ a[n] = Null
  BY BuildAssumption DEF Deepest
<1>3. Lineage(s) = {a[d] : d \in 0 .. n - 1}
  BY ChainIsLineage
<1>4. \A i, j \in Nat : i <= j /\ a[i] = a[j] =>
         \A m \in Nat : j + m <= Deepest => a[i + m] = a[j + m]
  BY ChainRepeats
<1>5. Chain(s) = {d \in 0 .. Deepest : a[d] # Null}
  BY DEF Chain
<1>6. Origins(s) = {t \in Lineage(s) : Named(t) = {}}
  BY DEF Origins
<1> HIDE DEF a
<1>7. \A i, j \in 0 .. n - 1 : a[i] = a[j] => i = j
  <2>1. ASSUME NEW i \in 0 .. n - 1, NEW j \in 0 .. n - 1, i < j, a[i] = a[j]
        PROVE  FALSE
    <3>1. i \in Nat /\ j \in Nat /\ i <= j /\ n - j \in Nat /\ j + (n - j) = n
          /\ i + (n - j) \in 0 .. n - 1
      BY <1>2, <2>1
    <3>2. a[i + (n - j)] = a[j + (n - j)]
      BY <1>2, <1>4, <2>1, <3>1
    <3> QED
      BY <1>2, <3>1, <3>2
  <2> SUFFICES ASSUME NEW i \in 0 .. n - 1, NEW j \in 0 .. n - 1, a[i] = a[j], i # j
               PROVE  FALSE
    OBVIOUS
  <2> QED
    BY <1>2, <2>1
<1>8. \A d \in 0 .. Deepest : d >= n => a[d] = Null
  <2> DEFINE Over == {m \in Nat : n + m <= Deepest => a[n + m] = Null}
  <2>1. 0 \in Over
    BY <1>2
  <2>2. ASSUME NEW m \in Nat, m \in Over
        PROVE  m + 1 \in Over
    <3> SUFFICES ASSUME n + (m + 1) <= Deepest PROVE a[n + (m + 1)] = Null
      OBVIOUS
    <3>1. n + (m + 1) \in 0 .. Deepest /\ n + (m + 1) # 0 /\ (n + (m + 1)) - 1 = n + m
          /\ n + m <= Deepest
      BY <1>2
    <3> QED
      BY <1>1, <2>2, <3>1
  <2> HIDE DEF Over
  <2>3. \A m \in Nat : m \in Over
    BY <2>1, <2>2, Induction
  <2> SUFFICES ASSUME NEW d \in 0 .. Deepest, d >= n PROVE a[d] = Null
    OBVIOUS
  <2>4. d - n \in Nat /\ n + (d - n) = d
    BY <1>2
  <2>5. n + (d - n) <= Deepest => a[n + (d - n)] = Null
    BY <2>3, <2>4 DEF Over
  <2> QED
    BY <1>2, <2>4, <2>5
<1>9. Chain(s) = 0 .. n - 1
  <2>1. \A d \in 0 .. Deepest : a[d] # Null <=> d \in 0 .. n - 1
    BY <1>2, <1>8
  <2>2. 0 .. n - 1 \subseteq 0 .. Deepest
    BY <1>2
  <2> QED
    BY <1>5, <2>1, <2>2
<1>10. Cardinality(Chain(s)) = n
  <2>1. Cardinality(0 .. n - 1) = n
    BY <1>2, FS_Interval
  <2> QED
    BY <1>9, <2>1
<1>11. Cardinality(Lineage(s)) = n
  <2> DEFINE f == [d \in 0 .. n - 1 |-> a[d]]
  <2>1. f \in [0 .. n - 1 -> Lineage(s)] /\ \A d \in 0 .. n - 1 : f[d] = a[d]
    BY <1>3
  <2>2. \A t \in Lineage(s) : \E d \in 0 .. n - 1 : f[d] = t
    BY <1>3
  <2> HIDE DEF f
  <2>3. \A i, j \in 0 .. n - 1 : f[i] = f[j] => i = j
    BY <1>7, <2>1
  <2>4. Cardinality(Lineage(s)) = (n - 1) + 1
    BY <1>2, <2>1, <2>2, <2>3, WalkVisits
  <2> QED
    BY <1>2, <2>4
<1>12. Origins(s) = {a[n - 1]}
  <2>1. \A d \in 0 .. n - 1 : a[d] \in Rows /\ (Named(a[d]) = {} <=> d = n - 1)
    <3> SUFFICES ASSUME NEW d \in 0 .. n - 1
                 PROVE  a[d] \in Rows /\ (Named(a[d]) = {} <=> d = n - 1)
      OBVIOUS
    <3>1. a[d] \in Rows
      BY <1>1, <1>2
    <3>2. d + 1 \in 0 .. Deepest /\ d + 1 # 0 /\ (d + 1) - 1 = d
      BY <1>2
    <3>3. a[d + 1] = Linked(a[d])
      BY <1>1, <1>2, <3>2
    <3>4. a[d + 1] = Null <=> d = n - 1
      BY <1>2
    <3> QED
      BY <3>1, <3>3, <3>4, EndIsUnlinked
  <2>2. n - 1 \in 0 .. n - 1
    BY <1>2
  <2> QED
    BY <1>3, <1>6, <2>1, <2>2
<1> QED
  BY <1>7, <1>9, <1>10, <1>11, <1>12 DEF a

(* A chain that reaches the cap: its lineage is longer than the cap, or    *)
(* has no end.                                                             *)
LEMMA ChainGoesOn ==
    ASSUME Finished, NEW s \in Rows, \A d \in 0 .. Deepest : Ancestor(s)[d] # Null
    PROVE  /\ Cardinality(Chain(s)) > MaxDepth
           /\ Origins(s) = {} \/ Cardinality(Lineage(s)) > MaxDepth
<1> DEFINE a == Ancestor(s)
<1>1. /\ \A d \in 0 .. Deepest : a[d] \in Rows /\ a[d] \in Lineage(s)
      /\ \A d \in 0 .. Deepest : d # 0 => a[d] = Linked(a[d-1])
  <2>1. \A d \in 0 .. Deepest : d # 0 => d - 1 \in 0 .. Deepest
    BY BuildAssumption DEF Deepest
  <2> QED
    BY <2>1, ChainSteps, ChainInLineage
<1>2. Deepest \in Nat /\ Deepest = MaxDepth
  BY BuildAssumption DEF Deepest
<1>3. Chain(s) = 0 .. Deepest
  BY DEF Chain
<1>4. Cardinality(Chain(s)) > MaxDepth
  <2>1. Cardinality(0 .. Deepest) = Deepest + 1
    BY <1>2, FS_Interval
  <2> QED
    BY <1>2, <1>3, <2>1
<1>5. CASE \A i, j \in 0 .. Deepest : a[i] = a[j] => i = j
  <2> DEFINE T == {a[d] : d \in 0 .. Deepest}
             f == [d \in 0 .. Deepest |-> a[d]]
  <2>1. T \subseteq Lineage(s) /\ f \in [0 .. Deepest -> T] /\ (\A d \in 0 .. Deepest : f[d] = a[d])
    BY <1>1
  <2>2. \A t \in T : \E d \in 0 .. Deepest : f[d] = t
    OBVIOUS
  <2> HIDE DEF f, T, a
  <2>3. \A i, j \in 0 .. Deepest : f[i] = f[j] => i = j
    BY <1>5, <2>1
  <2>4. Cardinality(T) = Deepest + 1
    <3>1. f \in [0 .. Deepest -> T] /\ Deepest \in Nat
      BY <1>2, <2>1
    <3> QED
      BY <2>2, <2>3, <3>1, WalkVisits, Zenon
  <2>5. IsFiniteSet(Lineage(s)) /\ Cardinality(Lineage(s)) \in Nat
    <3>1. Lineage(s) \subseteq Rows
      BY DEF Lineage
    <3> QED
      BY <3>1, RowsFinite DEF Finished, BuildInv
  <2>6. Cardinality(T) <= Cardinality(Lineage(s))
    BY <2>1, <2>5, FS_Subset
  <2> QED
    BY <1>2, <1>4, <2>4, <2>5, <2>6
<1>6. CASE \E i, j \in 0 .. Deepest : a[i] = a[j] /\ i # j
  <2>1. PICK i \in 0 .. Deepest, n \in 0 .. Deepest : a[i] = a[n] /\ i < n
    <3>1. PICK i \in 0 .. Deepest, j \in 0 .. Deepest : a[i] = a[j] /\ i # j
      BY <1>6
    <3>2. CASE i < j
      BY <3>1, <3>2
    <3>3. CASE j < i
      BY <3>1, <3>3
    <3> QED
      BY <1>2, <3>1, <3>2, <3>3
  <2>2. n \in 1 .. Deepest /\ i \in 0 .. n - 1 /\ 0 .. n - 1 \subseteq 0 .. Deepest
    BY <1>2, <2>1
  <2>3. Lineage(s) = {a[d] : d \in 0 .. n - 1}
    BY <2>1, <2>2, ChainIsLineage
  <2> HIDE DEF a
  <2>4. \A d \in 0 .. n - 1 : Named(a[d]) # {}
    <3> SUFFICES ASSUME NEW d \in 0 .. n - 1 PROVE Named(a[d]) # {}
      OBVIOUS
    <3>1. d + 1 \in 0 .. Deepest /\ d + 1 # 0 /\ (d + 1) - 1 = d /\ d \in 0 .. Deepest
      BY <1>2, <2>1
    <3>2. Linked(a[d]) \in Rows /\ a[d] \in Rows
      BY <1>1, <3>1
    <3> QED
      BY <3>2, EndIsUnlinked, RowIsNotNull DEF Finished, BuildInv
  <2>5. Origins(s) = {}
    BY <2>3, <2>4 DEF Origins
  <2> QED
    BY <1>4, <2>5
<1> QED
  BY <1>5, <1>6

LEMMA ChainEndsOrNot ==
    ASSUME Finished, NEW s \in Rows, ~ \A d \in 0 .. Deepest : Ancestor(s)[d] # Null
    PROVE  \E n \in 1 .. Deepest : /\ \A d \in 0 .. n - 1 : Ancestor(s)[d] # Null
                                   /\ Ancestor(s)[n] = Null
<1> DEFINE Ends == {d \in 0 .. Deepest : Ancestor(s)[d] = Null}
<1>1. Deepest \in Nat
  BY BuildAssumption DEF Deepest
<1>2. Ends \in SUBSET Nat /\ IsFiniteSet(Ends) /\ Ends # {}
  <2>1. IsFiniteSet(0 .. Deepest)
    BY <1>1, FS_Interval
  <2>2. Ends \subseteq 0 .. Deepest /\ Ends # {}
    OBVIOUS
  <2>3. Ends \in SUBSET Nat
    BY <1>1
  <2> HIDE DEF Ends
  <2>4. IsFiniteSet(Ends)
    BY <2>1, <2>2, FS_Subset
  <2> QED
    BY <2>2, <2>3, <2>4
<1>3. PICK n \in Ends : \A d \in Ends : n <= d
  <2> HIDE DEF Ends
  <2> QED
    BY <1>2, LeastExists
<1>4. n # 0
  <2>1. s # Null
    BY RowIsNotNull DEF Finished, BuildInv
  <2> QED
    BY <1>3, <2>1, ChainSteps
<1>5. n \in 1 .. Deepest /\ Ancestor(s)[n] = Null
  BY <1>1, <1>3, <1>4
<1>6. \A d \in 0 .. n - 1 : Ancestor(s)[d] # Null
  <2> SUFFICES ASSUME NEW d \in 0 .. n - 1, Ancestor(s)[d] = Null PROVE FALSE
    OBVIOUS
  <2>1. d \in 0 .. Deepest /\ ~ (n <= d)
    BY <1>1, <1>5
  <2> QED
    BY <1>3, <2>1
<1> QED
  BY <1>5, <1>6

(* The body at the end of a chain is the only one in it: no other row of   *)
(* the chain has one, since all of them extend another.                    *)
LEMMA BodyAtEnd ==
    ASSUME Finished, NEW s \in Rows, NEW n \in 1 .. Deepest,
           \A d \in 0 .. n - 1 : Ancestor(s)[d] # Null, Ancestor(s)[n] = Null
    PROVE  Body(s) = IF Extends(Ancestor(s)[n - 1]) THEN 0 ELSE parsed[Ancestor(s)[n - 1]].pins
<1> DEFINE a == Ancestor(s)
           withBody == {d \in 0 .. n - 1 : body[a[d]] # Null}
<1>1. Chain(s) = 0 .. n - 1
  BY ChainEnds
<1>2. Body(s) = IF withBody = {} THEN 0
                ELSE body[a[CHOOSE d \in withBody : \A e \in withBody : e <= d]]
  BY <1>1 DEF Body
<1>3. /\ \A d \in 0 .. Deepest : a[d] \in Rows \cup {Null}
      /\ \A d \in 0 .. Deepest : d # 0 => a[d] = IF a[d-1] = Null THEN Null ELSE Linked(a[d-1])
  BY ChainSteps
<1>4. Deepest \in Nat /\ n \in Nat /\ n <= Deepest /\ n - 1 \in 0 .. n - 1
      /\ (\A d \in 0 .. n - 1 : a[d] # Null) /\ a[n] = Null
  BY BuildAssumption DEF Deepest
<1> HIDE DEF a
<1>5. \A d \in 0 .. n - 1 : a[d] \in Rows
  BY <1>3, <1>4
<1>6. \A d \in 0 .. n - 1 : d # n - 1 => Extends(a[d])
  <2> SUFFICES ASSUME NEW d \in 0 .. n - 1, d # n - 1 PROVE Extends(a[d])
    OBVIOUS
  <2>1. d + 1 \in 0 .. n - 1 /\ d + 1 \in 0 .. Deepest /\ d + 1 # 0 /\ (d + 1) - 1 = d
    BY <1>4
  <2>2. Linked(a[d]) # Null
    BY <1>3, <1>4, <2>1
  <2> QED
    BY <2>2 DEF Linked, Named
<1>7. \A d \in 0 .. n - 1 : body[a[d]] = IF Extends(a[d]) THEN Null ELSE parsed[a[d]].pins
  BY <1>5 DEF Finished, BodiesRight
<1>8. \A d \in 0 .. n - 1 : parsed[a[d]].pins # Null
  BY <1>5, BuildAssumption DEF Finished, BuildInv, TypeOK, Parsed, Pins
<1>9. CASE Extends(a[n - 1])
  <2>1. withBody = {}
    BY <1>6, <1>7, <1>9
  <2> QED
    BY <1>2, <1>9, <2>1 DEF a
<1>10. CASE ~ Extends(a[n - 1])
  <2>1. withBody = {n - 1}
    BY <1>4, <1>6, <1>7, <1>8, <1>10
  <2>2. (CHOOSE d \in withBody : \A e \in withBody : e <= d) = n - 1
    <3> HIDE DEF withBody
    <3> QED
      BY <1>4, <2>1
  <2> QED
    BY <1>2, <1>4, <1>7, <1>10, <2>1, <2>2 DEF a
<1> QED
  BY <1>9, <1>10

LEMMA Resolved == Finished => ResolvesToOrigin
<1> SUFFICES ASSUME Finished, NEW s \in Rows
             PROVE  Resolve(s) = Expected(s)
  BY DEF ResolvesToOrigin
<1>1. CASE \A d \in 0 .. Deepest : Ancestor(s)[d] # Null
  BY <1>1, ChainGoesOn DEF Resolve, Expected
<1>2. CASE ~ \A d \in 0 .. Deepest : Ancestor(s)[d] # Null
  <2>1. PICK n \in 1 .. Deepest : /\ \A d \in 0 .. n - 1 : Ancestor(s)[d] # Null
                                  /\ Ancestor(s)[n] = Null
    BY <1>2, ChainEndsOrNot
  <2> DEFINE a == Ancestor(s)
             o == a[n - 1]
  <2>2. /\ Cardinality(Chain(s)) = n /\ Cardinality(Lineage(s)) = n
        /\ \A i, j \in 0 .. n - 1 : a[i] = a[j] => i = j
        /\ Origins(s) = {o}
    BY <2>1, ChainEnds
  <2>3. n \in Nat /\ ~ (n > MaxDepth) /\ 0 \in 0 .. n - 1 /\ n - 1 \in 0 .. n - 1
    BY BuildAssumption DEF Deepest
  <2>4. Body(s) = IF Extends(o) THEN 0 ELSE parsed[o].pins
    BY <2>1, BodyAtEnd
  <2>5. n > 1 <=> o # s
    <3>1. a[0] = s
      BY ChainSteps
    <3> QED
      BY <2>2, <2>3, <3>1
  <2>6. Resolve(s) = Found(Body(s), IF n > 1 THEN o ELSE Null)
    BY <2>2, <2>3 DEF Resolve
  <2>7. Expected(s) = Found(IF Extends(o) THEN 0 ELSE parsed[o].pins, IF o = s THEN Null ELSE o)
    <3> HIDE DEF o
    <3>1. (CHOOSE t \in Origins(s) : TRUE) = o
      BY <2>2
    <3> QED
      BY <2>2, <2>3, <3>1 DEF Expected
  <2> HIDE DEF o
  <2> QED
    BY <2>4, <2>5, <2>6, <2>7
<1> QED
  BY <1>1, <1>2

(* What the counts and the bodies have in common: where a symbol resolves, *)
(* the end of its lineage is the only row that brings pins.                *)
LEMMA Counted == Finished /\ ResolvesToOrigin /\ CountsInherited => CountsAgree
<1> SUFFICES ASSUME Finished, ResolvesToOrigin, CountsInherited, NEW s \in Rows,
                    Resolve(s) # TooDeep, \A t \in Lineage(s) : Extends(t) => parsed[t].pins = 0
             PROVE  count[s] = Resolve(s).pins
  BY DEF CountsAgree
<1>1. Resolve(s) = Expected(s)
  BY DEF ResolvesToOrigin, Finished
<1>2. ~ (Origins(s) = {} \/ Cardinality(Lineage(s)) > MaxDepth)
  BY <1>1 DEF Expected
<1>3. ~ \A d \in 0 .. Deepest : Ancestor(s)[d] # Null
  BY <1>2, ChainGoesOn
<1>4. PICK n \in 1 .. Deepest : /\ \A d \in 0 .. n - 1 : Ancestor(s)[d] # Null
                                /\ Ancestor(s)[n] = Null
  BY <1>3, ChainEndsOrNot
<1> DEFINE o == Ancestor(s)[n - 1]
<1>5. Origins(s) = {o}
  BY <1>4, ChainEnds
<1> HIDE DEF o
<1>6. o \in Lineage(s) /\ (CHOOSE t \in Origins(s) : TRUE) = o /\ Lineage(s) \subseteq Rows
  BY <1>5 DEF Origins, Lineage
<1>7. Resolve(s).pins = IF Extends(o) THEN 0 ELSE parsed[o].pins
  <2>1. (CHOOSE t \in Origins(s) : TRUE) = o
    BY <1>6
  <2>2. Expected(s) = Found(IF Extends(o) THEN 0 ELSE parsed[o].pins, IF o = s THEN Null ELSE o)
    BY <1>2, <1>5, <2>1 DEF Expected
  <2> QED
    BY <1>1, <2>2 DEF Found
<1>8. CASE count[s] = 0
  <2>1. parsed[o].pins = 0
    BY <1>6, <1>8 DEF CountsInherited, Finished
  <2> QED
    BY <1>7, <1>8, <2>1
<1>9. CASE count[s] # 0
  <2>1. PICK t \in Lineage(s) : parsed[t].pins = count[s]
    BY <1>9 DEF CountsInherited, Finished
  <2>2. ~ Extends(t)
    BY <1>9, <2>1
  <2>3. Named(t) = {}
    BY <2>2 DEF Named
  <2>4. t = o
    BY <1>5, <2>3 DEF Origins
  <2> QED
    BY <1>7, <2>1, <2>2, <2>4
<1> QED
  BY <1>8, <1>9

LEMMA BodiesInductive ==
    ASSUME BodiesRight, [Next]_vars
    PROVE  BodiesRight'
<1>1. CASE Insert
  <2>1. Rows' = Rows /\ parsed' = parsed
    BY <1>1, FilesStay DEF Insert
  <2> QED
    BY <1>1, <2>1 DEF Insert, BodiesRight, Extends
<1>2. CASE Duplicate
  BY <1>2 DEF Duplicate, BodiesRight
<1>3. CASE Link \/ Backfill \/ Commit \/ UNCHANGED vars
  BY <1>3 DEF Link, Backfill, Commit, vars, BodiesRight, Extends, Rows
<1> QED
  BY <1>1, <1>2, <1>3 DEF Next

LEMMA BodiesHold == Spec => []BodiesRight
<1>1. Init => BodiesRight
  BY DEF Init, BodiesRight
<1> QED
  BY <1>1, BodiesInductive, PTL DEF Spec

(* Every symbol of a finished build resolves to the body of the symbol its *)
(* lineage ends in, or is refused when the lineage is longer than          *)
(* MAX_EXTENDS_DEPTH or runs into a cycle; for every set of files and      *)
(* every cap (resolver.rs; emit.rs, the second pass).                      *)
THEOREM ResolutionIsExact == Spec => []ResolvesToOrigin
<1>1. BuildInv /\ BodiesRight => ResolvesToOrigin
  <2>1. pc # "done" => ResolvesToOrigin
    BY DEF ResolvesToOrigin
  <2> QED
    BY <2>1, Resolved DEF Finished
<1> QED
  BY <1>1, InitBuild, BuildInductive, BodiesHold, PTL DEF Spec

(* What a search says of a symbol's pins is what resolving it returns      *)
(* (symbols/tests/resolver.rs 72-74).                                      *)
THEOREM CountsAreResolved == Spec => []CountsAgree
<1>1. BuildInv /\ BodiesRight => CountsAgree
  <2>1. pc # "done" => CountsAgree
    BY DEF CountsAgree
  <2> QED
    BY <2>1, Resolved, Counted, SettledCounts DEF Finished
<1> QED
  BY <1>1, InitBuild, BuildInductive, BodiesHold, PTL DEF Spec
=============================================================================
