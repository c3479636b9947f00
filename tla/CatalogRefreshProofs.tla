------------------------ MODULE CatalogRefreshProofs ------------------------
(***************************************************************************)
(* What is proved of CatalogRefresh for every set of revisions, every      *)
(* fault budget and both kinds of source: its variables keep their types,  *)
(* every pack that is published or served is a whole merge, and the server *)
(* implements ServedCatalog.  With a source that takes nothing back, what  *)
(* the recorded fingerprint says is stored is in the served catalog.       *)
(***************************************************************************)
EXTENDS CatalogRefresh, ExtremesProofs, FiniteSetTheorems, TLAPS

LEMMA RevisionSets ==
    ASSUME NEW S \in SUBSET Revisions
    PROVE  IsFiniteSet(S) /\ S \in SUBSET Nat /\ Cardinality(S) \in Nat
BY RefreshAssumption, FS_Subset, FS_CardinalityType

(* A fingerprint is three numbers, whatever the source holds. *)
LEMMA FingerprintType ==
    ASSUME stamp \in [Revisions -> Nat], NEW S \in SUBSET Revisions
    PROVE  Fingerprint(S) \in Nat \X Nat \X Nat
<1> DEFINE T == {stamp[r] : r \in S}
<1>1. IsFiniteSet(S) /\ S \in SUBSET Nat /\ Cardinality(S) \in Nat
  BY RevisionSets
<1>2. T \in SUBSET Nat
  OBVIOUS
<1>3. IsFiniteSet(T)
  <2> DEFINE f == [r \in S |-> stamp[r]]
  <2>1. f \in Surjection(S, T)
    BY DEF Surjection
  <2> HIDE DEF f, T
  <2> QED
    BY <1>1, <2>1, FS_Surjection
<1> HIDE DEF T
<1>4. Largest(S) \in Nat /\ Largest(T) \in Nat
  BY <1>1, <1>2, <1>3, LargestIsGreatest
<1>5. Fingerprint(S) = <<Cardinality(S), Largest(T), Largest(S)>>
  BY DEF Fingerprint, T
<1> QED
  BY <1>1, <1>4, <1>5

-----------------------------------------------------------------------------
(* The calls keep the types of their own variables. *)

LEMMA FileType ==
    ASSUME NEW v \in Nat, NEW w \in BOOLEAN, NEW S \in SUBSET Revisions
    PROVE  /\ [ver |-> v, whole |-> w, rows |-> S] \in M!File
           /\ [ver |-> v, whole |-> w, rows |-> S] \in P!File
BY DEF M!File, P!File

LEMMA ReplyType ==
    ASSUME M!TypeOK, NEW reply \in M!Replies(cursor)
    PROVE  reply.items \subseteq Revisions /\ reply.next \in Nat
<1>1. Revisions \subseteq Nat /\ published \subseteq Revisions /\ cursor \in Nat
  BY RefreshAssumption DEF M!TypeOK
<1>2. ASSUME NEW n \in M!Ahead(cursor), reply = [items |-> M!Between(cursor, n), next |-> n]
      PROVE  reply.items \subseteq Revisions /\ reply.next \in Nat
  <2>1. n \in Nat /\ M!Between(cursor, n) \subseteq Revisions
    BY <1>1 DEF M!Ahead, M!Between
  <2> QED
    BY <1>2, <2>1
<1>3. CASE reply = [items |-> M!Ahead(cursor), next |-> 0]
  BY <1>1, <1>3 DEF M!Ahead
<1>4. CASE \E n \in Revisions : reply = [items |-> {}, next |-> n]
  BY <1>1, <1>4
<1>5. CASE reply = [items |-> M!Between(0, cursor), next |-> cursor]
  BY <1>1, <1>5 DEF M!Between
<1> QED
  BY <1>2, <1>3, <1>4, <1>5 DEF M!Replies

LEMMA SyncTypes ==
    ASSUME M!TypeOK, M!Step
    PROVE  M!TypeOK'
<1> USE DEF M!TypeOK, M!Busy, M!File, M!NoFile
<1>1. CASE M!FetchManifest
  BY <1>1, ReplyType DEF M!FetchManifest
<1>2. CASE M!FetchItem
  BY <1>2 DEF M!FetchItem, M!Valid
<1>3. CASE M!RefuseHollow \/ M!RefuseItem \/ M!RefusePage
  BY <1>3 DEF M!RefuseHollow, M!RefuseItem, M!RefusePage, M!Return
<1>4. CASE M!TurnPage \/ M!LastPage
  BY <1>4 DEF M!TurnPage, M!LastPage
<1>5. CASE M!Stage \/ M!Commit
  <2>1. M!VersionOf(got) \in Nat
    BY DEF M!VersionOf
  <2>2. staging' \in M!File
    BY <1>5, <2>1, FileType DEF M!Stage, M!Commit
  <2> QED
    BY <1>5, <2>2 DEF M!Stage, M!Commit
<1>6. CASE M!Replace
  BY <1>6 DEF M!Replace, M!Return
<1> QED
  BY <1>1, <1>2, <1>3, <1>4, <1>5, <1>6 DEF M!Step

LEMMA SyncOtherTypes ==
    ASSUME M!TypeOK, M!Begin \/ M!Fail \/ M!Crash
    PROVE  M!TypeOK'
BY DEF M!TypeOK, M!Busy, M!Begin, M!Fail, M!Crash, M!Return

LEMMA PublishTypes ==
    ASSUME M!TypeOK, P!TypeOK,
           P!Step \/ P!Begin \/ P!Fail \/ P!Unwind \/ P!Crash
    PROVE  P!TypeOK'
<1> USE RefreshAssumption DEF M!TypeOK, M!File, P!TypeOK, P!Busy, P!File, P!NoFile
<1>1. CASE P!Copy \/ P!Merge
  <2>1. source.ver \in Nat /\ Baked \cup source.rows \in SUBSET Revisions
    OBVIOUS
  <2>2. CASE P!Copy
    BY <2>2, FileType DEF P!Copy
  <2>3. CASE P!Merge
    BY <2>1, <2>3, FileType DEF P!Merge, P!Merged
  <2> QED
    BY <1>1, <2>2, <2>3
<1>2. CASE P!Verify
  BY <1>2 DEF P!Verify
<1>3. CASE P!Promote
  BY <1>3 DEF P!Promote, P!Return
<1>4. CASE P!RefuseMerge \/ P!Fail
  BY FileType, <1>4 DEF P!RefuseMerge, P!Fail, P!Abandon, P!Return
<1>5. CASE P!Begin \/ P!Unwind \/ P!Crash
  BY <1>5 DEF P!Begin, P!Unwind, P!Crash, P!Return
<1> QED
  BY <1>1, <1>2, <1>3, <1>4, <1>5 DEF P!Step
-----------------------------------------------------------------------------
(* The variables of the task itself. *)
TaskTypes == /\ pc \in Boot \cup Refresh \cup {"off"}
             /\ fingerprint \in (Nat \X Nat \X Nat) \cup {NoFingerprint}
             /\ candidate \in (Nat \X Nat \X Nat) \cup {NoFingerprint}
             /\ live \in [ver : Nat, rows : SUBSET Revisions]
             /\ ~Up => live = Down
             /\ fetch \in M!Busy => pc \in {"bootSync", "sync"}
             /\ build \in P!Busy => pc \in {"bootPublish", "publish"}
             /\ faults \in 0 .. MaxFaults /\ crashes \in 0 .. MaxCrashes

LEMMA InitTypes ==
    ASSUME Init
    PROVE  TypeOK
<1>1. Baked \subseteq Revisions /\ MaxFaults \in Nat /\ MaxCrashes \in Nat
  BY RefreshAssumption
<1>2. source \in M!File /\ staging \in M!File /\ temp \in P!File /\ pack \in P!File
  BY <1>1, FileType DEF Init, M!CallInit, M!NoFile, P!Init, P!NoFile
<1>3. M!TypeOK /\ P!TypeOK
  BY <1>1, <1>2 DEF Init, M!CallInit, P!Init, M!TypeOK, P!TypeOK, M!Busy
<1>4. TaskTypes
  BY <1>1 DEF Init, M!CallInit, P!Init, TaskTypes, Boot, Refresh, Up, Down,
              M!Busy, P!Busy
<1> QED
  BY <1>3, <1>4 DEF TypeOK, TaskTypes

(* The environment moves the control plane or the local source only. *)
LEMMA EnvironmentTypes ==
    ASSUME TypeOK, NEW r \in Revisions, ControlPlane(r) \/ WriterCommit(r)
    PROVE  TypeOK'
<1>1. M!Stamped \in SUBSET Revisions
  BY DEF M!Stamped
<1>2. Cardinality(M!Stamped) + 1 \in Nat /\ M!Cardinality(M!Stamped) + 1 \in Nat
  <2>1. M!Cardinality(M!Stamped) = Cardinality(M!Stamped)
    BY DEF M!Cardinality, Cardinality
  <2> QED
    BY <1>1, <2>1, RevisionSets
<1>3. M!TypeOK'
  <2>1. CASE ControlPlane(r)
    BY <1>2, <2>1 DEF TypeOK, ControlPlane, M!Publish, M!Withdraw, M!TypeOK
  <2>2. CASE WriterCommit(r)
    <3>1. source' \in M!File
      BY <2>2, FileType DEF WriterCommit, TypeOK, M!TypeOK, M!File
    <3> QED
      BY <1>2, <2>2, <3>1 DEF TypeOK, WriterCommit, M!TypeOK
  <2> QED
    BY <2>1, <2>2
<1>4. UNCHANGED <<fetch, packVars, taskVars, budget>>
  BY DEF ControlPlane, WriterCommit, M!Publish, M!Withdraw
<1>5. P!TypeOK' /\ TaskTypes'
  BY <1>4 DEF TypeOK, P!TypeOK, TaskTypes, packVars, taskVars, budget, Up
<1> QED
  BY <1>3, <1>5 DEF TypeOK, TaskTypes

LEMMA CallTypes ==
    ASSUME TypeOK, SyncStep \/ SyncFault \/ PublishStep \/ PublishFault
    PROVE  TypeOK'
<1>1. CASE SyncStep \/ SyncFault
  <2>1. M!TypeOK'
    BY <1>1, SyncTypes, SyncOtherTypes DEF TypeOK, SyncStep, SyncFault
  <2>2. fetch \in M!Busy /\ UNCHANGED <<packVars, taskVars>>
    BY <1>1 DEF SyncStep, SyncFault, M!Step, M!Fail, M!Busy, M!FetchManifest, M!RefuseHollow,
                M!FetchItem, M!RefuseItem, M!TurnPage, M!RefusePage, M!LastPage,
                M!Stage, M!Commit, M!Replace
  <2>3. P!TypeOK'
    BY <2>2 DEF TypeOK, P!TypeOK, packVars
  <2>4. faults' \in 0 .. MaxFaults /\ crashes' \in 0 .. MaxCrashes
    BY <1>1, RefreshAssumption DEF SyncStep, SyncFault, Fault, budget, TypeOK
  <2>5. TaskTypes'
    BY <2>2, <2>4 DEF TypeOK, TaskTypes, packVars, taskVars, Up
  <2> QED
    BY <2>1, <2>3, <2>5 DEF TypeOK, TaskTypes
<1>2. CASE PublishStep \/ PublishFault
  <2>1. P!TypeOK'
    BY <1>2, PublishTypes DEF TypeOK, PublishStep, PublishFault
  <2>2. build \in P!Busy /\ UNCHANGED <<syncVars, source, taskVars>>
    BY <1>2 DEF PublishStep, PublishFault, P!Step, P!Fail, P!Busy, P!Copy, P!Merge,
                P!RefuseMerge, P!Verify, P!Promote
  <2>3. M!TypeOK'
    BY <2>2 DEF TypeOK, M!TypeOK, syncVars
  <2>4. faults' \in 0 .. MaxFaults /\ crashes' \in 0 .. MaxCrashes
    BY <1>2, RefreshAssumption DEF PublishStep, PublishFault, Fault, budget, TypeOK
  <2>5. TaskTypes'
    BY <2>2, <2>4 DEF TypeOK, TaskTypes, syncVars, taskVars, Up
  <2> QED
    BY <2>1, <2>3, <2>5 DEF TypeOK, TaskTypes
<1> QED
  BY <1>1, <1>2

LEMMA BootTypes ==
    ASSUME TypeOK,
           \/ Start \/ BootSynced \/ BootOpen \/ BootOpenFault
           \/ BootPrint \/ BootPrintFault
    PROVE  TypeOK'
<1> USE DEF TypeOK
<1>1. CASE Start
  <2>1. CASE Remote
    <3>1. M!TypeOK' /\ P!TypeOK'
      BY <1>1, <2>1, SyncOtherTypes DEF Start, P!TypeOK, packVars
    <3> QED
      BY <1>1, <2>1, <3>1 DEF Start, M!Begin, M!Busy, P!Busy, packVars, budget, Boot, Refresh, Up
  <2>2. CASE ~Remote
    <3>1. M!TypeOK' /\ P!TypeOK'
      BY <1>1, <2>2, PublishTypes DEF Start, M!TypeOK, syncVars
    <3> QED
      BY <1>1, <2>2, <3>1 DEF Start, P!Begin, P!Busy, M!Busy, syncVars, budget, Boot, Refresh, Up
  <2> QED
    BY <2>1, <2>2
<1>2. CASE BootSynced
  <2>1. M!TypeOK' /\ P!TypeOK'
    BY <1>2, PublishTypes DEF BootSynced, M!TypeOK, syncVars
  <2> QED
    BY <1>2, <2>1 DEF BootSynced, syncVars, budget, Boot, Refresh, Up
<1>3. CASE BootOpen \/ BootOpenFault
  <2>1. M!TypeOK' /\ P!TypeOK'
    BY <1>3 DEF BootOpen, BootOpenFault, M!TypeOK, P!TypeOK, syncVars, packVars
  <2>2. live' \in [ver : Nat, rows : SUBSET Revisions]
    <3>1. Opened(pack) \in [ver : Nat, rows : SUBSET Revisions]
      BY DEF Opened, P!TypeOK, P!File
    <3>2. Official \in [ver : Nat, rows : SUBSET Revisions]
      BY RefreshAssumption DEF Official
    <3> QED
      BY <1>3, <3>1, <3>2 DEF BootOpen, BootOpenFault
  <2>3. faults' \in 0 .. MaxFaults /\ crashes' \in 0 .. MaxCrashes
    BY <1>3, RefreshAssumption DEF BootOpen, BootOpenFault, Fault, budget
  <2> QED
    BY <1>3, <2>1, <2>2, <2>3
    DEF BootOpen, BootOpenFault, syncVars, packVars, Boot, Refresh, Up
<1>4. CASE BootPrint \/ BootPrintFault
  <2>1. M!TypeOK' /\ P!TypeOK'
    BY <1>4 DEF BootPrint, BootPrintFault, M!TypeOK, P!TypeOK, syncVars, packVars
  <2>2. fingerprint' \in (Nat \X Nat \X Nat) \cup {NoFingerprint}
    BY <1>4, FingerprintType DEF BootPrint, BootPrintFault, M!TypeOK, M!File
  <2>3. faults' \in 0 .. MaxFaults /\ crashes' \in 0 .. MaxCrashes
    BY <1>4, RefreshAssumption DEF BootPrint, BootPrintFault, Fault, budget
  <2> QED
    BY <1>4, <2>1, <2>2, <2>3
    DEF BootPrint, BootPrintFault, syncVars, packVars, Boot, Refresh, Up
<1> QED
  BY <1>1, <1>2, <1>3, <1>4

LEMMA RefreshTypes ==
    ASSUME TypeOK,
           \/ Tick \/ Synced \/ Compare \/ CompareFault \/ Published
           \/ Reload \/ ReloadFault \/ Crash \/ MergePanics
    PROVE  TypeOK'
<1> USE DEF TypeOK
<1>1. CASE Tick
  <2>1. M!TypeOK' /\ P!TypeOK'
    BY <1>1, SyncOtherTypes DEF Tick, M!TypeOK, P!TypeOK, syncVars, packVars
  <2> QED
    BY <1>1, <2>1 DEF Tick, M!Begin, syncVars, packVars, budget, Boot, Refresh, Up
<1>2. CASE Synced
  <2>1. M!TypeOK' /\ P!TypeOK'
    BY <1>2 DEF Synced, M!TypeOK, P!TypeOK, syncVars, packVars
  <2> QED
    BY <1>2, <2>1 DEF Synced, syncVars, packVars, budget, Boot, Refresh, Up
<1>3. CASE Compare
  <2>1. M!TypeOK' /\ P!TypeOK'
    BY <1>3, PublishTypes DEF Compare, M!TypeOK, P!TypeOK, syncVars, packVars
  <2>2. candidate' \in (Nat \X Nat \X Nat) \cup {NoFingerprint}
    BY <1>3, FingerprintType DEF Compare, M!TypeOK, M!File
  <2> QED
    BY <1>3, <2>1, <2>2 DEF Compare, syncVars, packVars, budget, Boot, Refresh, Up
<1>4. CASE CompareFault \/ ReloadFault
  <2>1. M!TypeOK' /\ P!TypeOK'
    BY <1>4 DEF CompareFault, ReloadFault, M!TypeOK, P!TypeOK, syncVars, packVars
  <2>2. faults' \in 0 .. MaxFaults /\ crashes' \in 0 .. MaxCrashes
    BY <1>4, RefreshAssumption DEF CompareFault, ReloadFault, Fault
  <2> QED
    BY <1>4, <2>1, <2>2 DEF CompareFault, ReloadFault, syncVars, packVars, Boot, Refresh, Up
<1>5. CASE Published
  <2>1. M!TypeOK' /\ P!TypeOK'
    BY <1>5 DEF Published, M!TypeOK, P!TypeOK, syncVars, packVars
  <2> QED
    BY <1>5, <2>1 DEF Published, syncVars, packVars, budget, Boot, Refresh, Up
<1>6. CASE Reload
  <2>1. M!TypeOK' /\ P!TypeOK'
    BY <1>6 DEF Reload, M!TypeOK, P!TypeOK, syncVars, packVars
  <2>2. live' \in [ver : Nat, rows : SUBSET Revisions]
    BY <1>6 DEF Reload, Opened, P!TypeOK, P!File
  <2> QED
    BY <1>6, <2>1, <2>2 DEF Reload, syncVars, packVars, budget, Boot, Refresh, Up
<1>7. CASE Crash
  <2>1. M!TypeOK' /\ P!TypeOK'
    BY <1>7, SyncOtherTypes, PublishTypes DEF Crash
  <2>2. live' \in [ver : Nat, rows : SUBSET Revisions]
    BY <1>7 DEF Crash, Down
  <2>3. faults' \in 0 .. MaxFaults /\ crashes' \in 0 .. MaxCrashes
    BY <1>7, RefreshAssumption DEF Crash
  <2>4. fetch' \notin M!Busy /\ build' \notin P!Busy
    BY <1>7 DEF Crash, M!Crash, M!Return, M!Busy, P!Crash, P!Return, P!Busy
  <2> QED
    BY <1>7, <2>1, <2>2, <2>3, <2>4 DEF Crash, Boot, Refresh, Up
<1>8. CASE MergePanics
  <2>1. M!TypeOK' /\ P!TypeOK'
    BY <1>8, PublishTypes DEF MergePanics, M!TypeOK, syncVars
  <2>2. pc \in {"bootPublish", "publish"} /\ fetch \notin M!Busy /\ build' \notin P!Busy
    BY <1>8 DEF MergePanics, P!Unwind, P!Busy
  <2> QED
    BY <1>8, <2>1, <2>2 DEF MergePanics, syncVars, budget, Boot, Refresh, Up
<1> QED
  BY <1>1, <1>2, <1>3, <1>4, <1>5, <1>6, <1>7, <1>8

LEMMA TypesInductive ==
    ASSUME TypeOK, [Next]_vars
    PROVE  TypeOK'
<1>1. CASE Next
  BY <1>1, EnvironmentTypes, CallTypes, BootTypes, RefreshTypes DEF Next, Server, Faulty
<1>2. CASE UNCHANGED vars
  BY <1>2 DEF vars, syncVars, packVars, taskVars, budget, TypeOK, M!TypeOK, P!TypeOK, Up
<1> QED
  BY <1>1, <1>2

(* Every variable keeps its type in every reachable state: in particular   *)
(* each call runs only while `main` or the refresh task waits for it, and  *)
(* a process that is down serves nothing.                                  *)
THEOREM TypesHold == Spec => []TypeOK
<1>1. Init => TypeOK
  BY InitTypes
<1> QED
  BY <1>1, TypesInductive, PTL DEF Spec

-----------------------------------------------------------------------------
(* Why every pack is a whole merge.  A file can only be trusted at the     *)
(* version it carries, so the invariant orders the versions along the way  *)
(* from the source to the request, and says what a file that is about to   *)
(* be renamed holds: the staging file carries the version its rows deserve *)
(* and the temporary pack is a merge no older than the pack it replaces.   *)
InOrder ==
    /\ fetch \in M!Busy => Remote
    /\ fetch = "replace" => staging.ver = M!VersionOf(staging.rows)
    /\ build \in {"verify", "promote"} =>
          pack.ver <= temp.ver /\ temp.ver <= source.ver /\ MergeOf(temp)
    /\ build = "promote" => temp.whole
    /\ live.ver <= pack.ver /\ pack.ver <= source.ver

SafeCatalog == TypeOK /\ InOrder /\ OnlyWholeMerges

(* The source moves to a later version, or keeps its rows. *)
SourceGrows == \/ source'.ver = source.ver /\ source'.rows = source.rows
               \/ source'.ver = source.ver + 1

(* The records that are compared, taken apart once. *)
LEMMA Parts ==
    ASSUME TypeOK
    PROVE  /\ source.ver \in Nat /\ source.rows \subseteq Revisions
           /\ staging.ver \in Nat /\ temp.ver \in Nat /\ pack.ver \in Nat
           /\ live.ver \in Nat
BY DEF TypeOK, M!TypeOK, M!File, P!TypeOK, P!File

LEMMA SourceStep ==
    ASSUME TypeOK, InOrder, SyncStep \/ SyncFault \/ \E r \in Revisions : WriterCommit(r)
    PROVE  SourceGrows
<1>1. CASE \E r \in Revisions : WriterCommit(r)
  BY <1>1 DEF WriterCommit, SourceGrows
<1>2. CASE SyncStep /\ M!Replace
  BY <1>2, Parts DEF M!Replace, InOrder, M!VersionOf, SourceGrows
<1>3. CASE (SyncStep \/ SyncFault) /\ source' = source
  BY <1>3 DEF SourceGrows
<1> QED
  BY <1>1, <1>2, <1>3
  DEF SyncStep, SyncFault, M!Step, M!Fail, M!FetchManifest, M!RefuseHollow, M!FetchItem,
      M!RefuseItem, M!TurnPage, M!RefusePage, M!LastPage, M!Stage, M!Commit

(* A merge stays the merge of its version when the source moves on. *)
LEMMA MergeLasts ==
    ASSUME NEW v \in Nat, NEW rows, v <= source.ver,
           source.ver \in Nat, SourceGrows,
           v = source.ver => rows = P!Merged(source.rows)
    PROVE  /\ v = source'.ver => rows = P!Merged(source'.rows)
           /\ v <= source'.ver
BY DEF SourceGrows, P!Merged

LEMMA SyncKeepsOrder ==
    ASSUME SafeCatalog, SyncStep \/ SyncFault \/ \E r \in Revisions : WriterCommit(r)
    PROVE  InOrder' /\ OnlyWholeMerges'
<1> USE DEF SafeCatalog
<1>1. SourceGrows
  BY SourceStep
<1>2. UNCHANGED <<build, temp, pack, live>>
  BY DEF SyncStep, SyncFault, WriterCommit, packVars, taskVars
<1>3. fetch' \in M!Busy => Remote
  BY DEF InOrder, SyncStep, SyncFault, WriterCommit, M!Busy, M!Step, M!Fail, M!Return,
         M!FetchManifest, M!RefuseHollow, M!FetchItem, M!RefuseItem, M!TurnPage,
         M!RefusePage, M!LastPage, M!Stage, M!Commit, M!Replace
<1>4. fetch' = "replace" => staging'.ver = M!VersionOf(staging.rows)'
  <2>1. CASE \E r \in Revisions : WriterCommit(r)
    BY <2>1 DEF InOrder, WriterCommit, M!Busy
  <2>2. CASE SyncStep \/ SyncFault
    <3>1. fetch' = "replace" => M!Commit
      BY <2>2 DEF SyncStep, SyncFault, M!Step, M!Fail, M!Return, M!FetchManifest,
                  M!RefuseHollow, M!FetchItem, M!RefuseItem, M!TurnPage, M!RefusePage,
                  M!LastPage, M!Stage, M!Replace
    <3>2. M!Commit => staging'.ver = M!VersionOf(staging.rows)'
      BY DEF M!Commit, M!VersionOf
    <3> QED
      BY <3>1, <3>2
  <2> QED
    BY <2>1, <2>2
<1>5. live'.ver <= pack'.ver /\ pack'.ver <= source'.ver
  BY <1>1, <1>2, Parts DEF InOrder, SourceGrows
<1>6. build \in {"verify", "promote"} => temp.ver <= source'.ver /\ MergeOf(temp)'
  BY <1>1, <1>2, Parts, MergeLasts DEF InOrder, MergeOf
<1>7. P!Exists(pack) => pack'.whole /\ MergeOf(pack)'
  BY <1>1, <1>2, Parts, MergeLasts DEF InOrder, OnlyWholeMerges, MergeOf
<1>8. live.ver > 0 => MergeOf(live)'
  <2>1. live.ver <= source.ver
    BY Parts DEF InOrder
  <2> QED
    BY <1>1, <1>2, <2>1, Parts, MergeLasts DEF OnlyWholeMerges, MergeOf
<1>9. InOrder'
  BY <1>2, <1>3, <1>4, <1>5, <1>6 DEF InOrder
<1> QED
  BY <1>2, <1>7, <1>8, <1>9 DEF OnlyWholeMerges, P!Exists

LEMMA PublishKeepsOrder ==
    ASSUME SafeCatalog, PublishStep \/ PublishFault
    PROVE  InOrder' /\ OnlyWholeMerges'
<1> USE DEF SafeCatalog
<1>1. UNCHANGED <<fetch, staging, source, live>>
  BY DEF PublishStep, PublishFault, syncVars, taskVars
<1>2. (fetch' \in M!Busy => Remote)
      /\ (fetch' = "replace" => staging'.ver = M!VersionOf(staging.rows)')
  BY <1>1 DEF InOrder, M!VersionOf
<1>3. live'.ver > 0 => MergeOf(live)'
  BY <1>1 DEF OnlyWholeMerges, MergeOf
<1>4. CASE P!Merge
  <2>1. /\ temp'.ver = source.ver /\ temp'.rows = P!Merged(source.rows)
        /\ P!Mergeable(source.rows) /\ pack' = pack /\ build' = "verify"
    BY <1>4 DEF P!Merge
  <2>2. MergeOf(temp)'
    BY <1>1, <2>1 DEF MergeOf, P!Merged, P!Mergeable
  <2>3. InOrder'
    BY <1>1, <1>2, <2>1, <2>2, Parts DEF InOrder
  <2> QED
    BY <1>1, <1>3, <2>1, <2>3 DEF OnlyWholeMerges, P!Exists, MergeOf
<1>5. CASE P!Verify
  <2>1. /\ temp'.ver = temp.ver /\ temp'.rows = temp.rows /\ temp'.whole
        /\ build = "verify" /\ pack' = pack
    BY <1>5 DEF P!Verify, TypeOK, P!TypeOK, P!File
  <2>2. MergeOf(temp)'
    BY <1>1, <2>1 DEF InOrder, MergeOf
  <2>3. InOrder'
    BY <1>1, <1>2, <2>1, <2>2 DEF InOrder
  <2> QED
    BY <1>1, <1>3, <2>1, <2>3 DEF OnlyWholeMerges, P!Exists, MergeOf
<1>6. CASE P!Promote
  <2>1. build = "promote" /\ pack' = temp /\ build' = "ok"
    BY <1>6 DEF P!Promote, P!Return
  <2>2. pack'.whole /\ MergeOf(pack)'
    BY <1>1, <2>1 DEF InOrder, MergeOf
  <2>3. InOrder'
    BY <1>1, <1>2, <2>1, Parts DEF InOrder
  <2> QED
    BY <1>3, <2>2, <2>3 DEF OnlyWholeMerges
<1>7. CASE P!Copy \/ P!RefuseMerge \/ P!Fail
  <2>1. build' \in {"merge", "err"} /\ pack' = pack
    BY <1>7 DEF P!Copy, P!RefuseMerge, P!Fail, P!Abandon, P!Return
  <2>2. InOrder'
    BY <1>1, <1>2, <2>1 DEF InOrder
  <2> QED
    BY <1>1, <1>3, <2>1, <2>2 DEF OnlyWholeMerges, P!Exists, MergeOf
<1> QED
  BY <1>4, <1>5, <1>6, <1>7 DEF PublishStep, PublishFault, P!Step

(* The steps of `main` and of the refresh task move no file: they begin a  *)
(* call, leave it alone, or change what is served.                         *)
TaskStep ==
    \/ Start \/ BootSynced \/ BootOpen \/ BootOpenFault \/ BootPrint \/ BootPrintFault
    \/ Tick \/ Synced \/ Compare \/ CompareFault \/ Published \/ Reload \/ ReloadFault
    \/ Crash \/ MergePanics

LEMMA TaskStepShape ==
    ASSUME TaskStep
    PROVE  /\ UNCHANGED <<source, staging, temp, pack>>
           /\ fetch' = fetch \/ fetch' = "idle" \/ (fetch' = "manifest" /\ Remote)
           /\ build' = build \/ build' \in {"copy", "err", "idle"}
           /\ live' \in {live, Opened(pack), Official, Down}
BY DEF TaskStep, Start, BootSynced, BootOpen, BootOpenFault, BootPrint, BootPrintFault,
       Tick, Synced, Compare, CompareFault, Published, Reload, ReloadFault, Crash,
       MergePanics, P!Unwind, syncVars, packVars, M!Begin, M!Crash, M!Return, P!Begin, P!Crash, P!Return

LEMMA TaskKeepsOrder ==
    ASSUME SafeCatalog, TaskStep
    PROVE  InOrder' /\ OnlyWholeMerges'
<1> USE DEF SafeCatalog
<1>1. /\ UNCHANGED <<source, staging, temp, pack>>
      /\ fetch' = fetch \/ fetch' = "idle" \/ (fetch' = "manifest" /\ Remote)
      /\ build' = build \/ build' \in {"copy", "err", "idle"}
      /\ live' \in {live, Opened(pack), Official, Down}
  BY TaskStepShape
<1>2. live'.ver <= pack.ver /\ (live'.ver > 0 => MergeOf(live)')
  <2>1. CASE live' = live
    BY <1>1, <2>1 DEF InOrder, OnlyWholeMerges, MergeOf
  <2>2. CASE live' = Opened(pack)
    <3>1. live'.ver = pack.ver /\ live'.rows = pack.rows
      BY <2>2 DEF Opened
    <3> QED
      BY <1>1, <3>1, Parts DEF OnlyWholeMerges, P!Exists, MergeOf
  <2>3. CASE live' \in {Official, Down}
    BY <2>3, Parts DEF Official, Down
  <2> QED
    BY <1>1, <2>1, <2>2, <2>3
<1>3. InOrder'
  BY <1>1, <1>2 DEF InOrder, M!VersionOf, MergeOf, M!Busy
<1>4. P!Exists(pack') => pack'.whole /\ MergeOf(pack)'
  BY <1>1 DEF OnlyWholeMerges, P!Exists, MergeOf
<1> QED
  BY <1>2, <1>3, <1>4 DEF OnlyWholeMerges, P!Exists

LEMMA SafeCatalogInductive ==
    ASSUME SafeCatalog, [Next]_vars
    PROVE  SafeCatalog'
<1>1. TypeOK'
  BY TypesInductive DEF SafeCatalog
<1>2. InOrder' /\ OnlyWholeMerges'
  <2>1. CASE SyncStep \/ SyncFault \/ \E r \in Revisions : WriterCommit(r)
    BY <2>1, SyncKeepsOrder
  <2>2. CASE PublishStep \/ PublishFault
    BY <2>2, PublishKeepsOrder
  <2>3. CASE TaskStep
    BY <2>3, TaskKeepsOrder
  <2>4. CASE UNCHANGED vars \/ \E r \in Revisions : ControlPlane(r)
    <3>1. UNCHANGED <<fetch, staging, source, packVars, live>>
      BY <2>4 DEF vars, syncVars, taskVars, ControlPlane, M!Publish, M!Withdraw
    <3> QED
      BY <3>1 DEF SafeCatalog, InOrder, OnlyWholeMerges, MergeOf, M!VersionOf, packVars
  <2> QED
    BY <2>1, <2>2, <2>3, <2>4 DEF Next, Server, Faulty, TaskStep
<1> QED
  BY <1>1, <1>2 DEF SafeCatalog

LEMMA SafeCatalogHolds == Spec => []SafeCatalog
<1>1. Init => SafeCatalog
  <2> SUFFICES ASSUME Init
               PROVE  SafeCatalog
    OBVIOUS
  <2>1. InOrder
    BY InitTypes, Parts
    DEF Init, InOrder, M!CallInit, P!Init, P!NoFile, Down, M!Busy
  <2> QED
    BY <2>1, InitTypes DEF Init, P!Init, P!NoFile, Down, SafeCatalog, OnlyWholeMerges, P!Exists
<1> QED
  BY <1>1, SafeCatalogInductive, PTL DEF Spec

(* Through failures, crashes, restarts and changes of the source at any    *)
(* moment, the pack on disk and the catalog that answers are complete,     *)
(* checked merges of a version of the source (publish_generated_pack).     *)
THEOREM PacksAreWholeMerges == Spec => []OnlyWholeMerges
<1>1. SafeCatalog => OnlyWholeMerges
  BY DEF SafeCatalog
<1> QED
  BY <1>1, SafeCatalogHolds, PTL

(* No request is answered from a version that is not the one on disk or an *)
(* earlier one, and the disk never runs ahead of the source.               *)
THEOREM VersionsInOrder == Spec => [](live.ver <= pack.ver /\ pack.ver <= source.ver)
<1>1. SafeCatalog => live.ver <= pack.ver /\ pack.ver <= source.ver
  BY DEF SafeCatalog, InOrder
<1> QED
  BY <1>1, SafeCatalogHolds, PTL

-----------------------------------------------------------------------------
(* The implementation of ServedCatalog. *)
LEMMA ServedStep ==
    ASSUME SafeCatalog, [Next]_vars
    PROVE  [Served!Next]_Served!vars
<1> USE DEF SafeCatalog, Served!vars
<1>1. CASE SyncStep \/ SyncFault \/ \E r \in Revisions : WriterCommit(r)
  <2>1. SourceGrows
    BY <1>1, SourceStep
  <2>2. UNCHANGED <<pack, pc, live>>
    BY <1>1 DEF SyncStep, SyncFault, WriterCommit, packVars, taskVars
  <2> QED
    BY <2>1, <2>2 DEF SourceGrows, Up, Served!Next, Served!Ingest
<1>2. CASE PublishStep \/ PublishFault
  <2>1. UNCHANGED <<source, pc, live>>
    BY <1>2 DEF PublishStep, PublishFault, taskVars
  <2>2. pack' = pack \/ (build = "promote" /\ pack' = temp)
    BY <1>2 DEF PublishStep, PublishFault, P!Step, P!Copy, P!Merge, P!RefuseMerge,
                P!Verify, P!Promote, P!Fail, P!Abandon
  <2>3. pack'.ver \in pack.ver .. source.ver
    BY <2>2, Parts DEF InOrder
  <2> QED
    BY <2>1, <2>3 DEF Up, Served!Next, Served!Promote
<1>3. CASE BootOpen \/ BootOpenFault
  <2>1. UNCHANGED <<source, pack>> /\ ~Up /\ Up'
    BY <1>3 DEF BootOpen, BootOpenFault, packVars, Up, Refresh
  <2>2. live'.ver \in {0, pack.ver}
    BY <1>3 DEF BootOpen, BootOpenFault, Opened, Official
  <2> QED
    BY <2>1, <2>2 DEF Served!Next, Served!Start
<1>4. CASE Reload
  <2>1. UNCHANGED <<source, pack>> /\ Up /\ Up'
    BY <1>4 DEF Reload, packVars, Up, Refresh
  <2>2. live'.ver = pack.ver
    BY <1>4 DEF Reload, Opened
  <2> QED
    BY <2>1, <2>2 DEF Served!Next, Served!Swap
<1>5. CASE Crash
  <2>1. UNCHANGED <<source, pack>> /\ ~Up' /\ live'.ver = 0
    BY <1>5 DEF Crash, M!Crash, P!Crash, Up, Refresh, Down
  <2>2. CASE Up
    BY <2>1, <2>2 DEF Served!Next, Served!Stop
  <2>3. CASE ~Up
    <3>1. live.ver = 0
      BY <2>3 DEF TypeOK, Down
    <3>2. Up' = Up
      BY <2>1, <2>3 DEF Up
    <3>3. source'.ver = source.ver /\ pack'.ver = pack.ver /\ live'.ver = live.ver
      BY <2>1, <3>1
    <3> QED
      BY <3>2, <3>3
  <2> QED
    BY <2>2, <2>3
<1>6. CASE Start \/ BootSynced
  BY <1>6 DEF Start, BootSynced, M!Begin, P!Begin, syncVars, packVars, Up, Refresh
<1>7. CASE BootPrint \/ BootPrintFault \/ Tick \/ Synced \/ Compare \/ CompareFault
             \/ Published \/ ReloadFault
  <2>1. UNCHANGED <<source, pack, live>>
    BY <1>7 DEF BootPrint, BootPrintFault, Tick, Synced, Compare, CompareFault, Published,
                ReloadFault, M!Begin, P!Begin, syncVars, packVars
  <2>2. Up /\ Up'
    BY <1>7 DEF BootPrint, BootPrintFault, Tick, Synced, Compare, CompareFault, Published,
                ReloadFault, Up, Refresh
  <2> QED
    BY <2>1, <2>2
<1>8. CASE UNCHANGED vars \/ \E r \in Revisions : ControlPlane(r)
  <2>1. UNCHANGED <<source, pack, pc, live>>
    BY <1>8 DEF vars, syncVars, packVars, taskVars, ControlPlane, M!Publish, M!Withdraw
  <2> QED
    BY <2>1 DEF Up
<1>9. CASE MergePanics
  <2>1. UNCHANGED <<source, pack, live>>
    BY <1>9 DEF MergePanics, P!Unwind
  <2>2. Up' = Up
    BY <1>9 DEF MergePanics, P!Unwind, P!Busy, TypeOK, Up, Refresh
  <2> QED
    BY <2>1, <2>2
<1> QED
  BY <1>1, <1>2, <1>3, <1>4, <1>5, <1>6, <1>7, <1>8, <1>9 DEF Next, Server, Faulty

(* The server implements ServedCatalog: the pack on disk only ever moves   *)
(* forward, a hot swap takes what is on disk, and a failed step, a crash   *)
(* or a restart takes nothing back.                                        *)
THEOREM Implements == Spec => ServesVersions
<1>1. Init => Served!Init
  BY InitTypes, Parts DEF Init, Served!Init, P!Init, P!NoFile, Down, Up, Refresh
<1> QED
  BY <1>1, ServedStep, SafeCatalogHolds, PTL DEF Spec, ServesVersions, Served!Spec

-----------------------------------------------------------------------------
(* When a recorded fingerprint vouches for what is served.  It is only the *)
(* row count that tells two sources apart: three numbers cannot, if a      *)
(* source could lose a row and gain another.  So the hypothesis is that a  *)
(* control plane is configured and withdraws nothing, that nothing fails   *)
(* between the pack's publication and the first recording of a fingerprint *)
(* (MCBootFault shows why), and that no published revision is rejected.    *)
(* The control plane may page wrongly, revisions may be fatal, and every   *)
(* other failure and crash may strike.                                     *)
Reliable == Remote /\ MaxWithdrawals = 0 /\ ~BootFaults /\ Invalid = {}

(* The source cache never loses a row: a walk that reaches its last page   *)
(* has fetched every revision the cache already held.                      *)
NeverLoses ==
    /\ source.rows \subseteq published /\ got \subseteq published
    /\ fetch = "manifest" => \A r \in source.rows : r <= cursor => r \in got
    /\ fetch = "items" => \A r \in source.rows :
                             next = 0 \/ r <= next => r \in got \cup items
    /\ fetch \in {"stage", "write"} => source.rows \subseteq got
    /\ fetch = "replace" =>
          source.rows \subseteq staging.rows /\ staging.rows \subseteq published

(* A fingerprint is the count of rows of an earlier source, and what is    *)
(* served is the merge of that source; on the way there, the file that is  *)
(* about to be renamed or opened is the merge of the source as it is now.  *)
Vouched ==
    /\ pc \in Boot \cup {"off"} => fingerprint = NoFingerprint
    /\ fingerprint # NoFingerprint =>
          \E S \in SUBSET source.rows : /\ fingerprint[1] = Cardinality(S)
                                        /\ live.rows = P!Merged(S)
    /\ build \in P!Busy => P!Exists(source)
    /\ build \in {"verify", "promote"} =>
          P!Exists(temp) /\ temp.rows = P!Merged(source.rows)
    /\ (pc \in {"bootPublish", "publish"} /\ build = "ok") \/ pc = "reload" =>
          P!Exists(pack) /\ pack.rows = P!Merged(source.rows)
    /\ pc = "bootPublish" => /\ build \in P!Busy \cup {"ok", "err"}
                             /\ build = "err" => ~P!Exists(source)
    /\ pc = "bootPrint" /\ P!Exists(source) => live.rows = P!Merged(source.rows)
    /\ pc \in {"publish", "reload"} =>
          candidate # NoFingerprint /\ candidate[1] = Cardinality(source.rows)

(* A page that is read holds every published revision between the cursor   *)
(* and its next cursor, and all that are left when it is the last.         *)
LEMMA ReplyCovers ==
    ASSUME M!TypeOK, NEW reply \in M!Replies(cursor), ~M!Hollow(reply)
    PROVE  /\ reply.items \subseteq published
           /\ \A r \in published : cursor < r /\ (reply.next = 0 \/ r <= reply.next)
                                     => r \in reply.items
<1>1. Revisions \subseteq Nat \ {0} /\ published \subseteq Revisions /\ cursor \in Nat
  BY RefreshAssumption DEF M!TypeOK
<1>2. ASSUME NEW n \in M!Ahead(cursor),
             reply = [items |-> M!Between(cursor, n), next |-> n]
      PROVE  /\ reply.items \subseteq published
             /\ \A r \in published : cursor < r /\ (reply.next = 0 \/ r <= reply.next)
                                       => r \in reply.items
  BY <1>1, <1>2 DEF M!Ahead, M!Between
<1>3. CASE reply = [items |-> M!Ahead(cursor), next |-> 0]
  BY <1>3 DEF M!Ahead
<1>4. CASE \E n \in Revisions : reply = [items |-> {}, next |-> n]
  BY <1>1, <1>4 DEF M!Hollow
<1>5. CASE reply = [items |-> M!Between(0, cursor), next |-> cursor] /\ reply.next # 0
  BY <1>1, <1>5 DEF M!Between
<1> QED
  BY <1>2, <1>3, <1>4, <1>5 DEF M!Replies

LEMMA WalkNeverLoses ==
    ASSUME TypeOK, NeverLoses, SyncStep \/ SyncFault
    PROVE  NeverLoses' /\ source.rows \subseteq source'.rows
<1> USE DEF NeverLoses
<1>1. Revisions \subseteq Nat \ {0} /\ source.rows \subseteq Revisions /\ cursor \in Nat
  BY RefreshAssumption DEF TypeOK, M!TypeOK, M!File
<1>2. CASE M!FetchManifest
  <2>1. /\ fetch = "manifest" /\ fetch' = "items"
        /\ UNCHANGED <<published, cursor, got, source>>
    BY <1>2 DEF M!FetchManifest
  <2>2. PICK reply \in M!Replies(cursor) :
           ~M!Hollow(reply) /\ items' = reply.items /\ next' = reply.next
    BY <1>2 DEF M!FetchManifest
  <2>3. ASSUME NEW r \in source.rows, reply.next = 0 \/ r <= reply.next
        PROVE  r \in got \cup reply.items
    <3>1. CASE r <= cursor
      BY <2>1, <3>1
    <3>2. CASE cursor < r
      BY <2>2, <2>3, <3>2, ReplyCovers DEF TypeOK
    <3>3. r \in Nat /\ cursor \in Nat
      BY <1>1, <2>3
    <3> QED
      BY <3>1, <3>2, <3>3
  <2> QED
    BY <2>1, <2>2, <2>3
<1>3. CASE M!FetchItem
  BY <1>3 DEF M!FetchItem, M!Valid
<1>4. CASE M!TurnPage \/ M!LastPage
  BY <1>4 DEF M!TurnPage, M!LastPage
<1>5. CASE M!Stage \/ M!Commit
  BY <1>5 DEF M!Stage, M!Commit
<1>6. CASE M!Replace
  BY <1>6 DEF M!Replace, M!Return
<1>7. CASE M!RefuseHollow \/ M!RefuseItem \/ M!RefusePage \/ M!Fail
  BY <1>7 DEF M!RefuseHollow, M!RefuseItem, M!RefusePage, M!Fail, M!Return
<1> QED
  BY <1>2, <1>3, <1>4, <1>5, <1>6, <1>7 DEF SyncStep, SyncFault, M!Step

LEMMA WalkKeepsVouched ==
    ASSUME TypeOK, NeverLoses, Vouched, SyncStep \/ SyncFault
    PROVE  Vouched'
<1>1. UNCHANGED <<packVars, taskVars>> /\ fetch \in M!Busy
  BY DEF SyncStep, SyncFault, M!Step, M!Fail, M!Busy, M!FetchManifest, M!RefuseHollow,
         M!FetchItem, M!RefuseItem, M!TurnPage, M!RefusePage, M!LastPage, M!Stage,
         M!Commit, M!Replace
<1>2. pc \in {"bootSync", "sync"} /\ build \notin P!Busy
  BY <1>1 DEF TypeOK
<1>3. source.rows \subseteq source'.rows
  BY WalkNeverLoses
<1> QED
  BY <1>1, <1>2, <1>3 DEF Vouched, packVars, taskVars, P!Exists, P!Merged, P!Busy

LEMMA BuildKeepsVouched ==
    ASSUME Reliable, TypeOK, Vouched, PublishStep \/ PublishFault
    PROVE  Vouched'
<1>1. UNCHANGED <<source, pc, fingerprint, candidate, live>>
  BY DEF PublishStep, PublishFault, taskVars
<1>2. build \in P!Busy /\ pc \in {"bootPublish", "publish"}
  BY DEF PublishStep, PublishFault, P!Step, P!Fail, P!Copy, P!Merge, P!RefuseMerge,
         P!Verify, P!Promote, P!Busy, TypeOK
<1>3. CASE P!Copy
  BY <1>1, <1>2, <1>3 DEF Vouched, P!Copy, P!Busy, P!Exists
<1>4. CASE P!Merge
  BY <1>1, <1>2, <1>4 DEF Vouched, P!Merge, P!Busy, P!Exists
<1>5. CASE P!Verify
  <2>1. temp'.ver = temp.ver /\ temp'.rows = temp.rows
    BY <1>5 DEF P!Verify, TypeOK, P!TypeOK, P!File
  <2> QED
    BY <1>1, <1>2, <1>5, <2>1 DEF Vouched, P!Verify, P!Busy, P!Exists
<1>6. CASE P!Promote
  BY <1>1, <1>2, <1>6 DEF Vouched, P!Promote, P!Return, P!Busy, P!Exists
<1>7. ~P!RefuseMerge
  BY DEF Reliable, P!RefuseMerge
<1>8. CASE PublishFault
  <2>1. pc = "publish" /\ build' = "err"
    BY <1>2, <1>8
    DEF PublishFault, MayFail, Reliable, Refresh, P!Fail, P!Abandon, P!Return
  <2> QED
    BY <1>1, <2>1 DEF Vouched, P!Busy, P!Exists
<1> QED
  BY <1>3, <1>4, <1>5, <1>6, <1>7, <1>8 DEF PublishStep, P!Step

LEMMA BootKeepsVouched ==
    ASSUME Reliable, TypeOK, Vouched,
           Start \/ BootSynced \/ BootOpen \/ BootOpenFault \/ BootPrint \/ BootPrintFault
    PROVE  Vouched'
<1> USE DEF Vouched, P!Exists, Boot
<1>1. CASE Start
  BY <1>1 DEF Reliable, Start, M!Begin, packVars, P!Busy, TypeOK
<1>2. CASE BootSynced
  BY <1>2 DEF BootSynced, P!Begin, P!Busy
<1>3. CASE BootOpen
  BY <1>3 DEF BootOpen, Opened, packVars, P!Busy
<1>4. ~BootOpenFault
  BY DEF BootOpenFault, MayFail, Reliable, Refresh
<1>5. CASE BootPrint
  <2>1. ~P!Exists(source) \/ live.rows = P!Merged(source.rows)
    BY <1>5 DEF BootPrint
  <2>2. Fingerprint(source.rows)[1] = Cardinality(source.rows)
    BY DEF Fingerprint
  <2>3. fingerprint' # NoFingerprint =>
           fingerprint'[1] = Cardinality(source.rows) /\ live.rows = P!Merged(source.rows)
    BY <1>5, <2>1, <2>2 DEF BootPrint
  <2> QED
    BY <1>5, <2>3 DEF BootPrint, packVars, P!Busy
<1>6. CASE BootPrintFault
  BY <1>6 DEF BootPrintFault, packVars, P!Busy
<1> QED
  BY <1>1, <1>2, <1>3, <1>4, <1>5, <1>6

LEMMA TaskKeepsVouched ==
    ASSUME TypeOK, Vouched,
           \/ Tick \/ Synced \/ Compare \/ CompareFault \/ Published
           \/ Reload \/ ReloadFault \/ Crash \/ MergePanics
    PROVE  Vouched'
<1> USE DEF Vouched, P!Exists, Boot
<1>1. CASE Tick
  BY <1>1 DEF Tick, M!Begin, packVars, P!Busy
<1>2. CASE Synced
  BY <1>2 DEF Synced, packVars, P!Busy
<1>3. CASE Compare
  <2>1. Fingerprint(source.rows) # NoFingerprint
        /\ Fingerprint(source.rows)[1] = Cardinality(source.rows)
    BY FingerprintType DEF TypeOK, M!TypeOK, M!File, Fingerprint, NoFingerprint
  <2> QED
    BY <1>3, <2>1 DEF Compare, Unchanged, P!Begin, packVars, P!Busy
<1>4. CASE CompareFault
  BY <1>4 DEF CompareFault, packVars, P!Busy
<1>5. CASE Published
  BY <1>5 DEF Published, packVars, P!Busy
<1>6. CASE Reload
  <2>1. live'.rows = P!Merged(source.rows) /\ fingerprint'[1] = Cardinality(source.rows)
    BY <1>6 DEF Reload, Opened
  <2> QED
    BY <1>6, <2>1 DEF Reload, packVars, P!Busy
<1>7. CASE ReloadFault
  BY <1>7 DEF ReloadFault, packVars, P!Busy
<1>8. CASE Crash
  BY <1>8 DEF Crash, M!Crash, P!Crash, P!Return, P!Busy
<1>9. CASE MergePanics
  BY <1>9 DEF MergePanics, P!Unwind, P!Busy
<1> QED
  BY <1>1, <1>2, <1>3, <1>4, <1>5, <1>6, <1>7, <1>8, <1>9

LEMMA TaskStepNeverLoses ==
    ASSUME TypeOK, NeverLoses, TaskStep
    PROVE  NeverLoses'
<1>1. /\ UNCHANGED <<published, source, staging>>
      /\ \/ UNCHANGED syncVars
         \/ fetch' = "idle" /\ got' = {}
         \/ /\ fetch' = "manifest" /\ UNCHANGED <<cursor, got>>
            /\ cursor = 0
  BY DEF TaskStep, Start, BootSynced, BootOpen, BootOpenFault, BootPrint, BootPrintFault,
         Tick, Synced, Compare, CompareFault, Published, Reload, ReloadFault, Crash,
         MergePanics, syncVars, M!Begin, M!Crash, M!Return, TypeOK, M!TypeOK
<1>2. \A r \in source.rows : ~(r <= 0)
  BY RefreshAssumption DEF TypeOK, M!TypeOK, M!File
<1> QED
  BY <1>1, <1>2 DEF NeverLoses, syncVars

(* A control plane that withdraws nothing only ever adds revisions. *)
LEMMA OnlyPublishes ==
    ASSUME Reliable, TypeOK, NEW r \in Revisions, ControlPlane(r) \/ WriterCommit(r)
    PROVE  /\ published \subseteq published'
           /\ UNCHANGED <<fetch, cursor, items, next, got, staging, source>>
           /\ UNCHANGED <<packVars, taskVars>>
<1>1. ~M!Withdraw(r)
  <2>1. M!Cardinality(M!Withdrawn) = Cardinality(M!Withdrawn)
    BY DEF M!Cardinality, Cardinality
  <2>2. Cardinality(M!Withdrawn) \in Nat
    <3>1. M!Withdrawn \in SUBSET Revisions
      BY DEF M!Withdrawn, M!Stamped
    <3> QED
      BY <3>1, RevisionSets
  <2> QED
    BY <2>1, <2>2 DEF M!Withdraw, Reliable
<1>2. ~WriterCommit(r)
  BY DEF Reliable, WriterCommit
<1> QED
  BY <1>1, <1>2 DEF ControlPlane, M!Publish

RecordInv == TypeOK /\ NeverLoses /\ Vouched

LEMMA RecordInvInductive ==
    ASSUME Reliable, RecordInv, [Next]_vars
    PROVE  RecordInv'
<1> USE DEF RecordInv
<1>1. TypeOK'
  BY TypesInductive
<1>2. ASSUME NEW r \in Revisions, ControlPlane(r) \/ WriterCommit(r)
      PROVE  NeverLoses' /\ Vouched'
  BY <1>2, OnlyPublishes DEF NeverLoses, Vouched, packVars, taskVars, P!Exists
<1>3. CASE SyncStep \/ SyncFault
  BY <1>1, <1>3, WalkNeverLoses, WalkKeepsVouched
<1>4. CASE PublishStep \/ PublishFault
  <2>1. UNCHANGED <<syncVars, source>>
    BY <1>4 DEF PublishStep, PublishFault
  <2> QED
    BY <1>1, <1>4, <2>1, BuildKeepsVouched DEF NeverLoses, syncVars
<1>5. CASE TaskStep
  BY <1>1, <1>5, TaskStepNeverLoses, BootKeepsVouched, TaskKeepsVouched DEF TaskStep
<1>6. CASE UNCHANGED vars
  BY <1>1, <1>6 DEF vars, syncVars, packVars, taskVars, NeverLoses, Vouched, P!Exists
<1> QED
  BY <1>1, <1>2, <1>3, <1>4, <1>5, <1>6 DEF Next, Server, Faulty, TaskStep

(* A fingerprint that counts as many rows as the source has was taken of   *)
(* the source as it is: a subset with as many members is the whole set.    *)
LEMMA CountsVouch ==
    ASSUME RecordInv
    PROVE  RecordedMeansServed
<1> SUFFICES ASSUME pc = "sleep", P!Exists(source), Unchanged
             PROVE  live.rows = P!Merged(source.rows)
  BY DEF RecordedMeansServed
<1>1. source.rows \in SUBSET Revisions /\ fingerprint = Fingerprint(source.rows)
  BY DEF RecordInv, TypeOK, M!TypeOK, M!File, Unchanged
<1>2. fingerprint # NoFingerprint /\ fingerprint[1] = Cardinality(source.rows)
  BY <1>1, FingerprintType DEF RecordInv, TypeOK, M!TypeOK, Fingerprint, NoFingerprint
<1>3. PICK S \in SUBSET source.rows :
         Cardinality(S) = Cardinality(source.rows) /\ live.rows = P!Merged(S)
  BY <1>2 DEF RecordInv, Vouched
<1>4. S = source.rows
  BY <1>1, <1>3, RevisionSets, FS_Subset
<1> QED
  BY <1>3, <1>4

(* The refresh task skips no source that is not served: whatever pages the *)
(* control plane sends, wherever the process dies and whichever request,   *)
(* build or open fails, a fingerprint that matches the cache was recorded  *)
(* after the catalog of exactly that cache had been opened (main.rs        *)
(* 165-198).                                                               *)
THEOREM RecordsVouch ==
    ASSUME Reliable
    PROVE  Spec => []RecordedMeansServed
<1>1. Init => RecordInv
  <2> SUFFICES ASSUME Init
               PROVE  RecordInv
    OBVIOUS
  <2>1. source.rows = {} /\ got = {} /\ staging.rows = {}
    BY DEF Init, Reliable, M!CallInit, M!NoFile, P!NoFile
  <2> QED
    BY <2>1, InitTypes
    DEF RecordInv, NeverLoses, Vouched, Init, M!CallInit, P!Init, P!Busy, Boot
<1>2. RecordInv /\ [Next]_vars => RecordInv'
  BY RecordInvInductive
<1> QED
  BY <1>1, <1>2, CountsVouch, PTL DEF Spec
=============================================================================
