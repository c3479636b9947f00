------------------------- MODULE MaterializeProofs -------------------------
(***************************************************************************)
(* One walk of the manifest sees everything that stays published while it  *)
(* lasts and nothing that is not published then: for every set of          *)
(* revisions, every page size and a control plane that pages wrongly.      *)
(***************************************************************************)
EXTENDS MaterializeWindow, FiniteSetTheorems, TLAPS

LEMMA ReplyType ==
    ASSUME TypeOK, NEW reply \in Replies(cursor)
    PROVE  reply.items \subseteq published /\ reply.next \in Nat
<1>1. Revisions \subseteq Nat /\ published \subseteq Revisions /\ cursor \in Nat
  BY RevisionsAssumption DEF TypeOK
<1>2. ASSUME NEW n \in Ahead(cursor), reply = [items |-> Between(cursor, n), next |-> n]
      PROVE  reply.items \subseteq published /\ reply.next \in Nat
  BY <1>1, <1>2 DEF Ahead, Between
<1>3. CASE reply = [items |-> Ahead(cursor), next |-> 0]
  BY <1>3 DEF Ahead
<1>4. CASE \E n \in Revisions : reply = [items |-> {}, next |-> n]
  BY <1>1, <1>4
<1>5. CASE reply = [items |-> Between(0, cursor), next |-> cursor]
  BY <1>1, <1>5 DEF Between
<1> QED
  BY <1>2, <1>3, <1>4, <1>5 DEF Replies

(* A page that is read holds every published revision between the cursor   *)
(* and its next cursor, and all that are left when it is the last.         *)
LEMMA ReplyCovers ==
    ASSUME TypeOK, NEW reply \in Replies(cursor), ~Hollow(reply),
           NEW r \in published, cursor < r, reply.next = 0 \/ r <= reply.next
    PROVE  r \in reply.items
<1>1. Revisions \subseteq Nat \ {0} /\ published \subseteq Revisions /\ cursor \in Nat
  BY RevisionsAssumption DEF TypeOK
<1>2. ASSUME NEW n \in Ahead(cursor), reply = [items |-> Between(cursor, n), next |-> n]
      PROVE  r \in reply.items
  BY <1>1, <1>2 DEF Ahead, Between
<1>3. CASE reply = [items |-> Ahead(cursor), next |-> 0]
  BY <1>3 DEF Ahead
<1>4. CASE \E n \in Revisions : reply = [items |-> {}, next |-> n]
  BY <1>1, <1>4 DEF Hollow
<1>5. CASE reply = [items |-> Between(0, cursor), next |-> cursor] /\ reply.next # 0
  BY <1>1, <1>5
<1> QED
  BY <1>2, <1>3, <1>4, <1>5 DEF Replies

LEMMA Stamps == Cardinality(Stamped) \in Nat
<1>1. Stamped \in SUBSET Revisions
  BY DEF Stamped
<1> QED
  BY <1>1, RevisionsAssumption, FS_Subset, FS_CardinalityType

LEMMA FileType ==
    ASSUME NEW v \in Nat, NEW w \in BOOLEAN, NEW S \in SUBSET Revisions
    PROVE  [ver |-> v, whole |-> w, rows |-> S] \in File
BY DEF File

LEMMA TypesInductive ==
    ASSUME TypeOK, [WNext]_wvars
    PROVE  TypeOK'
<1> USE DEF TypeOK, Busy
<1>1. ASSUME NEW r \in Revisions, Publish(r) \/ Withdraw(r)
      PROVE  TypeOK'
  <2>1. Cardinality(Stamped) + 1 \in Nat
    BY Stamps
  <2> QED
    BY <1>1, <2>1 DEF Publish, Withdraw
<1>2. CASE FetchManifest
  BY <1>2, ReplyType DEF FetchManifest
<1>3. CASE FetchItem
  BY <1>3 DEF FetchItem, Valid
<1>4. CASE RefuseHollow \/ RefuseItem \/ RefusePage \/ Fail \/ Crash
  BY <1>4 DEF RefuseHollow, RefuseItem, RefusePage, Fail, Crash, Return
<1>5. CASE WBegin \/ TurnPage \/ LastPage
  BY <1>5 DEF WBegin, Begin, TurnPage, LastPage
<1>6. CASE Stage \/ Commit
  <2>1. VersionOf(got) \in Nat
    BY DEF VersionOf, File
  <2>2. staging' \in File
    BY <1>6, <2>1, FileType DEF Stage, Commit
  <2> QED
    BY <1>6, <2>2 DEF Stage, Commit
<1>7. CASE Replace
  <2>1. NoFile \in File
    BY FileType DEF NoFile
  <2> QED
    BY <1>7, <2>1 DEF Replace, Return
<1>8. CASE UNCHANGED wvars
  BY <1>8 DEF wvars
<1> QED
  BY <1>1, <1>2, <1>3, <1>4, <1>5, <1>6, <1>7, <1>8 DEF WNext, WOther, Step

-----------------------------------------------------------------------------
(* What makes the two history properties inductive: they range over what   *)
(* is published, no item is left when a page is turned or the walk is      *)
(* over, and the committed file holds what was fetched.                    *)
Walking ==
    /\ steady \subseteq published
    /\ fetch \in Busy \ {"items"} => items = {}
    /\ fetch = "replace" => staging.whole /\ staging.rows = got

WindowInv == TypeOK /\ Walking /\ NothingMissed /\ NothingStale /\ SourceWhole

(* A call that returns leaves nothing to say of the walk. *)
LEMMA ReturnEndsWalk ==
    ASSUME NEW result \in {"ok", "err", "idle"}, Return(result), steady' \subseteq published'
    PROVE  Walking' /\ NothingMissed' /\ NothingStale'
BY DEF Return, Busy, Walking, NothingMissed, NothingStale

LEMMA WindowStep ==
    ASSUME WindowInv, WNext
    PROVE  Walking' /\ NothingMissed' /\ NothingStale' /\ SourceWhole'
<1> USE DEF WindowInv
<1>1. CASE WBegin
  <2>1. /\ fetch' = "manifest" /\ steady' = published /\ seen' = published
        /\ UNCHANGED <<published, cursor, items, got, source>>
        /\ cursor = 0 /\ items = {} /\ got = {}
    BY <1>1 DEF WBegin, Begin, TypeOK
  <2>2. NothingMissed'
    <3> SUFFICES ASSUME NEW r \in steady', Asked(r)'
                 PROVE  FALSE
      BY DEF NothingMissed
    <3>1. r \in Nat \ {0} /\ r <= 0
      BY <2>1, RevisionsAssumption DEF Asked, TypeOK
    <3> QED
      BY <3>1
  <2> QED
    BY <2>1, <2>2 DEF Walking, NothingStale, SourceWhole
<1>2. CASE WOther
  <2>1. steady' = steady \cap published' /\ seen' = seen \cup published'
    BY <1>2 DEF WOther
  <2>2. steady' \subseteq published'
    BY <2>1
  <2>3. ASSUME NEW r \in Revisions, Publish(r) \/ Withdraw(r)
        PROVE  Walking' /\ NothingMissed' /\ NothingStale' /\ SourceWhole'
    <3>1. UNCHANGED <<fetch, cursor, items, next, got, staging, source>>
      BY <2>3 DEF Publish, Withdraw
    <3>2. NothingMissed'
      BY <2>1, <3>1 DEF NothingMissed, Asked
    <3> QED
      BY <2>1, <2>2, <3>1, <3>2 DEF Walking, NothingStale, SourceWhole
  <2>4. CASE FetchManifest
    <3>1. /\ fetch = "manifest" /\ fetch' = "items"
          /\ UNCHANGED <<published, cursor, got, source>>
      BY <2>4 DEF FetchManifest
    <3>2. PICK reply \in Replies(cursor) : ~Hollow(reply) /\ items' = reply.items /\ next' = reply.next
      BY <2>4 DEF FetchManifest
    <3>3. reply.items \subseteq published
      BY <3>2, ReplyType
    <3>4. NothingMissed'
      <4> SUFFICES ASSUME NEW r \in steady', Asked(r)'
                   PROVE  r \in got' \cup items'
        BY DEF NothingMissed
      <4>1. r \in steady /\ r \in published /\ r \in Nat /\ cursor \in Nat
        BY <2>1, <3>1, RevisionsAssumption DEF TypeOK
      <4>2. reply.next = 0 \/ r <= reply.next
        BY <3>1, <3>2 DEF Asked
      <4>3. CASE r <= cursor
        <5>1. items = {}
          BY <3>1 DEF Walking, Busy
        <5> QED
          BY <3>1, <4>1, <4>3, <5>1 DEF NothingMissed, Asked, Busy
      <4>4. CASE cursor < r
        BY <3>2, <4>1, <4>2, <4>4, ReplyCovers
      <4> QED
        BY <4>1, <4>3, <4>4
    <3>5. NothingStale'
      BY <2>1, <3>1, <3>2, <3>3 DEF NothingStale, Busy
    <3> QED
      BY <2>2, <3>1, <3>4, <3>5 DEF Walking, SourceWhole
  <2>5. CASE FetchItem
    <3>1. /\ fetch = "items" /\ Current \in published
          /\ got' = got \cup {Current} /\ items' = items \ {Current}
          /\ UNCHANGED <<published, fetch, cursor, next, source>>
      BY <2>5 DEF FetchItem, Valid
    <3>2. NothingMissed'
      BY <2>1, <3>1 DEF NothingMissed, Asked, Busy
    <3> QED
      BY <2>1, <2>2, <3>1, <3>2 DEF Walking, NothingStale, SourceWhole, Busy
  <2>6. CASE TurnPage \/ LastPage
    <3>1. /\ fetch = "items" /\ items = {}
          /\ \/ fetch' = "manifest" /\ cursor' = next
             \/ fetch' = "stage" /\ next = 0
          /\ UNCHANGED <<published, items, got, source>>
      BY <2>6 DEF TurnPage, LastPage
    <3>2. NothingMissed'
      BY <2>1, <3>1 DEF NothingMissed, Asked, Busy
    <3> QED
      BY <2>1, <2>2, <3>1, <3>2 DEF Walking, NothingStale, SourceWhole, Busy
  <2>7. CASE Stage \/ Commit
    <3>1. /\ fetch \in {"stage", "write"} /\ fetch' \in {"write", "replace"}
          /\ fetch' = "replace" => staging'.whole /\ staging'.rows = got
          /\ UNCHANGED <<published, cursor, items, next, got, source>>
      BY <2>7 DEF Stage, Commit
    <3>2. NothingMissed'
      BY <2>1, <3>1 DEF NothingMissed, Asked, Busy
    <3> QED
      BY <2>1, <2>2, <3>1, <3>2 DEF Walking, NothingStale, SourceWhole, Busy
  <2>8. CASE Replace
    <3>1. Return("ok") /\ source' = staging /\ staging.whole
      BY <2>8 DEF Replace, Walking
    <3> QED
      BY <2>2, <3>1, ReturnEndsWalk DEF SourceWhole
  <2>9. CASE RefuseHollow \/ RefuseItem \/ RefusePage \/ Fail \/ Crash
    <3>1. source' = source /\ (Return("err") \/ Return("idle"))
      BY <2>9 DEF RefuseHollow, RefuseItem, RefusePage, Fail, Crash
    <3> QED
      BY <2>2, <3>1, ReturnEndsWalk DEF SourceWhole
  <2> QED
    BY <1>2, <2>3, <2>4, <2>5, <2>6, <2>7, <2>8, <2>9 DEF WOther, Step
<1> QED
  BY <1>1, <1>2 DEF WNext

LEMMA WindowInvHolds == WSpec => []WindowInv
<1>1. WInit => WindowInv
  <2>1. NoFile \in File
    BY FileType DEF NoFile
  <2>2. WInit => TypeOK
    BY <2>1 DEF WInit, Init, CallInit, TypeOK, Busy
  <2> QED
    BY <2>2 DEF WInit, Init, CallInit, NoFile, WindowInv, Walking, NothingMissed,
                NothingStale, SourceWhole, Busy
<1>2. WindowInv /\ [WNext]_wvars => WindowInv'
  <2> SUFFICES ASSUME WindowInv, [WNext]_wvars
               PROVE  WindowInv'
    OBVIOUS
  <2>1. TypeOK'
    BY TypesInductive DEF WindowInv
  <2>2. CASE WNext
    BY <2>1, <2>2, WindowStep DEF WindowInv
  <2>3. CASE UNCHANGED wvars
    BY <2>1, <2>3
    DEF wvars, WindowInv, Walking, NothingMissed, NothingStale, SourceWhole, Asked
  <2> QED
    BY <2>2, <2>3
<1> QED
  BY <1>1, <1>2, PTL DEF WSpec

(* A call that is not running has left nothing behind for the next one.    *)
THEOREM WalkTypes == WSpec => []TypeOK
<1>1. WindowInv => TypeOK
  BY DEF WindowInv
<1> QED
  BY <1>1, WindowInvHolds, PTL

(* However the control plane moves between the pages of a walk, a revision *)
(* published from its beginning is fetched (control_plane.rs 78-123).      *)
THEOREM WalkMissesNothing == WSpec => []NothingMissed
<1>1. WindowInv => NothingMissed
  BY DEF WindowInv
<1> QED
  BY <1>1, WindowInvHolds, PTL

(* Nothing is fetched that was not published during the walk: what one     *)
(* walk has fetched never reaches the next (control_plane.rs 66-77).       *)
THEOREM WalkFetchesNothingStale == WSpec => []NothingStale
<1>1. WindowInv => NothingStale
  BY DEF WindowInv
<1> QED
  BY <1>1, WindowInvHolds, PTL

(* The file renamed over the cache is committed, holds every revision      *)
(* published throughout the walk and none that was not published during it. *)
THEOREM ReplacesWithWindow == WSpec => []ReplacedIsWindow
<1>1. WindowInv => ReplacedIsWindow
  BY DEF WindowInv, Walking, NothingMissed, NothingStale, ReplacedIsWindow, Asked, Busy
<1> QED
  BY <1>1, WindowInvHolds, PTL

(* A crash or an error between two steps never tears the source cache.     *)
THEOREM CacheIsWhole == WSpec => []SourceWhole
<1>1. WindowInv => SourceWhole
  BY DEF WindowInv
<1> QED
  BY <1>1, WindowInvHolds, PTL
=============================================================================
