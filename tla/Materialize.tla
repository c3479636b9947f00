---------------------------- MODULE Materialize ----------------------------
(***************************************************************************)
(* control_plane::materialize: walk the control plane's paged manifest,    *)
(* fetch and check every revision it lists, write them into a staging      *)
(* SQLite file and rename it over the source cache.                        *)
(*                                                                         *)
(* The control plane is external: its published set may change between any *)
(* two requests of one walk.  Revision ids are positive numbers, and the   *)
(* manifest is paged in their order; 0 is the empty cursor and "no next".  *)
(***************************************************************************)
EXTENDS Naturals, FiniteSets, Extremes

CONSTANTS Revisions,       \* the revision ids that may ever be published
          PageLimit,       \* the `limit` of a manifest request
          MaxWithdrawals,  \* bound: revisions the control plane withdraws
          Misbehaves       \* whether the control plane may page wrongly

ASSUME RevisionsAssumption == /\ Revisions \subseteq Nat \ {0}
                              /\ IsFiniteSet(Revisions)
                              /\ Misbehaves \in BOOLEAN

VARIABLES published,  \* control plane: revisions whose status is "published"
          stamp,      \* control plane: published_at of a revision, 0 before
          fetch,      \* where the call is; "ok" and "err" are its results
          cursor,     \* `cursor`
          items,      \* `manifest.items` still to fetch
          next,       \* `manifest.next`
          got,        \* `all_revisions`
          staging,    \* the .sqlite.part file
          source      \* the source cache, `output`

walk == <<cursor, items, next, got>>
control == <<published, stamp>>
vars == <<published, stamp, fetch, cursor, items, next, got, staging, source>>

-----------------------------------------------------------------------------
(* A file holds a set of revisions.  `whole` says that its writer committed *)
(* it; `ver` counts the distinct contents the source cache has had, and is  *)
(* 0 for a file that does not exist.                                        *)
File == [ver : Nat, whole : BOOLEAN, rows : SUBSET Revisions]
NoFile == [ver |-> 0, whole |-> FALSE, rows |-> {}]

(* The version of the source cache once its content is S. *)
VersionOf(S) ==
    IF source.ver > 0 /\ S = source.rows THEN source.ver ELSE source.ver + 1

Busy == {"manifest", "items", "stage", "write", "replace"}

TypeOK == /\ published \subseteq Revisions
          /\ stamp \in [Revisions -> Nat]
          /\ fetch \in Busy \cup {"idle", "ok", "err"}
          /\ cursor \in Nat
          /\ items \subseteq Revisions
          /\ next \in Nat
          /\ got \subseteq Revisions
          /\ staging \in File
          /\ source \in File
          /\ fetch \notin Busy => cursor = 0 /\ items = {} /\ next = 0 /\ got = {}

CallInit == /\ fetch = "idle"
            /\ cursor = 0 /\ items = {} /\ next = 0 /\ got = {}
            /\ staging = NoFile

Init == /\ published = {}
        /\ stamp = [r \in Revisions |-> 0]
        /\ CallInit
        /\ source = NoFile

-----------------------------------------------------------------------------
(* The control plane.  A revision is published once, with the clock's next *)
(* reading as its published_at, and may be withdrawn later.                *)
Stamped == {r \in Revisions : stamp[r] > 0}
Withdrawn == Stamped \ published

Publish(r) == /\ r \notin Stamped
              /\ published' = published \cup {r}
              /\ stamp' = [stamp EXCEPT ![r] = Cardinality(Stamped) + 1]
              /\ UNCHANGED <<fetch, cursor, items, next, got, staging, source>>

Withdraw(r) == /\ r \in published
               /\ Cardinality(Withdrawn) < MaxWithdrawals
               /\ published' = published \ {r}
               /\ UNCHANGED <<stamp, fetch, cursor, items, next, got, staging, source>>

(* What may answer a request for the page after cursor c: a run of at most *)
(* PageLimit published revisions, with a next cursor unless it is the last. *)
(* A control plane that pages wrongly may also send an empty page with a   *)
(* next cursor (it filters after limiting), or the earlier pages again (it *)
(* ignores `after`).                                                       *)
Ahead(c) == {r \in published : c < r}
Between(c, n) == {r \in published : c < r /\ r <= n}
Replies(c) ==
    LET Inner == {[items |-> Between(c, n), next |-> n] : n \in Ahead(c)}
        Last == {[items |-> Ahead(c), next |-> 0]}
        Wrong == {[items |-> {}, next |-> n] : n \in {r \in Revisions : c < r}}
                    \cup {[items |-> Between(0, c), next |-> c]}
    IN  {p \in Inner \cup Last : Cardinality(p.items) <= PageLimit}
           \cup {p \in Wrong : Misbehaves /\ Between(c, p.next) = {} /\ p.next # 0}

-----------------------------------------------------------------------------
(* The call.  Every early return leaves what is in the staging file where *)
(* it is; the next walk removes it.                                        *)
ReturnKeepsCursor(result) == /\ fetch' = result
                             /\ items' = {} /\ next' = 0 /\ got' = {}
                             /\ UNCHANGED cursor
ReturnKeepsRevisions(result) == /\ fetch' = result
                                /\ cursor' = 0 /\ items' = {} /\ next' = 0
                                /\ UNCHANGED got
Return(result) == /\ fetch' = result
                  /\ cursor' = 0 /\ items' = {} /\ next' = 0 /\ got' = {}

Begin == /\ fetch \notin Busy
         /\ fetch' = "manifest"
         /\ UNCHANGED <<published, stamp, cursor, items, next, got, staging, source>>

(* `Some(next) if !manifest.items.is_empty() && next != cursor`: the walk   *)
(* goes on only from a page that held something, to a new cursor.          *)
Hollow(reply) == reply.items = {} /\ reply.next # 0
AdvancesAlways(n) == TRUE
Advances(n) == n # cursor

FetchManifest ==
    /\ fetch = "manifest"
    /\ \E reply \in Replies(cursor) :
          /\ ~Hollow(reply)
          /\ items' = reply.items
          /\ next' = reply.next
    /\ fetch' = "items"
    /\ UNCHANGED <<published, stamp, cursor, got, staging, source>>

RefuseHollow ==
    /\ fetch = "manifest"
    /\ \E reply \in Replies(cursor) : Hollow(reply)
    /\ Return("err")
    /\ UNCHANGED <<published, stamp, staging, source>>

(* The item the inner loop has reached, and what `validate` asks of the    *)
(* revision the control plane answers with.                                *)
Current == Smallest(items)
Valid(r) == r \in published

FetchItem == /\ fetch = "items" /\ items # {}
             /\ Valid(Current)
             /\ got' = got \cup {Current}
             /\ items' = items \ {Current}
             /\ UNCHANGED <<published, stamp, fetch, cursor, next, staging, source>>

RefuseItem == /\ fetch = "items" /\ items # {}
              /\ ~Valid(Current)
              /\ Return("err")
              /\ UNCHANGED <<published, stamp, staging, source>>

TurnPage == /\ fetch = "items" /\ items = {}
            /\ next # 0 /\ Advances(next)
            /\ cursor' = next
            /\ fetch' = "manifest"
            /\ UNCHANGED <<published, stamp, items, next, got, staging, source>>

RefusePage == /\ fetch = "items" /\ items = {}
              /\ next # 0 /\ ~Advances(next)
              /\ Return("err")
              /\ UNCHANGED <<published, stamp, staging, source>>

LastPageEarly == /\ fetch = "items" /\ items = {}
                 /\ fetch' = "stage"
                 /\ UNCHANGED <<published, stamp, cursor, items, next, got, staging, source>>
LastPage == /\ fetch = "items" /\ items = {} /\ next = 0
            /\ fetch' = "stage"
            /\ UNCHANGED <<published, stamp, cursor, items, next, got, staging, source>>

(* remove_file, Connection::open and the schema; then the transaction with *)
(* every row, the commit and VACUUM; then the rename.                      *)
StageInPlace == /\ fetch = "stage"
                /\ fetch' = "write"
                /\ source' = [ver |-> VersionOf(got), whole |-> FALSE, rows |-> {}]
                /\ UNCHANGED <<published, stamp, cursor, items, next, got, staging>>
StageUncommitted == /\ fetch = "stage"
                    /\ fetch' = "replace"
                    /\ staging' = [ver |-> VersionOf(got), whole |-> FALSE, rows |-> {}]
                    /\ UNCHANGED <<published, stamp, cursor, items, next, got, source>>
Stage == /\ fetch = "stage"
         /\ fetch' = "write"
         /\ staging' = [ver |-> VersionOf(got), whole |-> FALSE, rows |-> {}]
         /\ UNCHANGED <<published, stamp, cursor, items, next, got, source>>

Commit == /\ fetch = "write"
          /\ fetch' = "replace"
          /\ staging' = [ver |-> VersionOf(got), whole |-> TRUE, rows |-> got]
          /\ UNCHANGED <<published, stamp, cursor, items, next, got, source>>

Replace == /\ fetch = "replace"
           /\ source' = staging
           /\ staging' = NoFile
           /\ Return("ok")
           /\ UNCHANGED <<published, stamp>>

(* A request fails or times out, or the staging file cannot be written.    *)
FailDropsCache == /\ fetch \in Busy
                  /\ Return("err")
                  /\ source' = NoFile
                  /\ UNCHANGED <<published, stamp, staging>>
Fail == /\ fetch \in Busy
        /\ Return("err")
        /\ UNCHANGED <<published, stamp, staging, source>>

(* The process dies: the walk is lost, the files stay. *)
Crash == /\ Return("idle")
         /\ UNCHANGED <<published, stamp, staging, source>>

Step == \/ FetchManifest \/ RefuseHollow \/ FetchItem \/ RefuseItem \/ TurnPage
        \/ RefusePage \/ LastPage \/ Stage \/ Commit \/ Replace

Next == \/ \E r \in Revisions : Publish(r) \/ Withdraw(r)
        \/ Begin
        \/ Step
        \/ Fail
        \/ fetch # "idle" /\ Crash

(* Every request is bounded by the client's 30 s timeout and everything    *)
(* else is local, so the call never stands still.                          *)
Spec == Init /\ [][Next]_vars /\ WF_vars(Step)
=============================================================================
