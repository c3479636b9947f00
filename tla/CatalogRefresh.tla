--------------------------- MODULE CatalogRefresh ---------------------------
(***************************************************************************)
(* The life of a server process with a generated source (main.rs): start,  *)
(* an initial sync and publication, the open of the pack, and the refresh  *)
(* task that polls the source, republishes the pack when its fingerprint   *)
(* has changed and hot-swaps the connection (state.rs reload_generated).   *)
(* It composes Materialize, the call that fills the source cache from the  *)
(* control plane, and PackPublish, the call that builds the pack.          *)
(*                                                                         *)
(* Without a control plane (Remote = FALSE) the source is the ingestion    *)
(* database itself, and its writer commits to it at any moment.            *)
(***************************************************************************)
EXTENDS Naturals, FiniteSets, Extremes

CONSTANTS Revisions, PageLimit, MaxWithdrawals, Misbehaves,  \* see Materialize
          Baked, Invalid, Fatal,                             \* see PackPublish
          Remote,      \* whether a control plane is configured
          MaxFaults,   \* bound: transient failures of requests and files
          BootFaults,  \* whether they may strike the initial publish and open
          MaxCrashes   \* bound: times the process dies

ASSUME RefreshAssumption ==
    /\ Revisions \subseteq Nat \ {0} /\ IsFiniteSet(Revisions)
    /\ Baked \subseteq Revisions /\ Invalid \subseteq Revisions
    /\ Fatal \subseteq Revisions
    /\ Misbehaves \in BOOLEAN /\ Remote \in BOOLEAN /\ BootFaults \in BOOLEAN
    /\ PageLimit \in Nat /\ MaxWithdrawals \in Nat
    /\ MaxFaults \in Nat /\ MaxCrashes \in Nat

VARIABLES published, stamp,                                    \* control plane
          fetch, cursor, items, next, got, staging, source,    \* Materialize
          build, temp, pack,                                   \* PackPublish
          pc,           \* where `main`, then the refresh task, is
          fingerprint,  \* `fingerprint`, the last one recorded
          candidate,    \* `next`, the fingerprint of this round
          live,         \* the catalog that answers generated queries
          faults, crashes  \* how much of the bounds is used

syncVars == <<published, stamp, fetch, cursor, items, next, got, staging>>
packVars == <<build, temp, pack>>
taskVars == <<pc, fingerprint, candidate, live>>
budget == <<faults, crashes>>
vars == <<syncVars, source, packVars, taskVars, budget>>

M == INSTANCE Materialize
P == INSTANCE PackPublish

-----------------------------------------------------------------------------
(* generated_source_fingerprint: the row count, MAX(published_at) and      *)
(* MAX(revision_id), each 0 for an empty table.                            *)
Fingerprint(rows) ==
    <<Cardinality(rows), Largest({stamp[r] : r \in rows}), Largest(rows)>>
NoFingerprint == <<>>

Down == [ver |-> 0, rows |-> {}]
Official == [ver |-> 0, rows |-> Baked]
Opened(file) == [ver |-> file.ver, rows |-> file.rows]

Boot == {"bootSync", "bootPublish", "bootPrint"}
Refresh == {"sleep", "sync", "print", "publish", "reload", "ended"}
Up == pc \in Refresh \cup {"bootPrint"}

TypeOK == /\ M!TypeOK /\ P!TypeOK
          /\ pc \in Boot \cup Refresh \cup {"off"}
          /\ fingerprint \in (Nat \X Nat \X Nat) \cup {NoFingerprint}
          /\ candidate \in (Nat \X Nat \X Nat) \cup {NoFingerprint}
          /\ live \in [ver : Nat, rows : SUBSET Revisions]
          /\ ~Up => live = Down
          /\ fetch \in M!Busy => pc \in {"bootSync", "sync"}
          /\ build \in P!Busy => pc \in {"bootPublish", "publish"}
          /\ faults \in 0 .. MaxFaults /\ crashes \in 0 .. MaxCrashes

(* A revision baked into the official catalog was published before the     *)
(* image was built, and may have been withdrawn since.  The ingestion      *)
(* database keeps its rows.                                                *)
Init == /\ published \in SUBSET Baked /\ (Remote \/ published = Baked)
        /\ stamp = [r \in Revisions |-> IF r \in Baked THEN 1 ELSE 0]
        /\ source = IF Remote \/ Baked = {}
                    THEN P!NoFile ELSE [ver |-> 1, whole |-> TRUE, rows |-> Baked]
        /\ M!CallInit /\ P!Init
        /\ pc = "off"
        /\ fingerprint = NoFingerprint /\ candidate = NoFingerprint
        /\ live = Down
        /\ faults = 0 /\ crashes = 0

-----------------------------------------------------------------------------
(* The environment. *)
ControlPlane(r) ==
    /\ Remote
    /\ M!Publish(r) \/ M!Withdraw(r)
    /\ UNCHANGED <<packVars, taskVars, budget>>

WriterCommit(r) ==
    /\ ~Remote
    /\ r \notin M!Stamped
    /\ published' = published \cup {r}
    /\ stamp' = [stamp EXCEPT ![r] = Cardinality(M!Stamped) + 1]
    /\ source' = [ver |-> source.ver + 1, whole |-> TRUE, rows |-> source.rows \cup {r}]
    /\ UNCHANGED <<fetch, cursor, items, next, got, staging, packVars, taskVars, budget>>

(* A transient failure uses one of the budget. *)
Fault == faults < MaxFaults /\ faults' = faults + 1 /\ UNCHANGED crashes

-----------------------------------------------------------------------------
(* The calls, and the ways they may fail. *)
SyncStep == /\ M!Step
            /\ UNCHANGED <<packVars, taskVars, budget>>

SyncFault == /\ M!Fail /\ Fault
             /\ UNCHANGED <<packVars, taskVars>>

PublishStep == /\ P!Step
               /\ UNCHANGED <<syncVars, source, taskVars, budget>>

MayFail == pc \in Refresh \/ BootFaults

PublishFault == /\ MayFail
                /\ P!Fail /\ Fault
                /\ UNCHANGED <<syncVars, source, taskVars>>

-----------------------------------------------------------------------------
(* A panic in the merge ends the thread it strikes: `main` and with it the *)
(* process, or the refresh task alone, and the server answers on without.  *)
MergePanics == /\ P!Unwind
               /\ pc' = IF pc = "bootPublish" THEN "off" ELSE "ended"
               /\ UNCHANGED <<syncVars, source, fingerprint, candidate, live, budget>>

-----------------------------------------------------------------------------
(* `main`. *)
Start ==
    /\ pc = "off"
    /\ IF Remote
       THEN /\ pc' = "bootSync"
            /\ M!Begin
            /\ UNCHANGED packVars
       ELSE /\ pc' = "bootPublish"
            /\ P!Begin
            /\ UNCHANGED <<syncVars, source>>
    /\ UNCHANGED <<fingerprint, candidate, live, budget>>

(* Whatever the initial sync returned, the pack is built from the cache. *)
BootSyncedOnlyOk == /\ pc = "bootSync" /\ fetch \notin M!Busy
                    /\ IF fetch = "ok"
                       THEN /\ pc' = "bootPublish"
                            /\ P!Begin
                            /\ UNCHANGED <<syncVars, source>>
                       ELSE M!Begin /\ UNCHANGED <<packVars, pc>>
                    /\ UNCHANGED <<fingerprint, candidate, live, budget>>
BootSynced == /\ pc = "bootSync" /\ fetch \notin M!Busy
              /\ pc' = "bootPublish"
              /\ P!Begin
              /\ UNCHANGED <<syncVars, source, fingerprint, candidate, live, budget>>

(* The pack to open: the new one, or the last known good one if the file   *)
(* is there; AppState::open_with_generated serves without it otherwise.    *)
BootOpen == /\ pc = "bootPublish" /\ build \notin P!Busy
            /\ pc' = "bootPrint"
            /\ live' = IF P!Exists(pack) THEN Opened(pack) ELSE Official
            /\ UNCHANGED <<syncVars, source, packVars, fingerprint, candidate, budget>>

BootOpenFault == /\ pc = "bootPublish" /\ build \notin P!Busy
                 /\ MayFail /\ Fault
                 /\ pc' = "bootPrint"
                 /\ live' = Official
                 /\ UNCHANGED <<syncVars, source, packVars, fingerprint, candidate>>

(* The refresh task starts: `generated_source_fingerprint(&source).ok()`. *)
BootPrint == /\ pc = "bootPrint"
             /\ pc' = "sleep"
             /\ fingerprint' = IF P!Exists(source) THEN Fingerprint(source.rows)
                                                   ELSE NoFingerprint
             /\ UNCHANGED <<syncVars, source, packVars, candidate, live, budget>>

BootPrintFault == /\ pc = "bootPrint" /\ Fault
                  /\ pc' = "sleep"
                  /\ fingerprint' = NoFingerprint
                  /\ UNCHANGED <<syncVars, source, packVars, candidate, live>>

-----------------------------------------------------------------------------
(* The refresh task. *)
Tick == /\ pc = "sleep"
        /\ IF Remote
           THEN pc' = "sync" /\ M!Begin
           ELSE pc' = "print" /\ UNCHANGED <<syncVars, source>>
        /\ UNCHANGED <<packVars, fingerprint, candidate, live, budget>>

SyncedNoWait == /\ pc = "sync"
                /\ pc' = IF fetch = "ok" THEN "print" ELSE "sleep"
                /\ UNCHANGED <<syncVars, source, packVars, fingerprint, candidate, live, budget>>
Synced == /\ pc = "sync" /\ fetch \notin M!Busy
          /\ pc' = IF fetch = "ok" THEN "print" ELSE "sleep"
          /\ UNCHANGED <<syncVars, source, packVars, fingerprint, candidate, live, budget>>

Unchanged == \/ ~P!Exists(source)
             \/ fingerprint = Fingerprint(source.rows)

CompareRecords == /\ pc = "print"
                  /\ fingerprint' = Fingerprint(source.rows)
                  /\ IF Unchanged
                     THEN pc' = "sleep" /\ UNCHANGED <<candidate, packVars>>
                     ELSE /\ pc' = "publish"
                          /\ candidate' = Fingerprint(source.rows)
                          /\ P!Begin
                  /\ UNCHANGED <<syncVars, source, live, budget>>
Compare == /\ pc = "print"
           /\ IF Unchanged
              THEN pc' = "sleep" /\ UNCHANGED <<candidate, packVars>>
              ELSE /\ pc' = "publish"
                   /\ candidate' = Fingerprint(source.rows)
                   /\ P!Begin
           /\ UNCHANGED <<syncVars, source, fingerprint, live, budget>>

CompareFault == /\ pc = "print" /\ Fault
                /\ pc' = "sleep"
                /\ UNCHANGED <<syncVars, source, packVars, fingerprint, candidate, live>>

Published == /\ pc = "publish" /\ build \notin P!Busy
             /\ IF build = "ok"
                THEN pc' = "reload" /\ UNCHANGED candidate
                ELSE pc' = "sleep" /\ candidate' = NoFingerprint
             /\ UNCHANGED <<syncVars, source, packVars, fingerprint, live, budget>>

(* reload_generated opens the new pack and swaps the connection; only then *)
(* is the fingerprint recorded, so that a failure is retried.              *)
Reload == /\ pc = "reload"
          /\ pc' = "sleep"
          /\ live' = Opened(pack)
          /\ fingerprint' = candidate
          /\ candidate' = NoFingerprint
          /\ UNCHANGED <<syncVars, source, packVars, budget>>

ReloadFaultRecords == /\ pc = "reload" /\ Fault
                      /\ pc' = "sleep"
                      /\ fingerprint' = candidate
                      /\ candidate' = NoFingerprint
                      /\ UNCHANGED <<syncVars, source, packVars, live>>
ReloadFault == /\ pc = "reload" /\ Fault
               /\ pc' = "sleep"
               /\ candidate' = NoFingerprint
               /\ UNCHANGED <<syncVars, source, packVars, fingerprint, live>>

-----------------------------------------------------------------------------
(* The process dies at any moment; the files stay as they are. *)
Crash == /\ pc # "off" /\ crashes < MaxCrashes
         /\ crashes' = crashes + 1
         /\ pc' = "off"
         /\ live' = Down
         /\ fingerprint' = NoFingerprint /\ candidate' = NoFingerprint
         /\ M!Crash /\ P!Crash
         /\ UNCHANGED faults

Server == \/ SyncStep \/ PublishStep \/ MergePanics
          \/ Start \/ BootSynced \/ BootOpen \/ BootPrint
          \/ Tick \/ Synced \/ Compare \/ Published \/ Reload

Faulty == \/ SyncFault \/ PublishFault \/ BootOpenFault \/ BootPrintFault
          \/ CompareFault \/ ReloadFault

Next == \/ \E r \in Revisions : ControlPlane(r) \/ WriterCommit(r)
        \/ Server \/ Faulty \/ Crash

(* The process is one sequential task with timeouts on its requests, and   *)
(* the container is restarted (`restart: unless-stopped`): it never stands *)
(* still.  Nothing obliges the environment to act or a fault to occur.     *)
Spec == Init /\ [][Next]_vars /\ WF_vars(Server)

-----------------------------------------------------------------------------
(* A pack is a complete, checked merge whenever there is one, and so is    *)
(* the catalog that answers: every row of the source version it carries    *)
(* and of the official catalog, nothing that validation rejects            *)
(* (pack/src/lib.rs publish_generated_pack; "complete SQLite serving pack" *)
(* of README.md).                                                          *)
MergeOf(file) == /\ file.rows \cap (Invalid \cup Fatal) \subseteq Baked
                 /\ file.ver = source.ver => file.rows = P!Merged(source.rows)
OnlyWholeMerges == /\ P!Exists(pack) => pack.whole /\ MergeOf(pack)
                   /\ live.ver > 0 => MergeOf(live)

(* A recorded fingerprint vouches for what is served: when the task sleeps *)
(* and would skip this source as unchanged, the catalog that answers holds *)
(* that source (main.rs 191-198).                                          *)
RecordedMeansServed ==
    pc = "sleep" /\ P!Exists(source) /\ Unchanged
        => live.rows = P!Merged(source.rows)

(* The pack and the served catalog follow the source in order, through     *)
(* failures, hot swaps and restarts: the abstract specification.           *)
Served == INSTANCE ServedCatalog
            WITH latest <- source.ver, durable <- pack.ver, up <- Up, live <- live.ver
ServesVersions == Served!Spec

(* docs/deployment.md: "Generated commits become visible to resolve,       *)
(* provenance, exact symbol lookup, and search without rebuilding the      *)
(* image."                                                                 *)
CommitsBecomeVisible ==
    \A r \in Revisions : r \in published ~> r \in live.rows \/ r \notin published

(* A control plane that fails for ever, or a source that can never be      *)
(* merged, does not keep the server from coming up: it opens the last      *)
(* known good pack or the official catalog (main.rs 118-146;               *)
(* docs/deployment.md 40-42, "An unavailable or invalid control-plane      *)
(* response retains the last-known-good pack and the official baked        *)
(* catalog continues to serve").                                           *)
BootCompletes == pc = "off" ~> Up
=============================================================================
