------------------------- MODULE MaterializeWindow -------------------------
(***************************************************************************)
(* What one walk of the manifest promises although the control plane moves *)
(* under it: Materialize with two history variables, the revisions that    *)
(* have been published throughout the walk and those that were published   *)
(* at some moment of it.                                                   *)
(***************************************************************************)
EXTENDS Materialize

VARIABLES steady,  \* published in every state since the walk began
          seen     \* published in some state since the walk began

wvars == <<published, stamp, fetch, cursor, items, next, got, staging, source, steady, seen>>

WInit == Init /\ steady = {} /\ seen = {}

WBegin == Begin /\ steady' = published /\ seen' = published

WOther == /\ \/ \E r \in Revisions : Publish(r) \/ Withdraw(r)
             \/ Step
             \/ Fail
             \/ fetch # "idle" /\ Crash
          /\ steady' = steady \cap published'
          /\ seen' = seen \cup published'

WNext == WBegin \/ WOther

WSpec == WInit /\ [][WNext]_wvars /\ WF_wvars(Step /\ WOther)

-----------------------------------------------------------------------------
(* The pages already turned: every revision up to here has been asked for. *)
(* A page that is still being read covers up to its next cursor.           *)
Asked(r) == \/ fetch = "manifest" /\ r <= cursor
            \/ fetch = "items" /\ (next = 0 \/ r <= next)
            \/ fetch \in {"stage", "write", "replace"}

(* A revision published during the whole walk is never missed, however the *)
(* other revisions come and go between the pages: once its page has been   *)
(* turned it is fetched or waits to be (control_plane.rs page loop, 78-123). *)
NothingMissed ==
    fetch \in Busy => \A r \in steady : Asked(r) => r \in got \cup items

(* Nothing is fetched that was not published during this walk: a revision  *)
(* withdrawn before the walk began never enters the cache again.           *)
NothingStale == fetch \in Busy => got \cup items \subseteq seen

(* What is renamed over the cache is a complete file with everything that  *)
(* was published throughout the walk and nothing that never was: the       *)
(* "complete" of README.md and docs/deployment.md, for a control plane that *)
(* changes meanwhile.                                                      *)
ReplacedIsWindow ==
    fetch = "replace" => /\ staging.whole
                         /\ steady \subseteq staging.rows
                         /\ staging.rows \subseteq seen

(* The cache is a committed file whenever it exists: a crash or an error   *)
(* between two steps leaves a torn file only under the staging name.       *)
SourceWhole == source.ver > 0 => source.whole

(* Every call returns: a control plane that repeats a cursor, or sends an  *)
(* empty page with a next cursor, does not hold the walk (118-122).        *)
WalkReturns == fetch \in Busy ~> fetch \notin Busy
=============================================================================
