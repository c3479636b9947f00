--------------------------- MODULE ServedCatalog ---------------------------
(***************************************************************************)
(* What the refresh of the generated catalog promises, with the contents   *)
(* of the files reduced to the version of the source they were made from.  *)
(* The pack on disk and the catalog that answers requests only ever move   *)
(* to later versions, and a request is never answered from a version that  *)
(* is not on disk: so a restart loses nothing that was served, except that *)
(* a server may come up with the official catalog alone (version 0).       *)
(***************************************************************************)
EXTENDS Naturals

VARIABLES latest,   \* version of the generated source
          durable,  \* version of the pack on disk, 0 when there is none
          up,       \* whether a server process answers requests
          live      \* version it answers from, 0 for the official catalog

vars == <<latest, durable, up, live>>

Init == latest \in Nat /\ durable = 0 /\ ~up /\ live = 0

Ingest == /\ latest' = latest + 1
          /\ UNCHANGED <<durable, up, live>>

Promote == /\ durable' \in durable .. latest
           /\ UNCHANGED <<latest, up, live>>

Swap == /\ up /\ live' = durable
        /\ UNCHANGED <<latest, durable, up>>

Start == /\ ~up /\ up'
         /\ live' \in {0, durable}
         /\ UNCHANGED <<latest, durable>>

Stop == /\ up /\ ~up'
        /\ live' = 0
        /\ UNCHANGED <<latest, durable>>

Next == Ingest \/ Promote \/ Swap \/ Start \/ Stop

Spec == Init /\ [][Next]_vars
=============================================================================
