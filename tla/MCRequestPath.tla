--------------------------- MODULE MCRequestPath ---------------------------
(* Clients for one permit of each route, so that one queues behind another *)
(* and behind the jobs that earlier requests have left.                    *)
EXTENDS RequestPath

CONSTANTS a, b

MCClients == {a, b}
Catalog == {"official", "generated", "search"}
WithOffers == {"generated", "offer"}
=============================================================================
