----------------------------- MODULE RequestPath -----------------------------
(***************************************************************************)
(* How the server answers requests (lib.rs build_app_with_config, rest/,   *)
(* state.rs): a request queues for a permit of its route, its handler      *)
(* takes a connection and spawns a job on the blocking pool, and the job   *)
(* locks the connection's mutex.  The timeout, or the client going away,   *)
(* drops the handler; the job goes on.  Meanwhile the refresh task swaps   *)
(* the generated connection, and a job may panic inside its lock.          *)
(*                                                                         *)
(* Connections are numbered by generation: 0 is the immutable catalog      *)
(* `conn`, and each hot swap installs the next.  What a query answers is   *)
(* reduced to the generation it was read from.                             *)
(***************************************************************************)
EXTENDS Naturals, FiniteSets, SequencesExt, Extremes

CONSTANTS Clients,    \* each has one request at a time
          Kinds,      \* the kinds of requests they send, see Route
          Permits,    \* MAX_CONCURRENT_REQUESTS
          Nobody,     \* owner of a job whose request is gone
          MaxJobs,    \* bound: jobs at one time
          MaxGen,     \* bound: hot swaps
          MaxPoisoned \* bound: connections on which jobs panic

AllKinds == {"official", "generated", "search", "offer"}

ASSUME RequestAssumption ==
    /\ IsFiniteSet(Clients) /\ Nobody \notin Clients
    /\ Kinds \subseteq AllKinds
    /\ Permits \in Nat \ {0}
    /\ MaxJobs \in Nat /\ MaxGen \in Nat /\ MaxPoisoned \in Nat

VARIABLES request,  \* the request of each client: where it is, what it asks, and
                    \* what `served` was when it was sent (a history)
          queue,    \* clients that wait for a permit, for each route
          permits,  \* free permits of each route
          job,      \* the blocking pool: slots that hold a job, or Idle
          gen,      \* generation of `generated_conn`, 0 while it is None
          cache,    \* the resolver's cache: generation of what it holds
          poisoned, \* connections whose mutex is poisoned
          served    \* history: the newest generation anyone was answered from

clientVars == <<request, queue, permits>>
poolVars == <<job, cache, poisoned>>
vars == <<clientVars, poolVars, gen, served>>

Routes == {"symbols", "search", "offers"}
Slots == 1 .. MaxJobs
Generations == 0 .. MaxGen
NoRequest == [at |-> "idle", kind |-> "official", floor |-> 0]
Requests == [at : {"idle", "queued", "handler", "awaiting"}, kind : AllKinds,
             floor : Generations]
Idle == [owner |-> Nobody, kind |-> "official", from |-> 0, at |-> "free"]
Jobs == [owner : Clients \cup {Nobody}, kind : AllKinds, from : Generations,
         at : {"free", "waiting", "inside", "done", "failed"}]
Empty == MaxGen + 1

Free == {i \in Slots : job[i].at = "free"}
Holding(c) == request[c].at \in {"handler", "awaiting"}

(* Official and generated symbols are two libraries of one route; "offer"  *)
(* asks REST's part-offer-query for a generated library.                   *)
Route(k) == CASE k = "search" -> "search"
              [] k = "offer"  -> "offers"
              [] OTHER        -> "symbols"

RouteOf(c) == Route(request[c].kind)

(* Who waits for a permit is in the queue of its route, once, and nobody   *)
(* else is in a queue.                                                     *)
Queued == /\ queue \in [Routes -> Seq(Clients)]
          /\ \A r \in Routes : \A i \in DOMAIN queue[r] :
                /\ request[queue[r][i]].at = "queued" /\ RouteOf(queue[r][i]) = r
                /\ \A j \in DOMAIN queue[r] : queue[r][i] = queue[r][j] => i = j
          /\ \A c \in Clients : request[c].at = "queued" =>
                \E i \in DOMAIN queue[RouteOf(c)] : queue[RouteOf(c)][i] = c

(* A job belongs to a request that waits for it, and none is finished for  *)
(* a client that is gone.                                                  *)
TypeOK == /\ request \in [Clients -> Requests]
          /\ Queued
          /\ permits \in [Routes -> 0 .. Permits]
          /\ job \in [Slots -> Jobs]
          /\ \A i \in Slots :
                /\ job[i].owner \in Clients => request[job[i].owner].at = "awaiting"
                /\ job[i].at \in {"done", "failed"} => job[i].owner \in Clients
          /\ gen \in Generations /\ served \in Generations
          /\ cache \in [AllKinds -> Generations \cup {Empty}]
          /\ poisoned \subseteq Generations

Init == /\ request = [c \in Clients |-> NoRequest]
        /\ queue = [r \in Routes |-> <<>>]
        /\ permits = [r \in Routes |-> Permits]
        /\ job = [i \in Slots |-> Idle]
        /\ gen = 0
        /\ cache = [k \in AllKinds |-> Empty]
        /\ poisoned = {}
        /\ served = 0

-----------------------------------------------------------------------------
(* The connection a handler takes before it spawns its job: the base one,  *)
(* or generated_connection().  A search begins on the base one.            *)
Connection(k) == IF k = "generated" THEN gen ELSE 0

Goes(c, from, to) == request[c].at = from /\ request' = [request EXCEPT ![c].at = to]

(* The request is over and its permit is given back. *)
Ends(c) == /\ request' = [request EXCEPT ![c] = NoRequest]
           /\ permits' = [permits EXCEPT ![RouteOf(c)] = @ + 1]

Send(c, k) == /\ request[c].at = "idle"
              /\ request' = [request EXCEPT ![c] = [at |-> "queued", kind |-> k, floor |-> served]]
              /\ queue' = [queue EXCEPT ![Route(k)] = Append(@, c)]
              /\ UNCHANGED <<permits, poolVars, gen, served>>

(* The semaphore is fair: the first in the queue takes the next permit.    *)
(* Only then does the timeout layer start its clock.                       *)
Grant(c) == LET r == RouteOf(c) IN
            /\ queue[r] # <<>> /\ Head(queue[r]) = c
            /\ permits[r] > 0
            /\ Goes(c, "queued", "handler")
            /\ queue' = [queue EXCEPT ![r] = Tail(@)]
            /\ permits' = [permits EXCEPT ![r] = @ - 1]
            /\ UNCHANGED <<poolVars, gen, served>>

(* An argument is too long or missing: 400 before any connection is taken. *)
BadRequest(c) == /\ request[c].at = "handler"
                 /\ Ends(c)
                 /\ UNCHANGED <<queue, poolVars, gen, served>>

Spawn(c) == /\ Free # {}
            /\ Goes(c, "handler", "awaiting")
            /\ job' = [job EXCEPT ![Smallest(Free)] =
                         [owner |-> c, kind |-> request[c].kind,
                          from |-> Connection(request[c].kind), at |-> "waiting"]]
            /\ UNCHANGED <<queue, permits, cache, poisoned, gen, served>>

-----------------------------------------------------------------------------
(* A job.  `lock().unwrap_or_else(|p| p.into_inner())` enters whether the  *)
(* mutex is poisoned or not.                                               *)
Locked(g) == \E i \in Slots : job[i].at = "inside" /\ job[i].from = g

EnterUnlessPoisoned(i) ==
    /\ job[i].at = "waiting" /\ ~Locked(job[i].from)
    /\ job' = IF job[i].from \notin poisoned THEN [job EXCEPT ![i].at = "inside"]
              ELSE [job EXCEPT ![i] = IF @.owner = Nobody THEN Idle
                                      ELSE [@ EXCEPT !.at = "failed"]]
    /\ UNCHANGED <<clientVars, cache, poisoned, gen, served>>
Enter(i) == /\ job[i].at = "waiting" /\ ~Locked(job[i].from)
            /\ job' = [job EXCEPT ![i].at = "inside"]
            /\ UNCHANGED <<clientVars, cache, poisoned, gen, served>>

(* Results reach the request that spawned the job, if it is still there.   *)
Returns(i, at, found) ==
    job' = [job EXCEPT ![i] = IF @.owner = Nobody THEN Idle
                              ELSE [@ EXCEPT !.at = at, !.from = found]]

Panic(i) == /\ job[i].at = "inside"
            /\ Cardinality(poisoned \cup {job[i].from}) <= MaxPoisoned
            /\ poisoned' = poisoned \cup {job[i].from}
            /\ Returns(i, "failed", job[i].from)
            /\ UNCHANGED <<clientVars, cache, gen, served>>

(* The query returns an error: no such symbol, no valid FTS5 syntax. *)
QueryError(i) == /\ job[i].at = "inside"
                 /\ Returns(i, "failed", job[i].from)
                 /\ UNCHANGED <<clientVars, cache, poisoned, gen, served>>

(* Resolver::resolve: generated libraries go round the cache. *)
CachesEverySymbol(k) == k \in {"official", "generated"}
Caches(k) == k = "official"

Found(j) == IF Caches(j.kind) /\ cache[j.kind] # Empty THEN cache[j.kind] ELSE j.from

(* search_catalogs, having searched the base and left its mutex, turns to  *)
(* the generated connection of that moment when there is one.              *)
TurnsToGenerated(j) == j.kind = "search" /\ j.from = 0 /\ gen # 0

SearchGenerated(i) ==
    /\ job[i].at = "inside" /\ TurnsToGenerated(job[i])
    /\ job' = [job EXCEPT ![i].from = gen, ![i].at = "waiting"]
    /\ UNCHANGED <<clientVars, cache, poisoned, gen, served>>

Finish(i) == /\ job[i].at = "inside" /\ ~TurnsToGenerated(job[i])
             /\ Returns(i, "done", Found(job[i]))
             /\ cache' = IF Caches(job[i].kind)
                         THEN [cache EXCEPT ![job[i].kind] = Found(job[i])] ELSE cache
             /\ UNCHANGED <<clientVars, poisoned, gen, served>>

-----------------------------------------------------------------------------
(* The end of a request: an answer, an error, or 408. *)
Answer(i) ==
    LET c == job[i].owner IN
    /\ job[i].at \in {"done", "failed"}
    /\ Ends(c)
    /\ served' = IF job[i].at = "done" /\ job[i].from > served
                 THEN job[i].from ELSE served
    /\ job' = [job EXCEPT ![i] = Idle]
    /\ UNCHANGED <<queue, cache, poisoned, gen>>

(* The future is dropped.  A job that is not finished stays in the pool.   *)
Abandoned(j) == IF j.at \in {"done", "failed"} THEN Idle ELSE [j EXCEPT !.owner = Nobody]
LeaveJob(c) == job' = [i \in Slots |-> IF job[i].owner = c THEN Abandoned(job[i]) ELSE job[i]]

TimeoutKeepsJob(c) == /\ Holding(c)
                      /\ Ends(c)
                      /\ UNCHANGED <<queue, poolVars, gen, served>>
TimeoutKeepsPermit(c) == /\ Holding(c)
                         /\ request' = [request EXCEPT ![c] = NoRequest]
                         /\ LeaveJob(c)
                         /\ UNCHANGED <<queue, permits, cache, poisoned, gen, served>>
Timeout(c) == /\ Holding(c)
              /\ Ends(c)
              /\ LeaveJob(c)
              /\ UNCHANGED <<queue, cache, poisoned, gen, served>>

(* The client hangs up while its request waits for a permit, and leaves    *)
(* the queue; a later hang-up drops the request as the timeout does.       *)
Place(q, c) == CHOOSE i \in DOMAIN q : q[i] = c
HangUp(c) == /\ request[c].at = "queued"
             /\ request' = [request EXCEPT ![c] = NoRequest]
             /\ queue' = [queue EXCEPT ![RouteOf(c)] = RemoveAt(@, Place(@, c))]
             /\ UNCHANGED <<permits, poolVars, gen, served>>

(* AppState::reload_generated. *)
Swap == /\ gen < MaxGen
        /\ gen' = gen + 1
        /\ UNCHANGED <<clientVars, poolVars, served>>

Next == \/ \E c \in Clients :
              \/ \E k \in Kinds : Send(c, k)
              \/ Grant(c) \/ BadRequest(c) \/ Spawn(c) \/ Timeout(c) \/ HangUp(c)
        \/ \E i \in Slots :
              \/ Enter(i) \/ Panic(i) \/ QueryError(i)
              \/ SearchGenerated(i) \/ Finish(i) \/ Answer(i)
        \/ Swap

(* Timers fire and the semaphore wakes its first waiter.  Nothing is       *)
(* assumed of the jobs: a mutex may be taken by others for ever.           *)
Spec == /\ Init /\ [][Next]_vars
        /\ \A c \in Clients : WF_vars(Grant(c)) /\ WF_vars(Timeout(c))

-----------------------------------------------------------------------------
(* No client travels back in time: an answer that reads generated rows is  *)
(* at least as new as every answer anyone was given before the request was *)
(* sent, although jobs outlive swaps, keep old connections, and answer out *)
(* of order (state.rs 133-136: "new requests observe the newly validated   *)
(* pack").                                                                 *)
MonotoneReads ==
    \A i \in Slots : job[i].at = "done" /\ job[i].kind # "official"
                        => job[i].from >= request[job[i].owner].floor

(* A panic costs the request whose job panicked and no other: a job fails  *)
(* only inside its own critical section (tests/mutex_poisoning.rs, for     *)
(* every connection, swap and number of requests in flight).               *)
PanicsStayLocal ==
    [][\A i \in Slots : job'[i].at = "failed" => job[i].at \in {"inside", "failed"}]_vars

(* Every request ends, with an answer or 408, whatever becomes of the jobs *)
(* and of the mutexes they wait for.                                       *)
EveryRequestEnds == \A c \in Clients : request[c].at # "idle" ~> request[c].at = "idle"

(* Either face answers about a generated library from a catalog no older   *)
(* than the answers already given: "REST (`GET /v1/*`) -- the same queries *)
(* for humans and non-MCP clients" (README.md 8).                          *)
FacesAgree ==
    \A i \in Slots : job[i].at = "done" /\ job[i].kind = "offer"
                        => job[i].from >= request[job[i].owner].floor
=============================================================================
