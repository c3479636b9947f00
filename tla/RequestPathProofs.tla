------------------------- MODULE RequestPathProofs -------------------------
(***************************************************************************)
(* For every number of clients, permits, jobs, swaps and panics: no client *)
(* travels back in time, no permit is lost or given twice.                 *)
(***************************************************************************)
EXTENDS RequestPath, ExtremesProofs, FiniteSetTheorems, TLAPS

(* The part of TypeOK that reads depend on. *)
ReadTypes == /\ request \in [Clients -> Requests]
             /\ job \in [Slots -> Jobs]
             /\ gen \in Generations /\ served \in Generations
             /\ cache \in [AllKinds -> Generations \cup {Empty}]

(* A job belongs to at most one request, which waits for it, and asks what *)
(* the request asks.                                                       *)
Owned == /\ \A i \in Slots : job[i].owner \in Clients =>
               /\ request[job[i].owner].at = "awaiting"
               /\ request[job[i].owner].kind = job[i].kind
               /\ request[job[i].owner].kind \in Kinds
               /\ job[i].at # "free"
         /\ \A i \in Slots : job[i].at \in {"done", "failed"} => job[i].owner \in Clients
         /\ \A i, j \in Slots :
               job[i].owner \in Clients /\ job[i].owner = job[j].owner => i = j
         /\ \A c \in Clients : request[c].at # "idle" => request[c].kind \in Kinds

(* Nothing is ahead of the current generation, and a job that reads        *)
(* generated rows holds a connection as new as its request asks for: only  *)
(* a search may still be on the base connection, on its way to the         *)
(* generated one.                                                          *)
Fresh == /\ served <= gen
         /\ \A c \in Clients : request[c].floor <= served
         /\ \A i \in Slots : job[i].from <= gen
         /\ \A k \in AllKinds : cache[k] # Empty => cache[k] <= gen
         /\ \A i \in Slots : job[i].owner \in Clients /\ job[i].kind \in {"generated", "search"} =>
               \/ job[i].from >= request[job[i].owner].floor
               \/ job[i].kind = "search" /\ job[i].from = 0 /\ job[i].at \in {"waiting", "inside", "failed"}

ReadInv == ReadTypes /\ Owned /\ Fresh

LEMMA Numbers ==
    /\ MaxGen \in Nat /\ Generations \subseteq Nat /\ Slots \subseteq Nat /\ 0 \in Generations
    /\ IsFiniteSet(Slots) /\ Nobody \notin Clients
BY RequestAssumption, FS_Interval DEF Generations, Slots

(* What the handler's choice of a slot returns. *)
LEMMA FreeSlot ==
    ASSUME Free # {}
    PROVE  Smallest(Free) \in Slots /\ job[Smallest(Free)].at = "free"
<1>1. Free \subseteq Slots
  BY DEF Free
<1>2. Free \in SUBSET Nat /\ IsFiniteSet(Free)
  BY <1>1, Numbers, FS_Subset
<1>3. Smallest(Free) \in Free
  BY <1>2, SmallestIsLeast
<1> QED
  BY <1>3 DEF Free

LEMMA InitReads == Init => ReadInv
BY Numbers, RequestAssumption
   DEF Init, ReadInv, ReadTypes, Owned, Fresh, NoRequest, Idle, Requests, Jobs, AllKinds, Empty, Generations

LEMMA SendReads ==
    ASSUME ReadInv, NEW c \in Clients, NEW k \in Kinds, Send(c, k)
    PROVE  ReadInv'
<1> USE Numbers, RequestAssumption DEF ReadInv, Send, poolVars
<1>1. ReadTypes'
  BY DEF ReadTypes, Requests, Generations
<1>2. Owned'
  BY DEF ReadTypes, Owned, Requests, Jobs
<1>3. Fresh'
  BY DEF ReadTypes, Owned, Fresh, Requests, Jobs, Generations
<1> QED
  BY <1>1, <1>2, <1>3

(* The steps of a request that move nothing but its place. *)
LEMMA GrantReads ==
    ASSUME ReadInv, NEW c \in Clients, Grant(c)
    PROVE  ReadInv'
<1> USE Numbers, RequestAssumption DEF ReadInv, Grant, Goes, poolVars
<1>1. ReadTypes'
  BY DEF ReadTypes, Requests
<1>2. Owned'
  BY DEF ReadTypes, Owned, Requests, Jobs
<1>3. Fresh'
  BY DEF ReadTypes, Owned, Fresh, Requests, Jobs, Generations
<1> QED
  BY <1>1, <1>2, <1>3

LEMMA SpawnReads ==
    ASSUME ReadInv, NEW c \in Clients, Spawn(c)
    PROVE  ReadInv'
<1> DEFINE s == Smallest(Free)
           new == [owner |-> c, kind |-> request[c].kind,
                   from |-> Connection(request[c].kind), at |-> "waiting"]
<1>1. /\ s \in Slots /\ job[s].at = "free" /\ job' = [job EXCEPT ![s] = new]
      /\ request[c].at = "handler" /\ request' = [request EXCEPT ![c].at = "awaiting"]
      /\ gen' = gen /\ served' = served /\ cache' = cache
  BY FreeSlot DEF Spawn, Goes
<1>2. request[c].kind \in Kinds /\ request[c].kind \in AllKinds
  BY <1>1 DEF ReadInv, ReadTypes, Owned, Requests
<1>3. new \in Jobs
  BY <1>2, Numbers DEF Jobs, Connection, ReadInv, ReadTypes
<1> HIDE DEF s
<1>4. ReadTypes'
  BY <1>1, <1>3 DEF ReadInv, ReadTypes, Requests
<1>5. Owned'
  BY <1>1, <1>2, Numbers DEF ReadInv, ReadTypes, Owned, Requests, Jobs
<1>6. Fresh'
  <2>1. request[c].kind \in {"official", "offer", "generated", "search"}
    BY <1>2 DEF AllKinds
  <2>2. \A d \in Clients : request'[d].floor = request[d].floor
    BY <1>1 DEF ReadInv, ReadTypes, Requests
  <2>3. new.from <= gen /\ \/ new.from >= request[c].floor
                           \/ new.kind \in {"official", "offer"}
                           \/ new.kind = "search" /\ new.from = 0
    BY <2>1, Numbers DEF ReadInv, ReadTypes, Fresh, Connection, Generations, Requests
  <2>4. /\ job'[s] = new
        /\ \A i \in Slots : i # s => job'[i] = job[i]
    BY <1>1 DEF ReadInv, ReadTypes
  <2> QED
    BY <1>1, <2>2, <2>3, <2>4, Numbers DEF ReadInv, ReadTypes, Fresh, Jobs
<1> QED
  BY <1>4, <1>5, <1>6 DEF ReadInv

-----------------------------------------------------------------------------
(* A job that moves on without its request. *)
LEMMA EnterReads ==
    ASSUME ReadInv, NEW i \in Slots, Enter(i)
    PROVE  ReadInv'
<1> USE Numbers DEF ReadInv, Enter, clientVars
<1>1. ReadTypes'
  BY DEF ReadTypes, Jobs
<1>2. Owned'
  BY DEF ReadTypes, Owned, Jobs
<1>3. Fresh'
  BY DEF ReadTypes, Fresh, Jobs, Generations
<1> QED
  BY <1>1, <1>2, <1>3

LEMMA SearchReads ==
    ASSUME ReadInv, NEW i \in Slots, SearchGenerated(i)
    PROVE  ReadInv'
<1> USE Numbers DEF ReadInv, SearchGenerated, clientVars
<1>1. ReadTypes'
  BY DEF ReadTypes, Jobs
<1>2. Owned'
  BY DEF ReadTypes, Owned, Jobs
<1>3. Fresh'
  <2>1. \A j \in Slots : j # i => job'[j] = job[j]
    BY DEF ReadTypes
  <2>2. job'[i].from = gen /\ job'[i].owner = job[i].owner
    BY DEF ReadTypes, Jobs
  <2>3. job[i].owner \in Clients => request[job[i].owner].floor <= gen
    BY DEF ReadTypes, Fresh, Requests, Generations
  <2> QED
    BY <2>1, <2>2, <2>3 DEF ReadTypes, Fresh, Requests, Jobs, Generations
<1> QED
  BY <1>1, <1>2, <1>3

(* A job that ends is free, or leaves its result to its request.           *)
LEMMA ReturnReads ==
    ASSUME ReadInv, NEW i \in Slots, NEW at \in {"done", "failed"}, NEW found \in Generations,
           job[i].at = "inside", Returns(i, at, found),
           found <= gen, job[i].kind # "official" => found = job[i].from,
           at = "done" => ~TurnsToGenerated(job[i]),
           UNCHANGED <<request, gen, served>>,
           cache' \in [AllKinds -> Generations \cup {Empty}],
           \A k \in AllKinds : cache'[k] # Empty => cache'[k] <= gen
    PROVE  ReadInv'
<1> USE Numbers DEF ReadInv
<1>1. job[i] \in Jobs /\ job[i].owner \in Clients \cup {Nobody} /\ job[i].from \in Generations
  BY DEF ReadTypes, Jobs
<1>2. Idle \in Jobs
  BY DEF Idle, Jobs, AllKinds
<1>3. CASE job[i].owner = Nobody
  <2>1. job' = [job EXCEPT ![i] = Idle]
    BY <1>3 DEF Returns
  <2>2. ReadTypes'
    BY <1>2, <2>1 DEF ReadTypes
  <2>3. Owned'
    BY <2>1 DEF ReadTypes, Owned, Idle
  <2>4. Fresh'
    BY <2>1 DEF ReadTypes, Fresh, Idle, Generations
  <2> QED
    BY <2>2, <2>3, <2>4
<1>4. CASE job[i].owner # Nobody
  <2>1. job' = [job EXCEPT ![i] = [job[i] EXCEPT !.at = at, !.from = found]]
    BY <1>4 DEF Returns
  <2>2. /\ \A j \in Slots : j # i => job'[j] = job[j]
        /\ job'[i] \in Jobs /\ job'[i].at = at /\ job'[i].from = found
        /\ job'[i].owner = job[i].owner /\ job'[i].kind = job[i].kind
    BY <1>1, <2>1 DEF ReadTypes, Jobs
  <2>3. ReadTypes'
    BY <2>1, <2>2 DEF ReadTypes
  <2>4. Owned'
    BY <1>1, <1>4, <2>2 DEF Owned
  <2>5. job[i].owner \in Clients /\ job[i].kind \in {"generated", "search"} =>
           \/ found >= request[job[i].owner].floor
           \/ job[i].kind = "search" /\ found = 0 /\ at = "failed"
    <3>1. ASSUME job[i].owner \in Clients, job[i].kind = "search", job[i].from = 0, at = "done"
          PROVE  job[i].from >= request[job[i].owner].floor
      <4>1. gen = 0
        BY <3>1 DEF TurnsToGenerated
      <4>2. request[job[i].owner].floor <= served /\ served <= gen
        BY <3>1 DEF Fresh
      <4>3. request[job[i].owner].floor \in Nat
        BY <3>1 DEF ReadTypes, Requests
      <4> QED
        BY <3>1, <4>1, <4>2, <4>3 DEF ReadTypes, Generations
    <3> QED
      BY <3>1 DEF Fresh
  <2>6. Fresh'
    BY <2>2, <2>5 DEF Fresh
  <2> QED
    BY <2>3, <2>4, <2>6
<1> QED
  BY <1>3, <1>4

LEMMA ErrorReads ==
    ASSUME ReadInv, NEW i \in Slots, Panic(i) \/ QueryError(i)
    PROVE  ReadInv'
<1>1. job[i].from \in Generations /\ job[i].from <= gen
  BY DEF ReadInv, ReadTypes, Fresh, Jobs
<1>2. /\ job[i].at = "inside" /\ Returns(i, "failed", job[i].from)
      /\ UNCHANGED <<request, gen, served, cache>>
  BY DEF Panic, QueryError, clientVars
<1>3. /\ cache' \in [AllKinds -> Generations \cup {Empty}]
      /\ \A k \in AllKinds : cache'[k] # Empty => cache'[k] <= gen
  BY <1>2 DEF ReadInv, ReadTypes, Fresh
<1> QED
  BY <1>1, <1>2, <1>3, ReturnReads

(* What a job of generated rows finds is what its connection holds: it     *)
(* goes round the cache.                                                   *)
LEMMA FinishReads ==
    ASSUME ReadInv, NEW i \in Slots, Finish(i)
    PROVE  ReadInv'
<1> DEFINE found == Found(job[i])
<1>1. job[i].from \in Generations /\ job[i].from <= gen /\ job[i].kind \in AllKinds
  BY DEF ReadInv, ReadTypes, Fresh, Jobs
<1>2. found \in Generations /\ found <= gen /\ (job[i].kind # "official" => found = job[i].from)
  BY <1>1 DEF Found, Caches, ReadInv, ReadTypes, Fresh
<1>3. /\ job[i].at = "inside" /\ Returns(i, "done", found) /\ ~TurnsToGenerated(job[i])
      /\ UNCHANGED <<request, gen, served>>
      /\ cache' = IF Caches(job[i].kind) THEN [cache EXCEPT ![job[i].kind] = found] ELSE cache
  BY DEF Finish, clientVars
<1> HIDE DEF found
<1>4. /\ cache' \in [AllKinds -> Generations \cup {Empty}]
      /\ \A k \in AllKinds : cache'[k] # Empty => cache'[k] <= gen
  BY <1>1, <1>2, <1>3 DEF ReadInv, ReadTypes, Fresh
<1> QED
  BY <1>2, <1>3, <1>4, ReturnReads

-----------------------------------------------------------------------------
(* The end of a request frees its job or leaves it to nobody; no other job *)
(* has this owner.                                                         *)
LEMMA EndReads ==
    ASSUME ReadInv, NEW c \in Clients,
           request' = [request EXCEPT ![c] = NoRequest],
           job' \in [Slots -> Jobs],
           \A i \in Slots : job'[i] = job[i] \/ job'[i] = Idle
                              \/ /\ job'[i] = [job[i] EXCEPT !.owner = Nobody]
                                 /\ job[i].at \notin {"done", "failed"},
           \A i \in Slots : job[i].owner = c => job'[i].owner = Nobody,
           UNCHANGED <<gen, cache>>,
           served' \in served .. gen
    PROVE  ReadInv'
<1> USE Numbers DEF ReadInv
<1>1. ReadTypes'
  BY DEF ReadTypes, Requests, NoRequest, AllKinds, Generations
<1>2. \A i \in Slots : job'[i].owner \in Clients => job'[i] = job[i] /\ job[i].owner # c
  BY DEF ReadTypes, Idle, Jobs
<1>3. \A d \in Clients : d # c => request'[d] = request[d]
  BY DEF ReadTypes
<1>4. request'[c] = NoRequest
  BY DEF ReadTypes
<1>5. Owned'
  <2>1. \A i \in Slots : job'[i].at \in {"done", "failed"} => job'[i] = job[i]
    BY DEF ReadTypes, Idle, Jobs
  <2>2. \A i \in Slots : job'[i].at \in {"done", "failed"} => job'[i].owner \in Clients
    BY <2>1 DEF Owned
  <2>3. \A i \in Slots : job'[i].owner \in Clients =>
               /\ request'[job'[i].owner].at = "awaiting"
               /\ request'[job'[i].owner].kind = job'[i].kind
               /\ request'[job'[i].owner].kind \in Kinds
               /\ job'[i].at # "free"
    BY <1>2, <1>3 DEF Owned
  <2>4. \A i, j \in Slots : job'[i].owner \in Clients /\ job'[i].owner = job'[j].owner => i = j
    BY <1>2 DEF Owned
  <2>5. \A d \in Clients : request'[d].at # "idle" => request'[d].kind \in Kinds
    BY <1>3, <1>4 DEF Owned, NoRequest
  <2> QED
    BY <2>2, <2>3, <2>4, <2>5 DEF Owned
<1>6. Fresh'
  <2>1. served' <= gen' /\ served <= served'
    BY DEF ReadTypes, Generations
  <2>2. \A d \in Clients : request'[d].floor <= served'
    <3>1. \A d \in Clients : request[d].floor \in Nat /\ request[d].floor <= served
      BY DEF ReadTypes, Requests, Fresh
    <3> QED
      BY <1>3, <1>4, <2>1, <3>1 DEF NoRequest, ReadTypes, Generations
  <2>3. \A i \in Slots : job'[i].from <= gen'
    BY DEF Fresh, ReadTypes, Idle, Jobs, Generations
  <2>4. \A i \in Slots : job'[i].owner \in Clients /\ job'[i].kind \in {"generated", "search"} =>
               \/ job'[i].from >= request'[job'[i].owner].floor
               \/ /\ job'[i].kind = "search" /\ job'[i].from = 0
                  /\ job'[i].at \in {"waiting", "inside", "failed"}
    BY <1>2, <1>3 DEF Fresh
  <2> QED
    BY <2>1, <2>2, <2>3, <2>4 DEF Fresh
<1> QED
  BY <1>1, <1>5, <1>6

LEMMA AnswerReads ==
    ASSUME ReadInv, NEW i \in Slots, Answer(i)
    PROVE  ReadInv'
<1> DEFINE c == job[i].owner
<1>1. /\ job[i].at \in {"done", "failed"}
      /\ request' = [request EXCEPT ![c] = NoRequest]
      /\ job' = [job EXCEPT ![i] = Idle]
      /\ served' = IF job[i].at = "done" /\ job[i].from > served THEN job[i].from ELSE served
      /\ UNCHANGED <<gen, cache>>
  BY DEF Answer, Ends
<1>2. c \in Clients
  BY <1>1 DEF ReadInv, Owned
<1>3. Idle \in Jobs /\ Idle.owner = Nobody
  BY Numbers DEF Idle, Jobs, AllKinds
<1>4. \A j \in Slots : job[j].owner = c => j = i
  BY <1>2 DEF ReadInv, Owned
<1>5. served' \in served .. gen
  BY <1>1, Numbers DEF ReadInv, ReadTypes, Fresh, Jobs, Generations
<1>6. job' \in [Slots -> Jobs] /\ \A j \in Slots : job'[j] = IF j = i THEN Idle ELSE job[j]
  BY <1>1, <1>3 DEF ReadInv, ReadTypes
<1>7. \A j \in Slots : job[j].owner = c => job'[j].owner = Nobody
  BY <1>3, <1>4, <1>6
<1>8. \A j \in Slots : job'[j] = job[j] \/ job'[j] = Idle
                         \/ /\ job'[j] = [job[j] EXCEPT !.owner = Nobody]
                            /\ job[j].at \notin {"done", "failed"}
  BY <1>6
<1> HIDE DEF c
<1> QED
  BY <1>1, <1>2, <1>5, <1>6, <1>7, <1>8, EndReads

LEMMA TimeoutReads ==
    ASSUME ReadInv, NEW c \in Clients, Timeout(c) \/ BadRequest(c)
    PROVE  ReadInv'
<1>1. request' = [request EXCEPT ![c] = NoRequest] /\ UNCHANGED <<gen, cache, served>>
  BY DEF Timeout, BadRequest, Ends, poolVars
<1>2. served' \in served .. gen
  BY <1>1, Numbers DEF ReadInv, ReadTypes, Fresh, Generations
<1>3. Idle \in Jobs /\ Idle.owner = Nobody
  BY Numbers DEF Idle, Jobs, AllKinds
<1>4. CASE BadRequest(c)
  <2>1. job' = job /\ request[c].at = "handler"
    BY <1>4 DEF BadRequest, poolVars
  <2>2. \A i \in Slots : job[i].owner # c
    BY <2>1 DEF ReadInv, Owned
  <2>3. job' \in [Slots -> Jobs]
    BY <2>1 DEF ReadInv, ReadTypes
  <2> QED
    BY <1>1, <1>2, <2>1, <2>2, <2>3, EndReads
<1>5. CASE Timeout(c)
  <2>1. job' = [i \in Slots |-> IF job[i].owner = c THEN Abandoned(job[i]) ELSE job[i]]
    BY <1>5 DEF Timeout, LeaveJob
  <2>2. \A i \in Slots : /\ Abandoned(job[i]) \in Jobs /\ Abandoned(job[i]).owner = Nobody
                         /\ \/ Abandoned(job[i]) = Idle
                            \/ /\ Abandoned(job[i]) = [job[i] EXCEPT !.owner = Nobody]
                               /\ job[i].at \notin {"done", "failed"}
    BY <1>3 DEF Abandoned, Jobs, ReadInv, ReadTypes
  <2>3. job' \in [Slots -> Jobs]
    BY <2>1, <2>2 DEF ReadInv, ReadTypes
  <2>4. \A i \in Slots : job[i].owner = c => job'[i].owner = Nobody
    BY <2>1, <2>2
  <2>5. \A i \in Slots : job'[i] = job[i] \/ job'[i] = Idle
                         \/ /\ job'[i] = [job[i] EXCEPT !.owner = Nobody]
                            /\ job[i].at \notin {"done", "failed"}
    BY <2>1, <2>2
  <2> QED
    BY <1>1, <1>2, <2>3, <2>4, <2>5, EndReads
<1> QED
  BY <1>4, <1>5

LEMMA HangUpReads ==
    ASSUME ReadInv, NEW c \in Clients, HangUp(c)
    PROVE  ReadInv'
<1>1. /\ request[c].at = "queued" /\ request' = [request EXCEPT ![c] = NoRequest]
      /\ UNCHANGED <<job, gen, cache, served>>
  BY DEF HangUp, poolVars
<1>2. \A i \in Slots : job[i].owner # c
  BY <1>1 DEF ReadInv, Owned
<1>3. served' \in served .. gen /\ job' \in [Slots -> Jobs]
  BY <1>1, Numbers DEF ReadInv, ReadTypes, Fresh, Generations
<1> QED
  BY <1>1, <1>2, <1>3, EndReads

LEMMA SwapReads ==
    ASSUME ReadInv, Swap
    PROVE  ReadInv'
<1>1. /\ gen' = gen + 1 /\ gen < MaxGen
      /\ UNCHANGED <<request, job, cache, served>>
  BY DEF Swap, clientVars, poolVars
<1>2. ReadTypes' /\ Owned'
  BY <1>1, Numbers DEF ReadInv, ReadTypes, Owned, Generations
<1>3. Fresh'
  <2>1. \A i \in Slots : job[i].from \in Nat
    BY Numbers DEF ReadInv, ReadTypes, Jobs
  <2>2. \A k \in AllKinds : cache[k] \in Nat
    <3>1. Generations \cup {Empty} \subseteq Nat
      BY Numbers DEF Empty
    <3> QED
      BY <3>1 DEF ReadInv, ReadTypes
  <2> QED
    BY <1>1, <2>1, <2>2, Numbers DEF ReadInv, ReadTypes, Fresh, Generations
<1> QED
  BY <1>2, <1>3 DEF ReadInv

-----------------------------------------------------------------------------
LEMMA ReadInvInductive ==
    ASSUME ReadInv, [Next]_vars
    PROVE  ReadInv'
<1>1. ASSUME NEW c \in Clients,
             \/ \E k \in Kinds : Send(c, k)
             \/ Grant(c) \/ BadRequest(c) \/ Spawn(c) \/ Timeout(c) \/ HangUp(c)
      PROVE  ReadInv'
  BY <1>1, SendReads, GrantReads, SpawnReads, TimeoutReads, HangUpReads
<1>2. ASSUME NEW i \in Slots,
             \/ Enter(i) \/ Panic(i) \/ QueryError(i)
             \/ SearchGenerated(i) \/ Finish(i) \/ Answer(i)
      PROVE  ReadInv'
  BY <1>2, EnterReads, ErrorReads, SearchReads, FinishReads, AnswerReads
<1>3. CASE UNCHANGED vars
  BY <1>3 DEF vars, clientVars, poolVars, ReadInv, ReadTypes, Owned, Fresh
<1> QED
  BY <1>1, <1>2, <1>3, SwapReads DEF Next

LEMMA ReadInvHolds == Spec => []ReadInv
  BY InitReads, ReadInvInductive, PTL DEF Spec

(* No answer that reads generated rows is older than an answer given       *)
(* before its request was sent, as long as none of the requests is REST's  *)
(* part-offer-query for a generated library (state.rs, rest/, resolver.rs).*)
THEOREM ReadsAreMonotone ==
    ASSUME "offer" \notin Kinds
    PROVE  Spec => []MonotoneReads
<1>1. ReadInv => MonotoneReads
  <2> SUFFICES ASSUME ReadInv, NEW i \in Slots, job[i].at = "done", job[i].kind # "official"
               PROVE  job[i].from >= request[job[i].owner].floor
    BY DEF MonotoneReads
  <2> QED
    BY RequestAssumption DEF ReadInv, Owned, Fresh, AllKinds
<1> QED
  BY <1>1, ReadInvHolds, PTL

LEMMA JobStep ==
    ASSUME ReadTypes, [Next]_vars
    PROVE  \A i \in Slots : job'[i].at = "failed" => job[i].at \in {"inside", "failed"}
<1> USE DEF ReadTypes
<1>1. ASSUME NEW c \in Clients, Spawn(c)
      PROVE  \A i \in Slots : job'[i].at = "failed" => job[i].at = "failed"
  BY <1>1 DEF Spawn
<1>2. ASSUME NEW c \in Clients, Timeout(c)
      PROVE  \A i \in Slots : job'[i].at = "failed" => job[i].at = "failed"
  BY <1>2 DEF Timeout, LeaveJob, Abandoned, Idle, Jobs
<1>3. ASSUME NEW i \in Slots, Enter(i) \/ SearchGenerated(i) \/ Answer(i)
      PROVE  \A j \in Slots : job'[j].at = "failed" => job[j].at = "failed"
  BY <1>3 DEF Enter, SearchGenerated, Answer, Idle, Jobs
<1>4. ASSUME NEW i \in Slots, Panic(i) \/ QueryError(i) \/ Finish(i)
      PROVE  \A j \in Slots : job'[j].at = "failed" => job[j].at \in {"inside", "failed"}
  BY <1>4 DEF Panic, QueryError, Finish, Returns
<1>5. ASSUME \/ \E c \in Clients : \/ \E k \in Kinds : Send(c, k)
                                   \/ Grant(c) \/ BadRequest(c) \/ HangUp(c)
             \/ Swap \/ UNCHANGED vars
      PROVE  job' = job
  BY <1>5 DEF Send, Grant, BadRequest, HangUp, Swap, vars, poolVars
<1> QED
  BY <1>1, <1>2, <1>3, <1>4, <1>5 DEF Next

(* A panic costs the request whose job panicked and no other, whatever the *)
(* requests ask: a poisoned mutex is entered like any other, by            *)
(* `unwrap_or_else(|p| p.into_inner())` (rest/symbols.rs 33).              *)
THEOREM PanicsAreLocal == Spec => PanicsStayLocal
<1>1. ReadInv /\ [Next]_vars =>
        [\A i \in Slots : job'[i].at = "failed" => job[i].at \in {"inside", "failed"}]_vars
  BY JobStep DEF ReadInv
<1> QED
  BY <1>1, ReadInvHolds, PTL DEF Spec, PanicsStayLocal

-----------------------------------------------------------------------------
(* The requests that hold a permit of a route. *)
Holders(r) == {c \in Clients : Holding(c) /\ RouteOf(c) = r}

(* Every permit of a route is free or held by a request of the route. *)
Conserved == /\ permits \in [Routes -> 0 .. Permits]
             /\ \A r \in Routes : permits[r] + Cardinality(Holders(r)) = Permits

PathInv == ReadInv /\ Queued /\ Conserved /\ poisoned \subseteq Generations

LEMMA RouteType == \A k : Route(k) \in Routes
BY DEF Route, Routes

LEMMA HoldersFinite == \A r : IsFiniteSet(Holders(r)) /\ Cardinality(Holders(r)) \in Nat
<1>1. \A r : Holders(r) \subseteq Clients
  BY DEF Holders
<1> QED
  BY <1>1, RequestAssumption, FS_Subset, FS_CardinalityType

(* A step that lets no request in or out of the handlers keeps the permits. *)
LEMMA NobodyMoves ==
    ASSUME Conserved, permits' = permits,
           \A c \in Clients : Holding(c)' = Holding(c) /\ (Holding(c) => RouteOf(c)' = RouteOf(c))
    PROVE  Conserved'
<1>1. \A r : Holders(r)' = Holders(r)
  BY DEF Holders
<1> QED
  BY <1>1 DEF Conserved

(* One that ends a request gives its permit back. *)
LEMMA OneLeaves ==
    ASSUME ReadInv, Conserved, NEW c \in Clients, Holding(c), Ends(c)
    PROVE  Conserved'
<1> DEFINE q == RouteOf(c)
<1>1. q \in Routes
  BY RouteType DEF RouteOf
<1>2. request' = [request EXCEPT ![c] = NoRequest] /\ permits' = [permits EXCEPT ![q] = @ + 1]
  BY DEF Ends
<1>3. /\ request'[c] = NoRequest
      /\ \A d \in Clients : d # c => request'[d] = request[d]
  BY <1>2 DEF ReadInv, ReadTypes
<1>4. \A r : Holders(r)' = IF r = q THEN Holders(r) \ {c} ELSE Holders(r)
  BY <1>3 DEF Holders, Holding, RouteOf, NoRequest
<1>5. c \in Holders(q)
  BY DEF Holders
<1>6. Cardinality(Holders(q) \ {c}) = Cardinality(Holders(q)) - 1
  BY <1>5, HoldersFinite, FS_RemoveElement
<1>7. \A r \in Routes : permits'[r] = IF r = q THEN permits[r] + 1 ELSE permits[r]
  BY <1>1, <1>2 DEF Conserved
<1>8. \A r \in Routes : permits'[r] + Cardinality(Holders(r)') = Permits
  <2> SUFFICES ASSUME NEW r \in Routes PROVE permits'[r] + Cardinality(Holders(r)') = Permits
    OBVIOUS
  <2>1. permits[r] \in Nat /\ Cardinality(Holders(r)) \in Nat
        /\ permits[r] + Cardinality(Holders(r)) = Permits
    BY HoldersFinite DEF Conserved
  <2>2. CASE r = q
    <3>1. Cardinality(Holders(r)') = Cardinality(Holders(r)) - 1 /\ permits'[r] = permits[r] + 1
      <4> HIDE DEF q
      <4>1. Holders(r)' = Holders(q) \ {c}
        BY <1>4, <2>2
      <4> QED
        BY <1>6, <1>7, <2>2, <4>1
    <3> QED
      BY <2>1, <3>1, RequestAssumption
  <2>3. CASE r # q
    BY <1>4, <1>7, <2>1, <2>3
  <2> QED
    BY <2>2, <2>3
<1>9. \A r \in Routes : permits'[r] \in 0 .. Permits
  <2> SUFFICES ASSUME NEW r \in Routes PROVE permits'[r] \in 0 .. Permits
    OBVIOUS
  <2>1. permits'[r] \in Nat /\ Cardinality(Holders(r)') \in Nat
    <3>1. IsFiniteSet(Holders(r)')
      BY <1>4, HoldersFinite, FS_Subset
    <3> QED
      BY <1>7, <3>1, FS_CardinalityType DEF Conserved
  <2> QED
    BY <1>8, <2>1, RequestAssumption
<1>10. permits' \in [Routes -> 0 .. Permits]
  <2>1. permits' = [r \in Routes |-> permits'[r]]
    BY <1>2 DEF Conserved
  <2> QED
    BY <1>9, <2>1
<1> QED
  BY <1>8, <1>10 DEF Conserved

(* A permit that is granted is one that was free. *)
LEMMA OneEnters ==
    ASSUME ReadInv, Conserved, NEW c \in Clients, Grant(c)
    PROVE  Conserved'
<1> DEFINE q == RouteOf(c)
<1>1. q \in Routes
  BY RouteType DEF RouteOf
<1>2. /\ request[c].at = "queued" /\ request' = [request EXCEPT ![c].at = "handler"]
      /\ permits[q] > 0 /\ permits' = [permits EXCEPT ![q] = @ - 1]
  BY DEF Grant, Goes
<1>3. /\ request'[c].at = "handler" /\ request'[c].kind = request[c].kind
      /\ \A d \in Clients : d # c => request'[d] = request[d]
  BY <1>2 DEF ReadInv, ReadTypes, Requests
<1>4. \A r : Holders(r)' = IF r = q THEN Holders(r) \cup {c} ELSE Holders(r)
  BY <1>2, <1>3 DEF Holders, Holding, RouteOf
<1>5. c \notin Holders(q)
  BY <1>2 DEF Holders, Holding
<1>6. Cardinality(Holders(q) \cup {c}) = Cardinality(Holders(q)) + 1
  BY <1>5, HoldersFinite, FS_AddElement
<1>7. \A r \in Routes : permits'[r] = IF r = q THEN permits[r] - 1 ELSE permits[r]
  BY <1>1, <1>2 DEF Conserved
<1>8. \A r \in Routes : permits'[r] + Cardinality(Holders(r)') = Permits
  <2> SUFFICES ASSUME NEW r \in Routes PROVE permits'[r] + Cardinality(Holders(r)') = Permits
    OBVIOUS
  <2>1. permits[r] \in Nat /\ Cardinality(Holders(r)) \in Nat
        /\ permits[r] + Cardinality(Holders(r)) = Permits
    BY HoldersFinite DEF Conserved
  <2>2. CASE r = q
    <3>1. Cardinality(Holders(r)') = Cardinality(Holders(r)) + 1 /\ permits'[r] = permits[r] - 1
      <4> HIDE DEF q
      <4>1. Holders(r)' = Holders(q) \cup {c}
        BY <1>4, <2>2
      <4> QED
        BY <1>6, <1>7, <2>2, <4>1
    <3> QED
      BY <2>1, <3>1, RequestAssumption
  <2>3. CASE r # q
    BY <1>4, <1>7, <2>1, <2>3
  <2> QED
    BY <2>2, <2>3
<1>9. permits' \in [Routes -> 0 .. Permits]
  <2> HIDE DEF q
  <2>1. \A r \in Routes : permits'[r] \in 0 .. Permits
    BY <1>2, <1>7, RequestAssumption DEF Conserved
  <2>2. permits' = [r \in Routes |-> permits'[r]]
    BY <1>2 DEF Conserved
  <2> QED
    BY <2>1, <2>2
<1> QED
  BY <1>8, <1>9 DEF Conserved

-----------------------------------------------------------------------------
(* What taking one client out of a queue leaves. *)
Without(q, t, c) ==
    /\ t \in Seq(Clients)
    /\ \A i, j \in DOMAIN t : t[i] = t[j] => i = j
    /\ \A i \in DOMAIN t : t[i] # c /\ \E j \in DOMAIN q : q[j] = t[i]
    /\ \A j \in DOMAIN q : q[j] # c => \E i \in DOMAIN t : t[i] = q[j]

LEMMA RemovedAt ==
    ASSUME NEW q \in Seq(Clients), \A i, j \in DOMAIN q : q[i] = q[j] => i = j,
           NEW p \in DOMAIN q
    PROVE  Without(q, RemoveAt(q, p), q[p])
<1> DEFINE t == RemoveAt(q, p)
<1>1. p \in 1 .. Len(q) /\ Len(q) \in Nat /\ DOMAIN q = 1 .. Len(q)
  OBVIOUS
<1>2. /\ t \in Seq(Clients) /\ Len(t) = Len(q) - 1 /\ DOMAIN t = 1 .. Len(q) - 1
      /\ \A i \in 1 .. Len(q) - 1 : t[i] = IF i < p THEN q[i] ELSE q[i + 1]
  <2> DEFINE a == SubSeq(q, 1, p - 1)
             b == SubSeq(q, p + 1, Len(q))
  <2>1. a \in Seq(Clients) /\ Len(a) = p - 1 /\ \A i \in 1 .. p - 1 : a[i] = q[i]
    BY <1>1
  <2>2. b \in Seq(Clients) /\ Len(b) = Len(q) - p /\ \A i \in 1 .. Len(q) - p : b[i] = q[i + p]
    BY <1>1
  <2>3. t = a \o b
    BY DEF RemoveAt
  <2> HIDE DEF a, b, t
  <2>4. t \in Seq(Clients) /\ Len(t) = Len(q) - 1
    <3>1. a \o b \in Seq(Clients) /\ Len(a \o b) = Len(a) + Len(b)
      BY <2>1, <2>2
    <3>2. Len(a) + Len(b) = Len(q) - 1
      BY <1>1, <2>1, <2>2
    <3> QED
      BY <2>3, <3>1, <3>2
  <2>5. \A i \in 1 .. Len(q) - 1 : t[i] = IF i < p THEN a[i] ELSE b[i - (p - 1)]
    BY <1>1, <2>1, <2>2, <2>3
  <2>6. \A i \in 1 .. Len(q) - 1 : i >= p => b[i - (p - 1)] = q[i + 1]
    <3> SUFFICES ASSUME NEW i \in 1 .. Len(q) - 1, i >= p PROVE b[i - (p - 1)] = q[i + 1]
      OBVIOUS
    <3>1. i - (p - 1) \in 1 .. Len(q) - p /\ (i - (p - 1)) + p = i + 1
      BY <1>1
    <3> QED
      BY <2>2, <3>1
  <2>7. \A i \in 1 .. Len(q) - 1 : t[i] = IF i < p THEN q[i] ELSE q[i + 1]
    BY <1>1, <2>1, <2>5, <2>6
  <2> QED
    BY <2>4, <2>7
<1> HIDE DEF t
<1>3. \A j \in DOMAIN q : q[j] # q[p] => \E i \in DOMAIN t : t[i] = q[j]
  <2> SUFFICES ASSUME NEW j \in 1 .. Len(q), j # p
               PROVE  \E i \in 1 .. Len(q) - 1 : t[i] = q[j]
    BY <1>1, <1>2
  <2>1. CASE j < p
    BY <1>1, <1>2, <2>1
  <2>2. CASE j > p
    <3>1. j - 1 \in 1 .. Len(q) - 1 /\ t[j - 1] = q[j]
      BY <1>1, <1>2, <2>2
    <3> QED
      BY <3>1
  <2> QED
    BY <1>1, <2>1, <2>2
<1>4. \A i \in DOMAIN t : t[i] # q[p] /\ \E j \in DOMAIN q : q[j] = t[i]
  <2> SUFFICES ASSUME NEW i \in 1 .. Len(q) - 1
               PROVE  t[i] # q[p] /\ \E j \in 1 .. Len(q) : q[j] = t[i]
    BY <1>1, <1>2
  <2>1. i \in 1 .. Len(q) /\ i + 1 \in 1 .. Len(q)
    BY <1>1
  <2> QED
    BY <1>1, <1>2, <2>1
<1>5. \A i, j \in DOMAIN t : t[i] = t[j] => i = j
  <2> SUFFICES ASSUME NEW i \in 1 .. Len(q) - 1, NEW j \in 1 .. Len(q) - 1, t[i] = t[j], i < j
               PROVE  FALSE
    BY <1>1, <1>2
  <2> DEFINE at(k) == IF k < p THEN k ELSE k + 1
  <2>1. at(i) \in 1 .. Len(q) /\ at(j) \in 1 .. Len(q) /\ at(i) # at(j)
    BY <1>1
  <2>2. t[i] = q[at(i)] /\ t[j] = q[at(j)]
    BY <1>2
  <2>3. \A x, y \in 1 .. Len(q) : q[x] = q[y] => x = y
    BY <1>1
  <2> HIDE DEF at
  <2> QED
    BY <2>1, <2>2, <2>3
<1> QED
  BY <1>2, <1>3, <1>4, <1>5 DEF Without, t

LEMMA TailWithout ==
    ASSUME NEW q \in Seq(Clients), q # <<>>, \A i, j \in DOMAIN q : q[i] = q[j] => i = j
    PROVE  Without(q, Tail(q), Head(q))
<1>1. 1 \in DOMAIN q /\ Head(q) = q[1]
  OBVIOUS
<1>2. RemoveAt(q, 1) = Tail(q)
  BY DEF RemoveAt
<1> QED
  BY <1>1, <1>2, RemovedAt

(* A client leaves the queue of its route, and no other moves. *)
LEMMA LeavesQueue ==
    ASSUME ReadTypes, Queued, NEW c \in Clients, request[c].at = "queued",
           Without(queue[RouteOf(c)], queue'[RouteOf(c)], c),
           queue' = [queue EXCEPT ![RouteOf(c)] = queue'[RouteOf(c)]],
           request'[c].at # "queued", \A d \in Clients : d # c => request'[d] = request[d]
    PROVE  Queued'
<1> DEFINE q == RouteOf(c)
<1>1. q \in Routes
  BY RouteType DEF RouteOf
<1>2. \A r \in Routes : r # q => queue'[r] = queue[r]
  BY DEF Queued
<1>3. queue' \in [Routes -> Seq(Clients)]
  BY <1>1 DEF Queued, Without
<1>4. \A d \in Clients : d # c => Route(request'[d].kind) = RouteOf(d)
  BY DEF RouteOf
<1>5. \A r \in Routes : \A i \in DOMAIN queue'[r] :
          /\ queue'[r][i] \in Clients /\ queue'[r][i] # c
          /\ \E j \in DOMAIN queue[r] : queue[r][j] = queue'[r][i]
  <2> SUFFICES ASSUME NEW r \in Routes, NEW i \in DOMAIN queue'[r]
               PROVE  /\ queue'[r][i] \in Clients /\ queue'[r][i] # c
                      /\ \E j \in DOMAIN queue[r] : queue[r][j] = queue'[r][i]
    OBVIOUS
  <2>1. queue'[r][i] \in Clients
    BY <1>3
  <2>2. CASE r = q
    BY <2>1, <2>2 DEF Without
  <2>3. CASE r # q
    <3>1. queue'[r] = queue[r]
      BY <1>2, <2>3
    <3> QED
      BY <2>1, <2>3, <3>1 DEF Queued
  <2> QED
    BY <2>2, <2>3
<1>6. \A r \in Routes : \A i, j \in DOMAIN queue'[r] : queue'[r][i] = queue'[r][j] => i = j
  <2> SUFFICES ASSUME NEW r \in Routes
               PROVE  \A i, j \in DOMAIN queue'[r] : queue'[r][i] = queue'[r][j] => i = j
    OBVIOUS
  <2>1. CASE r = q
    BY <2>1 DEF Without
  <2>2. CASE r # q
    BY <1>2, <2>2 DEF Queued
  <2> QED
    BY <2>1, <2>2
<1>7. \A r \in Routes : \A i \in DOMAIN queue'[r] :
          request'[queue'[r][i]].at = "queued" /\ Route(request'[queue'[r][i]].kind) = r
  <2> SUFFICES ASSUME NEW r \in Routes, NEW i \in DOMAIN queue'[r]
               PROVE  request'[queue'[r][i]].at = "queued" /\ Route(request'[queue'[r][i]].kind) = r
    OBVIOUS
  <2>1. PICK j \in DOMAIN queue[r] : queue[r][j] = queue'[r][i]
    BY <1>5
  <2>2. request[queue'[r][i]].at = "queued" /\ RouteOf(queue'[r][i]) = r
    BY <2>1 DEF Queued
  <2> QED
    BY <1>4, <1>5, <2>2
<1>8. ASSUME NEW d \in Clients, request'[d].at = "queued"
      PROVE  \E i \in DOMAIN queue'[Route(request'[d].kind)] : queue'[Route(request'[d].kind)][i] = d
  <2>1. d # c /\ request[d].at = "queued" /\ Route(request'[d].kind) = RouteOf(d) /\ RouteOf(d) \in Routes
    BY <1>4, <1>8, RouteType DEF RouteOf
  <2>2. PICK j \in DOMAIN queue[RouteOf(d)] : queue[RouteOf(d)][j] = d
    BY <2>1 DEF Queued
  <2>3. CASE RouteOf(d) = q
    BY <2>1, <2>2, <2>3 DEF Without
  <2>4. CASE RouteOf(d) # q
    BY <1>2, <2>1, <2>2, <2>4
  <2> QED
    BY <2>3, <2>4
<1> QED
  BY <1>3, <1>6, <1>7, <1>8 DEF Queued, RouteOf

LEMMA QueueStays ==
    ASSUME Queued, queue' = queue,
           \A c \in Clients : /\ (request'[c].at = "queued") = (request[c].at = "queued")
                              /\ request[c].at = "queued" => request'[c].kind = request[c].kind
    PROVE  Queued'
<1>1. \A r \in Routes : \A i \in DOMAIN queue[r] : queue[r][i] \in Clients
  BY DEF Queued
<1> QED
  BY <1>1, RouteType DEF Queued, RouteOf

LEMMA SendPath ==
    ASSUME PathInv, NEW c \in Clients, NEW k \in Kinds, Send(c, k)
    PROVE  Queued' /\ Conserved'
<1> DEFINE q == Route(k)
           new == [at |-> "queued", kind |-> k, floor |-> served]
<1>1. /\ request[c].at = "idle" /\ request' = [request EXCEPT ![c] = new]
      /\ queue' = [queue EXCEPT ![q] = Append(@, c)] /\ permits' = permits
  BY DEF Send
<1>2. request'[c] = new /\ \A d \in Clients : d # c => request'[d] = request[d]
  BY <1>1 DEF PathInv, ReadInv, ReadTypes
<1>3. q \in Routes /\ queue[q] \in Seq(Clients)
  BY RouteType DEF PathInv, Queued
<1> HIDE DEF q
<1>4. \A r \in Routes : queue'[r] = IF r = q THEN Append(queue[q], c) ELSE queue[r]
  BY <1>1, <1>3 DEF PathInv, Queued
<1>5. queue' \in [Routes -> Seq(Clients)]
  BY <1>1, <1>3 DEF PathInv, Queued
<1>6. \A r \in Routes : \A i \in DOMAIN queue[r] : queue[r][i] # c /\ queue[r][i] \in Clients
  BY <1>1 DEF PathInv, Queued
<1>7. /\ Len(queue[q]) \in Nat /\ DOMAIN Append(queue[q], c) = 1 .. Len(queue[q]) + 1
      /\ DOMAIN queue[q] = 1 .. Len(queue[q])
      /\ \A i \in DOMAIN queue[q] : Append(queue[q], c)[i] = queue[q][i]
      /\ Append(queue[q], c)[Len(queue[q]) + 1] = c
  BY <1>3
<1>8. \A r \in Routes : \A i \in DOMAIN queue'[r] :
          \/ i \in DOMAIN queue[r] /\ queue'[r][i] = queue[r][i]
          \/ r = q /\ i = Len(queue[q]) + 1 /\ queue'[r][i] = c
  <2> SUFFICES ASSUME NEW r \in Routes, NEW i \in DOMAIN queue'[r]
               PROVE  \/ i \in DOMAIN queue[r] /\ queue'[r][i] = queue[r][i]
                      \/ r = q /\ i = Len(queue[q]) + 1 /\ queue'[r][i] = c
    OBVIOUS
  <2>1. CASE r = q
    <3>1. queue'[r] = Append(queue[q], c)
      BY <1>4, <2>1, Zenon
    <3>2. i \in 1 .. Len(queue[q]) + 1
      BY <1>7, <3>1, Zenon
    <3>3. i \in 1 .. Len(queue[q]) \/ i = Len(queue[q]) + 1
      BY <1>7, <3>2
    <3> QED
      BY <1>7, <2>1, <3>1, <3>3
  <2>2. CASE r # q
    BY <1>4, <2>2
  <2> QED
    BY <2>1, <2>2
<1>9. \A r \in Routes : \A i \in DOMAIN queue[r] :
          i \in DOMAIN queue'[r] /\ queue'[r][i] = queue[r][i]
  <2> SUFFICES ASSUME NEW r \in Routes, NEW i \in DOMAIN queue[r]
               PROVE  i \in DOMAIN queue'[r] /\ queue'[r][i] = queue[r][i]
    OBVIOUS
  <2>1. CASE r = q
    <3>1. queue'[r] = Append(queue[q], c)
      BY <1>4, <2>1, Zenon
    <3>2. i \in DOMAIN queue'[r] /\ queue'[r][i] = queue[r][i]
      <4>1. i \in 1 .. Len(queue[q]) + 1
        BY <1>7, <2>1
      <4> QED
        BY <1>7, <2>1, <3>1, <4>1, Zenon
    <3> QED
      BY <3>2
  <2>2. CASE r # q
    BY <1>4, <2>2
  <2> QED
    BY <2>1, <2>2
<1>10. \A r \in Routes : \A i \in DOMAIN queue'[r] :
          /\ request'[queue'[r][i]].at = "queued" /\ Route(request'[queue'[r][i]].kind) = r
          /\ \A j \in DOMAIN queue'[r] : queue'[r][i] = queue'[r][j] => i = j
  <2> SUFFICES ASSUME NEW r \in Routes, NEW i \in DOMAIN queue'[r]
               PROVE  /\ request'[queue'[r][i]].at = "queued" /\ Route(request'[queue'[r][i]].kind) = r
                      /\ \A j \in DOMAIN queue'[r] : queue'[r][i] = queue'[r][j] => i = j
    OBVIOUS
  <2>1. CASE i \in DOMAIN queue[r] /\ queue'[r][i] = queue[r][i]
    <3>1. request[queue[r][i]].at = "queued" /\ Route(request[queue[r][i]].kind) = r
      BY <2>1 DEF PathInv, Queued, RouteOf
    <3>2. \A j \in DOMAIN queue'[r] : queue'[r][i] = queue'[r][j] => i = j
      BY <1>6, <1>8, <2>1 DEF PathInv, Queued
    <3> QED
      BY <1>2, <1>6, <2>1, <3>1, <3>2
  <2>2. CASE r = q /\ i = Len(queue[q]) + 1 /\ queue'[r][i] = c
    <3>1. request'[c].at = "queued" /\ Route(request'[c].kind) = q
      BY <1>2 DEF q
    <3>2. \A j \in DOMAIN queue'[r] : queue'[r][j] = c => j = i
      BY <1>6, <1>8, <2>2
    <3> QED
      BY <2>2, <3>1, <3>2
  <2> QED
    BY <1>8, <2>1, <2>2
<1>11. ASSUME NEW d \in Clients, request'[d].at = "queued"
       PROVE  \E i \in DOMAIN queue'[Route(request'[d].kind)] : queue'[Route(request'[d].kind)][i] = d
  <2>1. CASE d = c
    <3>1. Route(request'[d].kind) = q
      BY <1>2, <2>1 DEF q
    <3>2. queue'[q] = Append(queue[q], c)
      BY <1>3, <1>4, Zenon
    <3>3. Len(queue[q]) + 1 \in 1 .. Len(queue[q]) + 1
      BY <1>7
    <3>4. Len(queue[q]) + 1 \in DOMAIN queue'[q] /\ queue'[q][Len(queue[q]) + 1] = d
      BY <1>7, <2>1, <3>2, <3>3, Zenon
    <3> QED
      BY <3>1, <3>4
  <2>2. CASE d # c
    <3>1. request'[d] = request[d]
      BY <1>2, <2>2
    <3>2. PICK i \in DOMAIN queue[RouteOf(d)] : queue[RouteOf(d)][i] = d
      BY <1>11, <3>1 DEF PathInv, Queued
    <3> QED
      BY <1>9, <3>1, <3>2, RouteType DEF RouteOf
  <2> QED
    BY <2>1, <2>2
<1>12. Queued'
  BY <1>5, <1>10, <1>11 DEF Queued, RouteOf
<1>13. \A d \in Clients : Holding(d)' = Holding(d) /\ (Holding(d) => RouteOf(d)' = RouteOf(d))
  BY <1>1, <1>2 DEF Holding, RouteOf
<1> QED
  BY <1>1, <1>12, <1>13, NobodyMoves DEF PathInv

LEMMA GrantPath ==
    ASSUME PathInv, NEW c \in Clients, Grant(c)
    PROVE  Queued' /\ Conserved'
<1> DEFINE q == RouteOf(c)
<1>1. /\ queue[q] # <<>> /\ Head(queue[q]) = c
      /\ request[c].at = "queued" /\ request' = [request EXCEPT ![c].at = "handler"]
      /\ queue' = [queue EXCEPT ![q] = Tail(@)]
  BY DEF Grant, Goes
<1>2. q \in Routes /\ queue[q] \in Seq(Clients) /\ \A i, j \in DOMAIN queue[q] : queue[q][i] = queue[q][j] => i = j
  BY RouteType DEF PathInv, Queued, RouteOf
<1>3. queue'[q] = Tail(queue[q])
  BY <1>1, <1>2 DEF PathInv, Queued
<1>4. Without(queue[q], queue'[q], c)
  BY <1>1, <1>2, <1>3, TailWithout
<1>5. queue' = [queue EXCEPT ![q] = queue'[q]]
  BY <1>1, <1>3
<1>6. request'[c].at = "handler" /\ \A d \in Clients : d # c => request'[d] = request[d]
  BY <1>1 DEF PathInv, ReadInv, ReadTypes, Requests
<1>7. Queued'
  BY <1>1, <1>4, <1>5, <1>6, LeavesQueue DEF PathInv, ReadInv
<1> QED
  BY <1>7, OneEnters DEF PathInv

LEMMA HangUpPath ==
    ASSUME PathInv, NEW c \in Clients, HangUp(c)
    PROVE  Queued' /\ Conserved'
<1> DEFINE q == RouteOf(c)
           p == Place(queue[q], c)
<1>1. /\ request[c].at = "queued" /\ request' = [request EXCEPT ![c] = NoRequest]
      /\ queue' = [queue EXCEPT ![q] = RemoveAt(@, Place(@, c))] /\ permits' = permits
  BY DEF HangUp
<1>2. q \in Routes /\ queue[q] \in Seq(Clients) /\ \A i, j \in DOMAIN queue[q] : queue[q][i] = queue[q][j] => i = j
  BY RouteType DEF PathInv, Queued, RouteOf
<1>3. p \in DOMAIN queue[q] /\ queue[q][p] = c
  BY <1>1 DEF PathInv, Queued, Place
<1>4. queue'[q] = RemoveAt(queue[q], p)
  BY <1>1, <1>2 DEF PathInv, Queued
<1>5. Without(queue[q], queue'[q], c)
  BY <1>2, <1>3, <1>4, RemovedAt
<1>6. queue' = [queue EXCEPT ![q] = queue'[q]]
  BY <1>1, <1>4
<1>7. request'[c] = NoRequest /\ \A d \in Clients : d # c => request'[d] = request[d]
  BY <1>1 DEF PathInv, ReadInv, ReadTypes
<1>8. Queued'
  <2>1. request'[c].at # "queued"
    BY <1>7 DEF NoRequest
  <2> QED
    BY <1>1, <1>5, <1>6, <1>7, <2>1, LeavesQueue DEF PathInv, ReadInv
<1>9. \A d \in Clients : Holding(d)' = Holding(d) /\ (Holding(d) => RouteOf(d)' = RouteOf(d))
  BY <1>1, <1>7 DEF Holding, RouteOf, NoRequest
<1> QED
  BY <1>1, <1>8, <1>9, NobodyMoves DEF PathInv

LEMMA SpawnPath ==
    ASSUME PathInv, NEW c \in Clients, Spawn(c)
    PROVE  Queued' /\ Conserved'
<1>1. /\ request[c].at = "handler" /\ request' = [request EXCEPT ![c].at = "awaiting"]
      /\ queue' = queue /\ permits' = permits
  BY DEF Spawn, Goes
<1>2. /\ request'[c].at = "awaiting" /\ request'[c].kind = request[c].kind
      /\ \A d \in Clients : d # c => request'[d] = request[d]
  BY <1>1 DEF PathInv, ReadInv, ReadTypes, Requests
<1>3. Queued'
  BY <1>1, <1>2, QueueStays DEF PathInv
<1>4. \A d \in Clients : Holding(d)' = Holding(d) /\ (Holding(d) => RouteOf(d)' = RouteOf(d))
  BY <1>1, <1>2 DEF Holding, RouteOf
<1> QED
  BY <1>1, <1>3, <1>4, NobodyMoves DEF PathInv

(* A request that ends has a permit and is not in the queue. *)
LEMMA EndPath ==
    ASSUME PathInv, NEW c \in Clients, Holding(c), Ends(c), queue' = queue
    PROVE  Queued' /\ Conserved'
<1>1. /\ request'[c] = NoRequest
      /\ \A d \in Clients : d # c => request'[d] = request[d]
  BY DEF Ends, PathInv, ReadInv, ReadTypes
<1>2. Queued'
  BY <1>1, QueueStays DEF PathInv, Holding, NoRequest
<1> QED
  BY <1>2, OneLeaves DEF PathInv

LEMMA StillPath ==
    ASSUME PathInv, UNCHANGED clientVars
    PROVE  Queued' /\ Conserved'
BY DEF PathInv, clientVars, Queued, Conserved, RouteOf, Holders, Holding

LEMMA PathInductive ==
    ASSUME PathInv, [Next]_vars
    PROVE  PathInv'
<1>1. ReadInv'
  BY ReadInvInductive DEF PathInv
<1>2. ASSUME NEW c \in Clients,
             \/ \E k \in Kinds : Send(c, k)
             \/ Grant(c) \/ BadRequest(c) \/ Spawn(c) \/ Timeout(c) \/ HangUp(c)
      PROVE  Queued' /\ Conserved' /\ poisoned' = poisoned
  <2>1. poisoned' = poisoned
    BY <1>2 DEF Send, Grant, BadRequest, Spawn, Timeout, HangUp, poolVars
  <2>2. CASE BadRequest(c) \/ Timeout(c)
    <3>1. Holding(c) /\ Ends(c) /\ queue' = queue
      BY <2>2 DEF BadRequest, Timeout, Holding
    <3> QED
      BY <2>1, <3>1, EndPath
  <2> QED
    BY <1>2, <2>1, <2>2, SendPath, GrantPath, SpawnPath, HangUpPath
<1>3. ASSUME NEW i \in Slots, Answer(i)
      PROVE  Queued' /\ Conserved' /\ poisoned' = poisoned
  <2>1. job[i].owner \in Clients /\ Holding(job[i].owner)
    BY <1>3 DEF Answer, PathInv, ReadInv, Owned, Holding
  <2>2. Ends(job[i].owner) /\ queue' = queue /\ poisoned' = poisoned
    BY <1>3 DEF Answer
  <2> QED
    BY <2>1, <2>2, EndPath
<1>4. ASSUME NEW i \in Slots,
             Enter(i) \/ Panic(i) \/ QueryError(i) \/ SearchGenerated(i) \/ Finish(i)
      PROVE  UNCHANGED clientVars /\ poisoned' \subseteq Generations
  <2>1. job[i].from \in Generations /\ poisoned \subseteq Generations
    BY DEF PathInv, ReadInv, ReadTypes, Jobs
  <2> QED
    BY <1>4, <2>1 DEF Enter, Panic, QueryError, SearchGenerated, Finish
<1>5. CASE Swap \/ UNCHANGED vars
  BY <1>1, <1>5, StillPath DEF Swap, vars, poolVars, PathInv
<1> QED
  BY <1>1, <1>2, <1>3, <1>4, <1>5, StillPath DEF PathInv, Next

LEMMA InitPath == Init => PathInv
<1> SUFFICES ASSUME Init PROVE PathInv
  OBVIOUS
<1>1. Queued
  <2>1. \A c \in Clients : request[c].at = "idle"
    BY DEF Init, NoRequest
  <2>2. queue \in [Routes -> Seq(Clients)] /\ \A r \in Routes : DOMAIN queue[r] = {}
    BY DEF Init
  <2> QED
    BY <2>1, <2>2 DEF Queued
<1>2. Conserved
  <2>1. \A r : Holders(r) = {}
    BY DEF Init, Holders, Holding, NoRequest
  <2>2. \A r : Cardinality(Holders(r)) = 0
    BY <2>1, FS_EmptySet
  <2> QED
    BY <2>2, RequestAssumption DEF Init, Conserved
<1> QED
  BY <1>1, <1>2, InitReads DEF PathInv, Init

LEMMA PathInvHolds == Spec => []PathInv
  BY InitPath, PathInductive, PTL DEF Spec

(* Who waits for a permit is in the queue of its route, once, and nobody   *)
(* else is in a queue: who has a permit never waits for another one.  A    *)
(* job belongs to a request that waits for it, and no job is finished for  *)
(* a client that has gone (rest/, lib.rs ConcurrencyLimitLayer).           *)
THEOREM PathTypes == Spec => []TypeOK
<1>1. PathInv => TypeOK
  BY DEF PathInv, ReadInv, ReadTypes, Owned, Conserved, TypeOK
<1> QED
  BY <1>1, PathInvHolds, PTL

(* No permit is lost or counted twice: whatever ends a request (an answer, *)
(* an error, the timeout, a panic of its job, a client that hangs up), the *)
(* free permits of a route and the requests past its semaphore are exactly *)
(* MAX_CONCURRENT_REQUESTS (lib.rs, GlobalConcurrencyLimitLayer).          *)
THEOREM PermitsConserved ==
    Spec => [](\A r \in Routes : permits[r] + Cardinality(Holders(r)) = Permits)
<1>1. PathInv => \A r \in Routes : permits[r] + Cardinality(Holders(r)) = Permits
  BY DEF PathInv, Conserved
<1> QED
  BY <1>1, PathInvHolds, PTL
=============================================================================
