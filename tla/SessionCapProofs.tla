-------------------------- MODULE SessionCapProofs --------------------------
(***************************************************************************)
(* The overshoot of the session cap is bounded, for every cap and every    *)
(* number of concurrent requests.                                          *)
(***************************************************************************)
EXTENDS SessionCap, FiniteSetTheorems, TLAPS

LEMMA TypesInductive ==
    ASSUME TypeOK, [Next]_vars
    PROVE  TypeOK'
<1> USE DEF TypeOK, Goes
<1>1. ASSUME NEW c \in Callers, Post(c) \/ Refuse(c) \/ Admit(c)
      PROVE  TypeOK'
  <2>1. /\ UNCHANGED <<sessions, known, dropped>>
        /\ call[c] \notin Ids /\ call'[c] \notin Ids
        /\ call' \in [Callers -> {"idle", "check", "insert"} \cup Ids]
        /\ \A d \in Callers : d # c => call'[d] = call[d]
    BY <1>1, CapAssumption DEF Post, Refuse, Admit
  <2> QED
    BY <2>1
<1>2. ASSUME NEW c \in Callers, Create(c)
      PROVE  TypeOK'
  <2>1. PICK s \in Ids \ sessions : /\ \A d \in Callers : call[d] # s
                                    /\ Goes(c, "insert", s)
                                    /\ sessions' = sessions \cup {s}
    BY <1>2 DEF Create
  <2>2. IsFiniteSet(sessions')
    BY <2>1, FS_AddElement
  <2>3. /\ call' \in [Callers -> {"idle", "check", "insert"} \cup Ids]
        /\ known' = known /\ dropped' = dropped
        /\ call[c] \notin Ids /\ call'[c] = s
        /\ \A d \in Callers : d # c => call'[d] = call[d]
    BY <1>2, <2>1, CapAssumption DEF Create
  <2>4. \A r \in sessions' : r \in known' \cup dropped' \/ \E d \in Callers : call'[d] = r
    BY <2>1, <2>3
  <2>5. ASSUME NEW d \in Callers, call'[d] \in Ids
        PROVE  /\ call'[d] \notin known' \cup dropped'
               /\ \A e \in Callers : call'[d] = call'[e] => d = e
    BY <2>1, <2>3, <2>5
  <2> QED
    BY <2>1, <2>2, <2>3, <2>4, <2>5
<1>3. ASSUME NEW c \in Callers, Initialized(c) \/ Timeout(c)
      PROVE  TypeOK'
  <2>1. /\ sessions' = sessions
        /\ call' \in [Callers -> {"idle", "check", "insert"} \cup Ids]
        /\ call'[c] \notin Ids
        /\ \A d \in Callers : d # c => call'[d] = call[d]
        /\ known \subseteq known' /\ dropped \subseteq dropped'
        /\ known' \cup dropped' = known \cup dropped \cup Created(c)
    BY <1>3, CapAssumption DEF Initialized, Timeout
  <2>2. known' \subseteq sessions' /\ dropped' \subseteq sessions'
    BY <1>3 DEF Initialized, Timeout, Created
  <2>3. \A s \in sessions' : s \in known' \cup dropped' \/ \E d \in Callers : call'[d] = s
    BY <2>1 DEF Created
  <2>4. ASSUME NEW d \in Callers, call'[d] \in Ids
        PROVE  /\ call'[d] \notin known' \cup dropped'
               /\ \A e \in Callers : call'[d] = call'[e] => d = e
    BY <2>1, <2>4 DEF Created
  <2> QED
    BY <2>1, <2>2, <2>3, <2>4
<1>4. ASSUME NEW s \in Ids, Drop(s) \/ Resume(s)
      PROVE  TypeOK'
  BY <1>4 DEF Drop, Resume
<1>5. ASSUME NEW s \in Ids, Close(s) \/ Reap(s)
      PROVE  TypeOK'
  <2>1. IsFiniteSet(sessions \ {s})
    BY FS_RemoveElement
  <2> QED
    BY <1>5, <2>1 DEF Close, Reap, Remove
<1>6. CASE UNCHANGED vars
  BY <1>6 DEF vars
<1> QED
  BY <1>1, <1>2, <1>3, <1>4, <1>5, <1>6 DEF Next, Caller

(* The callers past the check are no more than the callers there are. *)
LEMMA CallersBound ==
    ASSUME NEW S \in SUBSET Callers
    PROVE  /\ IsFiniteSet(S)
           /\ Cardinality(S) \in Nat /\ Cardinality(Callers) \in Nat \ {0}
           /\ Cardinality(S) <= Cardinality(Callers)
<1>1. IsFiniteSet(Callers) /\ Callers # {}
  BY CapAssumption
<1>2. IsFiniteSet(S) /\ Cardinality(S) <= Cardinality(Callers)
  BY <1>1, FS_Subset
<1>3. Cardinality(S) \in Nat /\ Cardinality(Callers) \in Nat
  BY <1>1, <1>2, FS_CardinalityType
<1>4. Cardinality(Callers) # 0
  BY <1>1, FS_EmptySet
<1> QED
  BY <1>2, <1>3, <1>4

(* One admission at a time: the count read is below the cap, and from then *)
(* on a session takes the place of its admission.                          *)
LEMMA OvershootInductive ==
    ASSUME TypeOK, BoundedOvershoot, [Next]_vars
    PROVE  BoundedOvershoot'
<1>1. /\ IsFiniteSet(Admitted) /\ Cardinality(Admitted) \in Nat
      /\ Cardinality(Callers) \in Nat \ {0} /\ MaxSessions \in Nat
  BY CallersBound, CapAssumption DEF Admitted
<1>2. IsFiniteSet(Admitted') /\ Cardinality(Admitted') \in Nat
      /\ Cardinality(Admitted') <= Cardinality(Callers)
  <2>1. Admitted' \in SUBSET Callers
    BY DEF Admitted
  <2> QED
    BY <2>1, CallersBound
<1>3. IsFiniteSet(sessions) /\ Cardinality(sessions) \in Nat
  BY FS_CardinalityType DEF TypeOK
<1>4. IsFiniteSet(sessions') /\ Cardinality(sessions') \in Nat
  BY TypesInductive, FS_CardinalityType DEF TypeOK
<1>5. ASSUME sessions' \subseteq sessions, Admitted' \subseteq Admitted
      PROVE  BoundedOvershoot'
  <2>1. Cardinality(sessions') <= Cardinality(sessions)
    BY <1>3, <1>5, FS_Subset
  <2>2. Cardinality(Admitted') <= Cardinality(Admitted)
    BY <1>1, <1>5, FS_Subset
  <2> QED
    BY <1>1, <1>2, <1>3, <1>4, <2>1, <2>2 DEF BoundedOvershoot
<1>6. ASSUME NEW c \in Callers, Admit(c)
      PROVE  BoundedOvershoot'
  <2>1. sessions' = sessions /\ Cardinality(sessions) < MaxSessions
    BY <1>1, <1>3, <1>6 DEF Admit, Full
  <2> QED
    BY <1>1, <1>2, <1>3, <2>1 DEF BoundedOvershoot
<1>7. ASSUME NEW c \in Callers, Create(c)
      PROVE  BoundedOvershoot'
  <2>1. PICK s \in Ids \ sessions : Goes(c, "insert", s) /\ sessions' = sessions \cup {s}
    BY <1>7 DEF Create
  <2>2. c \in Admitted /\ Admitted' = Admitted \ {c}
    BY <2>1, CapAssumption DEF Admitted, Goes, TypeOK
  <2>3. Cardinality(Admitted') = Cardinality(Admitted) - 1
    BY <1>1, <2>2, FS_RemoveElement
  <2>4. Cardinality(sessions') = Cardinality(sessions) + 1
    BY <1>3, <2>1, FS_AddElement
  <2> QED
    BY <1>1, <1>2, <1>3, <1>4, <2>3, <2>4 DEF BoundedOvershoot
<1>8. ASSUME NEW c \in Callers, Post(c) \/ Refuse(c) \/ Initialized(c) \/ Timeout(c)
      PROVE  BoundedOvershoot'
  <2>1. sessions' = sessions /\ Admitted' \subseteq Admitted
    BY <1>8 DEF Post, Refuse, Initialized, Timeout, Goes, Admitted, TypeOK
  <2> QED
    BY <1>5, <2>1
<1>9. ASSUME NEW s \in Ids, Drop(s) \/ Resume(s) \/ Close(s) \/ Reap(s)
      PROVE  BoundedOvershoot'
  <2>1. sessions' \subseteq sessions /\ Admitted' \subseteq Admitted
    BY <1>9 DEF Drop, Resume, Close, Reap, Remove, Admitted
  <2> QED
    BY <1>5, <2>1
<1>10. CASE UNCHANGED vars
  <2>1. sessions' = sessions /\ Admitted' = Admitted
    BY <1>10 DEF vars, Admitted
  <2> QED
    BY <1>5, <2>1
<1> QED
  BY <1>6, <1>7, <1>8, <1>9, <1>10 DEF Next, Caller

LEMMA InvHolds == Spec => [](TypeOK /\ BoundedOvershoot)
<1>1. Init => TypeOK /\ BoundedOvershoot
  <2> SUFFICES ASSUME Init
               PROVE  TypeOK /\ BoundedOvershoot
    OBVIOUS
  <2>1. TypeOK
    BY FS_EmptySet, CapAssumption DEF Init, TypeOK
  <2>2. Admitted = {}
    BY DEF Init, Admitted
  <2>3. Cardinality(Callers) \in Nat \ {0} /\ MaxSessions \in Nat
    BY CallersBound, CapAssumption
  <2> QED
    BY <2>1, <2>2, <2>3, FS_EmptySet DEF Init, BoundedOvershoot
<1>2. TypeOK /\ BoundedOvershoot /\ [Next]_vars => (TypeOK /\ BoundedOvershoot)'
  BY TypesInductive, OvershootInductive
<1> QED
  BY <1>1, <1>2, PTL DEF Spec

(* However many `initialize` requests race past the check and however many *)
(* of them time out, the map holds fewer sessions than the cap and the     *)
(* requests in flight together.                                            *)
THEOREM OvershootIsBounded == Spec => []BoundedOvershoot
<1> QED
  BY InvHolds, PTL

(* No session is left to itself: each one in the map is being initialized  *)
(* by one request, which nobody else works on, or its client knows its id, *)
(* or it is under the keep-alive; and nothing that is removed stays known  *)
(* or dropped (capped.rs, lib.rs TimeoutLayer).                            *)
THEOREM SessionTypes == Spec => []TypeOK
<1> QED
  BY InvHolds, PTL
=============================================================================
