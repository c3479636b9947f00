----------------------------- MODULE SessionCap -----------------------------
(***************************************************************************)
(* CappedSessionManager (server/src/mcp/capped.rs): `initialize` requests  *)
(* create MCP sessions in rmcp's map, at most max_sessions of them, and a  *)
(* session whose connection is gone is reaped after the keep-alive.        *)
(*                                                                         *)
(* The session count is read under a read lock and the session inserted    *)
(* under a write lock taken later: two awaits, and other requests run in   *)
(* between.  The request timeout may drop the call at each await.          *)
(***************************************************************************)
EXTENDS Naturals, FiniteSets

CONSTANTS Callers,     \* requests that may be in flight at once
          Ids,         \* session ids
          MaxSessions  \* max_sessions

ASSUME CapAssumption == /\ IsFiniteSet(Callers) /\ Callers # {}
                        /\ Ids \cap {"idle", "check", "insert"} = {}
                        /\ MaxSessions \in Nat

VARIABLES call,      \* where each caller is: in create_session, or initializing
                     \* the session it has created
          sessions,  \* rmcp's session map
          known,     \* sessions whose id was returned to their client
          dropped    \* sessions whose HTTP connection is gone

vars == <<call, sessions, known, dropped>>

(* Every session is being initialized, by one request, or its client knows *)
(* its id, or it hears nothing.                                            *)
TypeOK == /\ call \in [Callers -> {"idle", "check", "insert"} \cup Ids]
          /\ sessions \subseteq Ids /\ IsFiniteSet(sessions)
          /\ known \subseteq sessions /\ dropped \subseteq sessions
          /\ \A s \in sessions : \/ s \in known \cup dropped
                                 \/ \E c \in Callers : call[c] = s
          /\ \A c \in Callers : call[c] \in Ids =>
                /\ call[c] \notin known \cup dropped
                /\ \A d \in Callers : call[c] = call[d] => c = d

Init == /\ call = [c \in Callers |-> "idle"]
        /\ sessions = {} /\ known = {} /\ dropped = {}

Goes(c, from, to) == call[c] = from /\ call' = [call EXCEPT ![c] = to]

-----------------------------------------------------------------------------
Post(c) == Goes(c, "idle", "check") /\ UNCHANGED <<sessions, known, dropped>>

(* `active >= self.max_sessions`: TooManySessions. *)
Full == Cardinality(sessions) >= MaxSessions

Refuse(c) == /\ Full
             /\ Goes(c, "check", "idle")
             /\ UNCHANGED <<sessions, known, dropped>>

AdmitOffByOne(c) == /\ Cardinality(sessions) <= MaxSessions
                    /\ Goes(c, "check", "insert")
                    /\ UNCHANGED <<sessions, known, dropped>>
Admit(c) == /\ ~Full
            /\ Goes(c, "check", "insert")
            /\ UNCHANGED <<sessions, known, dropped>>

(* LocalSessionManager::create_session: a fresh id, inserted.  (An id that *)
(* is free again stands for one that was never given.)                     *)
Create(c) == /\ \E s \in Ids \ sessions :
                   /\ \A d \in Callers : call[d] # s
                   /\ Goes(c, "insert", s)
                   /\ sessions' = sessions \cup {s}
             /\ UNCHANGED <<known, dropped>>

(* The session that the request of c has created, if it is still there. *)
Created(c) == {call[c]} \cap sessions

Initialized(c) == /\ \E s \in Ids : Goes(c, s, "idle")
                  /\ known' = known \cup Created(c)
                  /\ UNCHANGED <<sessions, dropped>>

(* The timeout layer, or the client, drops the call.  A session it has     *)
(* created stays in the map, and its client never learns the id.           *)
TimeoutUnnoticed(c) == /\ call[c] # "idle"
                       /\ call' = [call EXCEPT ![c] = "idle"]
                       /\ UNCHANGED <<sessions, known, dropped>>
Timeout(c) == /\ call[c] # "idle"
              /\ call' = [call EXCEPT ![c] = "idle"]
              /\ dropped' = dropped \cup Created(c)
              /\ UNCHANGED <<sessions, known>>

-----------------------------------------------------------------------------
(* The sessions' own lives.  Only a client that knows its session comes    *)
(* back to it.                                                             *)
Drop(s) == /\ s \in known \ dropped
           /\ dropped' = dropped \cup {s}
           /\ UNCHANGED <<call, sessions, known>>

Resume(s) == /\ s \in known \cap dropped
             /\ dropped' = dropped \ {s}
             /\ UNCHANGED <<call, sessions, known>>

RemoveKeepsDropped(s) == /\ sessions' = sessions \ {s}
                         /\ known' = known \ {s}
                         /\ UNCHANGED <<call, dropped>>
Remove(s) == /\ sessions' = sessions \ {s}
             /\ known' = known \ {s} /\ dropped' = dropped \ {s}
             /\ UNCHANGED call

Close(s) == s \in sessions /\ Remove(s)

Reap(s) == s \in dropped /\ Remove(s)

Caller(c) == \/ Post(c) \/ Refuse(c) \/ Admit(c) \/ Create(c) \/ Initialized(c)
             \/ Timeout(c)

Next == \/ \E c \in Callers : Caller(c)
        \/ \E s \in Ids : Drop(s) \/ Resume(s) \/ Close(s) \/ Reap(s)

(* SESSION_KEEP_ALIVE is set: the worker of a session that hears nothing   *)
(* for 60 s ends and its session is removed.  The timeout layer wraps /mcp *)
(* as well: no request stays in create_session or initialize_session for   *)
(* ever.                                                                   *)
Spec == /\ Init /\ [][Next]_vars
        /\ \A s \in Ids : WF_vars(Reap(s))
        /\ \A c \in Callers : WF_vars(Timeout(c))

-----------------------------------------------------------------------------
Admitted == {c \in Callers : call[c] = "insert"}

(* The check and the insert are not atomic: the cap may be passed, but by  *)
(* fewer sessions than there are requests in flight, however they          *)
(* interleave and time out ("a small overshoot", capped.rs 62-64).         *)
BoundedOvershoot ==
    Cardinality(sessions) + Cardinality(Admitted) < MaxSessions + Cardinality(Callers)

(* The cap shuts no one out for the sake of clients that are gone: if the  *)
(* map is full for ever, each session is given up for good or belongs to a *)
(* client that was told its id and comes back again and again.  What       *)
(* timed-out `initialize` requests and dead connections leave behind does  *)
(* not hold the cap (capped.rs 12-13 and 26-29: "bounds zombie             *)
(* accumulation").                                                         *)
LockoutIsByUse ==
    <>[]Full => \A s \in Ids : \/ <>[](s \notin sessions)
                               \/ <>[](s \in known) /\ []<>(s \notin dropped)
=============================================================================
