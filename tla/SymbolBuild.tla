----------------------------- MODULE SymbolBuild -----------------------------
(***************************************************************************)
(* The offline build of the catalog (pack/src/emit.rs build) and the       *)
(* resolution of `extends` chains in what it has built                     *)
(* (symbols/src/resolver.rs).  The build is one transaction of three       *)
(* passes: insert every symbol, link each child to its parent, copy pin    *)
(* counts down the chains until nothing changes.                           *)
(*                                                                         *)
(* A symbol is <<library, name>>, which also stands for its row id.  Of a  *)
(* body only the number of its pins is kept.  The files are whatever       *)
(* parsed: a child whose parent did not parse, is missing or is in another *)
(* library is dangling, and nothing keeps chains from being long or cyclic.*)
(***************************************************************************)
EXTENDS Integers, FiniteSets

CONSTANTS Symbols,  \* the <<library, name>> that files may define
          Names,    \* the names a symbol may extend
          Null,     \* SQL's NULL, and Rust's None
          MaxDepth, \* MAX_EXTENDS_DEPTH
          MaxPins   \* bound: pins of a symbol

ASSUME BuildAssumption ==
    /\ IsFiniteSet(Symbols) /\ Null \notin Symbols /\ Null \notin Names
    /\ MaxDepth \in Nat /\ MaxPins \in Nat /\ Null \notin 0 .. MaxPins

VARIABLES pc,       \* the pass that runs next
          parsed,   \* the symbols of the files
          twice,    \* whether two of the files define one symbol
          parent,   \* symbol.parent_id, for each row
          body,     \* symbol.body: its pins, or Null
          count,    \* symbol.pin_count
          dangling, \* Stats.dangling_extends
          passes    \* history: updates of the third pass that changed a row

vars == <<pc, parsed, twice, parent, body, count, dangling, passes>>

Pins == 0 .. MaxPins
Parsed == [extends : Names \cup {Null}, pins : Pins]
Rows == DOMAIN parsed
Nothing == [s \in {} |-> Null]

TypeOK == /\ pc \in {"insert", "link", "backfill", "done", "failed"}
          /\ Rows \subseteq Symbols /\ parsed \in [Rows -> Parsed]
          /\ twice \in BOOLEAN
          /\ pc \in {"link", "backfill", "done"} =>
                /\ parent \in [Rows -> Rows \cup {Null}]
                /\ body \in [Rows -> Pins \cup {Null}]
                /\ count \in [Rows -> Pins]
          /\ dangling \subseteq Rows
          /\ passes \in Nat

Init == /\ pc = "insert"
        /\ parsed \in UNION {[S -> Parsed] : S \in SUBSET Symbols}
        /\ twice \in BOOLEAN /\ (twice => Rows # {})
        /\ parent = Nothing /\ body = Nothing /\ count = Nothing
        /\ dangling = {} /\ passes = 0

-----------------------------------------------------------------------------
Extends(s) == parsed[s].extends # Null

(* UNIQUE(lib_id, name) refuses the second insert, and the build ends. *)
Duplicate == /\ pc = "insert" /\ twice
             /\ pc' = "failed"
             /\ UNCHANGED <<parsed, twice, parent, body, count, dangling, passes>>

Insert == /\ pc = "insert" /\ ~twice
          /\ parent' = [s \in Rows |-> Null]
          /\ body' = [s \in Rows |-> IF Extends(s) THEN Null ELSE parsed[s].pins]
          /\ count' = [s \in Rows |-> parsed[s].pins]
          /\ pc' = "link"
          /\ UNCHANGED <<parsed, twice, dangling, passes>>

(* The row a child names: in its own library, wherever it was inserted. *)
NamedAnywhere(s) == {t \in Rows : Extends(s) /\ t[2] = parsed[s].extends}
Named(s) == {t \in Rows : Extends(s) /\ t = <<s[1], parsed[s].extends>>}

LinkedUnchecked(s) == IF Extends(s) THEN <<s[1], parsed[s].extends>> ELSE Null
Linked(s) == IF Named(s) = {} THEN Null ELSE CHOOSE t \in Named(s) : TRUE

Link == /\ pc = "link"
        /\ parent' = [s \in Rows |-> Linked(s)]
        /\ dangling' = {s \in Rows : Extends(s) /\ Named(s) = {}}
        /\ pc' = "backfill"
        /\ UNCHANGED <<parsed, twice, body, count, passes>>

(* The rows that one UPDATE of the third pass changes. *)
AnyHeir == {s \in Rows : parent[s] # Null /\ count[parent[s]] > 0}
ChildrenOfRoots == {s \in Rows : parent[s] # Null /\ count[s] = 0
                                 /\ count[parent[s]] > 0 /\ parent[parent[s]] = Null}
Starved == {s \in Rows : parent[s] # Null /\ count[s] = 0 /\ count[parent[s]] > 0}

Backfill == /\ pc = "backfill" /\ Starved # {}
            /\ count' = [s \in Rows |-> IF s \in Starved THEN count[parent[s]] ELSE count[s]]
            /\ passes' = passes + 1
            /\ UNCHANGED <<pc, parsed, twice, parent, body, dangling>>

Commit == /\ pc = "backfill" /\ Starved = {}
          /\ pc' = "done"
          /\ UNCHANGED <<parsed, twice, parent, body, count, dangling, passes>>

Next == Duplicate \/ Insert \/ Link \/ Backfill \/ Commit
Spec == Init /\ [][Next]_vars

-----------------------------------------------------------------------------
(* Resolver::resolve on the finished catalog.  CHAIN_CTE returns the row   *)
(* and its ancestors up to `depth < 8`, so nine rows at most, one more     *)
(* than the resolver accepts.                                              *)
DeepestOneLess == MaxDepth - 1
Deepest == MaxDepth

Ancestor(s) == LET at[d \in 0 .. Deepest] ==
                     IF d = 0 THEN s
                     ELSE IF at[d-1] = Null THEN Null ELSE parent[at[d-1]]
               IN  at

Chain(s) == {d \in 0 .. Deepest : Ancestor(s)[d] # Null}

TooDeep == [error |-> "ExtendsDepthExceeded"]
Found(pins, origin) == [pins |-> pins, parent |-> origin]

(* The body nearest to the end of the chain, an empty one when there is    *)
(* none; and as parent the end of the chain, not the row that is extended. *)
Body(s) == LET withBody == {d \in Chain(s) : body[Ancestor(s)[d]] # Null} IN
           IF withBody = {} THEN 0
           ELSE body[Ancestor(s)[CHOOSE d \in withBody : \A e \in withBody : e <= d]]

Resolve(s) == LET length == Cardinality(Chain(s)) IN
              IF length > MaxDepth THEN TooDeep
              ELSE Found(Body(s), IF length > 1 THEN Ancestor(s)[length - 1] ELSE Null)

-----------------------------------------------------------------------------
(* What the files say, without the catalog: a symbol, the one it extends,  *)
(* and so on, as the smallest set that is closed under `extends`.          *)
Closed(S) == \A s \in S : \A t \in Rows :
                Extends(s) /\ t = <<s[1], parsed[s].extends>> => t \in S

Lineage(s) == {t \in Rows : \A S \in SUBSET Rows : s \in S /\ Closed(S) => t \in S}

(* The end of a lineage: empty when it runs into a cycle. *)
Origins(s) == {t \in Lineage(s) : Named(t) = {}}

Expected(s) == IF Origins(s) = {} \/ Cardinality(Lineage(s)) > MaxDepth THEN TooDeep
               ELSE LET o == CHOOSE t \in Origins(s) : TRUE IN
                    Found(IF Extends(o) THEN 0 ELSE parsed[o].pins,
                          IF o = s THEN Null ELSE o)

(* Every symbol of a finished build resolves to the body of the symbol its *)
(* lineage ends in, or is refused: a lineage at the cap resolves, one past *)
(* it and a cycle do not, and none is cut short (README.md 15, "a child    *)
(* symbol's body comes back fully merged with its parent").                *)
ResolvesToOrigin == pc = "done" => \A s \in Rows : Resolve(s) = Expected(s)

(* A count comes from the symbol's own lineage, and is 0 only when nobody  *)
(* there has a pin: the third pass stops neither too early nor elsewhere,  *)
(* in cycles too (emit.rs 146-159).                                        *)
CountsInherited ==
    pc = "done" => \A s \in Rows :
        IF count[s] = 0 THEN \A t \in Lineage(s) : parsed[t].pins = 0
        ELSE \E t \in Lineage(s) : parsed[t].pins = count[s]

(* What a search says of the pins is what the resolver returns, as long as *)
(* no child brings pins of its own (symbols/tests/resolver.rs 72-74: "the  *)
(* body's pins.len() matches the catalog's pin_count").                    *)
CountsAgree ==
    pc = "done" => \A s \in Rows :
        (Resolve(s) # TooDeep /\ \A t \in Lineage(s) : Extends(t) => parsed[t].pins = 0)
            => count[s] = Resolve(s).pins

(* "This loop terminates in <= max-depth passes" (emit.rs 147): the        *)
(* updates that change a row, and the one that finds nothing to change,    *)
(* are no more than the rows of the longest lineage.                       *)
PassesWithinDepth ==
    passes > 0 => \E s \in Rows : passes < Cardinality(Lineage(s))
=============================================================================
