---------------------------- MODULE CatalogSearch ----------------------------
(***************************************************************************)
(* A request that searches or browses the catalogs, from its arguments to  *)
(* its answer (state.rs search_catalogs, symbols/src/search.rs,            *)
(* server/src/rest/, server/src/mcp/server.rs), while the refresh task     *)
(* swaps the generated catalog.  A search reads the base first, then the   *)
(* generated catalog that is live at that moment, and merges the two.      *)
(*                                                                         *)
(* A row's score is one number whatever the query, lower is better; `text` *)
(* are its four indexed columns, the last of them its footprint filters.   *)
(* Libraries and names are words, whose order is that of Order.            *)
(***************************************************************************)
EXTENDS QueryText, Faces, FiniteSets

CONSTANTS Base,   \* the rows of the base catalog, official and baked in
          Packs,  \* the generated catalogs the refresh task may swap in
          Calls,  \* the calls clients make: <<tool, arguments>>
          Order   \* <<lib, name>> of all rows, in the order of their text

Rows == Base \cup UNION Packs

ASSUME CatalogsAssumption ==
    /\ IsFiniteSet(Base) /\ \A pack \in Packs : IsFiniteSet(pack)
    /\ \A r \in Rows : /\ r.source \in {"official", "generated"} /\ r.score \in Nat
                       /\ \E i \in DOMAIN Order : Order[i] = <<r.lib, r.name>>
    /\ DOMAIN Order \subseteq Nat
    /\ \A r \in Rows : /\ DOMAIN r.text = 1 .. 4 /\ \A i \in 1 .. 4 : IsWord(r.text[i])
                       /\ IsWord(r.footprint)
    /\ \A a, b \in Base :  \* UNIQUE(lib_id, name)
          a.source = "official" /\ b.source = "official" /\ a.lib = b.lib /\ a.name = b.name => a = b
IsCall(tool, a) == tool \in Tools /\ IsArguments(a) /\ (tool = "search" => Has(a, "query"))
ASSUME CallsAssumption == \A c \in Calls : IsCall(c[1], c[2])

VARIABLES live,    \* generated_conn: <<>>, or <<pack>>
          pc,      \* what the request waits for
          call,    \* the call, and ...
          ask,     \* ... what is asked of the catalogs
          items,   \* what the search has so far
          seen,    \* history: what was live since the request came
          answer   \* the error or the rows of the answer, and (a history) which
                   \* generated catalog they are from

vars == <<live, pc, call, ask, items, seen, answer>>

Nothing == [error |-> "none", rows |-> <<>>, from |-> <<>>]
Failure(error) == [Nothing EXCEPT !.error = error]

-----------------------------------------------------------------------------
(* ORDER BY and LIMIT: the first of the rows, in every order that Before   *)
(* leaves open.                                                            *)
FirstOf(rows, limit, Before(_, _)) ==
    {s \in [1 .. Min({limit, Cardinality(rows)}) -> rows] :
        /\ \A i, j \in DOMAIN s : i < j => s[i] # s[j] /\ ~Before(s[j], s[i])
        /\ \A i \in DOMAIN s : \A r \in rows \ Range(s) : ~Before(r, s[i])}

Id(r) == <<r.lib, r.name>>
Place(r) == CHOOSE i \in DOMAIN Order : Order[i] = Id(r)
ByScore(a, b) == a.score < b.score
ByName(a, b) == Place(a) < Place(b)
ByPins(a, b) == a.pins < b.pins \/ (a.pins = b.pins /\ ByName(a, b))
Better(a, b) == ByScore(a, b) \/ (a.score = b.score /\ ByName(a, b))

Official(rows) == {r \in rows : r.source = "official"}
InLib(rows, lib) == {r \in rows : lib = <<>> \/ lib = <<r.lib>>}

-----------------------------------------------------------------------------
(* search::search: generated rows only if published, at most `limit` of    *)
(* the rows that match, the best ones.                                     *)
Visible(rows) == {r \in InLib(rows, ask.lib) : r.source = "official" \/ r.status = "published"}

Matching(query, rows) ==
    LET text == NormalizeQuery(query) IN
    IF Beyond(text) THEN SUBSET rows ELSE {{r \in rows : Match(text, r.text) = <<TRUE>>}}

Tops(rows, limit) == {top \in kSubset(Min({limit, Cardinality(rows)}), rows) :
                         \A r \in top, q \in rows \ top : ~ByScore(q, r)}
Results(rows) == UNION {Tops(match, ask.limit) : match \in Matching(ask.query, Visible(rows))}

(* query_error: what FTS5 refuses is the caller's error. *)
Refuses(query) == LET text == NormalizeQuery(query) IN
                  IF Beyond(text) THEN BOOLEAN ELSE {~Accepts(text)}

(* The merge: sorted by score, library and name, and of one symbol only    *)
(* the best row.                                                           *)
Deduped(rows) == {kept \in SUBSET rows :
    /\ \A r \in rows : Cardinality({k \in kept : Id(k) = Id(r)}) = 1
    /\ \A k \in kept, r \in rows : Id(k) = Id(r) => ~ByScore(r, k)}
Merged(rows) == UNION {FirstOf(kept, ask.limit, Better) : kept \in Deduped(rows)}

-----------------------------------------------------------------------------
(* search::find_compatible: the official rows that pass every filter given. *)
Pattern(fp) == <<"%">> \o EscapeLike(fp) \o <<"%">>
Passing == {r \in Official(InLib(Base, ask.lib)) :
    /\ ask.pins = <<>> \/ ask.pins = <<r.pins>>
    /\ \A i \in DOMAIN ask.fp : Like(r.text[4], Pattern(ask.fp[i])) \/ Like(r.footprint, Pattern(ask.fp[i]))}
Compatibles == IF ask.query = <<>> THEN FirstOf(Passing, ask.limit, ByPins)
               ELSE UNION {FirstOf(match, ask.limit, ByScore) : match \in Matching(ask.query[1], Passing)}

(* rest/search.rs list_symbols: a page of a library's official symbols. *)
Pages == LET rows == Official(InLib(Base, <<ask.lib>>)) IN
         {SubSeq(s, ask.offset + 1, Len(s)) :
             s \in FirstOf(rows, ask.offset + ask.limit, ByName)}

-----------------------------------------------------------------------------
Init == /\ live \in {<<>>} \cup {<<p>> : p \in Packs}
        /\ pc = "idle" /\ call = <<>> /\ ask = [do |-> "nothing"]
        /\ items = {} /\ seen = {} /\ answer = Nothing

(* reload_generated. *)
Reload(pack) == /\ live' = <<pack>>
                /\ seen' = IF pc = "idle" THEN {} ELSE seen \cup {live'}
                /\ UNCHANGED <<pc, call, ask, items, answer>>

(* What asks for one symbol or for provenance is looked up elsewhere. *)
Arrive(c) ==
    /\ pc = "idle"
    /\ call' = c
    /\ \/ OnRest(c[1], c[2]) /\ ask' = Rest(c[1], c[2])
       \/ OnMcp(c[1], c[2]) /\ ask' = Mcp(c[1], c[2])
    /\ pc' = IF ask'.do \in {"search", "compatible", "list"} THEN ask'.do ELSE "answered"
    /\ answer' = IF ask'.do = "refused" THEN Failure("BadRequest") ELSE Nothing
    /\ seen' = {live}
    /\ UNCHANGED <<live, items>>

Answer(a) == pc' = "answered" /\ answer' = a /\ UNCHANGED <<live, call, ask, seen>>

SearchRefused == /\ pc = "search"
                 /\ TRUE \in Refuses(ask.query)
                 /\ Answer(Failure("InvalidQuery"))
                 /\ UNCHANGED items

SearchBase == /\ pc = "search"
              /\ FALSE \in Refuses(ask.query)
              /\ items' \in Results(Base)
              /\ pc' = "merge"
              /\ UNCHANGED <<live, call, ask, seen, answer>>

(* The baked-in generated rows are dropped only if there is a catalog to   *)
(* search instead.                                                         *)
MergeKeepsBaked == /\ pc = "merge" /\ live # <<>>
                   /\ \E found \in Results(live[1]) : \E rows \in Merged(items \cup found) :
                         Answer([error |-> "none", rows |-> rows, from |-> live])
                   /\ items' = {}
MergeLive == /\ pc = "merge" /\ live # <<>>
             /\ \E found \in Results(live[1]) :
                   \E rows \in Merged(Official(items) \cup (found \ Official(found))) :
                      Answer([error |-> "none", rows |-> rows, from |-> live])
             /\ items' = {}
MergeNone == /\ pc = "merge" /\ live = <<>>
             /\ \E rows \in Merged(items) : Answer([error |-> "none", rows |-> rows, from |-> live])
             /\ items' = {}

CompatibleRefused == /\ pc = "compatible" /\ ask.query # <<>>
                     /\ TRUE \in Refuses(ask.query[1])
                     /\ Answer(Failure("InvalidQuery"))
                     /\ UNCHANGED items
FindCompatible == /\ pc = "compatible"
                  /\ ask.query # <<>> => FALSE \in Refuses(ask.query[1])
                  /\ \E rows \in Compatibles : Answer([Nothing EXCEPT !.rows = rows])
                  /\ UNCHANGED items

ListSymbols == /\ pc = "list"
               /\ \E rows \in Pages : Answer([Nothing EXCEPT !.rows = rows])
               /\ UNCHANGED items

Return == /\ pc = "answered"
          /\ pc' = "idle" /\ call' = <<>> /\ ask' = [do |-> "nothing"]
          /\ answer' = Nothing /\ seen' = {}
          /\ UNCHANGED <<live, items>>

Next == \/ \E pack \in Packs : Reload(pack)
        \/ \E c \in Calls : Arrive(c)
        \/ SearchRefused \/ SearchBase \/ MergeLive \/ MergeNone
        \/ CompatibleRefused \/ FindCompatible \/ ListSymbols \/ Return
Spec == Init /\ [][Next]_vars

-----------------------------------------------------------------------------
Answered(do) == pc = "answered" /\ ask.do = do /\ answer.error = "none"

(* "Generated rows in the baked catalog are ignored in that mode so        *)
(* superseded runtime data cannot leak through stale image state"          *)
(* (state.rs 80-82): the generated rows of an answer are published rows of *)
(* one catalog that was live while the request ran, and baked-in ones only *)
(* while there was none, whatever is swapped in between the two reads.     *)
SupersededNeverLeaks ==
    Answered("search") =>
        LET generated == Range(answer.rows) \ Official(Base) IN
        /\ \A r \in generated : r.source = "generated" /\ r.status = "published"
        /\ \E l \in seen : generated \subseteq IF l = <<>> THEN Base ELSE l[1]

(* The first `limit` of some rows, no symbol twice, and no row before one  *)
(* it is worse than.                                                       *)
BestOf(rows, all, limit, Before(_, _)) ==
    LET ids == {Id(rows[i]) : i \in DOMAIN rows} IN
    /\ Range(rows) \subseteq all
    /\ Cardinality(ids) = Len(rows)
    /\ Len(rows) = Min({limit, Cardinality({Id(r) : r \in all})})
    /\ \A i, j \in DOMAIN rows : i < j => ~Before(rows[j], rows[i])
    /\ \A r \in all, i \in DOMAIN rows : Id(r) \notin ids => ~Before(r, rows[i])

ShouldFind(rows) == {r \in Visible(rows) : Meant(ask.query, r.text)}
OneRowEach(rows) == \A a, b \in rows : Id(a) = Id(b) => a = b

(* An answer is what a reader of the query expects (README.md 60, "FTS5    *)
(* over name/desc/keywords/filters"; search.rs 138-171): the best of all   *)
(* rows that have each of its words, counts padded or not, whatever        *)
(* catalog they are in.  Taken for granted: no more rows of a catalog match *)
(* than the limit, or each is a symbol of its own and none of the base is  *)
(* dropped; and an official row has one score in either catalog.           *)
Complete ==
    Answered("search") /\ Plain(ask.query) =>
        LET base == ShouldFind(Base)
            found == IF answer.from = <<>> THEN {} ELSE ShouldFind(answer.from[1])
            all == IF answer.from = <<>> THEN base ELSE Official(base) \cup (found \ Official(Base))
            Fits(rows) == Cardinality(rows) <= ask.limit
        IN  /\ Fits(base) \/ (OneRowEach(base) /\ (answer.from # <<>> => base = Official(base)))
            /\ Fits(found) \/ OneRowEach(found)
            => /\ BestOf(answer.rows, {r \in all : \A q \in all : Id(q) = Id(r) => ~ByScore(q, r)},
                         ask.limit, ByScore)
               /\ \A i, j \in DOMAIN answer.rows : i < j => Better(answer.rows[i], answer.rows[j])

(* What a proof takes for granted of FTS5: that an official row in a pack  *)
(* has the score it has in the base.                                       *)
OneScore == \A pack \in Packs : Official(pack) \subseteq Base

(* find_compatible takes its filters literally (search.rs 617-625), also a *)
(* footprint with the metacharacters of LIKE, and returns the first of all *)
(* official symbols that meet them.                                        *)
CompatibleLiteral ==
    Answered("compatible") /\ (ask.query = <<>> \/ Plain(ask.query[1])) =>
        LET Says(word, part) == Contained(Lowered(part), Lowered(word))
            good == {r \in Base :
                /\ r.source = "official"
                /\ ask.lib # <<>> => ask.lib[1] = r.lib
                /\ ask.pins # <<>> => ask.pins[1] = r.pins
                /\ ask.fp # <<>> => Says(r.text[4], ask.fp[1]) \/ Says(r.footprint, ask.fp[1])
                /\ ask.query # <<>> => Meant(ask.query[1], r.text)}
        IN  IF ask.query = <<>> THEN BestOf(answer.rows, good, ask.limit, ByPins)
            ELSE BestOf(answer.rows, good, ask.limit, ByScore)

(* A query is refused if and only if FTS5 refuses it as the client wrote   *)
(* it: the rewriting never makes a valid query invalid (search.rs 130-140, *)
(* "rewriting risks turning a well-formed query into a malformed one").    *)
(* Taken for granted: no + in it, which FTS5 knows and has_fts5_syntax     *)
(* does not.                                                               *)
Query == IF ask.do = "search" THEN ask.query ELSE ask.query[1]
RefusedForCause ==
    (/\ pc = "answered"
     /\ ask.do = "search" \/ (ask.do = "compatible" /\ ask.query # <<>>)
     /\ ~Beyond(Query) /\ "+" \notin Range(Query))
    => (answer.error = "InvalidQuery" <=> ~Accepts(Query))

(* "the same queries for humans and non-MCP clients" (README.md 8): REST   *)
(* and MCP refuse the same calls for the same argument and ask the same of *)
(* the catalogs, and what is the caller's fault on one face is on the      *)
(* other; and the symbol_id of an offer asks either for the same symbol.   *)
(* Taken for granted: no blanks around a symbol whose provenance is asked, *)
(* no colon in the library of an offer; the catalog of offers differs (see *)
(* RequestPath).                                                           *)
SameCatalog(a) == IF a.do = "offers" THEN [a EXCEPT !.in = "base"] ELSE a
Shared(tool, a) == /\ OnRest(tool, a) /\ OnMcp(tool, a)
                   /\ tool = "provenance" => /\ a.lib = Trim(a.lib) /\ a.lib # <<>>
                                             /\ a.name = Trim(a.name) /\ a.name # <<>>
FacesAskAlike ==
    pc # "idle" /\ Shared(call[1], call[2]) =>
        /\ SameCatalog(Rest(call[1], call[2])) = SameCatalog(Mcp(call[1], call[2]))
        /\ ask.do = "offers" /\ ":" \notin Range(ask.lib) =>
              SplitSymbolId(ask.id) = <<ask.lib, ask.name>>
        /\ \A e \in Errors : RestStatus(e) < 500 <=> McpCode(e) = "INVALID_PARAMS"
=============================================================================
