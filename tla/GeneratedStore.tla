--------------------------- MODULE GeneratedStore ---------------------------
(***************************************************************************)
(* The store of generated symbols: the offline merge of an ingestion       *)
(* database into a catalog (pack/src/main.rs `generated`,                  *)
(* pack/src/generated_source.rs, symbols/src/generated.rs), the rebuild    *)
(* that empties it, and the lookups that the two faces of the server make  *)
(* in the result.                                                          *)
(*                                                                         *)
(* The merge works in the file it is given, without a journal: a merge     *)
(* that does not commit leaves the file as it was or torn.  A timestamp is *)
(* <<second, fraction>>, fraction 0 for none written, and is compared as   *)
(* the text it is.                                                         *)
(***************************************************************************)
EXTENDS SymbolText, Words, FiniteSets

CONSTANTS Offers,    \* the rows the producer may write, in a sequence
          Images,    \* the catalogs the first merge may find
          Generated, \* the library names that begin with "generated:"
          Compiled,  \* the offers that are as the compiler writes them
          Spellings, \* how clients write parts: <<raw, the part it names>>
          MaxRows    \* bound: rows of the ingestion database

VARIABLES source,   \* generated_revision: offers are added, never changed
          file,     \* the catalog
          pc,       \* what the packer is doing
          work,     \* the catalog inside the transaction
          seen,     \* the rows of the source that the merge reads ...
          todo,     \* ... and those of them it has not read yet
          result    \* how the last run of the packer ended

vars == <<source, file, pc, work, seen, todo, result>>

-----------------------------------------------------------------------------
(* part_id.rs: normalize_manufacturer, PartId::new and PartId::key. *)
Normalize(raw) ==
    LET Spaced(out, c) == CASE ~Blank(c) -> Append(out, LowerOf(c))
                            [] Blank(c) /\ out # <<>> /\ ~Blank(Last(out)) -> Append(out, " ")
                            [] OTHER -> out
        out == FoldLeft(Spaced, <<>>, raw)
    IN  IF out # <<>> /\ Blank(Last(out)) THEN Front(out) ELSE out

PartId(raw) == [maker |-> Normalize(raw.maker), mpn |-> Trim(raw.mpn), package |-> Trim(raw.package)]
IsPart(part) == part.maker # <<>> /\ part.mpn # <<>> /\ part.package # <<>>
Key(part) == part.maker \o <<"|">> \o part.mpn \o <<"|">> \o part.package

-----------------------------------------------------------------------------
(* SourceRevision::validate_and_prepare.  `faults` are the checks of single *)
(* columns that the row fails: size, digest, provenance, status, pin range. *)
Canonical(row) == LET part == PartId(row.part) IN
                  IsPart(part) /\ part.maker = row.part.maker /\ row.lib \in Generated

IdentityAsWritten(row, sym) ==
    /\ Value(sym, "Value") = row.name /\ Value(sym, "MPN") = row.part.mpn
    /\ Value(sym, "Manufacturer") = row.part.maker
    /\ Value(sym, "package") = row.part.package
Identity(row, sym) ==
    /\ Value(sym, "Value") = row.name /\ Value(sym, "MPN") = row.part.mpn
    /\ Normalize(Value(sym, "Manufacturer")) = row.part.maker
    /\ Value(sym, "package") = row.part.package

Drifted(row, sym) == sym.name # row.name \/ Len(sym.pins) # row.pins \/ ~Identity(row, sym)

BodyOf(sym) == [pins |-> sym.pins, units |-> sym.units, graphics |-> sym.graphics,
                flags |-> sym.flags, props |-> sym.props]
BodyIn(text) == BodyOf(ExtractLib(Parse(text).root[1]).symbols[1])

Refused(why) == [error |-> why, body |-> <<>>]
Prepare(row) ==
    LET tree == Parse(row.text)
        lib == ExtractLib(tree.root[1])
    IN  IF row.faults # {} \/ ~Canonical(row) THEN Refused("column")
        ELSE IF tree.error # "none" THEN Refused("parse")
        ELSE IF lib.error # "none" THEN Refused(lib.error)
        ELSE IF Len(lib.symbols) # 1 THEN Refused("symbols")
        ELSE IF Drifted(row, lib.symbols[1]) THEN Refused("drift")
        ELSE [error |-> "none", body |-> BodyIn(row.text)]
Prepared == [o \in DOMAIN Offers |-> Prepare(Offers[o])]

(* NewRevision, as the row that insert_revision writes; part_id is what    *)
(* joins it to the registry.                                               *)
Store(row, body) == [rev |-> row.rev, key |-> Key(PartId(row.part)), lib |-> row.lib,
                     name |-> row.name, body |-> body, text |-> row.text, prov |-> row.prov,
                     status |-> row.status, at |-> row.at]
Stored(o) == Store(Offers[o], Prepared[o].body)

-----------------------------------------------------------------------------
(* A catalog: whether it has the generated tables, whether these have the  *)
(* symbol_text column, and the two tables.                                 *)
Empty(there, torn, tables) == [there |-> there, torn |-> torn, tables |-> tables, column |-> tables,
                               registry |-> <<>>, rows |-> {}]
Missing == Empty(FALSE, FALSE, FALSE)
Fresh == Empty(TRUE, FALSE, TRUE)
Official == Empty(TRUE, FALSE, FALSE)
(* One from before symbol_text. *)
Legacy(o) == [Fresh EXCEPT !.column = FALSE,
                           !.registry = Key(PartId(Offers[o].part)) :> PartId(Offers[o].part),
                           !.rows = {[Stored(o) EXCEPT !.text = <<>>]}]

(* Timestamps as text: the fraction's point sorts before the Z that ends   *)
(* a timestamp without one.                                                *)
TextBefore(a, b) == \/ a[1] < b[1]
                    \/ a[1] = b[1] /\ a[2] # b[2] /\ (b[2] = 0 \/ (a[2] # 0 /\ a[2] < b[2]))

RowBefore(a, b) == TextBefore(a.at, b.at) \/ (a.at = b.at /\ a.rev <= b.rev)

-----------------------------------------------------------------------------
Instant == Nat \X Nat

(* revision_id is a primary key, part_id a foreign one. *)
Catalog(f) ==
    /\ DOMAIN f = {"there", "torn", "tables", "column", "registry", "rows"}
    /\ f.rows # {} => f.there /\ f.tables
    /\ ~f.column => \A r \in f.rows : r.text = <<>>
    /\ \A r \in f.rows : r.key \in DOMAIN f.registry /\ r.at \in Instant
    /\ \A r, q \in f.rows : r.rev = q.rev => r = q

ASSUME StoreAssumption ==
    /\ MaxRows \in Nat
    /\ \A o \in DOMAIN Offers :
          /\ Offers[o].at \in Instant
          /\ Offers[o].text \in Seq({t \in Range(Offers[o].text) : Token(t)})
    /\ \A f \in Images :
          /\ Catalog(f)
          /\ \A r \in f.rows : r.lib \in Generated /\ (r.text # <<>> => r.body = BodyIn(r.text))

(* A row that says of its revision what the compiler did, and a catalog of  *)
(* such rows, whose registry has the parts of these rows.                   *)
SaysOf(row, c) == row.rev = c.rev /\ row.key = Key(c.part) /\ row.status = c.status /\ row.at = c.at
FromCompiled(f) ==
    /\ \A r \in f.rows : \E c \in Compiled : SaysOf(r, c)
    /\ \A k \in DOMAIN f.registry : \E r \in f.rows, c \in Compiled :
          r.rev = c.rev /\ f.registry[k] = c.part /\ k = Key(c.part)

(* The compiler uses a revision id once, writes parts as their id spells   *)
(* them, and is the only origin of rows that validate.                     *)
ASSUME CompiledAssumption ==
    /\ \A c, d \in Compiled : c.rev = d.rev => c = d
    /\ \A c \in Compiled : PartId(c.part) = c.part /\ IsPart(c.part)
    /\ \A o \in DOMAIN Offers : Prepared[o].error = "none" =>
          \E c \in Compiled : SaysOf(Stored(o), c) /\ PartId(Offers[o].part) = c.part
    /\ \A f \in Images : FromCompiled(f)
    /\ \A s \in Spellings : PartId(s[1]) = s[2]

TypeOK == /\ pc \in {"idle", "merging", "building"}
          /\ source \in Seq(DOMAIN Offers) /\ Len(source) <= MaxRows
          /\ seen \in 0 .. Len(source) /\ todo \subseteq 1 .. seen
          /\ result \in {"none", "ok", "error", "panic", "killed"}
          /\ Catalog(file) /\ Catalog(work)

Init == /\ source = <<>> /\ file \in Images /\ pc = "idle"
        /\ work = Missing /\ seen = 0 /\ todo = {} /\ result = "none"

(* The producer: revision_id is a primary key, and triggers refuse updates *)
(* and deletes.                                                            *)
Publish == /\ Len(source) < MaxRows
           /\ \E o \in DOMAIN Offers :
                 /\ \A i \in DOMAIN source : Offers[source[i]].rev # Offers[o].rev
                 /\ source' = Append(source, o)
           /\ UNCHANGED <<file, pc, work, seen, todo, result>>

(* run_generated_sync, up to the first row: the schema is completed before *)
(* the transaction, the column is added inside it.                         *)
WithTables(f) == IF f.tables THEN f ELSE [f EXCEPT !.tables = TRUE, !.column = TRUE]
Begin == /\ pc = "idle" /\ file.there /\ ~file.torn
         /\ file' = WithTables(file)
         /\ work' = [WithTables(file) EXCEPT !.column = TRUE]
         /\ seen' = Len(source) /\ todo' = DOMAIN source
         /\ pc' = "merging"
         /\ UNCHANGED <<source, result>>

(* sync_from_ingestion's loop: ORDER BY published_at, revision_id. *)
Rev(i) == Offers[source[i]].rev
Outcome(i) == Prepared[source[i]].error
NextRow(i) == i \in todo /\ \A j \in todo : RowBefore(Offers[source[i]], Offers[source[j]])

SameRev(i) == {r \in work.rows : r.rev = Rev(i)}
Repeated(i) == \E r \in SameRev(i) : r.body = Prepared[source[i]].body /\ r.text = Offers[source[i]].text

Taken(i) == /\ pc = "merging" /\ NextRow(i) /\ Outcome(i) = "none"
            /\ todo' = todo \ {i}
            /\ UNCHANGED <<source, file, pc, seen, result>>

Skip(i) == Taken(i) /\ Repeated(i) /\ UNCHANGED work

(* OR IGNORE keeps the part that first had a key. *)
Registered(registry, part) == [key \in DOMAIN registry \cup {Key(part)} |->
                                  IF key \in DOMAIN registry THEN registry[key] ELSE part]

WithoutPart(f, o) == [f EXCEPT !.rows = @ \cup {Stored(o)}]
WithRow(f, o) == [f EXCEPT !.registry = Registered(@, PartId(Offers[o].part)),
                           !.rows = @ \cup {Stored(o)}]

(* insert_revision. *)
InsertOrReplace(i) ==
    /\ Taken(i) /\ ~Repeated(i)
    /\ work' = WithRow([work EXCEPT !.rows = @ \ SameRev(i)], source[i])
InsertOnePerPart(i) ==
    /\ Taken(i) /\ SameRev(i) = {}
    /\ work' = IF Key(PartId(Offers[source[i]].part)) \in DOMAIN work.registry THEN work
               ELSE WithRow(work, source[i])
Insert(i) == Taken(i) /\ SameRev(i) = {} /\ work' = WithRow(work, source[i])

Commit == /\ pc = "merging" /\ todo = {}
          /\ file' = work /\ pc' = "idle" /\ result' = "ok"
          /\ work' = Missing
          /\ UNCHANGED <<source, seen, todo>>

(* The transaction is dropped with nothing to roll back with: pages that   *)
(* the cache already wrote stay.                                           *)
Dropped == /\ pc' = "idle"
           /\ \E torn \in BOOLEAN : file' = [file EXCEPT !.torn = torn]
           /\ work' = Missing /\ seen' = 0 /\ todo' = {}
           /\ UNCHANGED source

(* A row that does not validate, or RevisionBodyMismatch. *)
Fail(i) == /\ pc = "merging" /\ NextRow(i) /\ result' = "error" /\ Dropped
           /\ \/ Outcome(i) \notin {"none", "panic"}
              \/ Outcome(i) = "none" /\ SameRev(i) # {} /\ ~Repeated(i)

Panic(i) == /\ pc = "merging" /\ NextRow(i) /\ result' = "panic" /\ Dropped
            /\ Outcome(i) = "panic"

Killed == /\ pc = "merging" /\ result' = "killed" /\ Dropped

(* The top-level build removes the file and writes a new one, with the     *)
(* official symbols and no generated ones.                                 *)
Unlink == /\ pc = "idle"
          /\ pc' = "building" /\ file' = Missing
          /\ seen' = 0 /\ todo' = {}
          /\ UNCHANGED <<source, work, result>>
Built == /\ pc = "building"
         /\ pc' = "idle" /\ file' = Fresh /\ result' = "none"
         /\ UNCHANGED <<source, work, seen, todo>>
BuildKilled == /\ pc = "building"
               /\ pc' = "idle" /\ result' = "killed"
               /\ file' \in {Missing, Empty(TRUE, TRUE, FALSE)}
               /\ UNCHANGED <<source, work, seen, todo>>

Merge == \/ Begin \/ Commit \/ Killed
         \/ \E i \in todo : Skip(i) \/ Insert(i) \/ Fail(i) \/ Panic(i)
Next == Publish \/ Merge \/ Unlink \/ Built \/ BuildKilled
Spec == Init /\ [][Next]_vars

-----------------------------------------------------------------------------
(* The lookups, as the set of rows LIMIT 1 may return; an old artifact has *)
(* no generated tables and is an empty store.                              *)
PublishedAnyStatus == file.rows
Published == {r \in file.rows : r.status = "published"}
Latest(S) == {r \in S : \A q \in S : ~TextBefore(r.at, q.at)}

ResolveByMpn(raw) ==
    IF ~IsPart(PartId(raw)) THEN {}
    ELSE Latest({r \in Published : file.registry[r.key] = PartId(raw)})

(* Resolver::resolve sends the generated libraries here. *)
CurrentByLibName(lib, name) ==
    IF lib \notin Generated THEN {}
    ELSE Latest({r \in Published : r.lib = lib /\ r.name = name})

ProvenanceUnpublished(lib, name) ==
    {r.prov : r \in Latest({r \in file.rows : r.lib = lib /\ r.name = name})}
ProvenanceForSymbol(lib, name) ==
    {r.prov : r \in Latest({r \in Published : r.lib = lib /\ r.name = name})}
ProvenanceForRevision(rev) == {r.prov : r \in {q \in file.rows : q.rev = rev}}

-----------------------------------------------------------------------------
Whole == file.there /\ ~file.torn

(* A stored revision never changes: once in a catalog, it keeps its body,  *)
(* its part and its text through every later merge, and leaves only with   *)
(* the file (generated.rs 157-160: "different bodies under the same id are *)
(* a hard error", "revision ids ... must be immutable").                   *)
RevisionsImmutable ==
    [][Whole /\ Whole' => \A r \in file.rows : \E q \in file'.rows :
           q = r /\ file'.registry[q.key] = file.registry[r.key]]_vars

(* A merge that reports success has every row of the source in the         *)
(* catalog, under its revision id and with the text the producer wrote,    *)
(* whatever the catalog already had (main.rs 202-226).                     *)
MergedWhole ==
    (pc = "idle" /\ result = "ok") =>
        \A i \in 1 .. seen : \E r \in file.rows :
            /\ r.rev = Rev(i) /\ r.text = Offers[source[i]].text
            /\ Len(r.body.pins) = Offers[source[i]].pins

(* What the producer said of the revisions that the catalog has. *)
Known == {o \in Compiled : \E r \in file.rows : r.rev = o.rev}
Before(a, b) == a[1] < b[1] \/ (a[1] = b[1] /\ a[2] < b[2])

OneKey(part) == \A o \in Known : Key(o.part) = Key(part) => o.part = part
OnePrecision(S) == \A o, p \in S : (o.at[2] = 0) = (p.at[2] = 0)

(* "Resolve an exact manufacturer + MPN + package identity to its          *)
(* currently published generated symbol" (README.md 82): however the       *)
(* client spells the part, it gets the newest published revision of that   *)
(* part and of no other, and nothing when there is none.  Taken for        *)
(* granted: no other part has the same registry key, and the timestamps of *)
(* one part are written with the same precision.                           *)
ResolvesExactly ==
    Whole => \A s \in Spellings :
        LET of == {o \in Known : o.part = s[2] /\ o.status = "published"} IN
        OneKey(s[2]) /\ OnePrecision(of) =>
            {r.rev : r \in ResolveByMpn(s[1])}
                = {o.rev : o \in {p \in of : \A q \in of : ~Before(p.at, q.at)}}

(* The id that resolve_by_mpn returns leads back to the same revision:     *)
(* get_symbol and the provenance of `lib:name` and of the revision id are  *)
(* about it.  Taken for granted: one part per name, and no second          *)
(* published revision of the same instant.                                 *)
IdLeadsBack ==
    Whole => \A s \in Spellings : \A r \in ResolveByMpn(s[1]) :
        LET same == {q \in file.rows : q.lib = r.lib /\ q.name = r.name /\ q.status = "published"} IN
        (\A q \in same : q.key = r.key /\ (q.at = r.at => q = r)) =>
            /\ CurrentByLibName(r.lib, r.name) = {r}
            /\ ProvenanceForSymbol(r.lib, r.name) = {r.prov}
            /\ ProvenanceForRevision(r.rev) = {r.prov}

(* A row that is damaged, or that contradicts what is stored. *)
Contradicts(row) == \E r \in file.rows : r.rev = row.rev /\ r.text # row.text
Bare(text) == \E i \in 1 .. Len(text) - 2 :
    text[i] = Open /\ text[i + 1] \in {Atom("symbol"), Atom("text")} /\ text[i + 2] = Close

(* A merge fails only for a cause: never on rows as the compiler writes    *)
(* them, however their part is spelt in the text, and never on a source    *)
(* that is merged again (pack/tests/pipeline.rs 302: "must be              *)
(* idempotent"); and it panics only on a bare (symbol) or (text).          *)
FailsForCause ==
    [][pc = "merging" /\ pc' = "idle" =>
         LET rows == {Offers[source[i]] : i \in 1 .. seen} IN
         /\ result' = "error" => \E row \in rows : row \notin Compiled \/ Contradicts(row)
         /\ result' = "panic" => \E row \in rows : Bare(row.text)]_vars

(* What a proof takes for granted: rows as the compiler writes them         *)
(* validate.                                                               *)
CompiledValidate == \A o \in DOMAIN Offers : Offers[o] \in Compiled => Prepared[o].error = "none"

(* The tokens are one tree, said without a parser: the first opens what    *)
(* the last, and no earlier one, closes; no quote is left open; and no     *)
(* element is deeper than the limit.                                       *)
Level(text, n) == Cardinality({i \in 1 .. n : text[i] = Open})
                  - Cardinality({i \in 1 .. n : text[i] = Close})
OneTree(text) ==
    /\ text # <<>> /\ Level(text, Len(text)) = 0
    /\ \A i \in 1 .. Len(text) - 1 : Level(text, i) > 0
    /\ \A i \in DOMAIN text :
          text[i] # Cut /\ (text[i] # Close => Level(text, i - 1) <= MaxNesting)

(* The parser accepts exactly the texts that are one tree within the       *)
(* limit, and nothing after it (sexpr.rs 31-46).                           *)
Parsed == {o \in DOMAIN Offers : Parse(Offers[o].text).error = "none"}
Trees == {o \in DOMAIN Offers : OneTree(Offers[o].text)}
ParsesOneTree == \A i \in DOMAIN source : source[i] \in Parsed <=> source[i] \in Trees
=============================================================================
