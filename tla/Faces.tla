------------------------------- MODULE Faces -------------------------------
(***************************************************************************)
(* The two faces of the server: what the REST handlers (server/src/rest/)  *)
(* and the MCP tools (server/src/mcp/server.rs) make of the arguments of a *)
(* request before they ask a catalog, and of an error after it.            *)
(*                                                                         *)
(* The arguments of a call are a function from the names of those that are *)
(* given.  An ask says which catalog is asked for what; a refused call is  *)
(* a bad request that names the first argument that is wrong.              *)
(***************************************************************************)
EXTENDS Words

CONSTANTS Width  \* bytes of the letters that take more than one

Tools == {"search", "compatible", "symbol", "offers", "mpn", "provenance", "list", "libraries"}

(* What the request types can hold: numbers that are not negative, words.  *)
IsArguments(a) == \A field \in DOMAIN a : IF field \in {"limit", "offset", "pins"}
                                          THEN a[field] \in Nat ELSE IsWord(a[field])

Bytes(word) == FoldLeft(LAMBDA sum, c : sum + IF c \in DOMAIN Width THEN Width[c] ELSE 1, 0, word)

Has(a, field) == field \in DOMAIN a
Solid(a, field) == Has(a, field) /\ Trim(a[field]) # <<>>
Over(a, field, cap) == Has(a, field) /\ Bytes(a[field]) > cap
Optional(a, field) == IF Has(a, field) THEN <<a[field]>> ELSE <<>>

(* unwrap_or(default).clamp(1, 200) *)
Clamp(a, default) == Max({1, Min({200, IF Has(a, "limit") THEN a.limit ELSE default})})

(* The checks in their order, each with the argument it refuses. *)
Refused(field) == [do |-> "refused", field |-> field]
Decide(checks, ask) == LET bad == {i \in DOMAIN checks : checks[i][1]} IN
                       IF bad = {} THEN ask ELSE Refused(checks[Min(bad)][2])

(* generated_connection, or for the libraries that begin with "generated:" *)
(* connection_for_lib.                                                     *)
GeneratedLib(lib) == IsPrefix(<<"generated", ":">>, lib)
CatalogFor(lib) == IF GeneratedLib(lib) THEN "generated" ELSE "base"

-----------------------------------------------------------------------------
(* part_offer_query.rs: split_symbol_id and symbol_id; symbol_keys of both *)
(* faces.  <<>> when there is no key.                                      *)
SplitSymbolId(id) ==
    LET at == {i \in DOMAIN id : id[i] = ":"}
        lib == Trim(SubSeq(id, 1, Min(at) - 1))
        name == Trim(SubSeq(id, Min(at) + 1, Len(id)))
    IN  IF at = {} \/ lib = <<>> \/ name = <<>> THEN <<>> ELSE <<lib, name>>
SymbolId(lib, name) == Trim(lib) \o <<":">> \o Trim(name)

Keys(a) == IF Has(a, "symbol_id") THEN SplitSymbolId(a.symbol_id)
           ELSE IF Solid(a, "lib") /\ Solid(a, "name") THEN <<Trim(a.lib), Trim(a.name)>>
           ELSE <<>>
NoKey(a) == IF Has(a, "symbol_id") THEN "symbol_id"
            ELSE IF ~Solid(a, "lib") THEN "lib"
            ELSE "name"

(* What is asked of the catalogs. *)
Search(a, default) == [do |-> "search", query |-> a.query, lib |-> Optional(a, "lib"),
                       limit |-> Clamp(a, default)]
Compatible(a, default) ==
    [do |-> "compatible", pins |-> Optional(a, "pins"), fp |-> Optional(a, "fp_pattern"),
     query |-> Optional(a, "query"), lib |-> Optional(a, "lib"), limit |-> Clamp(a, default)]
Symbol(a) == [do |-> "symbol", in |-> CatalogFor(a.lib), lib |-> a.lib, name |-> a.name]
Offers(a, catalog) == [do |-> "offers", in |-> catalog, lib |-> Keys(a)[1], name |-> Keys(a)[2],
                       id |-> SymbolId(Keys(a)[1], Keys(a)[2])]

(* PartId::new refuses a part without one of its three. *)
ByPart(a) == [do |-> "mpn", in |-> "generated",
              part |-> <<Trim(a.manufacturer), Trim(a.mpn), Trim(a.package)>>]
NoPart(a) == Trim(a.manufacturer) = <<>> \/ Trim(a.mpn) = <<>> \/ Trim(a.package) = <<>>

-----------------------------------------------------------------------------
(* The REST handlers. *)
RestSearch(a) ==
    Decide(<< <<Trim(a.query) = <<>>, "query">>, <<Over(a, "query", 256), "query">>,
              <<Over(a, "lib", 64), "lib">> >>,
           Search(a, 20))

RestCompatibleAnyLib(a) ==
    Decide(<< <<DOMAIN a \cap {"pins", "fp_pattern", "query"} = {}, "pins">>,
              <<Over(a, "query", 256), "query">>, <<Over(a, "fp_pattern", 64), "fp_pattern">> >>,
           Compatible(a, 50))
RestCompatible(a) ==
    Decide(<< <<DOMAIN a \cap {"pins", "fp_pattern", "query"} = {}, "pins">>,
              <<Over(a, "query", 256), "query">>, <<Over(a, "fp_pattern", 64), "fp_pattern">>,
              <<Over(a, "lib", 64), "lib">> >>,
           Compatible(a, 50))

RestSymbol(a) ==
    Decide(<< <<Over(a, "lib", 64), "lib">>, <<Over(a, "name", 128), "name">> >>,
           Symbol(a))

RestOffers(a) ==
    LET keys == Keys(a) IN
    IF keys = <<>> THEN Refused(NoKey(a))
    ELSE Decide(<< <<Bytes(keys[1]) > 64, "lib">>, <<Bytes(keys[2]) > 128, "name">>,
                   <<Over(a, "value", 256), "value">>, <<Over(a, "package", 64), "package">>,
                   <<Over(a, "market", 8), "market">> >>, Offers(a, "base"))

RestByMpn(a) ==
    Decide(<< <<Over(a, "manufacturer", 128), "manufacturer">>, <<Over(a, "mpn", 96), "mpn">>,
              <<Over(a, "package", 64), "package">>, <<NoPart(a), "part">> >>, ByPart(a))

RestProvenance(a) ==
    Decide(<< <<Over(a, "lib", 64), "lib">>, <<Over(a, "name", 128), "name">> >>,
           [do |-> "provenance", in |-> "generated", lib |-> a.lib, name |-> a.name])

RestList(a) ==
    Decide(<< <<Over(a, "lib", 64), "lib">> >>,
           [do |-> "list", lib |-> a.lib, limit |-> Clamp(a, 200),
            offset |-> Min({50000, IF Has(a, "offset") THEN a.offset ELSE 0})])

(* What a face has no route, or no tool, for. *)
OnRest(tool, a) == tool = "provenance" => DOMAIN a = {"lib", "name"}
OnMcp(tool, a) == tool # "list"

Rest(tool, a) == CASE tool = "search" -> RestSearch(a)
                   [] tool = "compatible" -> RestCompatible(a)
                   [] tool = "symbol" -> RestSymbol(a)
                   [] tool = "offers" -> RestOffers(a)
                   [] tool = "mpn" -> RestByMpn(a)
                   [] tool = "provenance" -> RestProvenance(a)
                   [] tool = "list" -> RestList(a)
                   [] tool = "libraries" -> [do |-> "libraries"]

-----------------------------------------------------------------------------
(* The MCP tools. *)
McpSearch(a) ==
    Decide(<< <<Trim(a.query) = <<>>, "query">>, <<Over(a, "query", 256), "query">>,
              <<Over(a, "lib", 64), "lib">> >>,
           Search(a, 20))

McpCompatible(a) ==
    Decide(<< <<DOMAIN a \cap {"pins", "fp_pattern", "query"} = {}, "pins">>,
              <<Over(a, "query", 256), "query">>, <<Over(a, "fp_pattern", 64), "fp_pattern">>,
              <<Over(a, "lib", 64), "lib">> >>,
           Compatible(a, 50))

McpSymbol(a) ==
    Decide(<< <<Over(a, "lib", 64), "lib">>, <<Over(a, "name", 128), "name">> >>,
           Symbol(a))

McpOffers(a) ==
    LET keys == Keys(a) IN
    IF keys = <<>> THEN Refused(NoKey(a))
    ELSE Decide(<< <<Bytes(keys[1]) > 64, "lib">>, <<Bytes(keys[2]) > 128, "name">>,
                   <<Over(a, "value", 256), "value">>, <<Over(a, "package", 64), "package">>,
                   <<Over(a, "market", 8), "market">> >>, Offers(a, CatalogFor(keys[1])))

McpByMpn(a) ==
    Decide(<< <<Over(a, "manufacturer", 128), "manufacturer">>, <<Over(a, "mpn", 96), "mpn">>,
              <<Over(a, "package", 64), "package">>, <<NoPart(a), "part">> >>, ByPart(a))

(* Either the revision or the symbol, whatever of it is not blank. *)
McpProvenance(a) ==
    LET revision == Solid(a, "revision_id")
        symbol == Solid(a, "lib") \/ Solid(a, "name")
        Long(field, cap) == Solid(a, field) /\ Bytes(Trim(a[field])) > cap
    IN  Decide(<< <<revision = symbol \/ (Solid(a, "lib") # Solid(a, "name")), "revision_id">>,
                  <<Long("revision_id", 256), "revision_id">>, <<Long("lib", 64), "lib">>,
                  <<Long("name", 128), "name">> >>,
               IF revision
               THEN [do |-> "revision", in |-> "generated", revision |-> Trim(a.revision_id)]
               ELSE [do |-> "provenance", in |-> "generated", lib |-> Trim(a.lib), name |-> Trim(a.name)])

Mcp(tool, a) == CASE tool = "search" -> McpSearch(a)
                  [] tool = "compatible" -> McpCompatible(a)
                  [] tool = "symbol" -> McpSymbol(a)
                  [] tool = "offers" -> McpOffers(a)
                  [] tool = "mpn" -> McpByMpn(a)
                  [] tool = "provenance" -> McpProvenance(a)
                  [] tool = "libraries" -> [do |-> "libraries"]

-----------------------------------------------------------------------------
(* Which errors are the caller's: AppError::into_response, and map_sym,    *)
(* map_join and check_len.                                                 *)
Errors == {"BadRequest", "SymbolNotFound", "InvalidQuery", "SchemaVersionMismatch",
           "ExtendsDepthExceeded", "UnknownBodyFormat", "Sql", "Join"}
RestStatus(error) == CASE error = "SymbolNotFound" -> 404
                       [] error \in {"BadRequest", "InvalidQuery"} -> 400
                       [] OTHER -> 500
McpCode(error) == IF error \in {"BadRequest", "SymbolNotFound", "InvalidQuery"}
                  THEN "INVALID_PARAMS" ELSE "INTERNAL_ERROR"
=============================================================================
