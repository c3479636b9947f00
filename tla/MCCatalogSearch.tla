-------------------------- MODULE MCCatalogSearch --------------------------
(* Symbols with padded and unpadded counts, whose words are in different   *)
(* columns, that share a score; generated ones with a superseded, a second *)
(* and an unpublished revision; calls with arguments at and past each cap. *)
EXTENDS CatalogSearch

dev == <<"dev">>
ti == <<"generated", ":", "ti">>
conn == <<"Conn", "_", "0", "1", "x", "0", "2">>
lcd == <<"lcd", "_", "1", "6", "x", "2">>
gate == <<"and", "_", "gate">>
lm == <<"LM">>
lmx == <<"LM", "-", "x">>

Row(lib, name, source, score, words, fp, pins) ==
    [lib |-> lib, name |-> name, source |-> source, status |-> "published", score |-> score,
     text |-> <<name, words, <<>>, fp>>, pins |-> pins, footprint |-> <<>>]

officials == {Row(dev, conn, "official", 2, <<"pin", " ", "header">>, <<"so", "_", "8">>, 2),
              Row(dev, lcd, "official", 2, <<"pin">>, <<"so", "8">>, 2),
              [Row(dev, gate, "official", 1, <<"LM">>, <<>>, 3) EXCEPT !.footprint = <<"SO", "_", "%">>],
              Row(dev, lm, "official", 3, <<"header">>, <<"so", "\\", "_">>, 1)}
baked == Row(ti, lm, "generated", 1, <<"pin">>, <<"so">>, 2)
second == [baked EXCEPT !.score = 2, !.text[2] = <<"header">>]
other == Row(ti, lmx, "generated", 2, <<"pin", " ", "LM">>, <<"so">>, 2)
draft == [other EXCEPT !.status = "draft", !.score = 1]

MCBase == officials \cup {baked}
MCPacks == {{second, other, draft}, MCBase \cup {second}}
MCOrder == <<<<dev, gate>>, <<dev, conn>>, <<dev, lm>>, <<dev, lcd>>, <<ti, lm>>, <<ti, lmx>>>>

Queries == {<<"conn", "_", "1", "X", "2">>, <<"1", "6", "x", "2", " ", "pin">>, <<"1", "x", "0", "2">>,
            <<"header", " ", "_", "lm">>, <<"pin">>, <<"lm">>, <<"AND", "_", "gate">>, <<"lm", " ", "AND">>,
            <<"lm", "-", "x">>, <<"_">>, <<" ">>, <<"1", "0", "1", "x", "2">>,
            <<"(", "lm", " ", "NOT", " ", "pin", ")">>, <<"lm", " ", "+", " ", "x">>}
Long == <<"c255">>
Letters(size) == IF size = 0 THEN <<>> ELSE [i \in 1 .. size |-> "a"]
Searches ==
    {"query" :> q @@ "limit" :> n : q \in Queries, n \in {0, 2}} \cup
    {"query" :> q @@ "lib" :> l @@ "limit" :> 300 : q \in Queries, l \in {dev, ti}} \cup
    {"query" :> <<"pin">> @@ "limit" :> 3, "query" :> <<"name", ":", "lm">> @@ "limit" :> 1,
     "query" :> Long \o <<"a">>, "query" :> Long \o <<"a", "a">>,
     "query" :> <<"lm">> @@ "lib" :> <<"c64">>, "query" :> <<"lm">> @@ "lib" :> <<"c64", "a">>}
CompatibleCalls ==
    {"fp_pattern" :> f @@ "limit" :> n : f \in {<<"so">>, <<"_">>, <<"%">>, <<"\\">>, <<"SO", "_">>, <<"8">>, <<>>},
                                         n \in {2, 50}} \cup
    {"query" :> q @@ "limit" :> 2 : q \in Queries} \cup
    {"pins" :> 2 @@ "query" :> <<"pin">>, "pins" :> 2 @@ "lib" :> dev, "pins" :> 0, "lib" :> dev,
     "pins" :> 2 @@ "lib" :> <<"c64", "a">>,
     "pins" :> 1 @@ "fp_pattern" :> <<"c64">>, "pins" :> 1 @@ "fp_pattern" :> <<"c64", "a">>,
     "query" :> <<>>, "query" :> Long \o <<"a", "a">>}
At(lib, name) == "lib" :> lib @@ "name" :> name
Keyed == {At(dev, lm), At(ti, lm), At(<<"c64">>, <<"c64", "c64">>), At(<<"c64", "a">>, lm),
          At(dev, <<"c64", "c64", "a">>)}
OfferCalls ==
    Keyed \cup {At(<<" ", "dev">>, <<"LM", " ">>), At(dev, <<" ">>),
     At(dev, lm \o <<":", "so">>), "lib" :> dev, "name" :> lm,
     "symbol_id" :> <<"dev", ":", " ", "LM">>, "symbol_id" :> <<"dev">>, "symbol_id" :> <<":", "LM">>,
     "symbol_id" :> <<"dev", ":", "LM", ":", "so">> @@ "lib" :> <<>>,
     "symbol_id" :> ti \o <<":">> \o lm,
     At(dev, lm) @@ "value" :> Long \o <<"a", "a">>, At(dev, lm) @@ "package" :> <<"c64", "a">>,
     At(dev, lm) @@ "market" :> Letters(9), At(dev, lm) @@ "market" :> Letters(8)}
Parts == {[manufacturer |-> m, mpn |-> n, package |-> p] :
             m \in {<<"T", "I">>, <<" ">>, <<"c64", "c64", "a">>},
             n \in {<<"LM">>, <<>>, <<"c64">> \o Letters(33)}, p \in {<<"so">>, <<"c64", "a">>}}
Provenances == Keyed \cup {At(dev, <<>>), At(<<" ", "dev">>, lm),
                           At(dev, lm) @@ "revision_id" :> <<"r">>, "revision_id" :> <<" ", "r">>}
MCCalls ==
    ({"search"} \X Searches) \cup ({"compatible"} \X CompatibleCalls) \cup ({"symbol"} \X Keyed)
    \cup ({"offers"} \X OfferCalls) \cup ({"mpn"} \X Parts) \cup ({"provenance"} \X Provenances)
    \cup ({"list"} \X {"lib" :> dev @@ "limit" :> 3 @@ "offset" :> 2, "lib" :> ti, "lib" :> <<"c64", "a">>})
    \cup {<<"libraries", <<>>>>}
MCLower == "X" :> "x" @@ "LM" :> "lm" @@ "Conn" :> "conn" @@ "SO" :> "so"
MCWidth == "c255" :> 255 @@ "c64" :> 64
=============================================================================
