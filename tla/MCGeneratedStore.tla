-------------------------- MODULE MCGeneratedStore --------------------------
(* Parts of one manufacturer that share a name (so, qf) or a registry key  *)
(* (left, right), revisions that share an instant, that differ in the      *)
(* precision of their timestamps or are not published, a maker with a      *)
(* letter outside ASCII, and a text with every damage of one token.        *)
EXTENDS GeneratedStore

so == [maker |-> <<"t", " ", "i">>, mpn |-> <<"lm">>, package |-> <<"so">>]
qf == [so EXCEPT !.package = <<"qf">>]
left == [so EXCEPT !.package = <<"so", "|", "x">>]
right == [so EXCEPT !.mpn = <<"lm", "|", "so">>, !.package = <<"x">>]
wurth == [so EXCEPT !.maker = <<"t", "u..">>]

Key1(key, value) == <<Open, Atom("property"), Atom(key), Str(value), Close>>
TextOf(part, unit) ==
    <<Open, Atom("kicad_symbol_lib"), Open, Atom("symbol"), Str(part.mpn)>>
    \o Key1("Value", part.mpn) \o Key1("MPN", part.mpn)
    \o Key1("Manufacturer", <<"T">> \o Tail(part.maker)) \o Key1("package", part.package)
    \o <<Open, Atom("symbol"), Str(part.mpn \o <<"_", "0", "_", "1">>),
         Open, Atom("text"), Str(<<"x">>), Close, Close>>
    \o <<Open, Atom("symbol"), Str(part.mpn \o <<"_", unit, "_", "1">>),
         Open, Atom("pin"), Atom("passive"), Atom("line"), Close, Close>>
    \o <<Close, Close>>

Compile(rev, part, at, status) ==
    [rev |-> rev, part |-> part, lib |-> "generated:ti", name |-> part.mpn, at |-> at,
     status |-> status, text |-> TextOf(part, "1"), pins |-> 1, prov |-> rev, faults |-> {}]

first == Compile(1, so, <<1, 0>>, "published")
Rows == <<first, Compile(2, so, <<2, 0>>, "published"), Compile(3, so, <<3, 0>>, "quarantined"),
          Compile(4, so, <<1, 5>>, "published"), Compile(5, so, <<2, 0>>, "published"),
          Compile(6, qf, <<2, 0>>, "published"), Compile(7, left, <<1, 0>>, "published"),
          Compile(8, right, <<2, 0>>, "published")>>
MCCompiled == Range(Rows)
(* As the compiler writes it too; only MCForeignText.cfg counts it so. *)
foreign == Compile(9, wurth, <<2, 0>>, "published")
WithForeign == MCCompiled \cup {foreign}

(* Cut short, a token missing, a token twice, an element in a list of its  *)
(* own, a quote that stays open, something after the end.                  *)
Damages(text) ==
    LET n == Len(text) IN
    [i \in 1 .. n |-> SubSeq(text, 1, i - 1)]
    \o [i \in 1 .. n |-> SubSeq(text, 1, i - 1) \o SubSeq(text, i + 1, n)]
    \o [i \in 1 .. n |-> SubSeq(text, 1, i) \o SubSeq(text, i, n)]
    \o [i \in 1 .. n |-> SubSeq(text, 1, i - 1) \o <<Open, text[i], Close>> \o SubSeq(text, i + 1, n)]
    \o <<Front(text) \o <<Cut>>, Append(text, Cut), Append(text, Atom("x"))>>
Damaged == LET texts == Damages(first.text) IN
           [i \in DOMAIN texts |-> [first EXCEPT !.text = texts[i]]]
Faulty == <<[first EXCEPT !.faults = {"digest"}], [first EXCEPT !.lib = "ti"],
            [first EXCEPT !.part.maker = <<"T", " ", "i">>], [first EXCEPT !.pins = 2],
            [first EXCEPT !.name = <<"ml">>]>>
MCOffers == Rows \o <<foreign>> \o Damaged \o Faulty

other == [first EXCEPT !.text = TextOf(so, "2")]
(* The last one has another text under a revision id of the source. *)
MCImages == {Official, Fresh, Legacy(1),
             [Legacy(1) EXCEPT !.column = TRUE, !.rows = {Store(other, BodyIn(other.text))}]}
MCSpellings == {<<so, so>>, <<qf, qf>>, <<left, left>>, <<right, right>>,
                <<[maker |-> <<" ", "T", " ", " ", "I">>, mpn |-> <<" ", "lm">>, package |-> <<"so", " ">>], so>>,
                <<[so EXCEPT !.mpn = <<"LM">>], [so EXCEPT !.mpn = <<"LM">>]>>}
MCLower == "T" :> "t" @@ "I" :> "i"
MCDecimal == "0" :> 0 @@ "1" :> 1 @@ "2" :> 2
MCWide == "u.." :> <<"A~", "1/4">>
MCGenerated == {"generated:ti"}
=============================================================================
