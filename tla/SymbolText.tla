----------------------------- MODULE SymbolText -----------------------------
(***************************************************************************)
(* What a symbol's text means: the parser of pack/src/sexpr.rs and the     *)
(* extraction of pack/src/kicad.rs.                                        *)
(*                                                                         *)
(* A text is the sequence of its tokens, a word the sequence of its        *)
(* letters (a letter may stand for several that are never told apart).     *)
(* "cut" is a quote that is never closed.  Coordinates, fonts, strokes and *)
(* the texts of pins are left out.                                         *)
(***************************************************************************)
EXTENDS Integers, SequencesExt

CONSTANTS MaxNesting,  \* sexpr.rs MAX_DEPTH
          Decimal,     \* the letters that parse as u8, and their values
          Wide         \* the letters outside ASCII, and those of their UTF-8 bytes

ASSUME TextAssumption == MaxNesting \in Nat

Open == [is |-> "open", word |-> <<>>]
Close == [is |-> "close", word |-> <<>>]
Cut == [is |-> "cut", word |-> <<>>]
Atom(name) == [is |-> "atom", word |-> <<name>>]
Str(word) == [is |-> "str", word |-> word]
Token(t) == \/ t \in {Open, Close, Cut}
            \/ t.is \in {"atom", "str"} /\ t = [is |-> t.is, word |-> t.word]

(* Sexpr.  parse_str pushes each byte as a char, so a letter of several     *)
(* bytes becomes several letters; parse_atom decodes UTF-8.                *)
Decoded(word) == FoldLeft(LAMBDA out, c : out \o IF c \in DOMAIN Wide THEN Wide[c] ELSE <<c>>,
                          <<>>, word)
Leaf(token) == [is |-> token.is, items |-> <<>>,
                word |-> IF token.is = "str" THEN Decoded(token.word) ELSE token.word]
List(items) == [is |-> "list", word |-> <<>>, items |-> items]

-----------------------------------------------------------------------------
(* parse, parse_one and parse_list.  `lists` are the lists being read, the *)
(* frames of the recursion; an element is read one level deeper than its   *)
(* list, and the level is checked before anything else.                    *)
Reading == [lists |-> <<>>, root |-> <<>>, error |-> "none"]

Stop(at, error) == [at EXCEPT !.error = error]
Put(at, node) == IF at.lists = <<>> THEN [at EXCEPT !.root = <<node>>]
                 ELSE [at EXCEPT !.lists[Len(at.lists)] = Append(@, node)]
Return(at) == Put([at EXCEPT !.lists = Front(@)], List(Last(at.lists)))

ReadOne(at, token) ==
    IF at.error # "none" THEN at
    ELSE IF token.is = "close" /\ at.lists # <<>> THEN Return(at)
    ELSE IF Len(at.lists) > MaxNesting THEN Stop(at, "TooDeep")
    ELSE CASE token.is = "close" -> Stop(at, "UnbalancedClose")
           [] token.is = "cut" -> Stop(at, "UnterminatedString")
           [] token.is = "open" -> [at EXCEPT !.lists = Append(@, <<>>)]
           [] OTHER -> Put(at, Leaf(token))
Read(at, token) ==
    IF at.error = "none" /\ at.root # <<>> THEN Stop(at, "Trailing") ELSE ReadOne(at, token)

(* After each number of tokens. *)
Readings(text) ==
    LET after[n \in 0 .. Len(text)] ==
            IF n = 0 THEN Reading ELSE Read(after[n - 1], text[n])
    IN  after
Parse(text) ==
    LET end == Readings(text)[Len(text)] IN
    IF end.error = "none" /\ end.root = <<>> THEN Stop(end, "Eof") ELSE end

-----------------------------------------------------------------------------
(* list_head (of a node that is no list with an atom in front: nothing),   *)
(* as_text, first_yes_no and find_yes_no.                                  *)
Head1(node) == IF node.is = "list" /\ node.items # <<>> /\ node.items[1].is = "atom"
               THEN node.items[1].word ELSE <<>>
IsText(node) == node.is # "list"
TextAt(items, i) == IF i <= Len(items) /\ IsText(items[i]) THEN items[i].word ELSE <<>>

FirstYes(items) == TextAt(items, 2) = <<"yes">>
FindYes(items, key) == LET named == SelectSeq(items, LAMBDA n : Head1(n) = <<key>>) IN
                       named # <<>> /\ FirstYes(named[1].items)

After(items, n) == SubSeq(items, n + 1, Len(items))

(* parse_unit_suffix: the parent's name, a unit and a body style. *)
UnitOf(sub, parent) ==
    LET suffix == After(sub, Len(parent)) IN
    IF /\ IsPrefix(parent, sub) /\ Len(suffix) = 4
       /\ suffix[1] = "_" /\ suffix[2] \in DOMAIN Decimal
       /\ suffix[3] = "_" /\ suffix[4] \in DOMAIN Decimal
    THEN <<Decimal[suffix[2]], Decimal[suffix[4]]>> ELSE <<0, 1>>

-----------------------------------------------------------------------------
(* ParsedSymbol; `error` is the ExtractError that ends the extraction, or  *)
(* "panic": a slice from past the end of its list.                         *)
Named(name) == [name |-> name, extends |-> <<>>, flags |-> {}, props |-> <<>>,
                units |-> <<>>, pins |-> <<>>, graphics |-> <<>>, error |-> "none"]
Unnamed == Stop(Named(<<>>), "UnnamedSymbol")

(* extract_pin drops a pin without type and style. *)
Pin(unit, sym, items) == IF Len(items) < 3 THEN sym
                         ELSE [sym EXCEPT !.pins = Append(@, unit)]

(* extract_graphic starts past the content of a text, if it has one or not. *)
GraphicKinds == {"rectangle", "circle", "arc", "polyline", "bezier", "text"}
Graphic(unit, sym, items) ==
    IF items[1].word = <<"text">> /\ Len(items) < 2 THEN Stop(sym, "panic")
    ELSE [sym EXCEPT !.graphics = Append(@, <<items[1].word, unit>>)]

SubChild(unit, sym, child) ==
    LET head == Head1(child) IN
    IF sym.error # "none" THEN sym
    ELSE CASE head = <<"pin">> -> Pin(unit, sym, child.items)
           [] \E g \in GraphicKinds : head = <<g>> -> Graphic(unit, sym, child.items)
           [] OTHER -> sym

(* extract_sub_symbol, after each of its children: its units are listed     *)
(* once, and it needs no name but panics when it has nothing at all.        *)
SubChildren(unit, sym, children) ==
    LET after[n \in 0 .. Len(children)] ==
            IF n = 0 THEN sym ELSE SubChild(unit, after[n - 1], children[n])
    IN  after
SubSymbol(sym, items) ==
    LET unit == UnitOf(TextAt(items, 2), sym.name)
        listed == IF Contains(sym.units, unit) THEN sym
                  ELSE [sym EXCEPT !.units = Append(@, unit)]
    IN  IF Len(items) < 2 THEN Stop(listed, "panic")
        ELSE SubChildren(unit, listed, After(items, 2))[Len(items) - 2]

(* extract_property: a property without key or value is dropped, and the   *)
(* last of one key stays.                                                  *)
Property(sym, items) ==
    IF Len(items) < 3 THEN sym
    ELSE [sym EXCEPT !.props = Append(SelectSeq(@, LAMBDA p : p.key # TextAt(items, 2)),
                                      [key |-> TextAt(items, 2), value |-> TextAt(items, 3)])]

Flags == {"in_bom", "on_board", "in_pos_files", "exclude_from_sim",
          "duplicate_pin_numbers_are_jumpers"}
Flag(sym, flag, set) == [sym EXCEPT !.flags = IF set THEN @ \cup {flag} ELSE @ \ {flag}]

Child(sym, child) ==
    LET head == Head1(child)
        items == child.items
    IN  IF sym.error # "none" THEN sym
        ELSE CASE head = <<"extends">> /\ Len(items) > 1 /\ IsText(items[2]) ->
                    [sym EXCEPT !.extends = items[2].word]
               [] head = <<"property">> -> Property(sym, items)
               [] head = <<"pin_numbers">> ->
                    Flag(sym, "hide_pin_numbers", FindYes(After(items, 1), "hide"))
               [] \E f \in Flags : head = <<f>> -> Flag(sym, head[1], FirstYes(items))
               [] head = <<"symbol">> -> SubSymbol(sym, items)
               [] OTHER -> sym

(* extract_symbol, after each of its children. *)
Children(sym, children) ==
    LET after[n \in 0 .. Len(children)] ==
            IF n = 0 THEN sym ELSE Child(after[n - 1], children[n])
    IN  after
Extract(node) ==
    IF Len(node.items) < 2 \/ ~IsText(node.items[2]) THEN Unnamed
    ELSE Children(Named(node.items[2].word), After(node.items, 2))[Len(node.items) - 2]

(* extract_lib, after each of the list's elements: the symbols of a        *)
(* library, or the first error.                                            *)
Roots == {<<"kicad_symbol_lib">>, <<"tokito_symbol_lib">>}

Symbol(lib, node) ==
    LET sym == Extract(node) IN
    IF lib.error # "none" \/ Head1(node) # <<"symbol">> THEN lib
    ELSE IF sym.error # "none" THEN Stop(lib, sym.error)
    ELSE [lib EXCEPT !.symbols = Append(@, sym)]
Library == [symbols |-> <<>>, error |-> "none"]
Symbols(nodes) ==
    LET after[n \in 0 .. Len(nodes)] ==
            IF n = 0 THEN Library ELSE Symbol(after[n - 1], nodes[n])
    IN  after
ExtractLib(root) ==
    IF Head1(root) \notin Roots THEN Stop(Library, "NotLibFile")
    ELSE Symbols(root.items)[Len(root.items)]

(* The value of a property, empty when there is none. *)
Value(sym, key) == LET at == SelectSeq(sym.props, LAMBDA p : p.key = <<key>>) IN
                   IF at = <<>> THEN <<>> ELSE at[1].value
=============================================================================
