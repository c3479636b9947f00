----------------------------- MODULE QueryText -----------------------------
(***************************************************************************)
(* What a search query means: the rewriting of symbols/src/search.rs       *)
(* (normalize_query), as much of FTS5's query language as it relies on,    *)
(* and the LIKE pattern of find_compatible.                                *)
(***************************************************************************)
EXTENDS Words

Markers == {":", "\"", "(", ")", "*"}
Operators == {"AND", "OR", "NOT", "NEAR"}
Digits == {"0", "1", "2", "3", "4", "5", "6", "7", "8", "9"}

(* char::is_alphanumeric; the letters named here are all others in use. *)
Separators == Markers \cup {" ", "_", "-", "+", "\\", "%"}
Alphanumeric(c) == c \notin Separators

ASSUME LettersAssumption ==
    /\ \A c \in DOMAIN Lower : /\ Alphanumeric(c) /\ Alphanumeric(Lower[c])
                             /\ Lower[c] \notin DOMAIN Lower
    /\ "X" \in DOMAIN Lower /\ DOMAIN Lower \cap ({"x"} \cup Digits) = {}

-----------------------------------------------------------------------------
(* has_fts5_syntax: a marker, or an operator between other characters. *)
HasSyntaxMarkersOnly(query) == Range(query) \cap Markers # {}
HasSyntax(query) == \/ Range(query) \cap Markers # {}
                    \/ \E run \in Range(Runs(query, Separators)) : \E o \in Operators : run = <<o>>

(* match_row_col and padded_row_col: a whole term of one or two digits, an *)
(* x, and one or two digits.                                               *)
Counts(term) == {i \in {2, 3} : /\ i < Len(term) /\ Len(term) - i <= 2
                                /\ term[i] \in {"x", "X"}
                                /\ \A j \in DOMAIN term \ {i} : term[j] \in Digits}
Pad(digits) == IF Len(digits) = 1 THEN <<"0">> \o digits ELSE digits
Padded(term) == LET i == CHOOSE i \in Counts(term) : TRUE IN
                Pad(SubSeq(term, 1, i - 1)) \o <<"x">> \o Pad(SubSeq(term, i + 1, Len(term)))

NormalizeTermPadsOnly(term) == IF Counts(term) = {} THEN term ELSE Padded(term)
NormalizeTerm(term) ==
    IF Counts(term) = {} \/ Padded(term) = term THEN term
    ELSE <<"(">> \o term \o <<" ", "OR", " ">> \o Padded(term) \o <<")">>

JoinTerms(terms) ==  \* join(" AND ")
    LET text[n \in 0 .. Len(terms)] ==
            IF n = 0 THEN <<>>
            ELSE IF n = 1 THEN NormalizeTerm(terms[1])
            ELSE text[n - 1] \o <<" ", "AND", " ">> \o NormalizeTerm(terms[n])
    IN  text[Len(terms)]

Terms(query) == Runs(query, {" ", "_"})
NormalizeQuery(query) ==
    IF HasSyntax(query) \/ Terms(query) = <<>> THEN query ELSE JoinTerms(Terms(query))

-----------------------------------------------------------------------------
(* FTS5 with the tokenizer unicode61.  A row has a sequence of columns.    *)
Tokens(text) == Runs(Lowered(text), Separators)
InRow(phrase, row) == \E c \in DOMAIN row : Contained(phrase, Tokens(row[c]))

Lexemes(text) == Pieces(text, Separators \ {"_"}, {" "})

(* Column filters, quotes and prefixes, and NEAR groups: left to chance. *)
Beyond(text) == LET lexemes == Lexemes(text) IN
    \/ Range(text) \cap {":", "\"", "*"} # {}
    \/ \E i \in 1 .. Len(lexemes) - 1 : lexemes[i] = <<"NEAR">> /\ lexemes[i + 1] = <<"(">>

(* An expression between parentheses, up to here: `either`, `both` and     *)
(* `left` are what is to the left of the last OR, AND and NOT, `list` the  *)
(* phrases since, all of which must match.                                 *)
Expression == [either |-> FALSE, both |-> TRUE, left |-> TRUE, not |-> FALSE,
               list |-> <<>>, inner |-> FALSE, at |-> "start"]

(* A phrase without a token is skipped; alone, it matches nothing. *)
Listed(e, row) == LET solid == {p \in Range(e.list) : p # <<>>} IN
                  IF e.at = "group" THEN e.inner
                  ELSE solid # {} /\ \A p \in solid : InRow(p, row)
Unit(e, row) == e.left /\ (Listed(e, row) # e.not)
Value(e, row) == e.either \/ (e.both /\ Unit(e, row))

Operated(e, op, row) ==
    CASE op = "AND" -> [Expression EXCEPT !.either = e.either, !.both = e.both /\ Unit(e, row)]
      [] op = "OR" -> [Expression EXCEPT !.either = Value(e, row)]
      [] op = "NOT" -> [Expression EXCEPT !.either = e.either, !.both = e.both,
                                          !.left = Unit(e, row), !.not = TRUE]

ReadLexeme(stack, lexeme, row) ==
    LET e == Last(stack)
        Put(top) == Append(Front(stack), top)
        ended == e.at \in {"phrase", "group"}
    IN  IF stack = <<>> THEN <<>>
        ELSE CASE lexeme = <<"(">> /\ e.at = "start" -> Append(stack, Expression)
               [] lexeme = <<")">> /\ ended /\ Len(stack) > 1 ->
                     Append(Front(Front(stack)),
                            [Last(Front(stack)) EXCEPT !.inner = Value(e, row), !.at = "group"])
               [] ended /\ \E o \in {"AND", "OR", "NOT"} : lexeme = <<o>> ->
                     Put(Operated(e, lexeme[1], row))
               [] lexeme = <<"+">> /\ e.at = "phrase" -> Put([e EXCEPT !.at = "plus"])
               [] /\ Alphanumeric(lexeme[1]) \/ lexeme[1] = "_"
                  /\ \A o \in {"AND", "OR", "NOT"} : lexeme # <<o>>
                  /\ e.at # "group" ->
                     LET phrase == Tokens(lexeme) IN
                     Put([e EXCEPT !.at = "phrase",
                                   !.list = IF e.at = "plus" THEN Append(Front(@), Last(@) \o phrase)
                                            ELSE Append(@, phrase)])
               [] OTHER -> <<>>

ReadAll(lexemes, row) ==
    LET after[n \in 0 .. Len(lexemes)] ==
            IF n = 0 THEN <<Expression>> ELSE ReadLexeme(after[n - 1], lexemes[n], row)
    IN  after[Len(lexemes)]

(* What MATCH does with one row: <<>> is a syntax error. *)
Match(text, row) ==
    LET stack == ReadAll(Lexemes(text), row) IN
    IF Len(stack) = 1 /\ stack[1].at \in {"phrase", "group"} THEN <<Value(stack[1], row)>> ELSE <<>>
Accepts(text) == Match(text, <<>>) # <<>>

-----------------------------------------------------------------------------
(* What a plain query is meant to find, said of the row itself: each of    *)
(* its words, or for a row/column count the same numbers in two digits.    *)
Plain(query) == /\ \A i \in DOMAIN query : Alphanumeric(query[i]) \/ query[i] \in {" ", "_"}
                /\ \E i \in DOMAIN query : Alphanumeric(query[i])
                /\ ~HasSyntax(query)

Number(digits) == IF digits[1] = "0" /\ Len(digits) > 1 THEN Tail(digits) ELSE digits
SameCount(a, b) == \E i \in Counts(a), j \in Counts(b) :
    /\ Number(SubSeq(a, 1, i - 1)) = Number(SubSeq(b, 1, j - 1))
    /\ Number(SubSeq(a, i + 1, Len(a))) = Number(SubSeq(b, j + 1, Len(b)))

Meant(query, row) ==
    \A word \in Range(Runs(query, Separators)) : \E c \in DOMAIN row :
        \E token \in Range(Tokens(row[c])) :
            \/ <<token>> = Tokens(word)
            \/ Len(token) = 5 /\ SameCount(word, token)

-----------------------------------------------------------------------------
(* escape_like, which escapes the escape first, and LIKE ... ESCAPE '\'. *)
Replace(word, letter, by) ==
    LET out[n \in 0 .. Len(word)] ==
            IF n = 0 THEN <<>>
            ELSE out[n - 1] \o IF word[n] = letter THEN by ELSE <<word[n]>>
    IN  out[Len(word)]
EscapeLikeLast(word) == Replace(Replace(Replace(word, "%", <<"\\", "%">>), "_", <<"\\", "_">>),
                                "\\", <<"\\", "\\">>)
EscapeLike(word) == Replace(Replace(Replace(word, "\\", <<"\\", "\\">>), "%", <<"\\", "%">>),
                            "_", <<"\\", "_">>)

(* From where in the text on the last n letters of the pattern match. *)
LikeFrom(text, pattern) ==
    LET Same(a, b) == LowerOf(a) = LowerOf(b)
        from[n \in 0 .. Len(pattern)] ==
            LET p == Len(pattern) - n + 1 IN
            IF n = 0 THEN {Len(text) + 1}
            ELSE IF pattern[p] = "%" THEN {t \in 1 .. Len(text) + 1 : \E u \in from[n - 1] : t <= u}
            ELSE {t \in 1 .. Len(text) :
                     IF pattern[p] = "\\"
                     THEN n > 1 /\ Same(pattern[p + 1], text[t]) /\ t + 1 \in from[n - 2]
                     ELSE (pattern[p] = "_" \/ Same(pattern[p], text[t])) /\ t + 1 \in from[n - 1]}
    IN  from
Like(text, pattern) == 1 \in LikeFrom(text, pattern)[Len(pattern)]
=============================================================================
