------------------------- MODULE CatalogSearchProofs -------------------------
(***************************************************************************)
(* What a query, its rewriting and its words are, for every query, every   *)
(* row and every pattern; and what is answered, for any catalogs, any      *)
(* calls and any scores, whatever is swapped in while a search runs.       *)
(*                                                                         *)
(* THE TEXT.                                                               *)
(* The recursive functions of Words and QueryText are followed one letter, *)
(* one lexeme and one term at a time: a piece is a letter that is apart or *)
(* some letters none of which is (Shaped), pieces of words that are joined *)
(* where one ends or begins apart are joined too (PiecesJoin), and a       *)
(* lexeme changes the stack as its kind says (ReadWord, ReadOpen, ...).  A *)
(* rewritten term, alone or as one of two alternatives, is read as one     *)
(* phrase or one group that is true if the term is found (ReadNormalized), *)
(* so terms joined by AND are found together (MatchOfTerms), and rewriting *)
(* refuses nothing that was accepted (RewritingRefusesNothing).  A term is *)
(* found where a reader expects its word: the first and the last count of  *)
(* a term, padded or as they are written, are the counts of the word       *)
(* (NumberOf, FoundIsMeant), so a query of letters, digits, blanks and     *)
(* underscores finds what it means (PlainMatchesMeant).                    *)
(*                                                                         *)
(* An escaped word is read by LIKE letter by letter (EscapeIsLiteral).     *)
(*                                                                         *)
(* THE REQUEST.                                                            *)
(* No superseded generated row is answered: of what the search has after   *)
(* its first read only the official rows outlive a merge with a live       *)
(* catalog, and the catalog it merges with is in `seen`.  REST and MCP ask *)
(* alike.  An answer is the best of all rows: what a limit drops before    *)
(* the merge is spanned by `limit` rows that are no worse.  A footprint    *)
(* that a client asks for is searched for as it is written.  A query that  *)
(* FTS5 refuses is refused to the client, and no other.                    *)
(***************************************************************************)
EXTENDS CatalogSearch, ExtremesProofs, FiniteSetTheorems, TLAPS

(* Words, their letters, and words made of words. *)
LEMMA WordIsSeq ==
    ASSUME NEW w, IsWord(w)
    PROVE  w \in Seq(Range(w))
<1>1. PICK n \in Nat : n = Len(w) /\ w = [i \in 1 .. n |-> w[i]]
  BY DEF IsWord
<1>2. w \in [1 .. n -> Range(w)]
  BY <1>1 DEF Range
<1> QED
  BY <1>2

LEMMA SeqIsWord ==
    ASSUME NEW S, NEW w \in Seq(S)
    PROVE  IsWord(w)
<1>1. Len(w) \in Nat /\ DOMAIN w = 1 .. Len(w) /\ w = [i \in DOMAIN w |-> w[i]]
  OBVIOUS
<1> QED
  BY <1>1 DEF IsWord

(* Two words are one if they have the same letters. *)
LEMMA WordsEqual ==
    ASSUME NEW s, IsWord(s), NEW t, IsWord(t), Len(s) = Len(t),
           \A i \in 1 .. Len(s) : s[i] = t[i]
    PROVE  s = t
<1>1. s = [i \in 1 .. Len(s) |-> s[i]] /\ t = [i \in 1 .. Len(s) |-> t[i]]
  BY DEF IsWord
<1> QED
  BY <1>1, Zenon

LEMMA WordLength == ASSUME NEW s, IsWord(s) PROVE Len(s) \in Nat
BY DEF IsWord

LEMMA ShortWords ==
    /\ IsWord(<<>>) /\ Len(<<>>) = 0
    /\ \A x : IsWord(<<x>>) /\ Len(<<x>>) = 1 /\ <<x>>[1] = x
    /\ \A x, y : IsWord(<<x, y>>) /\ Len(<<x, y>>) = 2 /\ <<x, y>>[1] = x /\ <<x, y>>[2] = y
<1>1. IsWord(<<>>)
  BY DEF IsWord
<1>2. \A x : IsWord(<<x>>)
  <2> TAKE x
  <2>1. <<x>> \in Seq({x})
    OBVIOUS
  <2> QED
    BY <2>1, SeqIsWord
<1>3. \A x, y : IsWord(<<x, y>>)
  <2> TAKE x, y
  <2>1. <<x, y>> \in Seq({x, y})
    OBVIOUS
  <2> QED
    BY <2>1, SeqIsWord
<1> QED
  BY <1>1, <1>2, <1>3

(* Concatenation, closed: the provers look too deep into it. *)
Joined(s, t) == s \o t

(* What a word j is that has the letters of s and then those of t. *)
Continues(j, s, t) == /\ IsWord(j) /\ Len(j) = Len(s) + Len(t)
                      /\ \A i \in 1 .. Len(s) : j[i] = s[i]
                      /\ \A i \in 1 .. Len(t) : j[Len(s) + i] = t[i]

LEMMA JoinedIs ==
    ASSUME NEW s, IsWord(s), NEW t, IsWord(t)
    PROVE  Continues(Joined(s, t), s, t)
<1> DEFINE L == Range(s) \cup Range(t)
<1>1. s \in Seq(L) /\ t \in Seq(L)
  <2>1. s \in Seq(Range(s)) /\ t \in Seq(Range(t))
    BY WordIsSeq
  <2>2. Range(s) \subseteq L /\ Range(t) \subseteq L
    OBVIOUS
  <2> HIDE DEF L
  <2> QED
    BY <2>1, <2>2
<1> HIDE DEF L
<1>2. /\ s \o t \in Seq(L) /\ Len(s \o t) = Len(s) + Len(t)
      /\ \A i \in 1 .. Len(s) : (s \o t)[i] = s[i]
      /\ \A i \in 1 .. Len(t) : (s \o t)[Len(s) + i] = t[i]
  BY <1>1
<1> QED
  BY <1>2, SeqIsWord DEF Joined, Continues

(* A word with one letter more. *)
With(w, x) == Joined(w, <<x>>)
Extends(v, w, x) == /\ IsWord(v) /\ Len(v) = Len(w) + 1
                    /\ \A i \in 1 .. Len(w) : v[i] = w[i]
                    /\ v[Len(w) + 1] = x

LEMMA WithIs ==
    ASSUME NEW w, IsWord(w), NEW x
    PROVE  Extends(With(w, x), w, x)
<1> DEFINE o == <<x>>
           v == Joined(w, o)
<1>1. IsWord(o) /\ Len(o) = 1 /\ o[1] = x
  BY ShortWords
<1> HIDE DEF o
<1>2. Continues(v, w, o)
  BY <1>1, JoinedIs
<1> HIDE DEF v
<1>3. Extends(v, w, x)
  BY <1>1, <1>2 DEF Continues, Extends
<1> QED
  BY <1>3 DEF With, o, v

LEMMA JoinedTwo ==
    ASSUME NEW w, IsWord(w), NEW x, NEW y
    PROVE  Joined(w, <<x, y>>) = With(With(w, x), y)
<1> DEFINE o == <<x, y>>
           j == Joined(w, o)
           v == With(w, x)
           k == With(v, y)
<1>1. IsWord(o) /\ Len(o) = 2 /\ o[1] = x /\ o[2] = y
  BY ShortWords
<1>2. Len(w) \in Nat
  BY WordLength
<1> HIDE DEF o
<1>3. Continues(j, w, o)
  BY <1>1, JoinedIs
<1>4. Extends(v, w, x)
  BY WithIs
<1>5. Extends(k, v, y)
  BY <1>4, WithIs DEF Extends
<1> HIDE DEF j, k, v
<1>6. /\ IsWord(j) /\ Len(j) = Len(w) + 2 /\ j[Len(w) + 1] = x /\ j[Len(w) + 2] = y
      /\ \A i \in 1 .. Len(w) : j[i] = w[i]
  BY <1>1, <1>2, <1>3 DEF Continues
<1>7. /\ IsWord(k) /\ Len(k) = Len(w) + 2 /\ k[Len(w) + 1] = x /\ k[Len(w) + 2] = y
      /\ \A i \in 1 .. Len(w) : k[i] = w[i]
  BY <1>2, <1>4, <1>5 DEF Extends
<1>8. \A i \in 1 .. Len(j) : j[i] = k[i]
  <2> SUFFICES ASSUME NEW i \in 1 .. Len(j) PROVE j[i] = k[i]
    OBVIOUS
  <2>1. i \in 1 .. Len(w) \/ i = Len(w) + 1 \/ i = Len(w) + 2
    BY <1>2, <1>6
  <2> QED
    BY <1>6, <1>7, <2>1
<1>9. j = k
  BY <1>6, <1>7, <1>8, WordsEqual
<1> QED
  BY <1>9 DEF j, k, v, o

(* A word that is not empty is one with a letter added. *)
LEMMA LastLetter ==
    ASSUME NEW word, IsWord(word), NEW n \in Nat, Len(word) = n + 1
    PROVE  \E v : IsWord(v) /\ Len(v) = n /\ word = With(v, word[n + 1])
<1> DEFINE L == Range(word)
           v == [i \in 1 .. n |-> word[i]]
           c == word[n + 1]
<1>1. v \in Seq(L) /\ Len(v) = n
  <2>1. word \in Seq(L)
    BY WordIsSeq
  <2> HIDE DEF L
  <2>2. \A i \in 1 .. n : word[i] \in L
    BY <2>1
  <2>3. v \in [1 .. n -> L]
    BY <2>2
  <2> QED
    BY <2>3
<1>2. \A i \in 1 .. n : v[i] = word[i]
  OBVIOUS
<1>3. IsWord(v)
  BY <1>1, SeqIsWord
<1> HIDE DEF v, L, c
<1>4. Extends(With(v, c), v, c)
  BY <1>3, WithIs
<1>5. /\ IsWord(With(v, c)) /\ Len(With(v, c)) = n + 1 /\ With(v, c)[n + 1] = c
      /\ \A i \in 1 .. n : With(v, c)[i] = word[i]
  BY <1>1, <1>2, <1>4 DEF Extends
<1>6. \A i \in 1 .. Len(word) : word[i] = With(v, c)[i]
  <2> SUFFICES ASSUME NEW i \in 1 .. Len(word) PROVE word[i] = With(v, c)[i]
    OBVIOUS
  <2>1. i \in 1 .. n \/ i = n + 1
    OBVIOUS
  <2> QED
    BY <1>5, <2>1 DEF c
<1>7. word = With(v, c)
  BY <1>5, <1>6, WordsEqual
<1> QED
  BY <1>1, <1>3, <1>7 DEF c

-----------------------------------------------------------------------------
(* The pieces of a word. *)
(* The pieces of a word, one letter after the other. *)
NextPieces(word, apart, dropped, out, n) ==
    IF n = 0 THEN <<>> ELSE AddLetter(word, apart, dropped, out[n - 1], n)

LEMMA PiecesExist ==
    ASSUME NEW word, NEW apart, NEW dropped
    PROVE  \A m \in Nat : \E out : out = [n \in 0 .. m |-> NextPieces(word, apart, dropped, out, n)]
<1> DEFINE Step(out, n) == NextPieces(word, apart, dropped, out, n)
           Reached == {m \in Nat : \E out : out = [n \in 0 .. m |-> Step(out, n)]}
<1>1. 0 \in Reached
  <2> DEFINE out == [n \in 0 .. 0 |-> <<>>]
  <2>1. out = [n \in 0 .. 0 |-> Step(out, n)]
    BY DEF NextPieces
  <2> HIDE DEF out
  <2> QED
    BY <2>1
<1>2. ASSUME NEW m \in Nat, m \in Reached
      PROVE  m + 1 \in Reached
  <2>1. PICK f : f = [n \in 0 .. m |-> Step(f, n)]
    BY <1>2
  <2> DEFINE out == [n \in 0 .. m + 1 |-> Step(f, n)]
             known == [n \in 0 .. m |-> Step(f, n)]
  <2>2. \A n \in 0 .. m : out[n] = f[n]
    <3>1. \A n \in 0 .. m : out[n] = known[n]
      OBVIOUS
    <3> HIDE DEF out, known
    <3> QED
      BY <2>1, <3>1 DEF known
  <2>3. \A n \in 0 .. m + 1 : Step(f, n) = Step(out, n)
    <3> SUFFICES ASSUME NEW n \in 0 .. m + 1
                 PROVE  Step(f, n) = Step(out, n)
      OBVIOUS
    <3>1. n = 0 \/ n - 1 \in 0 .. m
      OBVIOUS
    <3> HIDE DEF out
    <3> QED
      BY <2>2, <3>1 DEF NextPieces
  <2>4. out = [n \in 0 .. m + 1 |-> Step(out, n)]
    <3> DEFINE next == [n \in 0 .. m + 1 |-> Step(out, n)]
    <3>1. out = next
      BY <2>3, Zenon
    <3> QED
      BY <3>1
  <2> HIDE DEF out
  <2> QED
    BY <2>4
<1> HIDE DEF Reached
<1>3. \A m \in Nat : m \in Reached
  BY <1>1, <1>2, Induction
<1> QED
  BY <1>3 DEF Reached

Cutting(word, apart, dropped) ==
    CHOOSE out : out = [n \in 0 .. Len(word) |-> NextPieces(word, apart, dropped, out, n)]
(* out[n] are the pieces of the first n letters. *)
Cuts(word, apart, dropped, out) ==
    /\ out[0] = <<>>
    /\ \A n \in 1 .. Len(word) : out[n] = AddLetter(word, apart, dropped, out[n - 1], n)

LEMMA PiecesAreCut ==
    ASSUME NEW word, IsWord(word), NEW apart, NEW dropped
    PROVE  \E out : Cuts(word, apart, dropped, out) /\ Pieces(word, apart, dropped) = out[Len(word)]
<1>1. Len(word) \in Nat
  BY WordLength
<1> DEFINE out == Cutting(word, apart, dropped)
           all == [n \in 0 .. Len(word) |-> NextPieces(word, apart, dropped, out, n)]
<1>2. \E f : f = [n \in 0 .. Len(word) |-> NextPieces(word, apart, dropped, f, n)]
  BY <1>1, PiecesExist
<1>3. out = all
  BY <1>2, Zenon DEF Cutting
<1>4. Pieces(word, apart, dropped) = out[Len(word)]
  BY Zenon DEF Pieces, Cutting, NextPieces
<1>5. \A n \in 0 .. Len(word) : all[n] = NextPieces(word, apart, dropped, out, n)
  OBVIOUS
<1> HIDE DEF out, all
<1>6. \A n \in 0 .. Len(word) : out[n] = NextPieces(word, apart, dropped, out, n)
  BY <1>3, <1>5
<1>7. out[0] = <<>>
  BY <1>1, <1>6 DEF NextPieces
<1>8. \A n \in 1 .. Len(word) : out[n] = AddLetter(word, apart, dropped, out[n - 1], n)
  BY <1>1, <1>6 DEF NextPieces
<1> QED
  BY <1>4, <1>7, <1>8 DEF Cuts

LEMMA AppendIsWith ==
    ASSUME NEW w, IsWord(w), NEW x
    PROVE  Append(w, x) = With(w, x)
<1> DEFINE L == Range(w) \cup {x}
           v == Append(w, x)
<1>1. w \in Seq(L) /\ x \in L
  <2>1. w \in Seq(Range(w)) /\ Range(w) \subseteq L
    BY WordIsSeq
  <2> HIDE DEF L
  <2> QED
    BY <2>1 DEF L
<1> HIDE DEF L
<1>2. /\ v \in Seq(L) /\ Len(v) = Len(w) + 1 /\ v[Len(w) + 1] = x
      /\ \A i \in 1 .. Len(w) : v[i] = w[i]
  BY <1>1
<1>3. IsWord(v)
  BY <1>2, SeqIsWord
<1>4. Extends(With(w, x), w, x) /\ Len(w) \in Nat
  BY WithIs, WordLength
<1> HIDE DEF v
<1> DEFINE u == With(w, x)
<1>5. Len(u) = Len(v) /\ \A i \in 1 .. Len(v) : v[i] = u[i]
  BY <1>2, <1>4 DEF Extends
<1>6. IsWord(u)
  BY <1>4 DEF Extends
<1> HIDE DEF u
<1>7. v = u
  BY <1>3, <1>5, <1>6, WordsEqual
<1> QED
  BY <1>7 DEF u, v

(* Nothing is read of the letters to come. *)
LEMMA CutsAgree ==
    ASSUME NEW word, Len(word) \in Nat, NEW longer, Len(longer) \in Nat, Len(word) <= Len(longer),
           \A i \in 1 .. Len(word) : longer[i] = word[i],
           NEW apart, NEW dropped, NEW f, NEW g,
           Cuts(word, apart, dropped, f), Cuts(longer, apart, dropped, g)
    PROVE  \A n \in 0 .. Len(word) : g[n] = f[n]
<1> DEFINE Same == {n \in Nat : n <= Len(word) => g[n] = f[n]}
<1>1. 0 \in Same
  BY DEF Cuts
<1>2. ASSUME NEW n \in Nat, n \in Same
      PROVE  n + 1 \in Same
  <2> SUFFICES ASSUME n + 1 <= Len(word)
               PROVE  g[n + 1] = f[n + 1]
    OBVIOUS
  <2>1. /\ n + 1 \in 1 .. Len(word) /\ n + 1 \in 1 .. Len(longer)
        /\ (n + 1) - 1 = n /\ g[n] = f[n]
    BY <1>2
  <2>2. /\ f[n + 1] = AddLetter(word, apart, dropped, f[n], n + 1)
        /\ g[n + 1] = AddLetter(longer, apart, dropped, f[n], n + 1)
    BY <2>1 DEF Cuts
  <2>3. longer[n + 1] = word[n + 1] /\ (n + 1 > 1 => longer[n] = word[n])
    BY <2>1
  <2> QED
    BY <2>1, <2>2, <2>3 DEF AddLetter
<1> HIDE DEF Same
<1>3. \A n \in Nat : n \in Same
  BY <1>1, <1>2, Induction
<1> QED
  BY <1>3 DEF Same

LEMMA PiecesNone == ASSUME NEW apart, NEW dropped PROVE Pieces(<<>>, apart, dropped) = <<>>
<1>1. IsWord(<<>>) /\ Len(<<>>) = 0
  BY ShortWords
<1>2. PICK out : Cuts(<<>>, apart, dropped, out) /\ Pieces(<<>>, apart, dropped) = out[Len(<<>>)]
  BY <1>1, PiecesAreCut
<1> QED
  BY <1>1, <1>2 DEF Cuts

(* A letter after a word sticks to its last piece or begins a new one. *)
EndsApart(w, apart) == Len(w) = 0 \/ w[Len(w)] \in apart
WithLetter(pieces, w, c, apart, dropped) ==
    IF c \in dropped THEN pieces
    ELSE IF EndsApart(w, apart) \/ c \in apart THEN With(pieces, <<c>>)
    ELSE Grown(pieces, c)

LEMMA PiecesOneMoreRaw ==
    ASSUME NEW w, IsWord(w), NEW c, NEW apart, NEW dropped
    PROVE  Pieces(With(w, c), apart, dropped)
              = IF c \in dropped THEN Pieces(w, apart, dropped)
                ELSE IF EndsApart(w, apart) \/ c \in apart THEN Append(Pieces(w, apart, dropped), <<c>>)
                ELSE Grown(Pieces(w, apart, dropped), c)
<1> DEFINE v == With(w, c)
<1>1. Extends(v, w, c) /\ Len(w) \in Nat
  BY WithIs, WordLength
<1> HIDE DEF v
<1>2. /\ IsWord(v) /\ Len(v) = Len(w) + 1 /\ v[Len(w) + 1] = c /\ Len(v) \in Nat
      /\ \A i \in 1 .. Len(w) : v[i] = w[i]
  BY <1>1 DEF Extends
<1>3. PICK f : Cuts(w, apart, dropped, f) /\ Pieces(w, apart, dropped) = f[Len(w)]
  BY PiecesAreCut
<1>4. PICK g : Cuts(v, apart, dropped, g) /\ Pieces(v, apart, dropped) = g[Len(v)]
  BY <1>2, PiecesAreCut
<1>5. \A n \in 0 .. Len(w) : g[n] = f[n]
  BY <1>1, <1>2, <1>3, <1>4, CutsAgree
<1>6. g[Len(w)] = f[Len(w)]
  BY <1>1, <1>5
<1>7. Len(v) \in 1 .. Len(v) /\ Len(v) - 1 = Len(w) /\ (Len(v) > 1 <=> Len(w) # 0)
  BY <1>1, <1>2
<1>8. g[Len(v)] = AddLetter(v, apart, dropped, f[Len(w)], Len(v))
  BY <1>4, <1>6, <1>7 DEF Cuts
<1>9. v[Len(v)] = c /\ (Len(w) # 0 => v[Len(v) - 1] = w[Len(w)])
  BY <1>1, <1>2, <1>7
<1>10. Len(v) > 1 /\ {v[Len(v) - 1], v[Len(v)]} \cap apart = {} <=> ~(EndsApart(w, apart) \/ c \in apart)
  BY <1>7, <1>9 DEF EndsApart
<1>11. g[Len(v)] = IF c \in dropped THEN f[Len(w)]
                  ELSE IF EndsApart(w, apart) \/ c \in apart THEN Append(f[Len(w)], <<c>>)
                  ELSE Grown(f[Len(w)], c)
  BY <1>8, <1>9, <1>10 DEF AddLetter
<1> QED
  BY <1>3, <1>4, <1>11 DEF v

LEMMA GrownIs ==
    ASSUME NEW p, IsWord(p), Len(p) # 0, IsWord(p[Len(p)]), NEW c
    PROVE  /\ IsWord(Grown(p, c)) /\ Len(Grown(p, c)) = Len(p)
           /\ \A i \in 1 .. Len(p) - 1 : Grown(p, c)[i] = p[i]
           /\ Grown(p, c)[Len(p)] = With(p[Len(p)], c)
<1>1. Len(p) \in Nat /\ Len(p) \in 1 .. Len(p)
  BY WordLength
<1>2. p = [i \in 1 .. Len(p) |-> p[i]] /\ DOMAIN p = 1 .. Len(p)
  BY DEF IsWord
<1> DEFINE n == Len(p)
           q == p[n]
           g == Grown(p, c)
<1>3. Append(q, c) = With(q, c)
  BY AppendIsWith
<1>4. g = [i \in 1 .. n |-> IF i = n THEN With(q, c) ELSE p[i]]
  BY <1>1, <1>2, <1>3 DEF Grown
<1>5. n \in Nat /\ n \in 1 .. n
  BY <1>1
<1> HIDE DEF n, q, g
<1> DEFINE S == {g[i] : i \in 1 .. n}
<1>6. g \in [1 .. n -> S]
  BY <1>4
<1> HIDE DEF S
<1>7. g \in Seq(S) /\ Len(g) = n
  BY <1>5, <1>6
<1>8. IsWord(g)
  BY <1>7, SeqIsWord
<1>9. g[n] = With(q, c)
  BY <1>4, <1>5
<1>10. \A i \in 1 .. n - 1 : g[i] = p[i]
  BY <1>4, <1>5
<1> QED
  BY <1>7, <1>8, <1>9, <1>10 DEF n, q, g

(* What is to be shown of all words holds of the empty one, and of any     *)
(* with one letter more.                                                   *)
LEMMA WordInduction ==
    ASSUME NEW L, NEW S, <<>> \in S,
           \A w \in Seq(L) : \A c \in L : w \in S => With(w, c) \in S
    PROVE  \A w \in Seq(L) : w \in S
<1> DEFINE Good == {n \in Nat : \A w \in Seq(L) : Len(w) = n => w \in S}
<1>1. 0 \in Good
  <2>1. \A w \in Seq(L) : Len(w) = 0 => w = <<>>
    OBVIOUS
  <2> QED
    BY <2>1
<1>2. ASSUME NEW n \in Nat, n \in Good
      PROVE  n + 1 \in Good
  <2> SUFFICES ASSUME NEW w \in Seq(L), Len(w) = n + 1
               PROVE  w \in S
    OBVIOUS
  <2>1. PICK v : IsWord(v) /\ Len(v) = n /\ w = With(v, w[n + 1])
    BY SeqIsWord, LastLetter
  <2>2. Extends(w, v, w[n + 1])
    BY <2>1, WithIs
  <2>3. w[n + 1] \in L /\ \A i \in 1 .. n : v[i] \in L
    <3>1. \A i \in 1 .. n + 1 : w[i] \in L
      OBVIOUS
    <3> QED
      BY <2>1, <2>2, <3>1 DEF Extends
  <2>4. v \in Seq(L)
    <3>1. v = [i \in 1 .. n |-> v[i]]
      BY <2>1 DEF IsWord
    <3>2. v \in [1 .. n -> L]
      BY <2>3, <3>1
    <3> QED
      BY <3>2
  <2>5. v \in S
    BY <1>2, <2>1, <2>4
  <2> QED
    BY <2>1, <2>3, <2>4, <2>5
<1> HIDE DEF Good
<1>3. \A n \in Nat : n \in Good
  BY <1>1, <1>2, Induction
<1>4. \A w \in Seq(L) : Len(w) \in Nat
  OBVIOUS
<1> QED
  BY <1>3, <1>4 DEF Good

(* A piece is a letter of its own or some letters none of which is apart. *)
IsPiece(p, w, apart, dropped) ==
    /\ IsWord(p) /\ Len(p) # 0
    /\ \A i \in 1 .. Len(p) : p[i] \notin dropped /\ \E j \in 1 .. Len(w) : w[j] = p[i]
    /\ Len(p) > 1 => \A i \in 1 .. Len(p) : p[i] \notin apart
Shaped(pieces, w, apart, dropped) ==
    /\ IsWord(pieces)
    /\ \A k \in 1 .. Len(pieces) : IsPiece(pieces[k], w, apart, dropped)
    /\ EndsApart(w, apart) \/ (Len(pieces) # 0 /\ pieces[Len(pieces)][Len(pieces[Len(pieces)])] = w[Len(w)])

LEMMA PiecesOneMore ==
    ASSUME NEW w, IsWord(w), NEW c, NEW apart, NEW dropped, IsWord(Pieces(w, apart, dropped))
    PROVE  Pieces(With(w, c), apart, dropped) = WithLetter(Pieces(w, apart, dropped), w, c, apart, dropped)
<1> DEFINE o == <<c>>
           P == Pieces(w, apart, dropped)
<1>1. Append(P, o) = With(P, o)
  BY AppendIsWith
<1>2. Pieces(With(w, c), apart, dropped)
         = IF c \in dropped THEN P ELSE IF EndsApart(w, apart) \/ c \in apart THEN Append(P, o) ELSE Grown(P, c)
  BY PiecesOneMoreRaw
<1> HIDE DEF o, P
<1> QED
  BY <1>1, <1>2 DEF WithLetter, o, P

LEMMA IsPieceStays ==
    ASSUME NEW p, NEW w, IsWord(w), NEW c, NEW apart, NEW dropped, IsPiece(p, w, apart, dropped)
    PROVE  IsPiece(p, With(w, c), apart, dropped)
<1> DEFINE v == With(w, c)
<1>1. Extends(v, w, c) /\ Len(w) \in Nat
  BY WithIs, WordLength
<1> HIDE DEF v
<1>2. \A j \in 1 .. Len(w) : j \in 1 .. Len(v) /\ v[j] = w[j]
  BY <1>1 DEF Extends
<1>3. IsPiece(p, v, apart, dropped)
  BY <1>2 DEF IsPiece
<1> QED
  BY <1>3 DEF v

LEMMA PieceOfOne ==
    ASSUME NEW w, IsWord(w), NEW c, NEW apart, NEW dropped, c \notin dropped
    PROVE  IsPiece(<<c>>, With(w, c), apart, dropped)
<1> DEFINE v == With(w, c)
           o == <<c>>
<1>1. Extends(v, w, c) /\ Len(w) \in Nat
  BY WithIs, WordLength
<1>2. IsWord(o) /\ Len(o) = 1 /\ o[1] = c
  BY ShortWords
<1> HIDE DEF v, o
<1>3. Len(v) \in 1 .. Len(v) /\ v[Len(v)] = c
  BY <1>1 DEF Extends
<1>4. IsPiece(o, v, apart, dropped)
  BY <1>2, <1>3 DEF IsPiece
<1> QED
  BY <1>4 DEF v, o

LEMMA PieceGrows ==
    ASSUME NEW p, NEW w, IsWord(w), NEW c, NEW apart, NEW dropped, IsPiece(p, w, apart, dropped),
           c \notin dropped, c \notin apart, p[Len(p)] \notin apart
    PROVE  IsPiece(With(p, c), With(w, c), apart, dropped)
<1> DEFINE v == With(w, c)
           q == With(p, c)
<1>1. Extends(v, w, c) /\ Len(w) \in Nat /\ Extends(q, p, c) /\ Len(p) \in Nat
  BY WithIs, WordLength DEF IsPiece
<1> HIDE DEF v, q
<1>2. Len(v) \in 1 .. Len(v) /\ v[Len(v)] = c /\ \A j \in 1 .. Len(w) : j \in 1 .. Len(v) /\ v[j] = w[j]
  BY <1>1 DEF Extends
<1>3. \A i \in 1 .. Len(q) : i \in 1 .. Len(p) \/ q[i] = c
  BY <1>1 DEF Extends
<1>4. \A i \in 1 .. Len(p) : p[i] \notin apart
  <2>1. Len(p) = 1 \/ Len(p) > 1
    BY <1>1 DEF IsPiece
  <2> QED
    BY <2>1 DEF IsPiece
<1>5. IsPiece(q, v, apart, dropped)
  <2>1. IsWord(q) /\ Len(q) # 0 /\ \A i \in 1 .. Len(p) : q[i] = p[i]
    BY <1>1 DEF Extends
  <2>2. \A i \in 1 .. Len(q) : q[i] \notin dropped /\ \E j \in 1 .. Len(v) : v[j] = q[i]
    BY <1>2, <1>3, <2>1 DEF IsPiece
  <2>3. \A i \in 1 .. Len(q) : q[i] \notin apart
    BY <1>3, <1>4, <2>1
  <2> QED
    BY <2>1, <2>2, <2>3 DEF IsPiece
<1> QED
  BY <1>5 DEF v, q

LEMMA ShapedOneMore ==
    ASSUME NEW w, IsWord(w), NEW c, NEW apart, NEW dropped, dropped \subseteq apart,
           NEW P, Shaped(P, w, apart, dropped)
    PROVE  Shaped(WithLetter(P, w, c, apart, dropped), With(w, c), apart, dropped)
<1> DEFINE v == With(w, c)
           o == <<c>>
           Q == WithLetter(P, w, c, apart, dropped)
<1>1. Extends(v, w, c) /\ Len(w) \in Nat /\ Len(P) \in Nat
  BY WithIs, WordLength DEF Shaped
<1>2. IsWord(o) /\ Len(o) = 1 /\ o[1] = c
  BY ShortWords
<1>3. \A k \in 1 .. Len(P) : IsPiece(P[k], v, apart, dropped)
  BY IsPieceStays DEF Shaped
<1>4. c \notin dropped => IsPiece(o, v, apart, dropped)
  BY PieceOfOne
<1>5. c \in dropped => Q = P
  BY DEF WithLetter
<1>6. c \notin dropped /\ (EndsApart(w, apart) \/ c \in apart) => Q = With(P, o)
  BY DEF WithLetter
<1>7. c \notin dropped /\ ~EndsApart(w, apart) /\ c \notin apart => Q = Grown(P, c)
  BY DEF WithLetter
<1>8. Extends(With(P, o), P, o)
  BY WithIs DEF Shaped
<1>20. Len(P) # 0 => /\ IsPiece(P[Len(P)], w, apart, dropped)
  BY <1>1 DEF Shaped
<1>21. ~EndsApart(w, apart) => Len(P) # 0
  BY DEF Shaped
<1> DEFINE p == P[Len(P)]
           q == With(p, c)
<1>9. ~EndsApart(w, apart) => /\ IsPiece(p, w, apart, dropped)
                              /\ p[Len(p)] \notin apart
  BY <1>20, <1>21 DEF Shaped, EndsApart
<1>10. ~EndsApart(w, apart) /\ c \notin dropped /\ c \notin apart => IsPiece(q, v, apart, dropped)
  BY <1>9, PieceGrows
<1>11. ~EndsApart(w, apart) => Extends(q, p, c)
  BY <1>9, WithIs DEF IsPiece
<1>12. ~EndsApart(w, apart) => /\ IsWord(Grown(P, c)) /\ Len(Grown(P, c)) = Len(P)
                               /\ \A i \in 1 .. Len(P) - 1 : Grown(P, c)[i] = P[i]
                               /\ Grown(P, c)[Len(P)] = q
  BY <1>9, <1>21, GrownIs DEF Shaped, IsPiece
<1>13. Len(v) # 0 /\ v[Len(v)] = c
  BY <1>1 DEF Extends
<1> HIDE DEF v, o, Q, p, q
<1>14. CASE c \in dropped
  BY <1>3, <1>5, <1>13, <1>14 DEF Shaped, EndsApart, v, Q
<1>15. CASE c \notin dropped /\ (EndsApart(w, apart) \/ c \in apart)
  <2> DEFINE R == With(P, o)
  <2>1. /\ IsWord(R) /\ Len(R) = Len(P) + 1 /\ R[Len(P) + 1] = o
        /\ \A i \in 1 .. Len(P) : R[i] = P[i]
    BY <1>8 DEF Extends
  <2> HIDE DEF R
  <2>2. \A k \in 1 .. Len(R) : IsPiece(R[k], v, apart, dropped)
    <3> TAKE k \in 1 .. Len(R)
    <3>1. k \in 1 .. Len(P) \/ k = Len(P) + 1
      BY <1>1, <2>1
    <3> QED
      BY <1>3, <1>4, <1>15, <2>1, <3>1
  <2>3. Len(R) # 0 /\ R[Len(R)] = o /\ o[Len(o)] = v[Len(v)]
    BY <1>1, <1>2, <1>13, <2>1
  <2>4. Shaped(R, v, apart, dropped)
    BY <2>1, <2>2, <2>3 DEF Shaped
  <2> QED
    BY <1>6, <1>15, <2>4 DEF R, v, Q
<1>16. CASE c \notin dropped /\ ~EndsApart(w, apart) /\ c \notin apart
  <2> DEFINE R == Grown(P, c)
  <2>1. /\ IsWord(R) /\ Len(R) = Len(P) /\ Len(P) # 0 /\ R[Len(P)] = q
        /\ \A i \in 1 .. Len(P) - 1 : R[i] = P[i]
    BY <1>12, <1>16, <1>21
  <2> HIDE DEF R
  <2>2. \A k \in 1 .. Len(R) : IsPiece(R[k], v, apart, dropped)
    <3> TAKE k \in 1 .. Len(R)
    <3>1. (k \in 1 .. Len(P) - 1 /\ k \in 1 .. Len(P)) \/ k = Len(P)
      BY <1>1, <2>1
    <3> QED
      BY <1>3, <1>10, <1>16, <2>1, <3>1
  <2>3. R[Len(R)] = q /\ q[Len(q)] = v[Len(v)]
    BY <1>11, <1>13, <1>16, <2>1 DEF Extends
  <2>4. Shaped(R, v, apart, dropped)
    BY <2>1, <2>2, <2>3 DEF Shaped
  <2> QED
    BY <1>7, <1>16, <2>4 DEF R, v, Q
<1> QED
  BY <1>14, <1>15, <1>16

LEMMA PiecesAreShaped ==
    ASSUME NEW word, IsWord(word), NEW apart, NEW dropped, dropped \subseteq apart
    PROVE  Shaped(Pieces(word, apart, dropped), word, apart, dropped)
<1> DEFINE L == Range(word)
           S == {w \in Seq(L) : Shaped(Pieces(w, apart, dropped), w, apart, dropped)}
<1>1. <<>> \in S
  <2>1. Pieces(<<>>, apart, dropped) = <<>>
    BY PiecesNone
  <2>2. IsWord(<<>>) /\ Len(<<>>) = 0
    BY ShortWords
  <2>3. Shaped(<<>>, <<>>, apart, dropped)
    BY <2>2 DEF Shaped, EndsApart
  <2>4. <<>> \in Seq(L)
    OBVIOUS
  <2> QED
    BY <2>1, <2>3, <2>4
<1>2. ASSUME NEW w \in Seq(L), NEW c \in L, w \in S
      PROVE  With(w, c) \in S
  <2>1. IsWord(w)
    BY SeqIsWord
  <2>2. Pieces(With(w, c), apart, dropped) = WithLetter(Pieces(w, apart, dropped), w, c, apart, dropped)
    BY <1>2, <2>1, PiecesOneMore DEF Shaped
  <2>3. Shaped(Pieces(With(w, c), apart, dropped), With(w, c), apart, dropped)
    BY <1>2, <2>1, <2>2, ShapedOneMore
  <2>4. With(w, c) \in Seq(L)
    <3>1. Append(w, c) \in Seq(L)
      OBVIOUS
    <3> QED
      BY <2>1, <3>1, AppendIsWith
  <2> QED
    BY <2>3, <2>4
<1>3. word \in Seq(L)
  BY WordIsSeq
<1>4. \A w \in Seq(L) : w \in S
  <2> HIDE DEF L, S
  <2> QED
    BY <1>1, <1>2, WordInduction
<1> QED
  BY <1>3, <1>4

-----------------------------------------------------------------------------
(* Words that are joined, and their pieces. *)
LEMMA JoinedWith ==
    ASSUME NEW a, IsWord(a), NEW q, IsWord(q), NEW x
    PROVE  Joined(a, With(q, x)) = With(Joined(a, q), x)
<1> DEFINE r == With(q, x)
           b == Joined(a, q)
           l == Joined(a, r)
           m == With(b, x)
<1>1. Extends(r, q, x) /\ Continues(b, a, q)
  BY WithIs, JoinedIs
<1>2. Continues(l, a, r)
  BY <1>1, JoinedIs DEF Extends
<1>3. Extends(m, b, x)
  BY <1>1, WithIs DEF Continues
<1>4. Len(a) \in Nat /\ Len(q) \in Nat
  BY WordLength
<1> HIDE DEF r, b, l, m
<1>5. Len(l) = Len(m) /\ Len(l) = Len(a) + Len(q) + 1 /\ Len(r) = Len(q) + 1 /\ Len(b) = Len(a) + Len(q)
  BY <1>1, <1>2, <1>3, <1>4 DEF Extends, Continues
<1>6. ASSUME NEW i \in 1 .. Len(l) PROVE l[i] = m[i]
  <2>1. CASE i \in 1 .. Len(a)
    <3>1. i \in 1 .. Len(b)
      BY <1>4, <1>5, <2>1
    <3> QED
      BY <1>1, <1>2, <1>3, <2>1, <3>1 DEF Extends, Continues
  <2>2. CASE i - Len(a) \in 1 .. Len(q)
    <3> DEFINE j == i - Len(a)
    <3>1. i = Len(a) + j /\ j \in 1 .. Len(r) /\ i \in 1 .. Len(b)
      BY <1>4, <1>5, <2>2
    <3> HIDE DEF j
    <3>2. j \in 1 .. Len(q)
      BY <2>2 DEF j
    <3>3. l[i] = r[j] /\ r[j] = q[j] /\ m[i] = b[i] /\ b[i] = q[j]
      BY <1>1, <1>2, <1>3, <3>1, <3>2 DEF Extends, Continues
    <3> QED
      BY <3>3
  <2>3. CASE i = Len(l)
    <3>1. l[Len(a) + (Len(q) + 1)] = r[Len(q) + 1]
      <4>1. Len(q) + 1 \in 1 .. Len(r)
        BY <1>4, <1>5
      <4> QED
        BY <1>2, <4>1 DEF Continues
    <3>2. m[Len(b) + 1] = x /\ r[Len(q) + 1] = x
      BY <1>1, <1>3 DEF Extends
    <3> QED
      BY <1>4, <1>5, <2>3, <3>1, <3>2
  <2>4. i \in 1 .. Len(a) \/ i - Len(a) \in 1 .. Len(q) \/ i = Len(l)
    BY <1>4, <1>5
  <2> QED
    BY <2>1, <2>2, <2>3, <2>4
<1>7. l = m
  BY <1>2, <1>3, <1>5, <1>6, WordsEqual DEF Extends, Continues
<1> QED
  BY <1>7 DEF l, m, r, b

LEMMA JoinedNone ==
    ASSUME NEW a, IsWord(a)
    PROVE  Joined(a, <<>>) = a /\ Joined(<<>>, a) = a
<1>1. a \in Seq(Range(a))
  BY WordIsSeq
<1> QED
  BY <1>1 DEF Joined

LEMMA JoinedGrown ==
    ASSUME NEW a, IsWord(a), NEW q, IsWord(q), Len(q) # 0, IsWord(q[Len(q)]), NEW c
    PROVE  Joined(a, Grown(q, c)) = Grown(Joined(a, q), c)
<1> DEFINE r == Grown(q, c)
           b == Joined(a, q)
           l == Joined(a, r)
           m == Grown(b, c)
           e == With(q[Len(q)], c)
<1>4. Len(a) \in Nat /\ Len(q) \in Nat
  BY WordLength
<1>10. Continues(b, a, q)
  BY JoinedIs
<1>1. Continues(b, a, q) /\ Len(b) = Len(a) + Len(q)
  BY <1>10 DEF Continues
<1>8. /\ IsWord(r) /\ Len(r) = Len(q) /\ r[Len(q)] = e
      /\ \A i \in 1 .. Len(q) - 1 : r[i] = q[i]
  BY GrownIs
<1>2. Continues(l, a, r)
  BY <1>8, JoinedIs
<1>9. Len(q) \in 1 .. Len(q) /\ b[Len(a) + Len(q)] = q[Len(q)]
  BY <1>1, <1>4 DEF Continues
<1>3. /\ IsWord(m) /\ Len(m) = Len(b) /\ m[Len(b)] = e
      /\ \A i \in 1 .. Len(b) - 1 : m[i] = b[i]
  <2>1. IsWord(b) /\ Len(b) # 0 /\ b[Len(b)] = q[Len(q)]
    BY <1>1, <1>4, <1>9 DEF Continues
  <2> HIDE DEF b
  <2> QED
    BY <2>1, GrownIs
<1> HIDE DEF r, b, l, m, e
<1>5. Len(l) = Len(m) /\ Len(l) = Len(a) + Len(q)
  BY <1>1, <1>2, <1>3, <1>8 DEF Continues
<1>6. ASSUME NEW i \in 1 .. Len(l) PROVE l[i] = m[i]
  <2>1. CASE i \in 1 .. Len(a)
    <3>1. i \in 1 .. Len(b) - 1
      BY <1>1, <1>4, <1>5, <2>1
    <3> QED
      BY <1>1, <1>2, <1>3, <2>1, <3>1 DEF Continues
  <2>2. CASE i - Len(a) \in 1 .. Len(q) - 1
    <3> DEFINE j == i - Len(a)
    <3>1. i = Len(a) + j /\ j \in 1 .. Len(r) /\ j \in 1 .. Len(q) /\ i \in 1 .. Len(b) - 1
      BY <1>1, <1>4, <1>5, <1>8, <2>2
    <3>2. j \in 1 .. Len(q) - 1
      BY <2>2
    <3> HIDE DEF j
    <3>3. l[i] = r[j] /\ r[j] = q[j] /\ m[i] = b[i] /\ b[i] = q[j]
      BY <1>1, <1>2, <1>3, <1>8, <3>1, <3>2 DEF Continues
    <3> QED
      BY <3>3
  <2>3. CASE i = Len(l)
    <3>1. l[Len(a) + Len(q)] = r[Len(q)]
      BY <1>2, <1>8, <1>9 DEF Continues
    <3> QED
      BY <1>1, <1>3, <1>5, <1>8, <2>3, <3>1
  <2>4. i \in 1 .. Len(a) \/ i - Len(a) \in 1 .. Len(q) - 1 \/ i = Len(l)
    BY <1>4, <1>5
  <2> QED
    BY <2>1, <2>2, <2>3, <2>4
<1>7. l = m
  BY <1>2, <1>3, <1>5, <1>6, WordsEqual DEF Continues
<1> QED
  BY <1>7 DEF l, m, r, b

LEMMA WithStays == ASSUME NEW L, NEW w \in Seq(L), NEW c \in L PROVE With(w, c) \in Seq(L)
<1>1. Append(w, c) \in Seq(L)
  OBVIOUS
<1> QED
  BY <1>1, SeqIsWord, AppendIsWith

LEMMA PiecesType ==
    ASSUME NEW w, IsWord(w), NEW apart, NEW dropped, dropped \subseteq apart
    PROVE  /\ IsWord(Pieces(w, apart, dropped))
           /\ EndsApart(w, apart) \/
                 LET P == Pieces(w, apart, dropped) IN
                 /\ Len(P) # 0 /\ IsWord(P[Len(P)]) /\ Len(P[Len(P)]) # 0
                 /\ P[Len(P)][Len(P[Len(P)])] = w[Len(w)]
<1> DEFINE P == Pieces(w, apart, dropped)
<1>1. Shaped(P, w, apart, dropped)
  BY PiecesAreShaped
<1> HIDE DEF P
<1>2. IsWord(P) /\ Len(P) \in Nat
  BY <1>1, WordLength DEF Shaped
<1>3. ASSUME ~EndsApart(w, apart)
      PROVE  Len(P) # 0 /\ IsPiece(P[Len(P)], w, apart, dropped)
  BY <1>1, <1>2, <1>3 DEF Shaped
<1> QED
  BY <1>1, <1>2, <1>3 DEF P, Shaped, IsPiece

(* Pieces end where a word ends or begins apart. *)
BeginsApart(w, apart) == Len(w) = 0 \/ w[1] \in apart

LEMMA PiecesJoin ==
    ASSUME NEW v, IsWord(v), NEW word, IsWord(word), NEW apart, NEW dropped, dropped \subseteq apart,
           EndsApart(v, apart) \/ BeginsApart(word, apart)
    PROVE  Pieces(Joined(v, word), apart, dropped)
              = Joined(Pieces(v, apart, dropped), Pieces(word, apart, dropped))
<1> DEFINE L == Range(word)
           A == Pieces(v, apart, dropped)
           J(w) == Pieces(Joined(v, w), apart, dropped)
           P(w) == Pieces(w, apart, dropped)
           Meets(w) == EndsApart(v, apart) \/ BeginsApart(w, apart)
           S == {w \in Seq(L) : Meets(w) => J(w) = Joined(A, P(w))}
<1>0. IsWord(A)
  BY PiecesType
<1>1. <<>> \in S
  <2>1. Joined(v, <<>>) = v /\ Joined(A, <<>>) = A
    BY <1>0, JoinedNone
  <2>2. P(<<>>) = <<>>
    BY PiecesNone
  <2>3. <<>> \in Seq(L)
    OBVIOUS
  <2> QED
    BY <2>1, <2>2, <2>3
<1>2. ASSUME NEW w \in Seq(L), NEW c \in L, w \in S
      PROVE  With(w, c) \in S
  <2>1. IsWord(w) /\ With(w, c) \in Seq(L)
    BY SeqIsWord, WithStays
  <2> SUFFICES ASSUME Meets(With(w, c))
               PROVE  J(With(w, c)) = Joined(A, P(With(w, c)))
    BY <2>1
  <2> DEFINE j == Joined(v, w)
             W == With(w, c)
  <2>2. Len(w) \in Nat /\ Len(v) \in Nat /\ Extends(W, w, c)
    BY <2>1, WordLength, WithIs
  <2>3. Continues(j, v, w)
    BY <2>1, JoinedIs
  <2>4. IsWord(j) /\ IsWord(P(w)) /\ IsWord(J(w))
    BY <2>1, <2>3, PiecesType DEF Continues
  <2>5. J(W) = WithLetter(J(w), j, c, apart, dropped)
    <3>1. Joined(v, W) = With(j, c)
      BY <2>1, JoinedWith
    <3> HIDE DEF j, W
    <3>2. Pieces(With(j, c), apart, dropped) = WithLetter(Pieces(j, apart, dropped), j, c, apart, dropped)
      BY <2>4, PiecesOneMore DEF j
    <3> QED
      BY <3>1, <3>2 DEF j
  <2>6. P(W) = WithLetter(P(w), w, c, apart, dropped)
    BY <2>1, <2>4, PiecesOneMore
  <2>7. Len(w) = 0 \/ (w[Len(w)] = j[Len(j)] /\ (EndsApart(j, apart) <=> EndsApart(w, apart)))
    <3>1. Len(w) # 0 => /\ Len(j) = Len(v) + Len(w) /\ Len(j) # 0
                        /\ j[Len(v) + Len(w)] = w[Len(w)]
      BY <2>2, <2>3 DEF Continues
    <3> QED
      BY <3>1 DEF EndsApart
  <2>8. Len(w) = 0 => j = v /\ w = <<>> /\ P(w) = <<>> /\ (c \in dropped \/ EndsApart(j, apart) \/ c \in apart)
    <3>1. Len(w) = 0 => w = <<>>
      OBVIOUS
    <3>2. Joined(v, <<>>) = v /\ Pieces(<<>>, apart, dropped) = <<>>
      BY JoinedNone, PiecesNone
    <3>3. Len(w) = 0 => W[1] = c /\ Len(W) # 0
      BY <2>2 DEF Extends
    <3> QED
      BY <3>1, <3>2, <3>3 DEF BeginsApart
  <2>9. Len(w) # 0 => J(w) = Joined(A, P(w))
    <3>1. Len(w) # 0 => W[1] = w[1] /\ Len(W) # 0
      BY <2>2 DEF Extends
    <3> QED
      BY <1>2, <3>1 DEF BeginsApart
  <2>10. Len(w) = 0 => J(w) = Joined(A, P(w))
    <3>1. Joined(A, <<>>) = A
      BY <1>0, JoinedNone
    <3> QED
      BY <2>8, <3>1
  <2>11. J(w) = Joined(A, P(w))
    BY <2>9, <2>10
  <2> DEFINE o == <<c>>
  <2>12. Joined(A, With(P(w), o)) = With(Joined(A, P(w)), o)
    BY <1>0, <2>4, JoinedWith
  <2>13. ~EndsApart(w, apart) => Joined(A, Grown(P(w), c)) = Grown(Joined(A, P(w)), c)
    <3> DEFINE Q == P(w)
    <3>1. ~EndsApart(w, apart) => Len(Q) # 0 /\ IsWord(Q[Len(Q)]) /\ IsWord(Q)
      BY <2>1, PiecesType
    <3> HIDE DEF Q
    <3> QED
      BY <1>0, <3>1, JoinedGrown DEF Q
  <2> HIDE DEF A, J, P, Meets, j, W, o
  <2>14. CASE Len(w) = 0
    <3>1. EndsApart(w, apart)
      BY <2>14 DEF EndsApart
    <3> QED
      BY <2>5, <2>6, <2>8, <2>11, <2>12, <2>14, <3>1 DEF WithLetter, W, o
  <2>15. CASE Len(w) # 0
    BY <2>5, <2>6, <2>7, <2>11, <2>12, <2>13, <2>15 DEF WithLetter, W, o
  <2> QED
    BY <2>14, <2>15
<1>3. word \in Seq(L)
  BY WordIsSeq
<1>4. \A w \in Seq(L) : w \in S
  <2> HIDE DEF L, S
  <2> QED
    BY <1>1, <1>2, WordInduction
<1> QED
  BY <1>3, <1>4

-----------------------------------------------------------------------------
(* Pieces depend on nothing but which letters are apart and dropped. *)
LEMMA PiecesAlike ==
    ASSUME NEW word, IsWord(word), NEW apart, NEW dropped, dropped \subseteq apart,
           NEW apart2, NEW dropped2, dropped2 \subseteq apart2,
           \A i \in 1 .. Len(word) : /\ word[i] \in apart <=> word[i] \in apart2
                                     /\ word[i] \in dropped <=> word[i] \in dropped2
    PROVE  Pieces(word, apart, dropped) = Pieces(word, apart2, dropped2)
<1> DEFINE L == Range(word)
           P(w) == Pieces(w, apart, dropped)
           Q(w) == Pieces(w, apart2, dropped2)
           S == {w \in Seq(L) : P(w) = Q(w)}
<1>1. <<>> \in S
  <2>1. <<>> \in Seq(L)
    OBVIOUS
  <2> QED
    BY <2>1, PiecesNone
<1>2. ASSUME NEW w \in Seq(L), NEW c \in L, w \in S
      PROVE  With(w, c) \in S
  <2>1. IsWord(w) /\ With(w, c) \in Seq(L) /\ Len(w) \in Nat
    BY SeqIsWord, WithStays
  <2>2. IsWord(P(w)) /\ IsWord(Q(w))
    BY <2>1, PiecesType
  <2>3. /\ P(With(w, c)) = WithLetter(P(w), w, c, apart, dropped)
        /\ Q(With(w, c)) = WithLetter(Q(w), w, c, apart2, dropped2)
    BY <2>1, <2>2, PiecesOneMore
  <2>4. \A x \in L : (x \in apart <=> x \in apart2) /\ (x \in dropped <=> x \in dropped2)
    <3>1. \A x \in L : \E i \in 1 .. Len(word) : x = word[i]
      <4>1. DOMAIN word = 1 .. Len(word)
        BY DEF IsWord
      <4> QED
        BY <4>1 DEF Range
    <3> QED
      BY <3>1
  <2>5. Len(w) # 0 => w[Len(w)] \in L
    BY <2>1
  <2>6. EndsApart(w, apart) <=> EndsApart(w, apart2)
    BY <2>4, <2>5 DEF EndsApart
  <2>7. P(w) = Q(w)
    BY <1>2
  <2> HIDE DEF P, Q, L
  <2>8. P(With(w, c)) = Q(With(w, c))
    BY <2>3, <2>4, <2>6, <2>7 DEF WithLetter
  <2> QED
    BY <2>1, <2>8
<1>3. word \in Seq(L)
  BY WordIsSeq
<1>4. \A w \in Seq(L) : w \in S
  <2> HIDE DEF L, S
  <2> QED
    BY <1>1, <1>2, WordInduction
<1> QED
  BY <1>3, <1>4

(* A word none of whose letters is apart is one piece. *)
LEMMA PiecesOfOne ==
    ASSUME NEW word, IsWord(word), Len(word) # 0, NEW apart, NEW dropped, dropped \subseteq apart,
           \A i \in 1 .. Len(word) : word[i] \notin apart
    PROVE  Pieces(word, apart, dropped) = <<word>>
<1> DEFINE L == Range(word)
           P(w) == Pieces(w, apart, dropped)
           S == {w \in Seq(L) : Len(w) # 0 => P(w) = <<w>>}
<1>1. <<>> \in S
  <2>1. <<>> \in Seq(L) /\ Len(<<>>) = 0
    OBVIOUS
  <2> QED
    BY <2>1
<1>5. \A x \in L : x \notin apart
  <2>1. DOMAIN word = 1 .. Len(word)
    BY DEF IsWord
  <2> QED
    BY <2>1 DEF Range
<1>2. ASSUME NEW w \in Seq(L), NEW c \in L, w \in S
      PROVE  With(w, c) \in S
  <2>1. IsWord(w) /\ With(w, c) \in Seq(L) /\ Len(w) \in Nat
    BY SeqIsWord, WithStays
  <2>2. IsWord(P(w))
    BY <2>1, PiecesType
  <2>3. P(With(w, c)) = WithLetter(P(w), w, c, apart, dropped)
    BY <2>1, <2>2, PiecesOneMore
  <2>4. c \notin apart /\ c \notin dropped /\ (EndsApart(w, apart) <=> Len(w) = 0)
    <3>1. Len(w) # 0 => w[Len(w)] \in L
      BY <2>1
    <3> QED
      BY <1>5, <3>1 DEF EndsApart
  <2> DEFINE o == <<c>>
             q == <<w>>
             W == With(w, c)
  <2>5. CASE Len(w) = 0
    <3>1. w = <<>> /\ P(w) = <<>>
      BY <2>5, PiecesNone
    <3>2. With(<<>>, c) = o /\ With(<<>>, o) = <<o>>
      BY DEF With, Joined
    <3>3. P(W) = With(P(w), o)
      BY <2>3, <2>4, <2>5 DEF WithLetter
    <3> QED
      BY <2>1, <3>1, <3>2, <3>3
  <2>6. CASE Len(w) # 0
    <3>1. P(W) = Grown(q, c)
      BY <1>2, <2>3, <2>4, <2>6 DEF WithLetter
    <3>2. IsWord(q) /\ Len(q) = 1 /\ q[1] = w
      BY ShortWords
    <3> HIDE DEF q, W
    <3>3. IsWord(Grown(q, c)) /\ Len(Grown(q, c)) = 1 /\ Grown(q, c)[1] = W
      <4>1. Len(q) # 0 /\ q[Len(q)] = w /\ IsWord(q[Len(q)])
        BY <2>1, <3>2
      <4>2. /\ IsWord(Grown(q, c)) /\ Len(Grown(q, c)) = Len(q)
            /\ Grown(q, c)[Len(q)] = With(q[Len(q)], c)
        BY <3>2, <4>1, GrownIs
      <4> QED
        BY <3>2, <4>1, <4>2 DEF W
    <3>4. IsWord(<<W>>) /\ Len(<<W>>) = 1 /\ <<W>>[1] = W
      BY ShortWords
    <3>5. Grown(q, c) = <<W>>
      <4> DEFINE u == <<W>>
                 g == Grown(q, c)
      <4>1. \A i \in 1 .. Len(g) : g[i] = u[i]
        BY <3>3, <3>4
      <4>2. IsWord(u) /\ IsWord(g) /\ Len(g) = Len(u)
        BY <3>3, <3>4
      <4> HIDE DEF u, g
      <4>3. g = u
        BY <4>1, <4>2, WordsEqual
      <4> QED
        BY <4>3 DEF u, g
    <3>6. P(W) = <<W>>
      BY <3>1, <3>5
    <3> QED
      BY <2>1, <3>6 DEF W
  <2> QED
    BY <2>5, <2>6
<1>3. word \in Seq(L)
  BY WordIsSeq
<1>4. \A w \in Seq(L) : w \in S
  <2> HIDE DEF L, S
  <2> QED
    BY <1>1, <1>2, WordInduction
<1> QED
  BY <1>3, <1>4

(* No letter that is not dropped gets lost. *)
Holds(p, x) == \E m \in 1 .. Len(p) : p[m] = x
Kept(pieces, w, dropped) ==
    \A i \in 1 .. Len(w) : w[i] \notin dropped => \E k \in 1 .. Len(pieces) : Holds(pieces[k], w[i])

LEMMA KeptOneMore ==
    ASSUME NEW w, IsWord(w), NEW c, NEW apart, NEW dropped, NEW P, IsWord(P), Kept(P, w, dropped),
           ~EndsApart(w, apart) => Len(P) # 0 /\ IsWord(P[Len(P)])
    PROVE  Kept(WithLetter(P, w, c, apart, dropped), With(w, c), dropped)
<1> DEFINE v == With(w, c)
           o == <<c>>
           Q == WithLetter(P, w, c, apart, dropped)
           p == P[Len(P)]
<1>1. Extends(v, w, c) /\ Len(w) \in Nat /\ Len(P) \in Nat
  BY WithIs, WordLength
<1>2. Len(o) = 1 /\ o[1] = c
  OBVIOUS
<1>3. Extends(With(P, o), P, o)
  BY WithIs
<1>4. ~EndsApart(w, apart) => Extends(With(p, c), p, c) /\ Len(p) \in Nat
  BY WithIs, WordLength
<1>5. ~EndsApart(w, apart) => /\ Len(Grown(P, c)) = Len(P)
                              /\ \A i \in 1 .. Len(P) - 1 : Grown(P, c)[i] = P[i]
                              /\ Grown(P, c)[Len(P)] = With(p, c)
  BY GrownIs
<1> HIDE DEF v, o, p
<1>6. \A i \in 1 .. Len(v) : v[i] = c \/ (i \in 1 .. Len(w) /\ v[i] = w[i])
  BY <1>1 DEF Extends
<1>7. Holds(o, c)
  BY <1>2 DEF Holds
<1>8. ~EndsApart(w, apart) => Holds(With(p, c), c) /\ \A x : Holds(p, x) => Holds(With(p, c), x)
  <2> SUFFICES ASSUME ~EndsApart(w, apart)
               PROVE  Holds(With(p, c), c) /\ \A x : Holds(p, x) => Holds(With(p, c), x)
    OBVIOUS
  <2> DEFINE q == With(p, c)
  <2>1. Len(q) \in 1 .. Len(q) /\ q[Len(q)] = c
    BY <1>4 DEF Extends
  <2>2. \A m \in 1 .. Len(p) : m \in 1 .. Len(q) /\ q[m] = p[m]
    BY <1>4 DEF Extends
  <2> HIDE DEF q
  <2>3. Holds(q, c) /\ \A x : Holds(p, x) => Holds(q, x)
    BY <2>1, <2>2 DEF Holds
  <2> QED
    BY <2>3 DEF q
<1>9. CASE c \in dropped
  <2>1. Q = P
    BY <1>9 DEF WithLetter
  <2> HIDE DEF Q
  <2>2. Kept(P, v, dropped)
    BY <1>6, <1>9 DEF Kept
  <2> QED
    BY <2>1, <2>2 DEF v, Q
<1>10. CASE c \notin dropped /\ (EndsApart(w, apart) \/ c \in apart)
  <2>1. Q = With(P, o)
    BY <1>10 DEF WithLetter, o
  <2> HIDE DEF Q
  <2>2. Len(Q) \in 1 .. Len(Q) /\ Q[Len(Q)] = o
    BY <1>1, <1>3, <2>1 DEF Extends
  <2>3. \A k \in 1 .. Len(P) : k \in 1 .. Len(Q) /\ Q[k] = P[k]
    BY <1>1, <1>3, <2>1 DEF Extends
  <2>4. Kept(Q, v, dropped)
    BY <1>6, <1>7, <2>2, <2>3 DEF Kept
  <2> QED
    BY <2>4 DEF v, Q
<1>11. CASE c \notin dropped /\ ~EndsApart(w, apart) /\ c \notin apart
  <2>1. Q = Grown(P, c)
    BY <1>11 DEF WithLetter
  <2> HIDE DEF Q
  <2>2. Len(Q) \in 1 .. Len(Q) /\ Q[Len(Q)] = With(p, c)
    BY <1>1, <1>5, <1>11, <2>1
  <2>3. \A k \in 1 .. Len(P) : k \in 1 .. Len(Q) /\ \A x : Holds(P[k], x) => Holds(Q[k], x)
    <3> TAKE k \in 1 .. Len(P)
    <3>1. k \in 1 .. Len(P) - 1 \/ k = Len(P)
      BY <1>1
    <3> QED
      BY <1>5, <1>8, <1>11, <2>1, <3>1 DEF p
  <2>4. Kept(Q, v, dropped)
    BY <1>6, <1>8, <1>11, <2>2, <2>3 DEF Kept
  <2> QED
    BY <2>4 DEF v, Q
<1> QED
  BY <1>9, <1>10, <1>11

LEMMA LettersAreKept ==
    ASSUME NEW word, IsWord(word), NEW apart, NEW dropped, dropped \subseteq apart
    PROVE  Kept(Pieces(word, apart, dropped), word, dropped)
<1> DEFINE L == Range(word)
           P(w) == Pieces(w, apart, dropped)
           S == {w \in Seq(L) : Kept(P(w), w, dropped)}
<1>1. <<>> \in S
  <2>1. <<>> \in Seq(L) /\ Len(<<>>) = 0
    OBVIOUS
  <2> QED
    BY <2>1 DEF Kept
<1>2. ASSUME NEW w \in Seq(L), NEW c \in L, w \in S
      PROVE  With(w, c) \in S
  <2>1. IsWord(w) /\ With(w, c) \in Seq(L)
    BY SeqIsWord, WithStays
  <2>2. IsWord(P(w)) /\ (~EndsApart(w, apart) => Len(P(w)) # 0 /\ IsWord(P(w)[Len(P(w))]))
    BY <2>1, PiecesType
  <2>3. P(With(w, c)) = WithLetter(P(w), w, c, apart, dropped)
    BY <2>1, <2>2, PiecesOneMore
  <2>4. Kept(P(w), w, dropped)
    BY <1>2
  <2> HIDE DEF P
  <2>5. Kept(P(With(w, c)), With(w, c), dropped)
    BY <2>1, <2>2, <2>3, <2>4, KeptOneMore
  <2> QED
    BY <2>1, <2>5
<1>3. word \in Seq(L)
  BY WordIsSeq
<1>4. \A w \in Seq(L) : w \in S
  <2> HIDE DEF L, S
  <2> QED
    BY <1>1, <1>2, WordInduction
<1> QED
  BY <1>3, <1>4

(* A letter that is apart but not dropped is a piece. *)
Among(p, pieces) == \E k \in 1 .. Len(pieces) : pieces[k] = p

LEMMA ApartIsPiece ==
    ASSUME NEW word, IsWord(word), NEW apart, NEW dropped, dropped \subseteq apart,
           NEW i \in 1 .. Len(word), word[i] \in apart, word[i] \notin dropped
    PROVE  Among(<<word[i]>>, Pieces(word, apart, dropped))
<1> DEFINE P == Pieces(word, apart, dropped)
           o == <<word[i]>>
<1>1. PICK k \in 1 .. Len(P) : Holds(P[k], word[i])
  BY LettersAreKept DEF Kept
<1> DEFINE p == P[k]
<1>2. IsPiece(p, word, apart, dropped)
  BY PiecesAreShaped DEF Shaped
<1>3. PICK m \in 1 .. Len(p) : p[m] = word[i]
  BY <1>1 DEF Holds
<1> HIDE DEF P, p
<1>4. IsWord(p) /\ Len(p) = 1
  <2>1. Len(p) \in Nat
    BY <1>2, WordLength DEF IsPiece
  <2>2. ~(Len(p) > 1)
    BY <1>2, <1>3 DEF IsPiece
  <2>3. IsWord(p) /\ Len(p) # 0
    BY <1>2 DEF IsPiece
  <2> QED
    BY <2>1, <2>2, <2>3
<1>5. IsWord(o) /\ Len(o) = 1 /\ o[1] = word[i]
  BY ShortWords
<1>6. p[1] = word[i]
  BY <1>3, <1>4
<1> HIDE DEF o
<1>7. \A j \in 1 .. Len(p) : p[j] = o[j]
  BY <1>4, <1>5, <1>6
<1>8. p = o
  BY <1>4, <1>5, <1>7, WordsEqual
<1> QED
  BY <1>8 DEF p, P, o, Among

-----------------------------------------------------------------------------
(* Where a letter has no other next to it but letters that are apart: such *)
(* a letter, and no other, is a piece of its own.                          *)
Alone(w, o, apart) == {i \in 1 .. Len(w) : /\ w[i] = o
                                           /\ i > 1 => w[i - 1] \in apart
                                           /\ i < Len(w) => w[i + 1] \in apart}

LEMMA AloneOneMore ==
    ASSUME NEW w, IsWord(w), NEW c, NEW o, NEW apart
    PROVE  /\ \A i \in Alone(w, o, apart) : i # Len(w) \/ c \in apart => i \in Alone(With(w, c), o, apart)
           /\ c = o /\ EndsApart(w, apart) => Len(w) + 1 \in Alone(With(w, c), o, apart)
           /\ \A i \in Alone(With(w, c), o, apart) :
                 \/ i = Len(w) + 1 /\ c = o /\ EndsApart(w, apart)
                 \/ i \in Alone(w, o, apart) /\ (i = Len(w) => c \in apart)
<1> DEFINE v == With(w, c)
<1>1. Extends(v, w, c) /\ Len(w) \in Nat
  BY WithIs, WordLength
<1> HIDE DEF v
<1>2. /\ Len(v) = Len(w) + 1 /\ v[Len(w) + 1] = c
      /\ \A i \in 1 .. Len(w) : i \in 1 .. Len(v) /\ v[i] = w[i]
  BY <1>1 DEF Extends
<1>3. ASSUME NEW i \in Alone(w, o, apart), i # Len(w) \/ c \in apart
      PROVE  i \in Alone(v, o, apart)
  <2>1. /\ i \in 1 .. Len(w) /\ w[i] = o /\ (i > 1 => w[i - 1] \in apart)
        /\ (i < Len(w) => w[i + 1] \in apart)
    BY DEF Alone
  <2>2. i \in 1 .. Len(v) /\ v[i] = o
    BY <1>2, <2>1
  <2>3. i > 1 => v[i - 1] \in apart
    <3>1. i > 1 => i - 1 \in 1 .. Len(w)
      BY <1>1, <2>1
    <3> QED
      BY <1>2, <2>1, <3>1
  <2>4. v[i + 1] \in apart
    <3>1. i < Len(w) => i + 1 \in 1 .. Len(w)
      BY <1>1, <2>1
    <3>2. i < Len(w) \/ i = Len(w)
      BY <1>1, <2>1
    <3> QED
      BY <1>2, <1>3, <2>1, <3>1, <3>2
  <2> QED
    BY <2>2, <2>3, <2>4 DEF Alone
<1>4. ASSUME c = o, EndsApart(w, apart)
      PROVE  Len(w) + 1 \in Alone(v, o, apart)
  <2>1. Len(w) + 1 \in 1 .. Len(v) /\ v[Len(w) + 1] = o /\ ~(Len(w) + 1 < Len(v))
    BY <1>1, <1>2, <1>4
  <2>2. Len(w) + 1 > 1 => v[(Len(w) + 1) - 1] \in apart
    <3>1. Len(w) + 1 > 1 => Len(w) \in 1 .. Len(w) /\ (Len(w) + 1) - 1 = Len(w) /\ Len(w) # 0
      BY <1>1
    <3> QED
      BY <1>2, <1>4, <3>1 DEF EndsApart
  <2> QED
    BY <2>1, <2>2 DEF Alone
<1>5. ASSUME NEW i \in Alone(v, o, apart)
      PROVE  \/ i = Len(w) + 1 /\ c = o /\ EndsApart(w, apart)
             \/ i \in Alone(w, o, apart) /\ (i = Len(w) => c \in apart)
  <2>1. /\ i \in 1 .. Len(v) /\ v[i] = o /\ (i > 1 => v[i - 1] \in apart)
        /\ (i < Len(v) => v[i + 1] \in apart)
    BY DEF Alone
  <2>2. CASE i = Len(w) + 1
    <3>1. Len(w) # 0 => Len(w) \in 1 .. Len(w) /\ i > 1 /\ i - 1 = Len(w)
      BY <1>1, <2>2
    <3> QED
      BY <1>2, <2>1, <2>2, <3>1 DEF EndsApart
  <2>3. CASE i # Len(w) + 1
    <3>1. i \in 1 .. Len(w) /\ i < Len(v)
      BY <1>1, <1>2, <2>1, <2>3
    <3>2. w[i] = o
      BY <1>2, <2>1, <3>1
    <3>3. i > 1 => w[i - 1] \in apart
      <4>1. i > 1 => i - 1 \in 1 .. Len(w)
        BY <1>1, <3>1
      <4> QED
        BY <1>2, <2>1, <4>1
    <3>4. i < Len(w) => w[i + 1] \in apart
      <4>1. i < Len(w) => i + 1 \in 1 .. Len(w)
        BY <1>1, <3>1
      <4> QED
        BY <1>2, <2>1, <3>1, <4>1
    <3>5. i = Len(w) => c \in apart
      BY <1>2, <2>1, <3>1
    <3> QED
      BY <3>1, <3>2, <3>3, <3>4, <3>5 DEF Alone
  <2> QED
    BY <2>2, <2>3
<1> QED
  BY <1>3, <1>4, <1>5 DEF v

Singles(P, w, o, apart) ==
    /\ \A k \in 1 .. Len(P) : P[k] = <<o>> =>
          \E i \in Alone(w, o, apart) : i = Len(w) => k = Len(P)
    /\ \A i \in Alone(w, o, apart) :
          \E k \in 1 .. Len(P) : P[k] = <<o>> /\ (k = Len(P) => EndsApart(w, apart) \/ i = Len(w))

LEMMA SinglesOneMore ==
    ASSUME NEW w, IsWord(w), NEW c, NEW apart, NEW dropped, dropped \subseteq apart,
           NEW o, o \notin apart, NEW P, IsWord(P), Singles(P, w, o, apart),
           ~EndsApart(w, apart) => Len(P) # 0 /\ IsWord(P[Len(P)]) /\ Len(P[Len(P)]) # 0
    PROVE  Singles(WithLetter(P, w, c, apart, dropped), With(w, c), o, apart)
<1> DEFINE v == With(w, c)
           A == Alone(w, o, apart)
           B == Alone(v, o, apart)
           s == <<o>>
           t == <<c>>
           p == P[Len(P)]
           Q == WithLetter(P, w, c, apart, dropped)
<1>1. Extends(v, w, c) /\ Len(w) \in Nat /\ Len(P) \in Nat
  BY WithIs, WordLength
<1>2. Len(s) = 1 /\ (t = s <=> c = o)
  OBVIOUS
<1>3. /\ \A i \in A : i # Len(w) \/ c \in apart => i \in B
      /\ c = o /\ EndsApart(w, apart) => Len(w) + 1 \in B
      /\ \A i \in B : \/ i = Len(w) + 1 /\ c = o /\ EndsApart(w, apart)
                      \/ i \in A /\ (i = Len(w) => c \in apart)
  BY AloneOneMore
<1>4. /\ \A k \in 1 .. Len(P) : P[k] = s => \E i \in A : i = Len(w) => k = Len(P)
      /\ \A i \in A : \E k \in 1 .. Len(P) : P[k] = s /\ (k = Len(P) => EndsApart(w, apart) \/ i = Len(w))
  BY DEF Singles
<1>5. Extends(With(P, t), P, t)
  BY WithIs
<1>6. ~EndsApart(w, apart) => /\ Len(Grown(P, c)) = Len(P)
                              /\ \A i \in 1 .. Len(P) - 1 : Grown(P, c)[i] = P[i]
                              /\ Grown(P, c)[Len(P)] = With(p, c)
  BY GrownIs
<1>7. ~EndsApart(w, apart) => With(p, c) # s
  <2>1. ~EndsApart(w, apart) => Extends(With(p, c), p, c) /\ Len(p) \in Nat /\ Len(p) # 0
    BY WithIs, WordLength
  <2> DEFINE q == With(p, c)
  <2> HIDE DEF q, p, s
  <2>2. ~EndsApart(w, apart) => Len(q) # 1
    BY <2>1 DEF Extends, q
  <2> QED
    BY <1>2, <2>2 DEF q
<1>8. \A i \in A : i \in 1 .. Len(w) /\ w[i] = o
  BY DEF Alone
<1>9. Len(v) = Len(w) + 1
  BY <1>1 DEF Extends
<1>10. \A i \in A : i = Len(w) => ~EndsApart(w, apart)
  BY <1>1, <1>8 DEF EndsApart
<1>11. EndsApart(v, apart) <=> c \in apart
  BY <1>1 DEF Extends, EndsApart
<1> HIDE DEF v, A, B, s, t, p
<1>12. CASE c \in dropped
  <2>1. Q = P /\ c \in apart /\ c # o
    BY <1>12 DEF WithLetter
  <2> HIDE DEF Q
  <2>2. \A k \in 1 .. Len(P) : P[k] = s => \E i \in B : i = Len(v) => k = Len(P)
    <3>1. \A i \in A : i \in B /\ i # Len(v)
      BY <1>1, <1>3, <1>8, <1>9, <2>1
    <3> QED
      BY <1>4, <3>1
  <2>3. \A i \in B : \E k \in 1 .. Len(P) : P[k] = s
    BY <1>3, <1>4, <2>1
  <2>4. Singles(P, v, o, apart)
    BY <1>11, <2>1, <2>2, <2>3 DEF Singles, B, s
  <2> QED
    BY <2>1, <2>4 DEF v, Q
<1>13. CASE c \notin dropped /\ (EndsApart(w, apart) \/ c \in apart)
  <2>1. Q = With(P, t)
    BY <1>13 DEF WithLetter, t
  <2> HIDE DEF Q
  <2>2. /\ Len(Q) = Len(P) + 1 /\ Q[Len(P) + 1] = t
        /\ \A k \in 1 .. Len(P) : k \in 1 .. Len(Q) /\ Q[k] = P[k] /\ k # Len(Q)
    BY <1>1, <1>5, <2>1 DEF Extends
  <2>3. ASSUME NEW k \in 1 .. Len(Q), Q[k] = s
        PROVE  \E i \in B : i = Len(v) => k = Len(Q)
    <3>1. CASE k \in 1 .. Len(P)
      <4>1. PICK i \in A : i = Len(w) => k = Len(P)
        BY <1>4, <2>2, <2>3, <3>1
      <4>2. i \in B
        BY <1>3, <1>10, <1>13
      <4>3. i # Len(v)
        BY <1>1, <1>8, <1>9
      <4> QED
        BY <4>2, <4>3
    <3>2. CASE k = Len(P) + 1
      <4>1. c = o
        BY <1>2, <2>2, <2>3, <3>2
      <4> QED
        BY <1>3, <1>9, <1>13, <2>2, <3>2, <4>1
    <3>3. k \in 1 .. Len(P) \/ k = Len(P) + 1
      BY <1>1, <2>2
    <3> QED
      BY <3>1, <3>2, <3>3
  <2>4. ASSUME NEW i \in B
        PROVE  \E k \in 1 .. Len(Q) : Q[k] = s /\ (k = Len(Q) => EndsApart(v, apart) \/ i = Len(v))
    <3>1. CASE i = Len(w) + 1 /\ c = o
      <4>1. Len(Q) \in 1 .. Len(Q) /\ Q[Len(Q)] = s
        BY <1>1, <1>2, <2>2, <3>1
      <4> QED
        BY <1>9, <3>1, <4>1
    <3>2. CASE i \in A
      BY <1>4, <2>2, <3>2
    <3> QED
      BY <1>3, <3>1, <3>2
  <2>5. Singles(Q, v, o, apart)
    BY <2>3, <2>4 DEF Singles, B, s
  <2> QED
    BY <2>5 DEF v, Q
<1>14. CASE c \notin dropped /\ ~EndsApart(w, apart) /\ c \notin apart
  <2>1. Q = Grown(P, c)
    BY <1>14 DEF WithLetter
  <2> HIDE DEF Q
  <2>2. /\ Len(Q) = Len(P) /\ Q[Len(P)] # s
        /\ \A k \in 1 .. Len(P) : k # Len(P) => Q[k] = P[k]
    <3>1. \A k \in 1 .. Len(P) : k # Len(P) => k \in 1 .. Len(P) - 1
      BY <1>1
    <3> QED
      BY <1>6, <1>7, <1>14, <2>1, <3>1
  <2>3. ASSUME NEW k \in 1 .. Len(Q), Q[k] = s
        PROVE  \E i \in B : i = Len(v) => k = Len(Q)
    <3>1. k \in 1 .. Len(P) /\ k # Len(P) /\ P[k] = s
      BY <2>2, <2>3
    <3>2. PICK i \in A : i # Len(w)
      BY <1>4, <3>1
    <3>3. i \in B /\ i # Len(v)
      BY <1>1, <1>3, <1>8, <1>9, <3>2
    <3> QED
      BY <3>3
  <2>4. ASSUME NEW i \in B
        PROVE  \E k \in 1 .. Len(Q) : Q[k] = s /\ (k = Len(Q) => EndsApart(v, apart) \/ i = Len(v))
    <3>1. i \in A /\ i # Len(w)
      BY <1>3, <1>14
    <3>2. PICK k \in 1 .. Len(P) : P[k] = s /\ k # Len(P)
      BY <1>4, <1>14, <3>1
    <3> QED
      BY <2>2, <3>2
  <2>5. Singles(Q, v, o, apart)
    BY <2>3, <2>4 DEF Singles, B, s
  <2> QED
    BY <2>5 DEF v, Q
<1> QED
  BY <1>12, <1>13, <1>14

LEMMA SinglesAreAlone ==
    ASSUME NEW word, IsWord(word), NEW apart, NEW dropped, dropped \subseteq apart,
           NEW o, o \notin apart
    PROVE  LET P == Pieces(word, apart, dropped) IN
           (\E k \in 1 .. Len(P) : P[k] = <<o>>) <=> Alone(word, o, apart) # {}
<1> DEFINE L == Range(word)
           P(w) == Pieces(w, apart, dropped)
           S == {w \in Seq(L) : Singles(P(w), w, o, apart)}
<1>1. <<>> \in S
  <2>1. <<>> \in Seq(L) /\ Len(<<>>) = 0
    OBVIOUS
  <2>2. P(<<>>) = <<>>
    BY PiecesNone
  <2> QED
    BY <2>1, <2>2 DEF Singles, Alone
<1>2. ASSUME NEW w \in Seq(L), NEW c \in L, w \in S
      PROVE  With(w, c) \in S
  <2>1. IsWord(w) /\ With(w, c) \in Seq(L)
    BY SeqIsWord, WithStays
  <2>2. /\ IsWord(P(w))
        /\ ~EndsApart(w, apart) => Len(P(w)) # 0 /\ IsWord(P(w)[Len(P(w))]) /\ Len(P(w)[Len(P(w))]) # 0
    BY <2>1, PiecesType
  <2>3. P(With(w, c)) = WithLetter(P(w), w, c, apart, dropped)
    BY <2>1, <2>2, PiecesOneMore
  <2>4. Singles(P(w), w, o, apart)
    BY <1>2
  <2> HIDE DEF P
  <2>5. Singles(P(With(w, c)), With(w, c), o, apart)
    BY <2>1, <2>2, <2>3, <2>4, SinglesOneMore
  <2> QED
    BY <2>1, <2>5
<1>3. word \in Seq(L)
  BY WordIsSeq
<1>4. \A w \in Seq(L) : w \in S
  <2> HIDE DEF L, S
  <2> QED
    BY <1>1, <1>2, WordInduction
<1>5. Singles(P(word), word, o, apart)
  BY <1>3, <1>4
<1> QED
  BY <1>5 DEF Singles

-----------------------------------------------------------------------------
(* The recursive functions of Match and of JoinTerms. *)
(* The stack after one lexeme after the other. *)
NextRead(lexemes, row, out, n) ==
    IF n = 0 THEN <<Expression>> ELSE ReadLexeme(out[n - 1], lexemes[n], row)

LEMMA ReadsExist ==
    ASSUME NEW lexemes, NEW row
    PROVE  \A m \in Nat : \E out : out = [n \in 0 .. m |-> NextRead(lexemes, row, out, n)]
<1> DEFINE Step(out, n) == NextRead(lexemes, row, out, n)
           Reached == {m \in Nat : \E out : out = [n \in 0 .. m |-> Step(out, n)]}
<1>1. 0 \in Reached
  <2> DEFINE out == [n \in 0 .. 0 |-> <<Expression>>]
  <2>1. out = [n \in 0 .. 0 |-> Step(out, n)]
    BY DEF NextRead
  <2> HIDE DEF out
  <2> QED
    BY <2>1
<1>2. ASSUME NEW m \in Nat, m \in Reached
      PROVE  m + 1 \in Reached
  <2>1. PICK f : f = [n \in 0 .. m |-> Step(f, n)]
    BY <1>2
  <2> DEFINE out == [n \in 0 .. m + 1 |-> Step(f, n)]
             known == [n \in 0 .. m |-> Step(f, n)]
  <2>2. \A n \in 0 .. m : out[n] = f[n]
    <3>1. \A n \in 0 .. m : out[n] = known[n]
      OBVIOUS
    <3> HIDE DEF out, known
    <3> QED
      BY <2>1, <3>1 DEF known
  <2>3. \A n \in 0 .. m + 1 : Step(f, n) = Step(out, n)
    <3> SUFFICES ASSUME NEW n \in 0 .. m + 1
                 PROVE  Step(f, n) = Step(out, n)
      OBVIOUS
    <3>1. n = 0 \/ n - 1 \in 0 .. m
      OBVIOUS
    <3> HIDE DEF out
    <3> QED
      BY <2>2, <3>1 DEF NextRead
  <2>4. out = [n \in 0 .. m + 1 |-> Step(out, n)]
    <3> DEFINE next == [n \in 0 .. m + 1 |-> Step(out, n)]
    <3>1. out = next
      BY <2>3, Zenon
    <3> QED
      BY <3>1
  <2> HIDE DEF out
  <2> QED
    BY <2>4
<1> HIDE DEF Reached
<1>3. \A m \in Nat : m \in Reached
  BY <1>1, <1>2, Induction
<1> QED
  BY <1>3 DEF Reached

ReadingOf(lexemes, row) ==
    CHOOSE out : out = [n \in 0 .. Len(lexemes) |-> NextRead(lexemes, row, out, n)]
ReadBy(lexemes, row, out) ==
    /\ out[0] = <<Expression>>
    /\ \A n \in 1 .. Len(lexemes) : out[n] = ReadLexeme(out[n - 1], lexemes[n], row)

LEMMA ReadAllReads ==
    ASSUME NEW lexemes, IsWord(lexemes), NEW row
    PROVE  \E out : ReadBy(lexemes, row, out) /\ ReadAll(lexemes, row) = out[Len(lexemes)]
<1>1. Len(lexemes) \in Nat
  BY WordLength
<1> DEFINE out == ReadingOf(lexemes, row)
           all == [n \in 0 .. Len(lexemes) |-> NextRead(lexemes, row, out, n)]
<1>2. \E f : f = [n \in 0 .. Len(lexemes) |-> NextRead(lexemes, row, f, n)]
  BY <1>1, ReadsExist
<1>3. out = all
  BY <1>2, Zenon DEF ReadingOf
<1>4. ReadAll(lexemes, row) = out[Len(lexemes)]
  BY Zenon DEF ReadAll, ReadingOf, NextRead
<1>5. \A n \in 0 .. Len(lexemes) : all[n] = NextRead(lexemes, row, out, n)
  OBVIOUS
<1> HIDE DEF out, all
<1>6. \A n \in 0 .. Len(lexemes) : out[n] = NextRead(lexemes, row, out, n)
  BY <1>3, <1>5
<1>7. out[0] = <<Expression>>
  BY <1>1, <1>6 DEF NextRead
<1>8. \A n \in 1 .. Len(lexemes) : out[n] = ReadLexeme(out[n - 1], lexemes[n], row)
  BY <1>1, <1>6 DEF NextRead
<1> QED
  BY <1>4, <1>7, <1>8 DEF ReadBy

LEMMA ReadNone == ASSUME NEW row PROVE ReadAll(<<>>, row) = <<Expression>>
<1>1. IsWord(<<>>) /\ Len(<<>>) = 0
  BY ShortWords
<1>2. PICK out : ReadBy(<<>>, row, out) /\ ReadAll(<<>>, row) = out[Len(<<>>)]
  BY <1>1, ReadAllReads
<1> QED
  BY <1>1, <1>2 DEF ReadBy

LEMMA ReadOneMore ==
    ASSUME NEW lexemes, IsWord(lexemes), NEW l, NEW row
    PROVE  ReadAll(With(lexemes, l), row) = ReadLexeme(ReadAll(lexemes, row), l, row)
<1> DEFINE v == With(lexemes, l)
<1>1. Extends(v, lexemes, l) /\ Len(lexemes) \in Nat
  BY WithIs, WordLength
<1> HIDE DEF v
<1>2. /\ IsWord(v) /\ Len(v) = Len(lexemes) + 1 /\ v[Len(lexemes) + 1] = l
      /\ \A i \in 1 .. Len(lexemes) : v[i] = lexemes[i]
  BY <1>1 DEF Extends
<1>3. PICK f : ReadBy(lexemes, row, f) /\ ReadAll(lexemes, row) = f[Len(lexemes)]
  BY ReadAllReads
<1>4. PICK g : ReadBy(v, row, g) /\ ReadAll(v, row) = g[Len(v)]
  BY <1>2, ReadAllReads
<1> DEFINE Same == {n \in Nat : n <= Len(lexemes) => g[n] = f[n]}
<1>5. 0 \in Same
  BY <1>3, <1>4 DEF ReadBy
<1>6. ASSUME NEW n \in Nat, n \in Same
      PROVE  n + 1 \in Same
  <2> SUFFICES ASSUME n + 1 <= Len(lexemes)
               PROVE  g[n + 1] = f[n + 1]
    OBVIOUS
  <2>1. /\ n + 1 \in 1 .. Len(lexemes) /\ n + 1 \in 1 .. Len(v)
        /\ (n + 1) - 1 = n /\ g[n] = f[n]
    BY <1>1, <1>2, <1>6
  <2>2. /\ f[n + 1] = ReadLexeme(f[n], lexemes[n + 1], row)
        /\ g[n + 1] = ReadLexeme(f[n], v[n + 1], row)
    BY <1>3, <1>4, <2>1 DEF ReadBy
  <2> QED
    BY <1>2, <2>1, <2>2
<1> HIDE DEF Same
<1>7. \A n \in Nat : n \in Same
  BY <1>5, <1>6, Induction
<1>8. g[Len(lexemes)] = f[Len(lexemes)]
  BY <1>1, <1>7 DEF Same
<1>9. Len(v) \in 1 .. Len(v) /\ Len(v) - 1 = Len(lexemes)
  BY <1>1, <1>2
<1>10. g[Len(v)] = ReadLexeme(f[Len(lexemes)], v[Len(v)], row)
  BY <1>4, <1>8, <1>9 DEF ReadBy
<1> QED
  BY <1>2, <1>3, <1>4, <1>10 DEF v

(* The rewritten terms, joined one after the other. *)
Conjunction == <<" ", "AND", " ">>
NextJoined(terms, out, n) ==
    IF n = 0 THEN <<>> ELSE IF n = 1 THEN NormalizeTerm(terms[1])
    ELSE out[n - 1] \o <<" ", "AND", " ">> \o NormalizeTerm(terms[n])

LEMMA JoinsExist ==
    ASSUME NEW terms
    PROVE  \A m \in Nat : \E out : out = [n \in 0 .. m |-> NextJoined(terms, out, n)]
<1> DEFINE Step(out, n) == NextJoined(terms, out, n)
           Reached == {m \in Nat : \E out : out = [n \in 0 .. m |-> Step(out, n)]}
<1>1. 0 \in Reached
  <2> DEFINE out == [n \in 0 .. 0 |-> <<>>]
  <2>1. out = [n \in 0 .. 0 |-> Step(out, n)]
    BY DEF NextJoined
  <2> HIDE DEF out
  <2> QED
    BY <2>1
<1>2. ASSUME NEW m \in Nat, m \in Reached
      PROVE  m + 1 \in Reached
  <2>1. PICK f : f = [n \in 0 .. m |-> Step(f, n)]
    BY <1>2
  <2> DEFINE out == [n \in 0 .. m + 1 |-> Step(f, n)]
             known == [n \in 0 .. m |-> Step(f, n)]
  <2>2. \A n \in 0 .. m : out[n] = f[n]
    <3>1. \A n \in 0 .. m : out[n] = known[n]
      OBVIOUS
    <3> HIDE DEF out, known
    <3> QED
      BY <2>1, <3>1 DEF known
  <2>3. \A n \in 0 .. m + 1 : Step(f, n) = Step(out, n)
    <3> SUFFICES ASSUME NEW n \in 0 .. m + 1
                 PROVE  Step(f, n) = Step(out, n)
      OBVIOUS
    <3>1. n = 0 \/ n - 1 \in 0 .. m
      OBVIOUS
    <3> HIDE DEF out
    <3> QED
      BY <2>2, <3>1 DEF NextJoined
  <2>4. out = [n \in 0 .. m + 1 |-> Step(out, n)]
    <3> DEFINE next == [n \in 0 .. m + 1 |-> Step(out, n)]
    <3>1. out = next
      BY <2>3, Zenon
    <3> QED
      BY <3>1
  <2> HIDE DEF out
  <2> QED
    BY <2>4
<1> HIDE DEF Reached
<1>3. \A m \in Nat : m \in Reached
  BY <1>1, <1>2, Induction
<1> QED
  BY <1>3 DEF Reached

JoiningOf(terms) == CHOOSE out : out = [n \in 0 .. Len(terms) |-> NextJoined(terms, out, n)]
JoinedBy(terms, out) ==
    /\ out[0] = <<>>
    /\ \A n \in 1 .. Len(terms) : out[n] = NextJoined(terms, out, n)

LEMMA JoinTermsJoins ==
    ASSUME NEW terms, IsWord(terms)
    PROVE  \E out : JoinedBy(terms, out) /\ JoinTerms(terms) = out[Len(terms)]
<1>1. Len(terms) \in Nat
  BY WordLength
<1> DEFINE out == JoiningOf(terms)
           all == [n \in 0 .. Len(terms) |-> NextJoined(terms, out, n)]
<1>2. \E f : f = [n \in 0 .. Len(terms) |-> NextJoined(terms, f, n)]
  BY <1>1, JoinsExist
<1>3. out = all
  BY <1>2, Zenon DEF JoiningOf
<1>4. JoinTerms(terms) = out[Len(terms)]
  BY Zenon DEF JoinTerms, JoiningOf, NextJoined
<1>5. \A n \in 0 .. Len(terms) : all[n] = NextJoined(terms, out, n)
  OBVIOUS
<1> HIDE DEF out, all
<1>6. \A n \in 0 .. Len(terms) : out[n] = NextJoined(terms, out, n)
  BY <1>3, <1>5
<1>7. out[0] = <<>>
  <2>1. 0 \in 0 .. Len(terms)
    BY <1>1
  <2>2. out[0] = NextJoined(terms, out, 0)
    BY <1>6, <2>1
  <2> QED
    BY <2>2, Zenon DEF NextJoined
<1> QED
  BY <1>1, <1>4, <1>6, <1>7 DEF JoinedBy

LEMMA JoinNone == JoinTerms(<<>>) = <<>>
<1>1. IsWord(<<>>) /\ Len(<<>>) = 0
  BY ShortWords
<1>2. PICK out : JoinedBy(<<>>, out) /\ JoinTerms(<<>>) = out[Len(<<>>)]
  BY <1>1, JoinTermsJoins
<1> QED
  BY <1>1, <1>2 DEF JoinedBy

LEMMA JoinOneMore ==
    ASSUME NEW terms, IsWord(terms), NEW t
    PROVE  JoinTerms(With(terms, t))
              = IF Len(terms) = 0 THEN NormalizeTerm(t)
                ELSE Joined(Joined(JoinTerms(terms), Conjunction), NormalizeTerm(t))
<1> DEFINE v == With(terms, t)
<1>1. Extends(v, terms, t) /\ Len(terms) \in Nat
  BY WithIs, WordLength
<1> HIDE DEF v
<1>2. /\ IsWord(v) /\ Len(v) = Len(terms) + 1 /\ v[Len(terms) + 1] = t
      /\ \A i \in 1 .. Len(terms) : v[i] = terms[i]
  BY <1>1 DEF Extends
<1>3. PICK f : JoinedBy(terms, f) /\ JoinTerms(terms) = f[Len(terms)]
  BY JoinTermsJoins
<1>4. PICK g : JoinedBy(v, g) /\ JoinTerms(v) = g[Len(v)]
  BY <1>2, JoinTermsJoins
<1> DEFINE Same == {n \in Nat : n <= Len(terms) => g[n] = f[n]}
<1>5. 0 \in Same
  BY <1>3, <1>4 DEF JoinedBy
<1>6. ASSUME NEW n \in Nat, n \in Same
      PROVE  n + 1 \in Same
  <2> SUFFICES ASSUME n + 1 <= Len(terms)
               PROVE  g[n + 1] = f[n + 1]
    OBVIOUS
  <2>1. /\ n + 1 \in 1 .. Len(terms) /\ n + 1 \in 1 .. Len(v) /\ 1 \in 1 .. Len(terms)
        /\ (n + 1) - 1 = n /\ g[n] = f[n]
    BY <1>1, <1>2, <1>6
  <2>2. f[n + 1] = NextJoined(terms, f, n + 1) /\ g[n + 1] = NextJoined(v, g, n + 1)
    BY <1>3, <1>4, <2>1 DEF JoinedBy
  <2>3. v[1] = terms[1] /\ v[n + 1] = terms[n + 1]
    BY <1>2, <2>1
  <2> QED
    BY <2>1, <2>2, <2>3 DEF NextJoined
<1> HIDE DEF Same
<1>7. \A n \in Nat : n \in Same
  BY <1>5, <1>6, Induction
<1>8. g[Len(terms)] = f[Len(terms)]
  BY <1>1, <1>7 DEF Same
<1>9. Len(v) \in 1 .. Len(v) /\ Len(v) - 1 = Len(terms) /\ Len(v) # 0 /\ (Len(v) = 1 <=> Len(terms) = 0)
  BY <1>1, <1>2
<1>10. g[Len(v)] = NextJoined(v, g, Len(v))
  BY <1>4, <1>9 DEF JoinedBy
<1>11. Len(v) = 1 => v[1] = t
  BY <1>2, <1>9
<1> QED
  BY <1>2, <1>3, <1>4, <1>8, <1>9, <1>10, <1>11 DEF v, NextJoined, Joined, Conjunction

-----------------------------------------------------------------------------
(* The reading of one lexeme, and of a stack of one or two expressions. *)
Simple(l) == /\ Alphanumeric(l[1]) \/ l[1] = "_"
             /\ \A o \in {"AND", "OR", "NOT"} : l # <<o>>

LEMMA Stacks ==
    /\ \A x : /\ Last(<<x>>) = x /\ Front(<<x>>) = <<>> /\ Append(<<>>, x) = <<x>>
              /\ <<x>> # <<>> /\ Len(<<x>>) = 1
    /\ \A x, y : /\ Last(<<x, y>>) = y /\ Front(<<x, y>>) = <<x>> /\ Append(<<x>>, y) = <<x, y>>
                 /\ <<x, y>> # <<>> /\ Len(<<x, y>>) = 2
<1>1. ASSUME NEW x
      PROVE  /\ Last(<<x>>) = x /\ Front(<<x>>) = <<>> /\ Append(<<>>, x) = <<x>>
             /\ <<x>> # <<>> /\ Len(<<x>>) = 1
  <2>1. <<x>> \in Seq({x}) /\ Len(<<x>>) = 1 /\ <<x>>[1] = x
    OBVIOUS
  <2>2. SubSeq(<<x>>, 1, 0) = <<>>
    BY <2>1
  <2> QED
    BY <2>1, <2>2 DEF Last, Front
<1>2. ASSUME NEW x, NEW y
      PROVE  /\ Last(<<x, y>>) = y /\ Front(<<x, y>>) = <<x>> /\ Append(<<x>>, y) = <<x, y>>
             /\ <<x, y>> # <<>> /\ Len(<<x, y>>) = 2
  <2> DEFINE s == <<x, y>>
             f == SubSeq(s, 1, 1)
             o == <<x>>
  <2>1. s \in Seq({x, y}) /\ Len(s) = 2 /\ s[1] = x /\ s[2] = y
    OBVIOUS
  <2>2. f = o
    <3>1. f \in Seq({x, y}) /\ Len(f) = 1 /\ f[1] = x
      <4> HIDE DEF s
      <4> QED
        BY <2>1
    <3>2. IsWord(f) /\ IsWord(o) /\ Len(o) = 1 /\ o[1] = x
      BY <3>1, SeqIsWord, ShortWords
    <3> HIDE DEF f, o
    <3>3. \A i \in 1 .. Len(f) : f[i] = o[i]
      BY <3>1, <3>2
    <3> QED
      BY <3>1, <3>2, <3>3, WordsEqual
  <2>3. Append(<<x>>, y) = <<x, y>>
    <3> DEFINE w == With(o, y)
    <3>1. IsWord(o) /\ Len(o) = 1 /\ o[1] = x /\ IsWord(s) /\ Len(s) = 2 /\ s[1] = x /\ s[2] = y
      BY ShortWords
    <3> HIDE DEF o, s
    <3>2. Extends(w, o, y)
      BY <3>1, WithIs
    <3> HIDE DEF w
    <3>3. IsWord(w) /\ Len(w) = 2 /\ w[1] = x /\ w[2] = y
      BY <3>1, <3>2 DEF Extends
    <3>4. \A i \in 1 .. Len(w) : w[i] = s[i]
      BY <3>1, <3>3
    <3>5. w = s
      BY <3>1, <3>3, <3>4, WordsEqual
    <3>6. Append(o, y) = w
      BY <3>1, AppendIsWith DEF w
    <3> QED
      BY <3>5, <3>6 DEF o, s
  <2>5. <<x, y>> # <<>>
    OBVIOUS
  <2>4. Last(s) = y /\ Front(s) = f
    <3> HIDE DEF s, f
    <3>1. SubSeq(s, 1, 1) = f /\ Len(s) - 1 = 1
      BY <2>1 DEF f
    <3> QED
      BY <2>1, <3>1 DEF Last, Front
  <2> QED
    BY <2>1, <2>2, <2>3, <2>4, <2>5
<1> QED
  BY <1>1, <1>2

LEMMA ReadEmpty == ASSUME NEW l, NEW row PROVE ReadLexeme(<<>>, l, row) = <<>>
BY DEF ReadLexeme

LEMMA ReadWord ==
    ASSUME NEW stack, stack # <<>>, Last(stack).at \notin {"plus", "group"}, NEW l, Simple(l), NEW row
    PROVE  ReadLexeme(stack, l, row)
              = Append(Front(stack), [Last(stack) EXCEPT !.at = "phrase", !.list = Append(@, Tokens(l))])
<1>1. l # <<"(">> /\ l # <<")">> /\ l # <<"+">>
  <2>1. l[1] # "(" /\ l[1] # ")" /\ l[1] # "+"
    BY DEF Simple, Alphanumeric, Separators, Markers
  <2> QED
    BY <2>1
<1>2. \A o \in {"AND", "OR", "NOT"} : l # <<o>>
  BY DEF Simple
<1>3. Last(stack).at # "group" /\ Last(stack).at # "plus" /\ (Alphanumeric(l[1]) \/ l[1] = "_")
  BY DEF Simple
<1> HIDE DEF Simple
<1> QED
  BY <1>1, <1>2, <1>3 DEF ReadLexeme

LEMMA ReadStray ==
    ASSUME NEW stack, NEW c \in {"-", "\\", "%"}, NEW row
    PROVE  ReadLexeme(stack, <<c>>, row) = <<>>
<1> DEFINE l == <<c>>
<1>1. l[1] = c /\ l # <<"(">> /\ l # <<")">> /\ l # <<"+">> /\ \A o \in {"AND", "OR", "NOT"} : l # <<o>>
  OBVIOUS
<1>2. ~Alphanumeric(c) /\ c # "_"
  BY DEF Alphanumeric, Separators
<1> HIDE DEF l
<1>3. ReadLexeme(stack, l, row) = <<>>
  BY <1>1, <1>2 DEF ReadLexeme
<1> QED
  BY <1>3 DEF l

LEMMA ReadOpen ==
    ASSUME NEW stack, stack # <<>>, Last(stack).at = "start", NEW row
    PROVE  ReadLexeme(stack, <<"(">>, row) = Append(stack, Expression)
<1> DEFINE l == <<"(">>
<1>1. /\ l[1] = "(" /\ l = <<"(">> /\ l # <<")">> /\ l # <<"+">>
      /\ \A p \in {"AND", "OR", "NOT"} : l # <<p>>
  OBVIOUS
<1>2. ~Alphanumeric("(")
  BY DEF Alphanumeric, Separators, Markers
<1> HIDE DEF l
<1>3. ReadLexeme(stack, l, row) = Append(stack, Expression)
  BY <1>1, <1>2 DEF ReadLexeme
<1> QED
  BY <1>3 DEF l

LEMMA ReadClose ==
    ASSUME NEW d, NEW e, e.at = "phrase", NEW row
    PROVE  ReadLexeme(<<d, e>>, <<")">>, row) = <<[d EXCEPT !.inner = Value(e, row), !.at = "group"]>>
<1> DEFINE s == <<d, e>>
           l == <<")">>
<1>1. /\ s # <<>> /\ Last(s) = e /\ Front(s) = <<d>> /\ Len(s) = 2
      /\ Last(<<d>>) = d /\ Front(<<d>>) = <<>> /\ \A x : Append(<<>>, x) = <<x>>
  BY Stacks
<1>2. /\ l # <<"(">> /\ l = <<")">> /\ l # <<"+">> /\ l[1] = ")"
      /\ \A p \in {"AND", "OR", "NOT"} : l # <<p>>
  OBVIOUS
<1>4. ~Alphanumeric(")")
  BY DEF Alphanumeric, Separators, Markers
<1> DEFINE v == Value(e, row)
<1> HIDE DEF s, l
<1>3. ReadLexeme(s, l, row) = Append(Front(Front(s)), [Last(Front(s)) EXCEPT !.inner = Value(e, row), !.at = "group"])
  BY <1>1, <1>2, <1>4 DEF ReadLexeme
<1> QED
  BY <1>1, <1>3 DEF s, l

Infixes == {"AND", "OR", "NOT"}

LEMMA ReadOperator ==
    ASSUME NEW stack, stack # <<>>, Last(stack).at \in {"phrase", "group"}, NEW o \in Infixes, NEW row
    PROVE  ReadLexeme(stack, <<o>>, row) = Append(Front(stack), Operated(Last(stack), o, row))
<1> DEFINE l == <<o>>
<1>1. l[1] = o /\ l # <<"(">> /\ l # <<")">> /\ l # <<"+">> /\ (\E p \in {"AND", "OR", "NOT"} : l = <<p>>)
  BY DEF Infixes
<1> HIDE DEF l
<1>2. ReadLexeme(stack, l, row) = Append(Front(stack), Operated(Last(stack), o, row))
  BY <1>1 DEF ReadLexeme
<1> QED
  BY <1>2 DEF l

-----------------------------------------------------------------------------
(* A text in which nothing is an operator, a marker or astray is accepted; *)
(* a letter that is astray is refused.                                     *)
Bars == Separators \ {"_"}
Blanks == {" "}
Stray == {"-", "\\", "%"}

LEMMA LexemesAre ==
    ASSUME NEW text
    PROVE  Lexemes(text) = Pieces(text, Bars, Blanks) /\ Blanks \subseteq Bars
BY DEF Lexemes, Bars, Blanks, Separators

(* A stray letter is an error, whatever is around it. *)
LEMMA StrayIsRefused ==
    ASSUME NEW text, IsWord(text), NEW i \in 1 .. Len(text), text[i] \in Stray, NEW row
    PROVE  Match(text, row) = <<>>
<1> DEFINE Ls == Lexemes(text)
           L == Range(Ls)
           Bad(ls) == \E k \in 1 .. Len(ls) : \E c \in Stray : ls[k] = <<c>>
           S == {ls \in Seq(L) : Bad(ls) => ReadAll(ls, row) = <<>>}
<1>1. IsWord(Ls) /\ Bad(Ls)
  <2>1. Blanks \subseteq Bars /\ Lexemes(text) = Pieces(text, Bars, Blanks)
    BY LexemesAre
  <2>2. text[i] \in Bars /\ text[i] \notin Blanks
    BY DEF Bars, Blanks, Separators, Stray
  <2>3. IsWord(Pieces(text, Bars, Blanks))
    BY <2>1, PiecesType
  <2> DEFINE P == Pieces(text, Bars, Blanks)
  <2>4. \E k \in 1 .. Len(P) : P[k] = <<text[i]>>
    <3>1. Among(<<text[i]>>, P)
      BY <2>1, <2>2, ApartIsPiece
    <3> QED
      BY <3>1 DEF Among
  <2> QED
    BY <2>1, <2>3, <2>4
<1> HIDE DEF Ls
<1>2. <<>> \in S
  <2>1. <<>> \in Seq(L) /\ Len(<<>>) = 0
    OBVIOUS
  <2> QED
    BY <2>1
<1>3. ASSUME NEW w \in Seq(L), NEW l \in L, w \in S
      PROVE  With(w, l) \in S
  <2>1. IsWord(w) /\ With(w, l) \in Seq(L) /\ Len(w) \in Nat
    BY SeqIsWord, WithStays
  <2>2. Extends(With(w, l), w, l)
    BY <2>1, WithIs
  <2>3. Bad(With(w, l)) => Bad(w) \/ \E c \in Stray : l = <<c>>
    <3> DEFINE v == With(w, l)
    <3> HIDE DEF v
    <3>1. \A k \in 1 .. Len(v) : v[k] = l \/ (k \in 1 .. Len(w) /\ v[k] = w[k])
      BY <2>1, <2>2 DEF Extends, v
    <3>2. Bad(v) => Bad(w) \/ \E c \in Stray : l = <<c>>
      BY <3>1
    <3> QED
      BY <3>2 DEF v
  <2>4. ReadAll(With(w, l), row) = ReadLexeme(ReadAll(w, row), l, row)
    BY <2>1, ReadOneMore
  <2>5. (\E c \in Stray : l = <<c>>) => ReadLexeme(ReadAll(w, row), l, row) = <<>>
    BY ReadStray DEF Stray
  <2>6. Bad(w) => ReadLexeme(ReadAll(w, row), l, row) = <<>>
    BY <1>3, ReadEmpty
  <2> HIDE DEF Bad
  <2> QED
    BY <2>1, <2>3, <2>4, <2>5, <2>6
<1>4. Ls \in Seq(L)
  BY <1>1, WordIsSeq
<1>5. \A w \in Seq(L) : w \in S
  <2> HIDE DEF L, S
  <2> QED
    BY <1>2, <1>3, WordInduction
<1>6. ReadAll(Ls, row) = <<>>
  BY <1>1, <1>4, <1>5
<1>7. Len(<<>>) # 1
  OBVIOUS
<1> QED
  BY <1>6, <1>7 DEF Match, Ls

(* Simple lexemes are phrases of one list. *)
Listing(list) == [Expression EXCEPT !.at = "phrase", !.list = list]

LEMMA ReadFirst ==
    ASSUME NEW e, e.at \notin {"plus", "group"}, NEW l, Simple(l), NEW row
    PROVE  ReadLexeme(<<e>>, l, row) = <<[e EXCEPT !.at = "phrase", !.list = Append(@, Tokens(l))]>>
<1> DEFINE s == <<e>>
<1>1. Last(s) = e /\ Front(s) = <<>> /\ s # <<>>
  BY Stacks
<1>2. ReadLexeme(s, l, row)
         = Append(Front(s), [Last(s) EXCEPT !.at = "phrase", !.list = Append(@, Tokens(l))])
  <2> HIDE DEF s, Simple
  <2>1. Last(s).at \notin {"plus", "group"}
    BY <1>1
  <2> QED
    BY <1>1, <2>1, ReadWord
<1> DEFINE new == [e EXCEPT !.at = "phrase", !.list = Append(@, Tokens(l))]
<1>3. Append(<<>>, new) = <<new>>
  BY Stacks
<1>4. ReadLexeme(s, l, row) = Append(<<>>, new)
  <2> HIDE DEF s
  <2> QED
    BY <1>1, <1>2
<1> HIDE DEF new
<1>5. ReadLexeme(s, l, row) = <<new>>
  BY <1>3, <1>4
<1> QED
  BY <1>5 DEF s, new

LEMMA ReadSimple ==
    ASSUME NEW Ls, IsWord(Ls), \A k \in 1 .. Len(Ls) : Simple(Ls[k]), NEW row
    PROVE  Len(Ls) # 0 => \E list : ReadAll(Ls, row) = <<Listing(list)>>
<1> DEFINE L == Range(Ls)
           S == {ls \in Seq(L) : Len(ls) # 0 => \E list : ReadAll(ls, row) = <<Listing(list)>>}
<1>1. \A l \in L : Simple(l)
  <2>1. DOMAIN Ls = 1 .. Len(Ls)
    BY DEF IsWord
  <2> QED
    BY <2>1 DEF Range
<1>2. <<>> \in S
  <2>1. <<>> \in Seq(L) /\ Len(<<>>) = 0
    OBVIOUS
  <2> QED
    BY <2>1
<1>3. ASSUME NEW w \in Seq(L), NEW l \in L, w \in S
      PROVE  With(w, l) \in S
  <2>1. IsWord(w) /\ With(w, l) \in Seq(L) /\ Len(w) \in Nat
    BY SeqIsWord, WithStays
  <2>2. PICK e : /\ ReadAll(w, row) = <<e>>
                 /\ e = Expression \/ \E list : e = Listing(list)
    <3>1. CASE Len(w) = 0
      <4>1. w = <<>>
        BY <3>1
      <4> QED
        BY <4>1, ReadNone
    <3>2. CASE Len(w) # 0
      BY <1>3, <3>2
    <3> QED
      BY <3>1, <3>2
  <2> DEFINE new == Append(e.list, Tokens(l))
  <2>3. e.at \notin {"plus", "group"} /\ [e EXCEPT !.at = "phrase", !.list = new] = Listing(new)
    <3> HIDE DEF new
    <3>1. CASE e = Expression
      BY <3>1 DEF Expression, Listing
    <3>2. CASE \E list : e = Listing(list)
      BY <3>2 DEF Expression, Listing
    <3> QED
      BY <2>2, <3>1, <3>2
  <2>4. ReadAll(With(w, l), row) = ReadLexeme(<<e>>, l, row)
    BY <2>1, <2>2, ReadOneMore
  <2>5. ReadLexeme(<<e>>, l, row) = <<[e EXCEPT !.at = "phrase", !.list = new]>>
    BY <1>1, <2>3, ReadFirst
  <2>7. ReadAll(With(w, l), row) = <<Listing(new)>>
    BY <2>3, <2>4, <2>5
  <2> QED
    BY <2>1, <2>7
<1>4. Ls \in Seq(L)
  BY WordIsSeq
<1>5. \A w \in Seq(L) : w \in S
  <2> HIDE DEF L, S
  <2> QED
    BY <1>2, <1>3, WordInduction
<1> QED
  BY <1>4, <1>5

(* The lexemes of a plain query are simple: an operator on its own would   *)
(* have been seen by has_fts5_syntax.                                      *)
LEMMA OperatorsAreSyntax ==
    ASSUME NEW query, IsWord(query), ~HasSyntax(query), NEW o \in Operators
    PROVE  Alone(query, o, Separators) = {}
<1>1. o \notin Separators
  BY DEF Operators, Separators, Markers
<1> DEFINE P == Pieces(query, Separators, Separators)
<1>2. (\E k \in 1 .. Len(P) : P[k] = <<o>>) <=> Alone(query, o, Separators) # {}
  BY <1>1, SinglesAreAlone
<1>3. IsWord(P)
  BY PiecesType
<1>4. \A k \in 1 .. Len(P) : P[k] \in Range(P)
  <2>1. DOMAIN P = 1 .. Len(P)
    BY <1>3 DEF IsWord
  <2> QED
    BY <2>1 DEF Range
<1> QED
  BY <1>2, <1>4 DEF HasSyntax, Runs

LEMMA LexemesOfPlain ==
    ASSUME NEW query, IsWord(query), Plain(query), NEW k \in 1 .. Len(Lexemes(query))
    PROVE  Simple(Lexemes(query)[k])
<1> DEFINE P == Pieces(query, Bars, Blanks)
           p == P[k]
<1>1. Lexemes(query) = P /\ Blanks \subseteq Bars
  BY LexemesAre
<1>2. IsPiece(p, query, Bars, Blanks)
  BY <1>1, PiecesAreShaped DEF Shaped
<1>3. DOMAIN query = 1 .. Len(query)
  BY DEF IsWord
<1>4. 1 \in 1 .. Len(p)
  <2> HIDE DEF p
  <2>1. Len(p) \in Nat /\ Len(p) # 0
    BY <1>2, WordLength DEF IsPiece
  <2> QED
    BY <2>1
<1>5. Alphanumeric(p[1]) \/ p[1] = "_"
  <2> HIDE DEF p
  <2>1. p[1] # " " /\ \E j \in 1 .. Len(query) : query[j] = p[1]
    BY <1>2, <1>4 DEF IsPiece, Blanks
  <2> QED
    BY <1>3, <2>1 DEF Plain
<1>6. ASSUME NEW o \in {"AND", "OR", "NOT"}, p = <<o>>
      PROVE  FALSE
  <2>1. o \notin Bars /\ Bars \subseteq Separators /\ o \in Operators
    BY DEF Bars, Separators, Markers, Operators
  <2>2. (\E j \in 1 .. Len(P) : P[j] = <<o>>) <=> Alone(query, o, Bars) # {}
    BY <1>1, <2>1, SinglesAreAlone
  <2>3. Alone(query, o, Bars) # {}
    BY <1>1, <1>6, <2>2
  <2>4. Alone(query, o, Bars) \subseteq Alone(query, o, Separators)
    BY <2>1 DEF Alone
  <2>5. Alone(query, o, Separators) = {}
    BY <2>1, OperatorsAreSyntax DEF Plain
  <2> QED
    BY <2>3, <2>4, <2>5
<1> HIDE DEF P, p
<1>7. Simple(p)
  BY <1>5, <1>6 DEF Simple
<1> QED
  BY <1>1, <1>7 DEF p

LEMMA PlainIsAccepted ==
    ASSUME NEW query, IsWord(query), Plain(query)
    PROVE  Accepts(query)
<1> DEFINE P == Lexemes(query)
<1>1. Blanks \subseteq Bars /\ P = Pieces(query, Bars, Blanks)
  BY LexemesAre
<1>2. IsWord(P)
  <2>1. IsWord(Pieces(query, Bars, Blanks))
    BY <1>1, PiecesType
  <2> QED
    BY <1>1, <2>1
<1>3. Len(P) # 0
  <2>1. PICK i \in DOMAIN query : Alphanumeric(query[i])
    BY DEF Plain
  <2>2. i \in 1 .. Len(query) /\ query[i] \notin Blanks
    BY <2>1 DEF IsWord, Alphanumeric, Separators, Blanks
  <2>3. Kept(P, query, Blanks)
    BY <1>1, LettersAreKept
  <2>4. \E k \in 1 .. Len(P) : TRUE
    BY <2>2, <2>3 DEF Kept
  <2>5. Len(P) \in Nat
    BY <1>2, WordLength
  <2> HIDE DEF P
  <2> QED
    BY <2>4, <2>5
<1>4. \A k \in 1 .. Len(P) : Simple(P[k])
  BY LexemesOfPlain
<1>5. PICK list : ReadAll(P, <<>>) = <<Listing(list)>>
  <2> HIDE DEF P
  <2> QED
    BY <1>2, <1>3, <1>4, ReadSimple
<1> DEFINE e == Listing(list)
<1>6. e.at \in {"phrase", "group"}
  BY DEF Listing, Expression
<1>7. Len(<<e>>) = 1 /\ <<e>>[1] = e
  OBVIOUS
<1> HIDE DEF e
<1>8. Match(query, <<>>) = <<Value(e, <<>>)>>
  BY <1>5, <1>6, <1>7 DEF Match, e
<1>9. \A x : <<x>> # <<>>
  OBVIOUS
<1> QED
  BY <1>8, <1>9 DEF Accepts

-----------------------------------------------------------------------------
(* The lexemes of a text that is put together. *)
LEMMA LexemesType == ASSUME NEW text, IsWord(text) PROVE IsWord(Lexemes(text))
<1>1. Lexemes(text) = Pieces(text, Bars, Blanks) /\ Blanks \subseteq Bars
  BY LexemesAre
<1>2. IsWord(Pieces(text, Bars, Blanks))
  BY <1>1, PiecesType
<1> QED
  BY <1>1, <1>2

LEMMA LexemesJoin ==
    ASSUME NEW v, IsWord(v), NEW w, IsWord(w), EndsApart(v, Bars) \/ BeginsApart(w, Bars)
    PROVE  Lexemes(Joined(v, w)) = Joined(Lexemes(v), Lexemes(w))
<1>1. \A text : Lexemes(text) = Pieces(text, Bars, Blanks) /\ Blanks \subseteq Bars
  BY LexemesAre
<1>2. Pieces(Joined(v, w), Bars, Blanks) = Joined(Pieces(v, Bars, Blanks), Pieces(w, Bars, Blanks))
  BY <1>1, PiecesJoin
<1> QED
  BY <1>1, <1>2

LEMMA LexemesOfOne ==
    ASSUME NEW word, IsWord(word), Len(word) # 0, \A i \in 1 .. Len(word) : word[i] \notin Bars
    PROVE  Lexemes(word) = <<word>>
<1>1. Lexemes(word) = Pieces(word, Bars, Blanks) /\ Blanks \subseteq Bars
  BY LexemesAre
<1>2. Pieces(word, Bars, Blanks) = <<word>>
  BY <1>1, PiecesOfOne
<1> QED
  BY <1>1, <1>2

LEMMA LexemesOneMore ==
    ASSUME NEW text, IsWord(text), NEW c
    PROVE  /\ c = " " => Lexemes(With(text, c)) = Lexemes(text)
           /\ c # " " /\ (c \in Bars \/ EndsApart(text, Bars)) =>
                 Lexemes(With(text, c)) = With(Lexemes(text), <<c>>)
<1>1. \A t : Lexemes(t) = Pieces(t, Bars, Blanks) /\ Blanks \subseteq Bars
  BY LexemesAre
<1>2. IsWord(Pieces(text, Bars, Blanks))
  BY <1>1, PiecesType
<1>3. Pieces(With(text, c), Bars, Blanks) = WithLetter(Pieces(text, Bars, Blanks), text, c, Bars, Blanks)
  BY <1>2, PiecesOneMore
<1>4. c \in Blanks <=> c = " "
  BY DEF Blanks
<1> HIDE DEF Bars, Blanks
<1> QED
  BY <1>1, <1>3, <1>4 DEF WithLetter

LEMMA JoinedThree ==
    ASSUME NEW w, IsWord(w), NEW x, NEW y, NEW z
    PROVE  Joined(w, <<x, y, z>>) = With(With(With(w, x), y), z)
<1> DEFINE o == <<x, y>>
           p == <<x, y, z>>
           v == With(o, z)
<1>1. IsWord(o) /\ Len(o) = 2 /\ o[1] = x /\ o[2] = y
  BY ShortWords
<1>2. IsWord(p) /\ Len(p) = 3 /\ p[1] = x /\ p[2] = y /\ p[3] = z
  <2>1. p \in Seq({x, y, z})
    OBVIOUS
  <2> QED
    BY <2>1, SeqIsWord
<1>3. Joined(w, o) = With(With(w, x), y)
  BY JoinedTwo
<1> HIDE DEF o, p, v
<1>4. Extends(v, o, z)
  BY <1>1, WithIs DEF v
<1>5. IsWord(v) /\ Len(v) = 3 /\ v[1] = x /\ v[2] = y /\ v[3] = z
  <2>1. IsWord(v) /\ Len(v) = 2 + 1 /\ (\A i \in 1 .. 2 : v[i] = o[i]) /\ v[2 + 1] = z
    BY <1>1, <1>4 DEF Extends
  <2>2. 1 \in 1 .. 2 /\ 2 \in 1 .. 2 /\ 2 + 1 = 3
    OBVIOUS
  <2> QED
    BY <1>1, <2>1, <2>2
<1>6. \A i \in 1 .. Len(v) : v[i] = p[i]
  <2> SUFFICES ASSUME NEW i \in 1 .. Len(v)
               PROVE  v[i] = p[i]
    OBVIOUS
  <2>1. i = 1 \/ i = 2 \/ i = 3
    BY <1>5
  <2> QED
    BY <1>2, <1>5, <2>1
<1>7. v = p
  BY <1>2, <1>5, <1>6, WordsEqual
<1>8. Joined(w, v) = With(Joined(w, o), z)
  BY <1>1, JoinedWith DEF v
<1>9. Joined(w, p) = With(With(With(w, x), y), z)
  BY <1>3, <1>7, <1>8
<1> QED
  BY <1>9 DEF p

Space == " "
Spaced(c) == <<Space, c, Space>>

LEMMA LexemesOfSpaced ==
    ASSUME NEW text, IsWord(text), NEW c, c \notin Blanks
    PROVE  LET spaced == Joined(text, Spaced(c)) IN
           /\ IsWord(spaced) /\ EndsApart(spaced, Bars)
           /\ Lexemes(spaced) = With(Lexemes(text), <<c>>)
<1> DEFINE a == With(text, Space)
           b == With(a, c)
           d == With(b, Space)
           three == <<Space, c, Space>>
           s == Spaced(c)
<1>1. IsWord(a) /\ IsWord(b) /\ IsWord(d) /\ EndsApart(a, Bars) /\ EndsApart(d, Bars)
  <2>1. Space \in Bars
    BY DEF Bars, Separators, Space
  <2>2. Extends(a, text, Space)
    BY WithIs
  <2>3. IsWord(a)
    BY <2>2 DEF Extends
  <2>4. Extends(b, a, c)
    BY <2>3, WithIs
  <2>5. IsWord(b)
    BY <2>4 DEF Extends
  <2>6. Extends(d, b, Space)
    BY <2>5, WithIs
  <2>7. IsWord(d) /\ Len(text) \in Nat /\ Len(b) \in Nat
    BY <2>5, <2>6, WordLength DEF Extends
  <2> HIDE DEF a, b, d
  <2> QED
    BY <2>1, <2>2, <2>3, <2>5, <2>6, <2>7 DEF Extends, EndsApart
<1>2. Lexemes(d) = With(Lexemes(text), <<c>>)
  <2>4. c # Space
    BY DEF Blanks, Space
  <2>1. Lexemes(a) = Lexemes(text)
    BY LexemesOneMore DEF Space
  <2>2. Lexemes(b) = With(Lexemes(a), <<c>>)
    <3> HIDE DEF a
    <3> QED
      BY <1>1, <2>4, LexemesOneMore DEF Space
  <2>3. Lexemes(d) = Lexemes(b)
    <3> HIDE DEF b
    <3> QED
      BY <1>1, LexemesOneMore DEF Space
  <2> QED
    BY <2>1, <2>2, <2>3
<1>3. Joined(text, three) = d
  BY JoinedThree
<1>4. s = three
  BY DEF Spaced
<1> HIDE DEF d, three, s
<1>5. Joined(text, s) = d
  BY <1>3, <1>4
<1> QED
  BY <1>1, <1>2, <1>5 DEF s

-----------------------------------------------------------------------------
(* A row/column count and its five letters once padded. *)
Zero == "0"
Ex == "x"
CountsAt(t, i) == /\ i \in {2, 3} /\ i < Len(t) /\ Len(t) - i <= 2
                  /\ t[i] \in {"x", "X"}
                  /\ \A j \in DOMAIN t \ {i} : t[j] \in Digits
IsPadded(w, t, i) == /\ IsWord(w) /\ Len(w) = 5
                     /\ w[1] = IF i = 2 THEN Zero ELSE t[1]
                     /\ w[2] = t[i - 1]
                     /\ w[3] = Ex
                     /\ w[4] = IF Len(t) = i + 1 THEN Zero ELSE t[i + 1]
                     /\ w[5] = t[Len(t)]

LEMMA CountsOf ==
    ASSUME NEW t, IsWord(t), Counts(t) # {}
    PROVE  \E i : CountsAt(t, i) /\ Counts(t) = {i}
<1>1. PICK i \in Counts(t) : TRUE
  OBVIOUS
<1>2. \A j \in Counts(t) : CountsAt(t, j)
  BY DEF Counts, CountsAt
<1>3. DOMAIN t = 1 .. Len(t) /\ Len(t) \in Nat
  BY DEF IsWord
<1>4. \A j \in Counts(t) : j \in DOMAIN t
  BY <1>2, <1>3 DEF CountsAt
<1>5. \A c \in {"x", "X"} : c \notin Digits
  BY DEF Digits
<1>6. \A j \in Counts(t) : j = i
  BY <1>1, <1>2, <1>4, <1>5 DEF CountsAt
<1> QED
  BY <1>1, <1>2, <1>6

LEMMA PadOf ==
    ASSUME NEW t, IsWord(t), NEW a \in 1 .. Len(t), NEW b \in 1 .. Len(t), b = a \/ b = a + 1
    PROVE  Pad(SubSeq(t, a, b)) = <<IF b = a THEN Zero ELSE t[a], t[b]>>
<1> DEFINE s == SubSeq(t, a, b)
           first == IF b = a THEN Zero ELSE t[a]
           pair == <<first, t[b]>>
<1>1. t \in Seq(Range(t)) /\ Len(t) \in Nat
  BY WordIsSeq, WordLength
<1>2. /\ s \in Seq(Range(t)) /\ Len(s) = b - a + 1
      /\ \A i \in 1 .. Len(s) : s[i] = t[a + i - 1]
  <2> HIDE DEF s
  <2>1. s = SubSeq(t, a, b)
    BY DEF s
  <2> QED
    BY <1>1, <2>1
<1>3. IsWord(s)
  BY <1>2, SeqIsWord
<1>4. Pad(s) = IF Len(s) = 1 THEN Joined(<<Zero>>, s) ELSE s
  BY DEF Pad, Joined, Zero
<1>5. IsWord(pair) /\ Len(pair) = 2 /\ pair[1] = first /\ pair[2] = t[b]
  BY ShortWords
<1> HIDE DEF s
<1>6. CASE b = a
  <2>1. Len(s) = 1 /\ s[1] = t[b] /\ first = Zero
    BY <1>2, <1>6
  <2>2. IsWord(<<Zero>>) /\ Len(<<Zero>>) = 1 /\ <<Zero>>[1] = Zero
    BY ShortWords
  <2> DEFINE o == <<Zero>>
             j == Joined(o, s)
  <2> HIDE DEF o, j, pair, first
  <2>3. Continues(j, o, s)
    BY <1>3, <2>2, JoinedIs DEF o, j
  <2>4. Len(o) = 1 /\ o[1] = Zero
    BY <2>2 DEF o
  <2>5. IsWord(j) /\ Len(j) = 2 /\ j[1] = Zero /\ j[2] = t[b]
    BY <2>1, <2>3, <2>4 DEF Continues
  <2>6. \A i \in 1 .. Len(j) : j[i] = pair[i]
    BY <1>5, <2>1, <2>5
  <2>7. j = pair
    BY <1>5, <2>5, <2>6, WordsEqual
  <2>8. Pad(s) = j
    BY <1>4, <2>1 DEF j, o
  <2> QED
    BY <2>7, <2>8 DEF s, pair, first
<1>7. CASE b = a + 1
  <2>1. Len(s) = 2 /\ s[1] = t[a] /\ s[2] = t[b] /\ first = t[a]
    BY <1>2, <1>7
  <2> HIDE DEF pair, first
  <2>2. \A i \in 1 .. Len(s) : s[i] = pair[i]
    BY <1>5, <2>1
  <2>3. s = pair
    BY <1>3, <1>5, <2>1, <2>2, WordsEqual
  <2>4. Pad(s) = s
    BY <1>4, <2>1
  <2> QED
    BY <2>3, <2>4 DEF s, pair, first
<1> QED
  BY <1>6, <1>7

LEMMA PaddedIs ==
    ASSUME NEW t, IsWord(t), NEW i, CountsAt(t, i), Counts(t) = {i}
    PROVE  IsPadded(Padded(t), t, i)
<1> DEFINE a == SubSeq(t, 1, i - 1)
           b == SubSeq(t, i + 1, Len(t))
           p == Pad(a)
           q == Pad(b)
<1>1. Len(t) \in Nat /\ i \in {2, 3} /\ (Len(t) = i + 1 \/ Len(t) = i + 2)
  BY WordLength DEF CountsAt
<1>2. Padded(t) = Joined(Joined(p, <<Ex>>), q)
  <2>1. (CHOOSE j \in Counts(t) : TRUE) = i
    OBVIOUS
  <2> HIDE DEF a, b
  <2> QED
    BY <2>1 DEF Padded, Joined, Ex, a, b
<1> DEFINE p1 == IF i = 2 THEN Zero ELSE t[1]
           q1 == IF Len(t) = i + 1 THEN Zero ELSE t[i + 1]
<1>3. p = <<p1, t[i - 1]>>
  <2>1. /\ 1 \in 1 .. Len(t) /\ i - 1 \in 1 .. Len(t) /\ (i - 1 = 1 \/ i - 1 = 1 + 1)
        /\ i - 1 = 1 <=> i = 2
    BY <1>1
  <2>2. Pad(a) = <<IF i - 1 = 1 THEN Zero ELSE t[1], t[i - 1]>>
    BY <2>1, PadOf
  <2> QED
    BY <2>1, <2>2
<1>4. q = <<q1, t[Len(t)]>>
  <2>1. /\ i + 1 \in 1 .. Len(t) /\ Len(t) \in 1 .. Len(t) /\ (Len(t) = i + 1 \/ Len(t) = i + 1 + 1)
    BY <1>1
  <2> QED
    BY <2>1, PadOf
<1>5. IsWord(p) /\ Len(p) = 2 /\ p[1] = p1 /\ p[2] = t[i - 1]
  <2> HIDE DEF p, p1
  <2> QED
    BY <1>3, ShortWords
<1>6. IsWord(q) /\ Len(q) = 2 /\ q[1] = q1 /\ q[2] = t[Len(t)]
  <2> HIDE DEF q, q1
  <2> QED
    BY <1>4, ShortWords
<1> DEFINE m == With(p, Ex)
           w == Joined(m, q)
<1> HIDE DEF p, q, p1, q1, m, w
<1>7. Extends(m, p, Ex)
  BY <1>5, WithIs DEF m
<1>8. IsWord(m) /\ Len(m) = 3 /\ m[1] = p1 /\ m[2] = t[i - 1] /\ m[3] = Ex
  BY <1>5, <1>7 DEF Extends
<1>9. Continues(w, m, q)
  BY <1>6, <1>8, JoinedIs DEF w
<1>10. IsWord(w) /\ Len(w) = 3 + 2 /\ (\A k \in 1 .. 3 : w[k] = m[k]) /\ \A k \in 1 .. 2 : w[3 + k] = q[k]
  BY <1>6, <1>8, <1>9 DEF Continues
<1>11. Len(w) = 5 /\ w[1] = m[1] /\ w[2] = m[2] /\ w[3] = m[3] /\ w[4] = q[1] /\ w[5] = q[2]
  BY <1>10
<1>12. Padded(t) = w
  BY <1>2 DEF w, m, With
<1> QED
  BY <1>6, <1>8, <1>10, <1>11, <1>12 DEF IsPadded, p1, q1

-----------------------------------------------------------------------------
(* The terms of a query that is not FTS5 syntax, as they are rewritten. *)
Lettered(t) == IsWord(t) /\ Len(t) # 0 /\ \A i \in 1 .. Len(t) : Alphanumeric(t[i])
Term(t) == Lettered(t) /\ \A o \in Operators : t # <<o>>
Open == "("
Close == ")"
Or == "OR"
And == "AND"
Parenthesized(t) ==
    With(Joined(Joined(Joined(<<Open>>, t), Spaced(Or)), Padded(t)), Close)
Alternatives(t) == With(With(With(With(<<<<Open>>>>, t), <<Or>>), Padded(t)), <<Close>>)

LEMMA WithIsWord == ASSUME NEW w, IsWord(w), NEW x PROVE IsWord(With(w, x))
BY WithIs DEF Extends

LEMMA JoinedIsWord == ASSUME NEW v, IsWord(v), NEW w, IsWord(w) PROVE IsWord(Joined(v, w))
BY JoinedIs DEF Continues

LEMMA WithNone == \A x : With(<<>>, x) = <<x>>
<1> SUFFICES ASSUME NEW x
             PROVE  With(<<>>, x) = <<x>>
  OBVIOUS
<1>1. IsWord(<<x>>)
  BY ShortWords
<1>2. Joined(<<>>, <<x>>) = <<x>>
  BY <1>1, JoinedNone
<1> QED
  BY <1>2 DEF With

LEMMA PaddedIsTerm ==
    ASSUME NEW t, IsWord(t), Counts(t) # {}
    PROVE  Term(Padded(t)) /\ Len(Padded(t)) = 5
<1> DEFINE w == Padded(t)
<1>1. PICK i : CountsAt(t, i) /\ Counts(t) = {i}
  BY CountsOf
<1>2. IsPadded(w, t, i)
  BY <1>1, PaddedIs
<1>3. DOMAIN t = 1 .. Len(t) /\ Len(t) \in Nat
  BY DEF IsWord
<1>4. i \in {2, 3} /\ (Len(t) = i + 1 \/ Len(t) = i + 2)
  BY <1>1, WordLength DEF CountsAt
<1>5. \A j \in 1 .. Len(t) : j # i => t[j] \in Digits
  BY <1>1, <1>3 DEF CountsAt
<1>6. t[1] \in Digits /\ t[i - 1] \in Digits /\ (Len(t) # i + 1 => t[i + 1] \in Digits) /\ t[Len(t)] \in Digits
  <2>1. /\ 1 \in 1 .. Len(t) /\ i - 1 \in 1 .. Len(t) /\ i + 1 \in 1 .. Len(t) /\ Len(t) \in 1 .. Len(t)
        /\ 1 # i /\ i - 1 # i /\ i + 1 # i /\ Len(t) # i
    BY <1>4
  <2> QED
    BY <1>5, <2>1
<1>7. Zero \in Digits /\ Alphanumeric(Ex) /\ \A c \in Digits : Alphanumeric(c)
  BY DEF Zero, Ex, Digits, Alphanumeric, Separators, Markers
<1> HIDE DEF w
<1>8. Alphanumeric(w[1]) /\ Alphanumeric(w[2]) /\ Alphanumeric(w[3]) /\ Alphanumeric(w[4]) /\ Alphanumeric(w[5])
  BY <1>2, <1>6, <1>7 DEF IsPadded
<1>9. IsWord(w) /\ Len(w) = 5
  BY <1>2 DEF IsPadded
<1>10. \A j \in 1 .. Len(w) : Alphanumeric(w[j])
  <2> SUFFICES ASSUME NEW j \in 1 .. Len(w)
               PROVE  Alphanumeric(w[j])
    OBVIOUS
  <2>1. j = 1 \/ j = 2 \/ j = 3 \/ j = 4 \/ j = 5
    BY <1>9
  <2> QED
    BY <1>8, <2>1
<1>11. \A o : Len(<<o>>) = 1
  OBVIOUS
<1>12. \A o \in Operators : w # <<o>>
  BY <1>9, <1>11
<1> QED
  BY <1>9, <1>10, <1>12 DEF Term, Lettered, w

LEMMA LetteredIsNotApart ==
    ASSUME NEW t, Lettered(t)
    PROVE  IsWord(t) /\ Len(t) # 0 /\ \A i \in 1 .. Len(t) : t[i] \notin Bars
BY DEF Lettered, Alphanumeric, Bars

LEMMA LexemesOfLettered == ASSUME NEW t, Lettered(t) PROVE Lexemes(t) = <<t>>
BY LetteredIsNotApart, LexemesOfOne

LEMMA LexemesWithLettered ==
    ASSUME NEW text, IsWord(text), EndsApart(text, Bars), NEW t, Lettered(t)
    PROVE  IsWord(Joined(text, t)) /\ Lexemes(Joined(text, t)) = With(Lexemes(text), t)
<1>1. IsWord(t)
  BY DEF Lettered
<1>2. Lexemes(Joined(text, t)) = Joined(Lexemes(text), Lexemes(t))
  BY <1>1, LexemesJoin
<1>3. Lexemes(t) = <<t>>
  BY LexemesOfLettered
<1> QED
  BY <1>1, <1>2, <1>3, JoinedIsWord DEF With

LEMMA NormalizeTermIs ==
    ASSUME NEW t
    PROVE  NormalizeTerm(t) = IF Counts(t) = {} \/ Padded(t) = t THEN t ELSE Parenthesized(t)
BY DEF NormalizeTerm, Parenthesized, With, Joined, Spaced, Space, Open, Or, Close

LEMMA LexemesOfParenthesized ==
    ASSUME NEW t, Lettered(t), Counts(t) # {}
    PROVE  /\ IsWord(Parenthesized(t)) /\ Len(Parenthesized(t)) # 0
           /\ Lexemes(Parenthesized(t)) = Alternatives(t)
<1> DEFINE a == <<Open>>
           b == Joined(a, t)
           c == Joined(b, Spaced(Or))
           d == Joined(c, Padded(t))
           e == With(d, Close)
<1>1. Lettered(Padded(t)) /\ IsWord(t)
  BY PaddedIsTerm DEF Term, Lettered
<1>2. Open \in Bars /\ Open # " " /\ Close \in Bars /\ Close # " " /\ Or \notin Blanks
  BY DEF Open, Close, Or, Bars, Blanks, Separators, Markers
<1>3. IsWord(a) /\ EndsApart(a, Bars) /\ Lexemes(a) = <<<<Open>>>>
  <2>1. a = With(<<>>, Open) /\ With(<<>>, a) = <<a>>
    BY WithNone
  <2>2. IsWord(<<>>)
    BY ShortWords
  <2>3. Lexemes(<<>>) = <<>>
    BY LexemesAre, PiecesNone
  <2>4. Lexemes(With(<<>>, Open)) = With(Lexemes(<<>>), <<Open>>)
    BY <1>2, <2>2, LexemesOneMore
  <2>5. IsWord(a) /\ Len(a) = 1 /\ a[1] = Open
    BY ShortWords
  <2> HIDE DEF a
  <2>6. EndsApart(a, Bars)
    BY <1>2, <2>5 DEF EndsApart
  <2>7. Lexemes(a) = With(<<>>, <<Open>>)
    BY <2>1, <2>3, <2>4
  <2> QED
    BY <2>1, <2>5, <2>6, <2>7 DEF a
<1>4. IsWord(b) /\ Lexemes(b) = With(Lexemes(a), t)
  <2> HIDE DEF a
  <2> QED
    BY <1>3, LexemesWithLettered
<1>5. IsWord(c) /\ EndsApart(c, Bars) /\ Lexemes(c) = With(Lexemes(b), <<Or>>)
  <2> HIDE DEF b
  <2> QED
    BY <1>2, <1>4, LexemesOfSpaced
<1>6. IsWord(d) /\ Lexemes(d) = With(Lexemes(c), Padded(t))
  <2> HIDE DEF c
  <2> QED
    BY <1>1, <1>5, LexemesWithLettered
<1>7. IsWord(e) /\ Lexemes(e) = With(Lexemes(d), <<Close>>) /\ Len(e) # 0
  <2> HIDE DEF d
  <2>1. Extends(e, d, Close)
    BY <1>6, WithIs
  <2>2. Len(d) \in Nat
    BY <1>6, WordLength
  <2>3. Lexemes(With(d, Close)) = With(Lexemes(d), <<Close>>)
    BY <1>2, <1>6, LexemesOneMore
  <2>4. Lexemes(e) = With(Lexemes(d), <<Close>>)
    BY <2>3
  <2> HIDE DEF e
  <2> QED
    BY <2>1, <2>2, <2>4 DEF Extends
<1>8. Lexemes(e) = Alternatives(t)
  <2> HIDE DEF a, b, c, d, e
  <2> QED
    BY <1>3, <1>4, <1>5, <1>6, <1>7 DEF Alternatives
<1> HIDE DEF a, b, c, d
<1> QED
  BY <1>7, <1>8 DEF Parenthesized, a, b, c, d

(* What a term is rewritten to, and into which lexemes. *)
LEMMA LexemesOfNormalized ==
    ASSUME NEW t, Lettered(t)
    PROVE  /\ IsWord(NormalizeTerm(t)) /\ Len(NormalizeTerm(t)) # 0
           /\ \/ /\ Counts(t) = {} \/ Padded(t) = t
                 /\ NormalizeTerm(t) = t /\ Lexemes(NormalizeTerm(t)) = <<t>>
              \/ Counts(t) # {} /\ Lexemes(NormalizeTerm(t)) = Alternatives(t)
<1>1. CASE Counts(t) = {} \/ Padded(t) = t
  <2>1. NormalizeTerm(t) = t
    BY <1>1, NormalizeTermIs
  <2>2. Lexemes(t) = <<t>> /\ IsWord(t) /\ Len(t) # 0
    BY LexemesOfLettered DEF Lettered
  <2> QED
    BY <1>1, <2>1, <2>2
<1>2. CASE ~(Counts(t) = {} \/ Padded(t) = t)
  BY <1>2, NormalizeTermIs, LexemesOfParenthesized
<1> QED
  BY <1>1, <1>2

-----------------------------------------------------------------------------
(* Reading a rewritten term where an expression may start. *)
Started(e) == e.at = "start" /\ e.list = <<>> /\ e.left = TRUE /\ e.not = FALSE
Phrased(e, p) == [e EXCEPT !.at = "phrase", !.list = Append(@, p)]
Grouped(e, y) == [e EXCEPT !.inner = y, !.at = "group"]
Found(t, row) == InRow(Tokens(t), row) \/ (Counts(t) # {} /\ InRow(Tokens(Padded(t)), row))

LEMMA PhrasedIs ==
    ASSUME NEW e, Started(e), NEW p, p # <<>>, NEW row
    PROVE  /\ Phrased(e, p).at = "phrase"
           /\ Phrased(e, p).either = e.either /\ Phrased(e, p).both = e.both
           /\ Unit(Phrased(e, p), row) <=> InRow(p, row)
<1> DEFINE n == Phrased(e, p)
           o == <<p>>
           solid == {q \in Range(o) : q # <<>>}
<1>1. Append(<<>>, p) = o
  BY Stacks
<1>2. n.at = "phrase" /\ n.either = e.either /\ n.both = e.both /\ n.left = TRUE /\ n.not = FALSE /\ n.list = o
  <2> HIDE DEF o
  <2> QED
    BY <1>1 DEF Started, Phrased
<1>3. solid = {p}
  BY DEF Range
<1> HIDE DEF n, o
<1>4. Listed(n, row) <=> solid # {} /\ \A q \in solid : InRow(q, row)
  BY <1>2 DEF Listed
<1>5. Listed(n, row) \in BOOLEAN
  BY <1>2 DEF Listed
<1> HIDE DEF solid
<1>6. Listed(n, row) <=> InRow(p, row)
  BY <1>3, <1>4
<1>7. Unit(n, row) <=> Listed(n, row)
  BY <1>2, <1>5 DEF Unit
<1> QED
  BY <1>2, <1>6, <1>7 DEF n

LEMMA GroupedIs ==
    ASSUME NEW e, Started(e), NEW y \in BOOLEAN, NEW row
    PROVE  /\ Grouped(e, y).at = "group"
           /\ Grouped(e, y).either = e.either /\ Grouped(e, y).both = e.both
           /\ Unit(Grouped(e, y), row) <=> y
<1> DEFINE n == Grouped(e, y)
<1>1. n.at = "group" /\ n.either = e.either /\ n.both = e.both /\ n.left = TRUE /\ n.not = FALSE /\ n.inner = y
  BY DEF Started, Grouped
<1> HIDE DEF n
<1>2. Listed(n, row) = y
  BY <1>1 DEF Listed
<1>3. Unit(n, row) <=> y
  BY <1>1, <1>2 DEF Unit
<1> QED
  BY <1>1, <1>3 DEF n

Upheld(e, row) == e.both /\ Unit(e, row)

Start(x, v) == [Expression EXCEPT !.either = x, !.both = v]

LEMMA StartIs ==
    ASSUME NEW x, NEW v
    PROVE  Started(Start(x, v)) /\ Start(x, v).either = x /\ Start(x, v).both = v
BY DEF Start, Started, Expression

LEMMA OperatedIs ==
    ASSUME NEW e, NEW row
    PROVE  /\ Started(Expression) /\ Expression.either = FALSE /\ Expression.both = TRUE
           /\ Started(Operated(e, And, row))
           /\ Operated(e, And, row).either = e.either
           /\ Operated(e, And, row).both <=> e.both /\ Unit(e, row)
           /\ Started(Operated(e, Or, row))
           /\ Operated(e, Or, row).either <=> Value(e, row)
           /\ Operated(e, Or, row).both = TRUE
<1>1. Started(Expression) /\ Expression.either = FALSE /\ Expression.both = TRUE
  BY DEF Started, Expression
<1>2. ASSUME NEW x
      PROVE  /\ Started([Expression EXCEPT !.either = x])
             /\ [Expression EXCEPT !.either = x].either = x
             /\ [Expression EXCEPT !.either = x].both = TRUE
  BY DEF Started, Expression
<1> DEFINE v == Upheld(e, row)
           y == Value(e, row)
<1>3. Operated(e, And, row) = Start(e.either, v)
  <2>1. And = "AND" /\ "AND" # "OR" /\ "AND" # "NOT"
    BY DEF And
  <2> HIDE DEF v, y, And
  <2> QED
    BY <2>1 DEF Operated, Upheld, Start, v
<1>4. Operated(e, Or, row) = [Expression EXCEPT !.either = y]
  <2>1. Or = "OR" /\ "OR" # "AND" /\ "OR" # "NOT"
    BY DEF Or
  <2> HIDE DEF v, y, Or
  <2> QED
    BY <2>1 DEF Operated, y
<1> HIDE DEF v, y
<1>7. Started(Start(e.either, v)) /\ Start(e.either, v).either = e.either /\ Start(e.either, v).both = v
  BY StartIs
<1>5. /\ Started(Operated(e, And, row))
      /\ Operated(e, And, row).either = e.either
      /\ Operated(e, And, row).both = v
  BY <1>3, <1>7
<1>6. /\ Started(Operated(e, Or, row))
      /\ Operated(e, Or, row).either = y
      /\ Operated(e, Or, row).both = TRUE
  BY <1>2, <1>4
<1> QED
  BY <1>1, <1>5, <1>6 DEF Upheld, v, y

LEMMA TermIsSimple == ASSUME NEW t, Term(t) PROVE Simple(t) /\ IsWord(t)
<1>1. IsWord(t) /\ Len(t) \in Nat /\ Len(t) # 0
  BY WordLength DEF Term, Lettered
<1>2. 1 \in 1 .. Len(t)
  BY <1>1
<1>3. \A o \in {"AND", "OR", "NOT"} : o \in Operators
  BY DEF Operators
<1> QED
  BY <1>1, <1>2, <1>3 DEF Term, Lettered, Simple

(* As the first phrase of an expression, alone or between parentheses. *)
LEMMA ReadTermFirst ==
    ASSUME NEW e, Started(e), NEW t, Simple(t), NEW row
    PROVE  /\ ReadLexeme(<<e>>, t, row) = <<Phrased(e, Tokens(t))>>
           /\ \A d : ReadLexeme(<<d, e>>, t, row) = <<d, Phrased(e, Tokens(t))>>
<1> DEFINE new == Phrased(e, Tokens(t))
<1>1. e.at \notin {"plus", "group"}
  BY DEF Started
<1>3. ReadLexeme(<<e>>, t, row) = <<new>>
  <2> HIDE DEF Simple
  <2> QED
    BY <1>1, ReadFirst DEF Phrased
<1>4. ASSUME NEW d
      PROVE  ReadLexeme(<<d, e>>, t, row) = <<d, new>>
  <2> DEFINE s == <<d, e>>
  <2>1. Last(s) = e /\ Front(s) = <<d>> /\ s # <<>>
    BY Stacks
  <2>2. ReadLexeme(s, t, row)
           = Append(Front(s), [Last(s) EXCEPT !.at = "phrase", !.list = Append(@, Tokens(t))])
    <3> HIDE DEF s, Simple
    <3>1. Last(s).at \notin {"plus", "group"}
      BY <1>1, <2>1
    <3> QED
      BY <2>1, <3>1, ReadWord
  <2>3. ReadLexeme(s, t, row) = Append(<<d>>, new)
    <3> HIDE DEF s
    <3> QED
      BY <2>1, <2>2 DEF Phrased
  <2> HIDE DEF new
  <2>4. Append(<<d>>, new) = <<d, new>>
    BY Stacks
  <2> HIDE DEF s
  <2>5. ReadLexeme(s, t, row) = <<d, new>>
    BY <2>3, <2>4
  <2> QED
    BY <2>5 DEF s
<1> HIDE DEF new
<1> QED
  BY <1>3, <1>4 DEF new

(* The lexemes of a term, one or five, read where an expression may start. *)
HasEnded(e) == e.at \in {"phrase", "group"}

LEMMA ReadInfix ==
    ASSUME NEW e, HasEnded(e), NEW o \in Infixes, NEW row
    PROVE  /\ ReadLexeme(<<e>>, <<o>>, row) = <<Operated(e, o, row)>>
           /\ \A d : ReadLexeme(<<d, e>>, <<o>>, row) = <<d, Operated(e, o, row)>>
<1> DEFINE n == Operated(e, o, row)
           l == <<o>>
<1>1. ReadLexeme(<<e>>, l, row) = <<n>>
  <2> DEFINE s == <<e>>
  <2>1. Last(s) = e /\ Front(s) = <<>> /\ s # <<>> /\ Append(<<>>, n) = <<n>>
    BY Stacks
  <2> HIDE DEF s, n, l
  <2>2. ReadLexeme(s, l, row) = Append(Front(s), n)
    BY <2>1, ReadOperator DEF l, n, HasEnded
  <2>3. ReadLexeme(s, l, row) = <<n>>
    BY <2>1, <2>2
  <2> QED
    BY <2>3 DEF s
<1>2. ASSUME NEW d
      PROVE  ReadLexeme(<<d, e>>, l, row) = <<d, n>>
  <2> DEFINE s == <<d, e>>
  <2>1. Last(s) = e /\ Front(s) = <<d>> /\ s # <<>> /\ Append(<<d>>, n) = <<d, n>>
    BY Stacks
  <2> HIDE DEF s, n, l
  <2>2. ReadLexeme(s, l, row) = Append(Front(s), n)
    BY <2>1, ReadOperator DEF l, n, HasEnded
  <2>3. ReadLexeme(s, l, row) = <<d, n>>
    BY <2>1, <2>2
  <2> QED
    BY <2>3 DEF s
<1> HIDE DEF n, l
<1> QED
  BY <1>1, <1>2 DEF n, l

LEMMA LoweredIs ==
    ASSUME NEW t, IsWord(t)
    PROVE  /\ IsWord(Lowered(t)) /\ Len(Lowered(t)) = Len(t)
           /\ \A i \in 1 .. Len(t) : Lowered(t)[i] = LowerOf(t[i])
<1> DEFINE L == {LowerOf(c) : c \in Range(t)}
           n == Len(t)
<1>1. n \in Nat /\ DOMAIN t = 1 .. n
  BY DEF IsWord
<1>2. Lowered(t) = [i \in 1 .. n |-> LowerOf(t[i])]
  BY <1>1 DEF Lowered
<1> HIDE DEF n
<1>3. Lowered(t) \in [1 .. n -> L]
  BY <1>1, <1>2 DEF Range
<1>4. Lowered(t) \in Seq(L) /\ Len(Lowered(t)) = n
  BY <1>1, <1>3
<1> QED
  BY <1>2, <1>4, SeqIsWord DEF n

LEMMA TokensOfLettered ==
    ASSUME NEW t, Lettered(t)
    PROVE  Lettered(Lowered(t)) /\ Tokens(t) = <<Lowered(t)>>
<1> DEFINE w == Lowered(t)
<1>1. IsWord(w) /\ Len(w) = Len(t) /\ \A i \in 1 .. Len(t) : w[i] = LowerOf(t[i])
  BY LoweredIs DEF Lettered
<1> HIDE DEF w
<1>2. \A c : Alphanumeric(c) => Alphanumeric(LowerOf(c))
  BY LettersAssumption DEF LowerOf
<1>3. Lettered(w)
  BY <1>1, <1>2 DEF Lettered
<1>4. Pieces(w, Separators, Separators) = <<w>>
  BY <1>3, PiecesOfOne DEF Lettered, Alphanumeric
<1> QED
  BY <1>3, <1>4 DEF Tokens, Runs, w

LEMMA ReadNormalized ==
    ASSUME NEW ls, IsWord(ls), NEW row, NEW e, ReadAll(ls, row) = <<e>>, Started(e), NEW t, Term(t)
    PROVE  \E f : /\ ReadAll(Joined(ls, Lexemes(NormalizeTerm(t))), row) = <<f>>
                  /\ HasEnded(f) /\ f.either = e.either /\ f.both = e.both
                  /\ Unit(f, row) <=> Found(t, row)
<1> DEFINE p == Tokens(t)
           q == Tokens(Padded(t))
           n == NormalizeTerm(t)
           Reads(f) == /\ ReadAll(Joined(ls, Lexemes(n)), row) = <<f>>
                       /\ HasEnded(f) /\ f.either = e.either /\ f.both = e.both
                       /\ Unit(f, row) <=> Found(t, row)
<1>1. Simple(t) /\ Lettered(t) /\ IsWord(t)
  BY TermIsSimple DEF Term
<1>2. p # <<>>
  <2>1. p = <<Lowered(t)>>
    BY <1>1, TokensOfLettered
  <2> QED
    BY <2>1
<1>3. CASE (Counts(t) = {} \/ Padded(t) = t) /\ Lexemes(n) = <<t>>
  <2> DEFINE f == Phrased(e, p)
  <2>1. ReadAll(With(ls, t), row) = ReadLexeme(<<e>>, t, row)
    BY ReadOneMore
  <2>2. ReadLexeme(<<e>>, t, row) = <<f>>
    BY <1>1, ReadTermFirst
  <2>3. Joined(ls, Lexemes(n)) = With(ls, t)
    BY <1>3 DEF With
  <2>4. f.at = "phrase" /\ f.either = e.either /\ f.both = e.both /\ (Unit(f, row) <=> InRow(p, row))
    <3> HIDE DEF p
    <3> QED
      BY <1>2, PhrasedIs
  <2>5. Found(t, row) <=> InRow(p, row)
    BY <1>3 DEF Found
  <2> HIDE DEF f, n
  <2>6. HasEnded(f)
    BY <2>4 DEF HasEnded
  <2>7. Reads(f)
    BY <2>1, <2>2, <2>3, <2>4, <2>5, <2>6
  <2> HIDE DEF Reads
  <2>8. \E g : Reads(g)
    BY <2>7
  <2> QED
    BY <2>8 DEF Reads, n
<1>4. CASE Counts(t) # {} /\ Lexemes(n) = Alternatives(t)
  <2>1. Simple(Padded(t)) /\ Lettered(Padded(t))
    BY <1>1, <1>4, PaddedIsTerm, TermIsSimple DEF Term
  <2>2. q # <<>>
    <3>1. q = <<Lowered(Padded(t))>>
      BY <2>1, TokensOfLettered
    <3> QED
      BY <3>1
  <2> DEFINE open == <<Open>>
             or == <<Or>>
             close == <<Close>>
             l1 == With(ls, open)
             l2 == With(l1, t)
             l3 == With(l2, or)
             l4 == With(l3, Padded(t))
             l5 == With(l4, close)
             e2 == Phrased(Expression, p)
             e3 == Operated(e2, Or, row)
             e4 == Phrased(e3, q)
             y == Value(e4, row)
             f == Grouped(e, y)
  <2>3. IsWord(l1) /\ IsWord(l2) /\ IsWord(l3) /\ IsWord(l4)
    BY WithIsWord
  <2>4. Joined(ls, Alternatives(t)) = l5
    <3> DEFINE a1 == <<open>>
               a2 == With(a1, t)
               a3 == With(a2, or)
               a4 == With(a3, Padded(t))
               a5 == With(a4, close)
    <3>1. IsWord(a1) /\ IsWord(a2) /\ IsWord(a3) /\ IsWord(a4)
      BY ShortWords, WithIsWord
    <3> HIDE DEF open, or, close
    <3>2. Joined(ls, a1) = l1
      BY DEF With
    <3>3. Joined(ls, a2) = With(Joined(ls, a1), t)
      <4> HIDE DEF a1
      <4> QED
        BY <3>1, JoinedWith
    <3>4. Joined(ls, a3) = With(Joined(ls, a2), or)
      <4> HIDE DEF a2
      <4> QED
        BY <3>1, JoinedWith
    <3>5. Joined(ls, a4) = With(Joined(ls, a3), Padded(t))
      <4> HIDE DEF a3
      <4> QED
        BY <3>1, JoinedWith
    <3>6. Joined(ls, a5) = With(Joined(ls, a4), close)
      <4> HIDE DEF a4
      <4> QED
        BY <3>1, JoinedWith
    <3>7. Alternatives(t) = a5
      BY DEF Alternatives, open, or, close
    <3> HIDE DEF a1, a2, a3, a4, a5
    <3> QED
      BY <3>2, <3>3, <3>4, <3>5, <3>6, <3>7
  <2>5. Started(Expression) /\ Expression.either = FALSE /\ Expression.both = TRUE
    BY OperatedIs
  <2>6. e2.at = "phrase" /\ e2.either = FALSE /\ e2.both = TRUE /\ (Unit(e2, row) <=> InRow(p, row))
    <3> HIDE DEF p
    <3> QED
      BY <1>2, <2>5, PhrasedIs
  <2>7. Started(e3) /\ (e3.either <=> InRow(p, row)) /\ e3.both = TRUE
    <3> HIDE DEF e2
    <3>1. Value(e2, row) <=> InRow(p, row)
      BY <2>6 DEF Value
    <3> QED
      BY <3>1, OperatedIs
  <2>8. e4.at = "phrase" /\ e4.either = e3.either /\ e4.both = TRUE /\ (Unit(e4, row) <=> InRow(q, row))
    <3> HIDE DEF q, e3
    <3> QED
      BY <2>2, <2>7, PhrasedIs
  <2>9. y \in BOOLEAN /\ (y <=> InRow(p, row) \/ InRow(q, row))
    <3> HIDE DEF e4
    <3>1. y <=> e4.either \/ (e4.both /\ Unit(e4, row))
      BY DEF Value
    <3>2. y \in BOOLEAN
      BY DEF Value
    <3> HIDE DEF y
    <3> QED
      BY <2>7, <2>8, <3>1, <3>2
  <2>10. f.at = "group" /\ f.either = e.either /\ f.both = e.both /\ (Unit(f, row) <=> y)
    <3> HIDE DEF y
    <3> QED
      BY <2>9, GroupedIs
  <2>11. Found(t, row) <=> InRow(p, row) \/ InRow(q, row)
    BY <1>4 DEF Found
  <2>12. ReadAll(l1, row) = <<e, Expression>>
    <3>1. ReadAll(l1, row) = ReadLexeme(<<e>>, open, row)
      BY ReadOneMore
    <3> DEFINE s == <<e>>
    <3>2. Last(s) = e /\ s # <<>> /\ Append(s, Expression) = <<e, Expression>>
      BY Stacks
    <3> HIDE DEF s
    <3>3. Last(s).at = "start"
      BY <3>2 DEF Started
    <3>4. ReadLexeme(s, <<"(">>, row) = Append(s, Expression)
      BY <3>2, <3>3, ReadOpen
    <3> QED
      BY <3>1, <3>2, <3>4 DEF s, Open
  <2>13. ReadAll(l2, row) = <<e, e2>>
    <3>1. ReadAll(l2, row) = ReadLexeme(ReadAll(l1, row), t, row)
      BY <2>3, ReadOneMore
    <3>2. ReadLexeme(<<e, Expression>>, t, row) = <<e, e2>>
      BY <1>1, <2>5, ReadTermFirst
    <3> QED
      BY <2>12, <3>1, <3>2
  <2>14. ReadAll(l3, row) = <<e, e3>>
    <3>1. ReadAll(l3, row) = ReadLexeme(ReadAll(l2, row), or, row)
      BY <2>3, ReadOneMore
    <3> HIDE DEF e2
    <3>2. HasEnded(e2) /\ Or \in Infixes
      BY <2>6 DEF Or, Infixes, HasEnded
    <3>3. ReadLexeme(<<e, e2>>, or, row) = <<e, e3>>
      BY <3>2, ReadInfix
    <3> QED
      BY <2>13, <3>1, <3>3
  <2>15. ReadAll(l4, row) = <<e, e4>>
    <3>1. ReadAll(l4, row) = ReadLexeme(ReadAll(l3, row), Padded(t), row)
      BY <2>3, ReadOneMore
    <3> HIDE DEF e3
    <3>2. ReadLexeme(<<e, e3>>, Padded(t), row) = <<e, e4>>
      BY <2>1, <2>7, ReadTermFirst
    <3> QED
      BY <2>14, <3>1, <3>2
  <2>16. ReadAll(l5, row) = <<f>>
    <3>1. ReadAll(l5, row) = ReadLexeme(ReadAll(l4, row), close, row)
      BY <2>3, ReadOneMore
    <3> HIDE DEF e4
    <3>2. ReadLexeme(<<e, e4>>, <<")">>, row) = <<f>>
      BY <2>8, ReadClose DEF Grouped
    <3> QED
      BY <2>15, <3>1, <3>2 DEF Close
  <2> HIDE DEF f, y, l5, n, p, q
  <2>17. ReadAll(Joined(ls, Lexemes(n)), row) = <<f>>
    BY <1>4, <2>4, <2>16
  <2>18. HasEnded(f) /\ (Unit(f, row) <=> Found(t, row))
    BY <2>9, <2>10, <2>11 DEF HasEnded
  <2>19. Reads(f)
    BY <2>10, <2>17, <2>18
  <2> HIDE DEF Reads
  <2>20. \E g : Reads(g)
    BY <2>19
  <2> QED
    BY <2>20 DEF Reads, n
<1>5. \/ (Counts(t) = {} \/ Padded(t) = t) /\ Lexemes(n) = <<t>>
      \/ Counts(t) # {} /\ Lexemes(n) = Alternatives(t)
  BY <1>1, LexemesOfNormalized
<1> QED
  BY <1>3, <1>4, <1>5

-----------------------------------------------------------------------------
(* Reading terms joined by AND: all of them must be found. *)
LEMMA LexemesOfConjoined ==
    ASSUME NEW text, IsWord(text), NEW n, IsWord(n)
    PROVE  LET longer == Joined(Joined(text, Conjunction), n) IN
           /\ IsWord(longer)
           /\ Lexemes(longer) = Joined(With(Lexemes(text), <<And>>), Lexemes(n))
<1> DEFINE a == Joined(text, Conjunction)
<1>1. Conjunction = Spaced(And) /\ And \notin Blanks
  BY DEF Conjunction, Spaced, Space, And, Blanks
<1>2. IsWord(a) /\ EndsApart(a, Bars) /\ Lexemes(a) = With(Lexemes(text), <<And>>)
  BY <1>1, LexemesOfSpaced
<1> HIDE DEF a
<1>3. Lexemes(Joined(a, n)) = Joined(Lexemes(a), Lexemes(n)) /\ IsWord(Joined(a, n))
  BY <1>2, LexemesJoin, JoinedIsWord
<1> QED
  BY <1>2, <1>3 DEF a

LEMMA JoinTermsIsWord ==
    ASSUME NEW terms, IsWord(terms), \A k \in 1 .. Len(terms) : Lettered(terms[k])
    PROVE  IsWord(JoinTerms(terms))
<1> DEFINE T == Range(terms)
           S == {ts \in Seq(T) : IsWord(JoinTerms(ts))}
<1>1. \A t \in T : Lettered(t)
  <2>1. DOMAIN terms = 1 .. Len(terms)
    BY DEF IsWord
  <2> QED
    BY <2>1 DEF Range
<1>2. <<>> \in S
  <2>1. <<>> \in Seq(T)
    OBVIOUS
  <2> QED
    BY <2>1, JoinNone, ShortWords
<1>3. ASSUME NEW w \in Seq(T), NEW t \in T, w \in S
      PROVE  With(w, t) \in S
  <2>1. With(w, t) \in Seq(T) /\ IsWord(w)
    BY WithStays, SeqIsWord
  <2>2. IsWord(NormalizeTerm(t))
    BY <1>1, LexemesOfNormalized
  <2>3. IsWord(Joined(Joined(JoinTerms(w), Conjunction), NormalizeTerm(t)))
    BY <1>3, <2>2, LexemesOfConjoined
  <2>4. IsWord(JoinTerms(With(w, t)))
    BY <2>1, <2>2, <2>3, JoinOneMore
  <2> QED
    BY <2>1, <2>4
<1>4. terms \in Seq(T)
  BY WordIsSeq
<1>5. \A w \in Seq(T) : w \in S
  <2> HIDE DEF T, S
  <2> QED
    BY <1>2, <1>3, WordInduction
<1> QED
  BY <1>4, <1>5

AllFound(terms, row) == \A k \in 1 .. Len(terms) : Found(terms[k], row)

LEMMA ReadTerms ==
    ASSUME NEW terms, IsWord(terms), Len(terms) # 0, \A k \in 1 .. Len(terms) : Term(terms[k]), NEW row
    PROVE  \E f : /\ ReadAll(Lexemes(JoinTerms(terms)), row) = <<f>>
                  /\ HasEnded(f) /\ f.either = FALSE
                  /\ f.both /\ Unit(f, row) <=> AllFound(terms, row)
<1> DEFINE T == Range(terms)
           Reads(ts, f) == /\ ReadAll(Lexemes(JoinTerms(ts)), row) = <<f>>
                           /\ HasEnded(f) /\ f.either = FALSE
                           /\ f.both /\ Unit(f, row) <=> AllFound(ts, row)
           S == {ts \in Seq(T) : Len(ts) # 0 => \E f : Reads(ts, f)}
<1>1. \A t \in T : Term(t) /\ Lettered(t)
  <2>1. DOMAIN terms = 1 .. Len(terms)
    BY DEF IsWord
  <2> QED
    BY <2>1 DEF Range, Term
<1>2. <<>> \in S
  <2>1. <<>> \in Seq(T) /\ Len(<<>>) = 0
    OBVIOUS
  <2> QED
    BY <2>1
<1>3. ASSUME NEW w \in Seq(T), NEW t \in T, w \in S
      PROVE  With(w, t) \in S
  <2> DEFINE v == With(w, t)
             n == NormalizeTerm(t)
  <2>1. v \in Seq(T) /\ IsWord(w) /\ Len(w) \in Nat /\ \A k \in 1 .. Len(w) : Lettered(w[k])
    <3>1. v \in Seq(T) /\ IsWord(w)
      BY WithStays, SeqIsWord
    <3>2. Len(w) \in Nat /\ \A k \in 1 .. Len(w) : w[k] \in T
      <4> HIDE DEF T
      <4> QED
        OBVIOUS
    <3> QED
      BY <1>1, <3>1, <3>2
  <2>2. IsWord(n)
    BY <1>1, LexemesOfNormalized
  <2>3. AllFound(v, row) <=> AllFound(w, row) /\ Found(t, row)
    <3>1. Extends(v, w, t)
      BY <2>1, WithIs
    <3> HIDE DEF v
    <3>2. Len(v) = Len(w) + 1 /\ v[Len(v)] = t /\ (\A k \in 1 .. Len(w) : v[k] = w[k])
      BY <3>1 DEF Extends
    <3>3. \A k \in 1 .. Len(v) : k \in 1 .. Len(w) \/ k = Len(v)
      BY <2>1, <3>2
    <3>4. Len(v) \in 1 .. Len(v) /\ \A k \in 1 .. Len(w) : k \in 1 .. Len(v)
      BY <2>1, <3>2
    <3> QED
      BY <3>2, <3>3, <3>4 DEF AllFound
  <2>4. CASE Len(w) = 0
    <3>1. JoinTerms(v) = n
      BY <2>1, <2>4, JoinOneMore
    <3>2. ReadAll(<<>>, row) = <<Expression>> /\ IsWord(<<>>)
      BY ReadNone, ShortWords
    <3>3. /\ Started(Expression) /\ Expression.either = FALSE /\ Expression.both = TRUE
          /\ IsWord(Lexemes(n))
      BY <2>2, OperatedIs, LexemesType
    <3>4. PICK f : /\ ReadAll(Joined(<<>>, Lexemes(n)), row) = <<f>>
                   /\ HasEnded(f) /\ f.either = Expression.either /\ f.both = Expression.both
                   /\ Unit(f, row) <=> Found(t, row)
      BY <1>1, <3>2, <3>3, ReadNormalized
    <3>5. Joined(<<>>, Lexemes(n)) = Lexemes(n)
      BY <3>3, JoinedNone
    <3>6. AllFound(w, row)
      BY <2>4 DEF AllFound
    <3> HIDE DEF v, n
    <3>7. Reads(v, f)
      BY <2>3, <3>1, <3>3, <3>4, <3>5, <3>6
    <3> HIDE DEF Reads
    <3>8. v \in S
      BY <2>1, <3>7
    <3> QED
      BY <3>8 DEF v
  <2>5. CASE Len(w) # 0
    <3> DEFINE J == JoinTerms(w)
               ls == With(Lexemes(J), <<And>>)
    <3>1. JoinTerms(v) = Joined(Joined(J, Conjunction), n) /\ IsWord(J)
      BY <2>1, <2>5, JoinOneMore, JoinTermsIsWord
    <3>2. Lexemes(JoinTerms(v)) = Joined(ls, Lexemes(n)) /\ IsWord(Lexemes(J)) /\ IsWord(ls)
      <4> HIDE DEF J, n, v
      <4> QED
        BY <2>2, <3>1, LexemesOfConjoined, LexemesType, WithIsWord
    <3>3. PICK e : Reads(w, e)
      BY <1>3, <2>5
    <3> DEFINE m == Operated(e, And, row)
    <3>4. ReadAll(ls, row) = <<m>>
      <4>1. ReadAll(ls, row) = ReadLexeme(ReadAll(Lexemes(J), row), <<And>>, row)
        BY <3>2, ReadOneMore
      <4>2. And \in Infixes
        BY DEF And, Infixes
      <4>3. ReadLexeme(<<e>>, <<And>>, row) = <<m>>
        BY <3>3, <4>2, ReadInfix
      <4> QED
        BY <3>3, <4>1, <4>3
    <3>5. Started(m) /\ m.either = FALSE /\ (m.both <=> AllFound(w, row))
      BY <3>3, OperatedIs
    <3> HIDE DEF m, ls
    <3>6. PICK f : /\ ReadAll(Joined(ls, Lexemes(n)), row) = <<f>>
                   /\ HasEnded(f) /\ f.either = m.either /\ f.both = m.both
                   /\ Unit(f, row) <=> Found(t, row)
      BY <1>1, <3>2, <3>4, <3>5, ReadNormalized
    <3> HIDE DEF v, n
    <3>7. Reads(v, f)
      BY <2>3, <3>2, <3>5, <3>6
    <3> HIDE DEF Reads
    <3>8. v \in S
      BY <2>1, <3>7
    <3> QED
      BY <3>8 DEF v
  <2> QED
    BY <2>4, <2>5
<1>4. terms \in Seq(T)
  BY WordIsSeq
<1>5. \A w \in Seq(T) : w \in S
  <2> HIDE DEF T, S
  <2> QED
    BY <1>2, <1>3, WordInduction
<1>6. \E f : Reads(terms, f)
  <2> HIDE DEF Reads
  <2> QED
    BY <1>4, <1>5
<1> QED
  BY <1>6

(* MATCH with the terms of a query is MATCH with all of them. *)
LEMMA MatchOfTerms ==
    ASSUME NEW terms, IsWord(terms), Len(terms) # 0, \A k \in 1 .. Len(terms) : Term(terms[k]), NEW row
    PROVE  /\ Match(JoinTerms(terms), row) # <<>>
           /\ Match(JoinTerms(terms), row) = <<TRUE>> <=> AllFound(terms, row)
<1> DEFINE text == JoinTerms(terms)
<1>1. PICK f : /\ ReadAll(Lexemes(text), row) = <<f>>
               /\ HasEnded(f) /\ f.either = FALSE
               /\ f.both /\ Unit(f, row) <=> AllFound(terms, row)
  BY ReadTerms
<1> HIDE DEF text
<1>2. Len(<<f>>) = 1 /\ <<f>>[1] = f
  OBVIOUS
<1> DEFINE y == Value(f, row)
<1>3. Match(text, row) = <<y>>
  BY <1>1, <1>2 DEF Match, HasEnded
<1>4. y \in BOOLEAN /\ (y <=> AllFound(terms, row))
  <2>1. y <=> f.either \/ (f.both /\ Unit(f, row))
    BY DEF Value
  <2>2. y \in BOOLEAN
    BY DEF Value
  <2> HIDE DEF y
  <2> QED
    BY <1>1, <2>1, <2>2
<1> HIDE DEF y
<1>5. <<y>> # <<>> /\ (<<y>> = <<TRUE>> <=> y)
  BY <1>4
<1> QED
  BY <1>3, <1>4, <1>5 DEF text

-----------------------------------------------------------------------------
(* A run is a stretch of the word between letters that are apart. *)
Stretch(p, w, apart, d) == /\ d \in Nat /\ d + Len(p) <= Len(w)
                           /\ \A i \in 1 .. Len(p) : w[d + i] = p[i]
                           /\ d > 0 => w[d] \in apart
                           /\ d + Len(p) < Len(w) => w[d + Len(p) + 1] \in apart
Stretches(P, w, apart) == \A k \in 1 .. Len(P) : \E d :
    /\ Stretch(P[k], w, apart, d)
    /\ k < Len(P) => d + Len(P[k]) < Len(w)
    /\ k = Len(P) /\ ~EndsApart(w, apart) => d + Len(P[k]) = Len(w)

LEMMA StretchStays ==
    ASSUME NEW p, Len(p) \in Nat, NEW w, IsWord(w), NEW c, NEW apart, NEW d, Stretch(p, w, apart, d),
           d + Len(p) < Len(w) \/ c \in apart
    PROVE  Stretch(p, With(w, c), apart, d)
<1> DEFINE v == With(w, c)
<1>1. Extends(v, w, c) /\ Len(w) \in Nat
  BY WithIs, WordLength
<1> HIDE DEF v
<1>2. Len(v) = Len(w) + 1 /\ v[Len(w) + 1] = c /\ \A i \in 1 .. Len(w) : v[i] = w[i]
  BY <1>1 DEF Extends
<1>3. d \in Nat /\ d + Len(p) <= Len(w) /\ (\A i \in 1 .. Len(p) : w[d + i] = p[i])
      /\ (d > 0 => w[d] \in apart) /\ (d + Len(p) < Len(w) => w[d + Len(p) + 1] \in apart)
  BY DEF Stretch
<1>4. \A i \in 1 .. Len(p) : v[d + i] = p[i]
  <2> SUFFICES ASSUME NEW i \in 1 .. Len(p)
               PROVE  v[d + i] = p[i]
    OBVIOUS
  <2>1. d + i \in 1 .. Len(w)
    BY <1>1, <1>3
  <2> QED
    BY <1>2, <1>3, <2>1
<1>5. d > 0 => v[d] \in apart
  <2>1. d > 0 => d \in 1 .. Len(w)
    BY <1>1, <1>3
  <2> QED
    BY <1>2, <1>3, <2>1
<1>6. v[d + Len(p) + 1] \in apart
  <2>1. CASE d + Len(p) < Len(w)
    <3>1. d + Len(p) + 1 \in 1 .. Len(w)
      BY <1>1, <1>3, <2>1
    <3> QED
      BY <1>2, <1>3, <2>1, <3>1
  <2>2. CASE d + Len(p) = Len(w)
    BY <1>2, <2>2
  <2> QED
    BY <1>1, <1>3, <2>1, <2>2
<1>7. d + Len(p) <= Len(v)
  BY <1>1, <1>2, <1>3
<1> QED
  BY <1>3, <1>4, <1>5, <1>6, <1>7 DEF Stretch, v

LEMMA StretchGrows ==
    ASSUME NEW p, IsWord(p), NEW w, IsWord(w), NEW c, NEW apart, NEW d, Stretch(p, w, apart, d),
           d + Len(p) = Len(w)
    PROVE  Stretch(With(p, c), With(w, c), apart, d) /\ d + Len(With(p, c)) = Len(With(w, c))
<1> DEFINE v == With(w, c)
           q == With(p, c)
<1>1. Extends(v, w, c) /\ Len(w) \in Nat /\ Extends(q, p, c) /\ Len(p) \in Nat
  BY WithIs, WordLength
<1> HIDE DEF v, q
<1>2. /\ Len(v) = Len(w) + 1 /\ v[Len(w) + 1] = c /\ \A i \in 1 .. Len(w) : v[i] = w[i]
      /\ Len(q) = Len(p) + 1 /\ q[Len(p) + 1] = c /\ \A i \in 1 .. Len(p) : q[i] = p[i]
  BY <1>1 DEF Extends
<1>3. d \in Nat /\ (\A i \in 1 .. Len(p) : w[d + i] = p[i]) /\ (d > 0 => w[d] \in apart)
  BY DEF Stretch
<1>4. d + Len(q) = Len(v)
  BY <1>1, <1>2, <1>3
<1>5. \A i \in 1 .. Len(q) : v[d + i] = q[i]
  <2> SUFFICES ASSUME NEW i \in 1 .. Len(q)
               PROVE  v[d + i] = q[i]
    OBVIOUS
  <2>1. CASE i \in 1 .. Len(p)
    <3>1. d + i \in 1 .. Len(w)
      BY <1>1, <1>3, <2>1
    <3> QED
      BY <1>2, <1>3, <2>1, <3>1
  <2>2. CASE i = Len(p) + 1
    <3>1. d + i = Len(w) + 1
      BY <1>1, <1>3, <2>2
    <3> QED
      BY <1>2, <2>2, <3>1
  <2> QED
    BY <1>1, <1>2, <2>1, <2>2
<1>6. d > 0 => v[d] \in apart
  <2>1. d > 0 => d \in 1 .. Len(w)
    BY <1>1, <1>3
  <2> QED
    BY <1>2, <1>3, <2>1
<1>7. d + Len(q) <= Len(v) /\ ~(d + Len(q) < Len(v))
  BY <1>1, <1>2, <1>3, <1>4
<1> QED
  BY <1>3, <1>4, <1>5, <1>6, <1>7 DEF Stretch, v, q

LEMMA StretchesOneMore ==
    ASSUME NEW w, IsWord(w), NEW c, NEW apart, NEW P, Shaped(P, w, apart, apart), Stretches(P, w, apart)
    PROVE  Stretches(WithLetter(P, w, c, apart, apart), With(w, c), apart)
<1> DEFINE v == With(w, c)
           Q == WithLetter(P, w, c, apart, apart)
<1>1. Extends(v, w, c) /\ Len(w) \in Nat /\ IsWord(P) /\ Len(P) \in Nat
  BY WithIs, WordLength DEF Shaped
<1>2. /\ Len(v) = Len(w) + 1 /\ v[Len(v)] = c /\ v[Len(w) + 1] = c /\ \A i \in 1 .. Len(w) : v[i] = w[i]
  <2> HIDE DEF v
  <2> QED
    BY <1>1 DEF Extends
<1>3. \A k \in 1 .. Len(P) : IsPiece(P[k], w, apart, apart)
  BY DEF Shaped
<1>4. \A k \in 1 .. Len(P) : IsWord(P[k]) /\ Len(P[k]) \in Nat /\ Len(P[k]) # 0
  BY <1>3, WordLength DEF IsPiece
<1>5. Len(v) # 0 /\ (EndsApart(v, apart) <=> c \in apart)
  <2> HIDE DEF v
  <2> QED
    BY <1>1, <1>2 DEF EndsApart
<1>6. CASE c \in apart
  <2>1. Q = P
    BY <1>6 DEF WithLetter
  <2>2. ASSUME NEW k \in 1 .. Len(P)
        PROVE  \E d : /\ Stretch(P[k], v, apart, d)
                      /\ k < Len(P) => d + Len(P[k]) < Len(v)
                      /\ k = Len(P) /\ ~EndsApart(v, apart) => d + Len(P[k]) = Len(v)
    <3>1. PICK d : Stretch(P[k], w, apart, d)
      BY DEF Stretches
    <3>2. Stretch(P[k], v, apart, d)
      BY <1>4, <1>6, <3>1, StretchStays
    <3>3. d + Len(P[k]) < Len(v)
      <4> HIDE DEF v
      <4> QED
        BY <1>1, <1>2, <1>4, <3>1 DEF Stretch
    <3> HIDE DEF v
    <3> QED
      BY <1>5, <1>6, <3>2, <3>3
  <2> HIDE DEF v, Q
  <2> QED
    BY <2>1, <2>2 DEF Stretches, v, Q
<1>7. CASE c \notin apart /\ EndsApart(w, apart)
  <2> DEFINE o == <<c>>
  <2>1. Q = With(P, o)
    BY <1>7 DEF WithLetter
  <2>2. Extends(Q, P, o)
    BY <1>1, <2>1, WithIs
  <2>3. Len(Q) = Len(P) + 1 /\ Q[Len(P) + 1] = o /\ \A k \in 1 .. Len(P) : Q[k] = P[k]
    <3> HIDE DEF Q, o
    <3> QED
      BY <2>2 DEF Extends
  <2>4. IsWord(o) /\ Len(o) = 1 /\ o[1] = c
    BY ShortWords
  <2> HIDE DEF o, Q
  <2> SUFFICES ASSUME NEW k \in 1 .. Len(Q)
               PROVE  \E d : /\ Stretch(Q[k], v, apart, d)
                             /\ k < Len(Q) => d + Len(Q[k]) < Len(v)
                             /\ k = Len(Q) /\ ~EndsApart(v, apart) => d + Len(Q[k]) = Len(v)
    BY DEF Stretches, Q
  <2>5. CASE k \in 1 .. Len(P)
    <3>1. PICK d : Stretch(P[k], w, apart, d)
      BY <2>5 DEF Stretches
    <3>2. d + Len(P[k]) < Len(w)
      <4> DEFINE p == P[k]
      <4>1. IsPiece(p, w, apart, apart) /\ Len(p) \in Nat /\ Len(p) # 0
        BY <1>3, <1>4, <2>5
      <4> HIDE DEF p
      <4>2. Len(p) \in 1 .. Len(p)
        BY <4>1
      <4>3. p[Len(p)] \notin apart
        BY <4>1, <4>2 DEF IsPiece
      <4>4. /\ d \in Nat /\ d + Len(p) <= Len(w) /\ w[d + Len(p)] = p[Len(p)]
        BY <3>1, <4>2 DEF Stretch, p
      <4>5. d + Len(p) # Len(w)
        BY <1>7, <4>1, <4>3, <4>4 DEF EndsApart
      <4>6. d + Len(p) < Len(w)
        BY <1>1, <4>1, <4>4, <4>5
      <4> QED
        BY <4>6 DEF p
    <3>3. Stretch(P[k], v, apart, d)
      BY <1>4, <2>5, <3>1, <3>2, StretchStays
    <3>4. d + Len(P[k]) < Len(v) /\ k # Len(Q)
      <4> HIDE DEF v
      <4> QED
        BY <1>1, <1>2, <1>4, <2>3, <2>5, <3>1, <3>2 DEF Stretch
    <3> HIDE DEF v
    <3> QED
      BY <2>3, <2>5, <3>3, <3>4
  <2>6. CASE k = Len(P) + 1
    <3> DEFINE d == Len(w)
    <3> HIDE DEF v
    <3>1. Q[k] = o /\ k = Len(Q) /\ d + Len(o) = Len(v)
      BY <1>1, <1>2, <2>3, <2>4, <2>6
    <3>2. d > 0 => v[d] \in apart
      BY <1>1, <1>2, <1>7 DEF EndsApart
    <3>3. \A i \in 1 .. Len(o) : v[d + i] = o[i]
      BY <1>2, <2>4
    <3>4. Stretch(o, v, apart, d)
      BY <1>1, <1>2, <2>4, <3>1, <3>2, <3>3 DEF Stretch
    <3> QED
      BY <3>1, <3>4
  <2> QED
    BY <1>1, <2>3, <2>5, <2>6
<1>8. CASE c \notin apart /\ ~EndsApart(w, apart)
  <2> DEFINE n == Len(P)
  <2>1. Q = Grown(P, c)
    BY <1>8 DEF WithLetter
  <2>2. n # 0
    BY <1>8 DEF Shaped
  <2>3. n \in 1 .. n
    BY <1>1, <2>2
  <2>4. IsWord(P[n])
    BY <1>4, <2>3
  <2>5. /\ Len(Q) = n /\ (\A k \in 1 .. n - 1 : Q[k] = P[k]) /\ Q[n] = With(P[n], c)
    BY <1>1, <2>1, <2>2, <2>4, GrownIs
  <2> HIDE DEF Q
  <2> SUFFICES ASSUME NEW k \in 1 .. Len(Q)
               PROVE  \E d : /\ Stretch(Q[k], v, apart, d)
                             /\ k < Len(Q) => d + Len(Q[k]) < Len(v)
                             /\ k = Len(Q) /\ ~EndsApart(v, apart) => d + Len(Q[k]) = Len(v)
    BY DEF Stretches, Q
  <2>6. PICK d : /\ Stretch(P[k], w, apart, d)
                 /\ k < n => d + Len(P[k]) < Len(w)
                 /\ k = n => d + Len(P[k]) = Len(w)
    BY <1>8, <2>5 DEF Stretches
  <2>7. CASE k < n
    <3>1. k \in 1 .. n - 1
      BY <1>1, <2>5, <2>7
    <3>2. Q[k] = P[k] /\ d + Len(P[k]) < Len(w) /\ Len(P[k]) \in Nat
      BY <1>4, <2>5, <2>6, <2>7, <3>1
    <3>3. Stretch(P[k], v, apart, d)
      BY <2>6, <3>2, StretchStays
    <3> HIDE DEF v
    <3>4. d + Len(P[k]) < Len(v) /\ k # Len(Q)
      BY <1>1, <1>2, <2>5, <2>6, <2>7, <3>2 DEF Stretch
    <3> QED
      BY <3>2, <3>3, <3>4
  <2>8. CASE k = n
    <3>1. Stretch(Q[k], v, apart, d) /\ d + Len(Q[k]) = Len(v)
      <4> DEFINE p == P[n]
      <4>1. IsWord(p) /\ Stretch(p, w, apart, d) /\ d + Len(p) = Len(w) /\ Q[k] = With(p, c)
        BY <2>4, <2>5, <2>6, <2>8
      <4> HIDE DEF p
      <4>2. Stretch(With(p, c), v, apart, d) /\ d + Len(With(p, c)) = Len(v)
        BY <4>1, StretchGrows
      <4> QED
        BY <4>1, <4>2
    <3> HIDE DEF v
    <3>2. ~(k < Len(Q))
      BY <1>1, <2>5, <2>8
    <3> QED
      BY <3>1, <3>2
  <2> QED
    BY <1>1, <2>5, <2>7, <2>8
<1> QED
  BY <1>6, <1>7, <1>8

LEMMA RunsAreStretches ==
    ASSUME NEW word, IsWord(word), NEW apart
    PROVE  Stretches(Pieces(word, apart, apart), word, apart)
<1> DEFINE L == Range(word)
           S == {w \in Seq(L) : Stretches(Pieces(w, apart, apart), w, apart)}
<1>1. <<>> \in S
  <2>1. Pieces(<<>>, apart, apart) = <<>> /\ <<>> \in Seq(L) /\ Len(<<>>) = 0
    BY PiecesNone
  <2>2. Stretches(<<>>, <<>>, apart)
    BY <2>1 DEF Stretches
  <2> QED
    BY <2>1, <2>2
<1>2. ASSUME NEW w \in Seq(L), NEW c \in L, w \in S
      PROVE  With(w, c) \in S
  <2>1. IsWord(w) /\ With(w, c) \in Seq(L)
    BY SeqIsWord, WithStays
  <2> DEFINE P == Pieces(w, apart, apart)
  <2>2. Shaped(P, w, apart, apart) /\ IsWord(P)
    BY <2>1, PiecesAreShaped DEF Shaped
  <2>3. Pieces(With(w, c), apart, apart) = WithLetter(P, w, c, apart, apart)
    BY <2>1, <2>2, PiecesOneMore
  <2>4. Stretches(WithLetter(P, w, c, apart, apart), With(w, c), apart)
    BY <1>2, <2>1, <2>2, StretchesOneMore
  <2> HIDE DEF P
  <2> QED
    BY <2>1, <2>3, <2>4
<1>3. word \in Seq(L)
  BY WordIsSeq
<1>4. \A w \in Seq(L) : w \in S
  <2> HIDE DEF L, S
  <2> QED
    BY <1>1, <1>2, WordInduction
<1> QED
  BY <1>3, <1>4

(* What is alone in a run is alone in the word. *)
LEMMA AloneInRun ==
    ASSUME NEW word, IsWord(word), NEW apart, NEW k \in 1 .. Len(Pieces(word, apart, apart)),
           NEW o, NEW more, apart \subseteq more, Alone(word, o, more) = {}
    PROVE  Alone(Pieces(word, apart, apart)[k], o, more) = {}
<1> DEFINE p == Pieces(word, apart, apart)[k]
<1>1. PICK d : Stretch(p, word, apart, d)
  BY RunsAreStretches DEF Stretches
<1>2. IsPiece(p, word, apart, apart)
  BY PiecesAreShaped DEF Shaped
<1> HIDE DEF p
<1>3. Len(p) \in Nat /\ Len(word) \in Nat
  BY <1>2, WordLength DEF IsPiece
<1>4. ASSUME NEW i \in Alone(p, o, more)
      PROVE  FALSE
  <2>1. i \in 1 .. Len(p) /\ p[i] = o /\ (i > 1 => p[i - 1] \in more) /\ (i < Len(p) => p[i + 1] \in more)
    BY <1>4 DEF Alone
  <2>2. d \in Nat /\ d + Len(p) <= Len(word) /\ (\A j \in 1 .. Len(p) : word[d + j] = p[j])
        /\ (d > 0 => word[d] \in more) /\ (d + Len(p) < Len(word) => word[d + Len(p) + 1] \in more)
    BY <1>1 DEF Stretch
  <2> DEFINE j == d + i
  <2>3. j \in 1 .. Len(word) /\ word[j] = o
    BY <1>3, <2>1, <2>2
  <2>4. j > 1 => word[j - 1] \in more
    <3>1. CASE i > 1
      <4>1. i - 1 \in 1 .. Len(p) /\ d + (i - 1) = j - 1
        BY <1>3, <2>1, <2>2, <3>1
      <4> QED
        BY <2>1, <2>2, <3>1, <4>1
    <3>2. CASE i = 1
      <4>1. j - 1 = d
        BY <2>2, <3>2
      <4> QED
        BY <2>2, <3>2, <4>1
    <3> QED
      BY <2>1, <3>1, <3>2
  <2>5. j < Len(word) => word[j + 1] \in more
    <3>1. CASE i < Len(p)
      <4>1. i + 1 \in 1 .. Len(p) /\ d + (i + 1) = j + 1
        BY <1>3, <2>1, <2>2, <3>1
      <4> QED
        BY <2>1, <2>2, <3>1, <4>1
    <3>2. CASE i = Len(p)
      BY <2>2, <3>2
    <3> QED
      BY <1>3, <2>1, <3>1, <3>2
  <2> HIDE DEF j
  <2>6. j \in Alone(word, o, more)
    BY <2>3, <2>4, <2>5 DEF Alone
  <2> QED
    BY <2>6
<1>5. Alone(p, o, more) = {}
  BY <1>4
<1> QED
  BY <1>5 DEF p

-----------------------------------------------------------------------------
(* The text that terms are joined to has no column filter, no quote, no    *)
(* prefix and no NEAR if the terms have none, and every letter of theirs.  *)
Marks == {":", "\"", "*"}
Free(w) == \A i \in 1 .. Len(w) : w[i] \notin Marks
Near == "NEAR"

LEMMA FreeJoined ==
    ASSUME NEW v, IsWord(v), NEW w, IsWord(w)
    PROVE  /\ Free(v) /\ Free(w) => Free(Joined(v, w))
           /\ \A x : Holds(v, x) \/ Holds(w, x) => Holds(Joined(v, w), x)
           /\ \A x : Among(x, Joined(v, w)) => Among(x, v) \/ Among(x, w)
<1> DEFINE j == Joined(v, w)
<1>1. Continues(j, v, w) /\ Len(v) \in Nat /\ Len(w) \in Nat
  BY JoinedIs, WordLength
<1> HIDE DEF j
<1>2. /\ Len(j) = Len(v) + Len(w) /\ (\A i \in 1 .. Len(v) : j[i] = v[i])
      /\ \A i \in 1 .. Len(w) : j[Len(v) + i] = w[i]
  BY <1>1 DEF Continues
<1>3. ASSUME NEW i \in 1 .. Len(j)
      PROVE  (\E k \in 1 .. Len(v) : j[i] = v[k]) \/ (\E k \in 1 .. Len(w) : j[i] = w[k])
  <2>1. CASE i \in 1 .. Len(v)
    BY <1>2, <2>1
  <2>2. CASE i \notin 1 .. Len(v)
    <3>1. i - Len(v) \in 1 .. Len(w) /\ Len(v) + (i - Len(v)) = i
      BY <1>1, <1>2, <2>2
    <3> QED
      BY <1>2, <3>1
  <2> QED
    BY <2>1, <2>2
<1>4. \A i \in 1 .. Len(v) : i \in 1 .. Len(j)
  BY <1>1, <1>2
<1>5. \A i \in 1 .. Len(w) : Len(v) + i \in 1 .. Len(j)
  BY <1>1, <1>2
<1>6. Free(v) /\ Free(w) => Free(j)
  BY <1>3 DEF Free
<1>7. \A x : Holds(v, x) \/ Holds(w, x) => Holds(j, x)
  BY <1>2, <1>4, <1>5 DEF Holds
<1>8. \A x : Among(x, j) => Among(x, v) \/ Among(x, w)
  <2> SUFFICES ASSUME NEW x, Among(x, j)
               PROVE  Among(x, v) \/ Among(x, w)
    OBVIOUS
  <2>1. PICK i \in 1 .. Len(j) : j[i] = x
    BY DEF Among
  <2> QED
    BY <1>3, <2>1 DEF Among
<1> QED
  BY <1>6, <1>7, <1>8 DEF j

LEMMA FreeOfOne ==
    ASSUME NEW c, c \notin Marks
    PROVE  IsWord(<<c>>) /\ Free(<<c>>)
<1> DEFINE o == <<c>>
<1>1. IsWord(o) /\ Len(o) = 1 /\ o[1] = c
  BY ShortWords
<1> HIDE DEF o
<1>2. Free(o)
  BY <1>1 DEF Free
<1> QED
  BY <1>1, <1>2 DEF o

LEMMA AmongOne ==
    ASSUME NEW w, IsWord(w), NEW y, NEW x, Among(x, With(w, y))
    PROVE  Among(x, w) \/ x = y
<1> DEFINE o == <<y>>
<1>1. IsWord(o) /\ Len(o) = 1 /\ o[1] = y
  BY ShortWords
<1> HIDE DEF o
<1>2. Among(x, w) \/ Among(x, o)
  BY <1>1, FreeJoined DEF With, o
<1>3. Among(x, o) => x = y
  BY <1>1 DEF Among
<1> QED
  BY <1>2, <1>3

LEMMA SpacedIsFree ==
    ASSUME NEW c, c \notin Marks
    PROVE  IsWord(Spaced(c)) /\ Free(Spaced(c))
<1> DEFINE a == With(<<>>, Space)
           b == With(a, c)
           d == With(b, Space)
<1>1. IsWord(<<>>) /\ Free(<<>>)
  BY ShortWords DEF Free
<1>2. Space \notin Marks
  BY DEF Space, Marks
<1>3. IsWord(a) /\ Free(a)
  BY <1>1, <1>2, FreeOfOne, FreeJoined, JoinedIsWord DEF With
<1>4. IsWord(b) /\ Free(b)
  <2> HIDE DEF a
  <2> QED
    BY <1>3, FreeOfOne, FreeJoined, JoinedIsWord DEF With
<1>5. IsWord(d) /\ Free(d)
  <2> HIDE DEF b
  <2> QED
    BY <1>2, <1>4, FreeOfOne, FreeJoined, JoinedIsWord DEF With
<1>6. Joined(<<>>, Spaced(c)) = d
  BY <1>1, JoinedThree DEF Spaced
<1>7. IsWord(Spaced(c))
  <2>1. Spaced(c) \in Seq({Space, c})
    BY DEF Spaced
  <2> QED
    BY <2>1, SeqIsWord
<1>8. Spaced(c) = d
  BY <1>6, <1>7, JoinedNone
<1> HIDE DEF d
<1> QED
  BY <1>5, <1>8

LEMMA CountsIsLettered ==
    ASSUME NEW t, IsWord(t), Counts(t) # {}
    PROVE  Lettered(t) /\ Len(t) # 1
<1>1. PICK i : CountsAt(t, i)
  BY CountsOf
<1>2. DOMAIN t = 1 .. Len(t)
  BY DEF IsWord
<1>3. Len(t) \in Nat /\ i \in {2, 3} /\ i < Len(t)
  BY <1>1, WordLength DEF CountsAt
<1>4. \A c \in Digits \cup {"x", "X"} : Alphanumeric(c)
  BY DEF Digits, Alphanumeric, Separators, Markers
<1>5. \A j \in 1 .. Len(t) : Alphanumeric(t[j])
  BY <1>1, <1>2, <1>4 DEF CountsAt
<1>6. Len(t) # 0 /\ Len(t) # 1
  <2>1. \A n \in Nat : i < n => n # 0 /\ n # 1
    BY <1>3
  <2> QED
    BY <1>3, <2>1
<1> QED
  BY <1>5, <1>6 DEF Lettered

(* A term with no marks, and in which NEAR is not alone. *)
Tame(t) == IsWord(t) /\ Free(t) /\ ~Among(<<Near>>, Lexemes(t))

LEMMA NormalizedIsTame == ASSUME NEW t, Tame(t) PROVE Tame(NormalizeTerm(t))
<1>1. CASE Counts(t) = {} \/ Padded(t) = t
  <2>1. NormalizeTerm(t) = t
    BY <1>1, NormalizeTermIs
  <2> QED
    BY <2>1
<1>2. CASE ~(Counts(t) = {} \/ Padded(t) = t)
  <2> DEFINE n == Parenthesized(t)
  <2>1. NormalizeTerm(t) = n
    BY <1>2, NormalizeTermIs
  <2>2. Lettered(t) /\ Len(t) # 1 /\ Term(Padded(t)) /\ Len(Padded(t)) = 5 /\ IsWord(t)
    BY <1>2, CountsIsLettered, PaddedIsTerm DEF Tame
  <2>3. IsWord(n) /\ Lexemes(n) = Alternatives(t)
    BY <1>2, <2>2, LexemesOfParenthesized
  <2>4. Free(n)
    <3> DEFINE a == <<Open>>
               b == Joined(a, t)
               c == Joined(b, Spaced(Or))
               d == Joined(c, Padded(t))
               z == <<Close>>
    <3>1. Open \notin Marks /\ Or \notin Marks /\ Close \notin Marks
      BY DEF Open, Or, Close, Marks
    <3>2. IsWord(a) /\ Free(a) /\ IsWord(z) /\ Free(z) /\ IsWord(Spaced(Or)) /\ Free(Spaced(Or))
      BY <3>1, FreeOfOne, SpacedIsFree
    <3>3. IsWord(Padded(t)) /\ Free(Padded(t))
      <4>1. \A e \in Marks : ~Alphanumeric(e)
        BY DEF Marks, Alphanumeric, Separators, Markers
      <4> QED
        BY <2>2, <4>1 DEF Term, Lettered, Free
    <3>4. IsWord(b) /\ Free(b)
      <4> HIDE DEF a
      <4> QED
        BY <2>2, <3>2, FreeJoined, JoinedIsWord DEF Tame
    <3>5. IsWord(c) /\ Free(c)
      <4> HIDE DEF b
      <4> QED
        BY <3>2, <3>4, FreeJoined, JoinedIsWord
    <3>6. IsWord(d) /\ Free(d)
      <4> HIDE DEF c
      <4> QED
        BY <3>3, <3>5, FreeJoined, JoinedIsWord
    <3>7. Free(Joined(d, z))
      <4> HIDE DEF d, z
      <4> QED
        BY <3>2, <3>6, FreeJoined
    <3> QED
      BY <3>7 DEF Parenthesized, With
  <2>5. ~Among(<<Near>>, Alternatives(t))
    <3> SUFFICES ASSUME Among(<<Near>>, Alternatives(t))
                 PROVE  FALSE
      OBVIOUS
    <3> DEFINE near == <<Near>>
               a == <<<<Open>>>>
               b == With(a, t)
               c == With(b, <<Or>>)
               d == With(c, Padded(t))
    <3>1. IsWord(a) /\ IsWord(b) /\ IsWord(c) /\ IsWord(d)
      BY ShortWords, WithIsWord
    <3>2. near # <<Open>> /\ near # <<Or>> /\ near # <<Close>> /\ Len(near) = 1
      BY DEF Near, Open, Or, Close
    <3>3. near # t /\ near # Padded(t)
      <4> HIDE DEF near
      <4>1. Len(t) # 1 /\ Len(Padded(t)) # 1
        BY <2>2
      <4> QED
        BY <3>2, <4>1
    <3>4. a = With(<<>>, <<Open>>) /\ ~Among(near, <<>>) /\ IsWord(<<>>)
      BY WithNone, ShortWords DEF Among
    <3> HIDE DEF near
    <3>5. ~Among(near, a)
      <4> HIDE DEF a
      <4> QED
        BY <3>2, <3>4, AmongOne
    <3>6. ~Among(near, b)
      <4> HIDE DEF a
      <4> QED
        BY <3>1, <3>3, <3>5, AmongOne
    <3>7. ~Among(near, c)
      <4> HIDE DEF b
      <4> QED
        BY <3>1, <3>2, <3>6, AmongOne
    <3>8. ~Among(near, d)
      <4> HIDE DEF c
      <4> QED
        BY <3>1, <3>3, <3>7, AmongOne
    <3>9. ~Among(near, With(d, <<Close>>))
      <4> HIDE DEF d
      <4> QED
        BY <3>1, <3>2, <3>8, AmongOne
    <3> QED
      BY <3>9 DEF near, Alternatives
  <2> HIDE DEF n
  <2> QED
    BY <2>1, <2>3, <2>4, <2>5 DEF Tame
<1> QED
  BY <1>1, <1>2

LEMMA JoinedTermsAre ==
    ASSUME NEW terms, IsWord(terms), \A k \in 1 .. Len(terms) : Tame(terms[k])
    PROVE  /\ Tame(JoinTerms(terms))
           /\ \A k \in 1 .. Len(terms) : \A x :
                 Holds(NormalizeTerm(terms[k]), x) => Holds(JoinTerms(terms), x)
<1> DEFINE T == Range(terms)
           Kept1(ts) == \A k \in 1 .. Len(ts) : \A x :
                           Holds(NormalizeTerm(ts[k]), x) => Holds(JoinTerms(ts), x)
           S == {ts \in Seq(T) : Tame(JoinTerms(ts)) /\ Kept1(ts)}
<1>1. \A t \in T : Tame(t)
  <2>1. DOMAIN terms = 1 .. Len(terms)
    BY DEF IsWord
  <2> QED
    BY <2>1 DEF Range
<1>2. <<>> \in S
  <2>1. <<>> \in Seq(T) /\ Len(<<>>) = 0 /\ IsWord(<<>>)
    BY ShortWords
  <2>2. JoinTerms(<<>>) = <<>> /\ Lexemes(<<>>) = <<>>
    BY JoinNone, LexemesAre, PiecesNone
  <2>3. Tame(<<>>)
    BY <2>1, <2>2 DEF Tame, Free, Among
  <2>4. Kept1(<<>>)
    BY <2>1
  <2> QED
    BY <2>1, <2>2, <2>3, <2>4
<1>3. ASSUME NEW w \in Seq(T), NEW t \in T, w \in S
      PROVE  With(w, t) \in S
  <2> DEFINE v == With(w, t)
             n == NormalizeTerm(t)
             J == JoinTerms(w)
  <2>1. v \in Seq(T) /\ IsWord(w) /\ Len(w) \in Nat
    BY WithStays, SeqIsWord
  <2>2. Tame(n) /\ Tame(J)
    BY <1>1, <1>3, NormalizedIsTame
  <2>3. /\ Len(v) = Len(w) + 1 /\ v[Len(w) + 1] = t /\ \A k \in 1 .. Len(w) : v[k] = w[k]
    <3>1. Extends(v, w, t)
      BY <2>1, WithIs
    <3> HIDE DEF v
    <3> QED
      BY <3>1 DEF Extends
  <2>4. CASE Len(w) = 0
    <3>1. JoinTerms(v) = n
      BY <2>1, <2>4, JoinOneMore
    <3> HIDE DEF v, n
    <3>2. \A k \in 1 .. Len(v) : v[k] = t
      BY <2>3, <2>4
    <3>3. Kept1(v)
      BY <3>1, <3>2 DEF n
    <3> HIDE DEF Kept1
    <3>4. v \in S
      BY <2>1, <2>2, <3>1, <3>3
    <3> QED
      BY <3>4 DEF v
  <2>5. CASE Len(w) # 0
    <3> DEFINE a == Joined(J, Conjunction)
               z == Joined(a, n)
               ls == With(Lexemes(J), <<And>>)
    <3>1. JoinTerms(v) = z
      BY <2>1, <2>5, JoinOneMore
    <3>2. Conjunction = Spaced(And) /\ And \notin Marks
      BY DEF Conjunction, Spaced, Space, And, Marks
    <3>3. IsWord(Conjunction) /\ Free(Conjunction)
      BY <3>2, SpacedIsFree
    <3> HIDE DEF J, n
    <3>4. IsWord(a) /\ Free(a) /\ \A x : Holds(J, x) => Holds(a, x)
      BY <2>2, <3>3, FreeJoined, JoinedIsWord DEF Tame
    <3>5. IsWord(z) /\ Lexemes(z) = Joined(ls, Lexemes(n))
      BY <2>2, LexemesOfConjoined DEF Tame
    <3>6. Free(z) /\ \A x : Holds(a, x) \/ Holds(n, x) => Holds(z, x)
      <4> HIDE DEF a
      <4> QED
        BY <2>2, <3>4, FreeJoined DEF Tame
    <3>7. ~Among(<<Near>>, Lexemes(z))
      <4> DEFINE near == <<Near>>
                 and == <<And>>
      <4>1. near # and
        BY DEF Near, And
      <4>2. IsWord(Lexemes(J)) /\ IsWord(Lexemes(n)) /\ IsWord(ls)
        BY <2>2, LexemesType, WithIsWord DEF Tame
      <4> HIDE DEF near, and
      <4>3. ~Among(near, With(Lexemes(J), and))
        BY <2>2, <4>1, <4>2, AmongOne DEF Tame, near
      <4>4. ~Among(near, ls) /\ ~Among(near, Lexemes(n))
        BY <2>2, <4>3 DEF and, Tame, near
      <4> HIDE DEF ls
      <4>5. ~Among(near, Joined(ls, Lexemes(n)))
        BY <4>2, <4>4, FreeJoined
      <4> QED
        BY <3>5, <4>5 DEF near
    <3> HIDE DEF v, z
    <3>8. Tame(z)
      BY <3>5, <3>6, <3>7 DEF Tame
    <3>9. Kept1(v)
      <4> SUFFICES ASSUME NEW k \in 1 .. Len(v), NEW x, Holds(NormalizeTerm(v[k]), x)
                   PROVE  Holds(z, x)
        BY <3>1
      <4>1. CASE k \in 1 .. Len(w)
        <5>1. Holds(J, x)
          BY <1>3, <2>3, <4>1 DEF J
        <5> QED
          BY <3>4, <3>6, <5>1
      <4>2. CASE k = Len(w) + 1
        <5>1. Holds(n, x)
          BY <2>3, <4>2 DEF n
        <5> QED
          BY <3>6, <5>1
      <4> QED
        BY <2>1, <2>3, <4>1, <4>2
    <3> HIDE DEF Kept1
    <3>10. v \in S
      BY <2>1, <3>1, <3>8, <3>9
    <3> QED
      BY <3>10 DEF v
  <2> QED
    BY <2>4, <2>5
<1>4. terms \in Seq(T)
  BY WordIsSeq
<1>5. \A w \in Seq(T) : w \in S
  <2> HIDE DEF T, S
  <2> QED
    BY <1>2, <1>3, WordInduction
<1>6. Tame(JoinTerms(terms)) /\ Kept1(terms)
  <2> HIDE DEF Kept1
  <2> QED
    BY <1>4, <1>5
<1> QED
  BY <1>6

LEMMA TameIsNotBeyond == ASSUME NEW text, Tame(text) PROVE ~Beyond(text)
<1>1. DOMAIN text = 1 .. Len(text)
  BY DEF Tame, IsWord
<1>2. Range(text) \cap {":", "\"", "*"} = {}
  BY <1>1 DEF Tame, Free, Marks, Range
<1>3. IsWord(Lexemes(text))
  BY LexemesType DEF Tame
<1> DEFINE ls == Lexemes(text)
           near == <<Near>>
<1>4. near = <<"NEAR">>
  BY DEF Near
<1>5. \A i \in 1 .. Len(ls) : ls[i] # near
  BY DEF Tame, Among
<1>6. \A i \in 1 .. Len(ls) - 1 : i \in 1 .. Len(ls)
  <2>1. Len(ls) \in Nat
    BY <1>3, WordLength
  <2> HIDE DEF ls
  <2> QED
    BY <2>1
<1> HIDE DEF near
<1>7. \A i \in 1 .. Len(ls) - 1 : ls[i] # near
  <2> HIDE DEF ls
  <2> QED
    BY <1>5, <1>6
<1> QED
  BY <1>2, <1>4, <1>7 DEF Beyond

-----------------------------------------------------------------------------
(* The terms of a query that has_fts5_syntax lets be rewritten. *)
Gaps == {" ", "_"}

LEMMA TermsAre ==
    ASSUME NEW query, IsWord(query), ~HasSyntax(query), NEW k \in 1 .. Len(Terms(query))
    PROVE  LET t == Terms(query)[k] IN
           /\ Tame(t) /\ Len(t) # 0
           /\ \A i \in 1 .. Len(t) : t[i] \notin Gaps /\ \E j \in 1 .. Len(query) : query[j] = t[i]
           /\ \A o \in Operators : t # <<o>>
<1> DEFINE P == Pieces(query, Gaps, Gaps)
           t == P[k]
<1>1. Terms(query) = P
  BY DEF Terms, Runs, Gaps
<1>2. IsPiece(t, query, Gaps, Gaps)
  BY <1>1, PiecesAreShaped DEF Shaped
<1>3. Gaps \subseteq Separators /\ Bars \subseteq Separators /\ Blanks \subseteq Bars
  BY DEF Gaps, Bars, Blanks, Separators
<1>4. \A o \in Operators : Alone(t, o, Separators) = {}
  <2> SUFFICES ASSUME NEW o \in Operators
               PROVE  Alone(t, o, Separators) = {}
    OBVIOUS
  <2>1. Alone(query, o, Separators) = {}
    BY OperatorsAreSyntax
  <2> QED
    BY <1>1, <1>3, <2>1, AloneInRun
<1> HIDE DEF P, t
<1>5. /\ IsWord(t) /\ Len(t) # 0
      /\ \A i \in 1 .. Len(t) : t[i] \notin Gaps /\ \E j \in 1 .. Len(query) : query[j] = t[i]
  BY <1>2 DEF IsPiece
<1>6. Free(t)
  <2>1. Marks \subseteq Markers
    BY DEF Marks, Markers
  <2>2. Range(query) \cap Markers = {} /\ DOMAIN query = 1 .. Len(query)
    BY DEF HasSyntax, IsWord
  <2>3. \A j \in 1 .. Len(query) : query[j] \notin Markers
    BY <2>2 DEF Range
  <2> QED
    BY <1>5, <2>1, <2>3 DEF Free
<1>7. ~Among(<<Near>>, Lexemes(t))
  <2>1. Near \in Operators /\ Near \notin Bars
    BY DEF Near, Operators, Bars, Separators, Markers
  <2>2. Alone(t, Near, Bars) = {}
    BY <1>3, <1>4, <2>1 DEF Alone
  <2> DEFINE Q == Pieces(t, Bars, Blanks)
  <2>3. (\E j \in 1 .. Len(Q) : Q[j] = <<Near>>) <=> Alone(t, Near, Bars) # {}
    BY <1>3, <1>5, <2>1, SinglesAreAlone
  <2>4. Lexemes(t) = Q
    BY LexemesAre
  <2> QED
    BY <2>2, <2>3, <2>4 DEF Among
<1>8. ASSUME NEW o \in Operators, t = <<o>>
      PROVE  FALSE
  <2>1. Len(t) = 1 /\ t[1] = o
    BY <1>8, ShortWords
  <2>2. 1 \in Alone(t, o, Separators)
    BY <2>1 DEF Alone
  <2> QED
    BY <1>4, <2>2
<1>9. Tame(t)
  BY <1>5, <1>6, <1>7 DEF Tame
<1>10. Terms(query)[k] = t
  BY <1>1 DEF t
<1> QED
  BY <1>5, <1>8, <1>9, <1>10

-----------------------------------------------------------------------------
(* The terms of a query that is not FTS5 syntax: words, with every letter  *)
(* that counts.                                                            *)
LEMMA TermsAreWords ==
    ASSUME NEW query, IsWord(query)
    PROVE  IsWord(Terms(query)) /\ (Terms(query) # <<>> => Len(Terms(query)) # 0)
<1>1. Terms(query) = Pieces(query, Gaps, Gaps)
  BY DEF Terms, Runs, Gaps
<1>2. IsWord(Pieces(query, Gaps, Gaps))
  BY PiecesType
<1> DEFINE T == Terms(query)
<1>3. IsWord(T)
  BY <1>1, <1>2
<1> HIDE DEF T
<1>4. Len(T) = 0 => T = <<>>
  <2>1. IsWord(<<>>) /\ Len(<<>>) = 0
    BY ShortWords
  <2>2. Len(T) = 0 => \A i \in 1 .. Len(T) : T[i] = <<>>[i]
    OBVIOUS
  <2> QED
    BY <1>3, <2>1, <2>2, WordsEqual
<1> QED
  BY <1>3, <1>4 DEF T

Worded(query) == \A i \in 1 .. Len(query) : Alphanumeric(query[i]) \/ query[i] \in Gaps

LEMMA TermsOfWords ==
    ASSUME NEW query, IsWord(query), ~HasSyntax(query), Worded(query), NEW k \in 1 .. Len(Terms(query))
    PROVE  Term(Terms(query)[k])
<1> DEFINE t == Terms(query)[k]
<1>1. /\ Tame(t) /\ Len(t) # 0
      /\ \A i \in 1 .. Len(t) : t[i] \notin Gaps /\ \E j \in 1 .. Len(query) : query[j] = t[i]
      /\ \A o \in Operators : t # <<o>>
  BY TermsAre
<1> HIDE DEF t
<1>2. \A i \in 1 .. Len(t) : Alphanumeric(t[i])
  BY <1>1 DEF Worded
<1>3. Term(t)
  BY <1>1, <1>2 DEF Term, Lettered, Tame
<1> QED
  BY <1>3 DEF t

(* With a stray letter, the rewritten query still has it. *)
LEMMA StrayStays ==
    ASSUME NEW query, IsWord(query), ~HasSyntax(query), NEW i \in 1 .. Len(query), query[i] \in Stray
    PROVE  \E j \in 1 .. Len(JoinTerms(Terms(query))) : JoinTerms(Terms(query))[j] \in Stray
<1> DEFINE T == Terms(query)
           c == query[i]
<1>1. T = Pieces(query, Gaps, Gaps)
  BY DEF Terms, Runs, Gaps
<1>2. IsWord(T) /\ \A k \in 1 .. Len(T) : Tame(T[k])
  BY TermsAreWords, TermsAre
<1>3. c \notin Gaps /\ ~Alphanumeric(c)
  BY DEF Gaps, Stray, Alphanumeric, Separators
<1>4. Kept(T, query, Gaps)
  BY <1>1, LettersAreKept
<1> HIDE DEF T
<1>5. PICK k \in 1 .. Len(T) : Holds(T[k], c)
  BY <1>3, <1>4 DEF Kept
<1>6. NormalizeTerm(T[k]) = T[k]
  <2> DEFINE t == T[k]
  <2>1. IsWord(t) /\ Holds(t, c)
    BY <1>2, <1>5 DEF Tame
  <2> HIDE DEF t
  <2>2. ~Lettered(t)
    BY <1>3, <2>1 DEF Lettered, Holds
  <2>3. Counts(t) = {}
    BY <2>1, <2>2, CountsIsLettered
  <2>4. NormalizeTerm(t) = t
    BY <2>3, NormalizeTermIs
  <2> QED
    BY <2>4 DEF t
<1>7. Holds(JoinTerms(T), c)
  BY <1>2, <1>5, <1>6, JoinedTermsAre
<1> QED
  BY <1>7 DEF Holds, T

LEMMA LettersOfQuery ==
    ASSUME NEW query, IsWord(query), ~HasSyntax(query), "+" \notin Range(query)
    PROVE  Worded(query) \/ \E i \in 1 .. Len(query) : query[i] \in Stray
<1>1. DOMAIN query = 1 .. Len(query)
  BY DEF IsWord
<1>2. \A i \in 1 .. Len(query) : query[i] \notin Markers /\ query[i] # "+"
  BY <1>1 DEF HasSyntax, Range
<1>3. \A c : Alphanumeric(c) \/ c \in Markers \/ c \in Gaps \/ c \in Stray \/ c = "+"
  BY DEF Alphanumeric, Separators, Gaps, Stray
<1> QED
  BY <1>2, <1>3 DEF Worded

LEMMA WordedIsPlain ==
    ASSUME NEW query, IsWord(query), ~HasSyntax(query), Worded(query), Terms(query) # <<>>
    PROVE  Plain(query)
<1> DEFINE t == Terms(query)[1]
<1>1. 1 \in 1 .. Len(Terms(query))
  <2>1. Len(Terms(query)) \in Nat /\ Len(Terms(query)) # 0
    BY TermsAreWords, WordLength
  <2> QED
    BY <2>1
<1>2. Len(t) # 0 /\ \A i \in 1 .. Len(t) : t[i] \notin Gaps /\ \E j \in 1 .. Len(query) : query[j] = t[i]
  BY <1>1, TermsAre
<1>3. Len(t) \in Nat
  BY <1>1, TermsAre, WordLength DEF Tame
<1> HIDE DEF t
<1>4. 1 \in 1 .. Len(t)
  BY <1>2, <1>3
<1>5. PICK j \in 1 .. Len(query) : query[j] \notin Gaps
  BY <1>2, <1>4
<1>6. Alphanumeric(query[j])
  BY <1>5 DEF Worded
<1>7. DOMAIN query = 1 .. Len(query)
  BY DEF IsWord
<1>8. \A i \in DOMAIN query : Alphanumeric(query[i]) \/ query[i] \in {" ", "_"}
  BY <1>7 DEF Worded, Gaps
<1> QED
  BY <1>5, <1>6, <1>7, <1>8 DEF Plain

(* search.rs 130-171, "rewriting risks turning a well-formed query into a  *)
(* malformed one": a query is refused once it is rewritten if and only if  *)
(* it was before, whatever its letters.                                    *)
THEOREM RewritingRefusesNothing ==
    ASSUME NEW query, IsWord(query), ~Beyond(query), "+" \notin Range(query)
    PROVE  ~Beyond(NormalizeQuery(query)) /\ (Accepts(NormalizeQuery(query)) <=> Accepts(query))
<1> DEFINE T == Terms(query)
           text == JoinTerms(T)
<1>1. CASE HasSyntax(query) \/ T = <<>>
  BY <1>1 DEF NormalizeQuery
<1>2. CASE ~(HasSyntax(query) \/ T = <<>>)
  <2>1. NormalizeQuery(query) = text
    BY <1>2 DEF NormalizeQuery
  <2>2. IsWord(T) /\ Len(T) # 0 /\ \A k \in 1 .. Len(T) : Tame(T[k])
    BY <1>2, TermsAreWords, TermsAre
  <2>3. Tame(text)
    <3> HIDE DEF T
    <3> QED
      BY <2>2, JoinedTermsAre
  <2>4. ~Beyond(text)
    <3> HIDE DEF text
    <3> QED
      BY <2>3, TameIsNotBeyond
  <2>5. Accepts(text) <=> Accepts(query)
    <3>1. CASE Worded(query)
      <4>1. Accepts(query)
        BY <1>2, <3>1, WordedIsPlain, PlainIsAccepted
      <4>2. \A k \in 1 .. Len(T) : Term(T[k])
        BY <1>2, <3>1, TermsOfWords
      <4>3. Match(text, <<>>) # <<>>
        <5> HIDE DEF T
        <5> QED
          BY <2>2, <4>2, MatchOfTerms
      <4> QED
        BY <4>1, <4>3 DEF Accepts
    <3>2. CASE \E i \in 1 .. Len(query) : query[i] \in Stray
      <4>1. ~Accepts(query)
        BY <3>2, StrayIsRefused DEF Accepts
      <4>2. \E j \in 1 .. Len(text) : text[j] \in Stray
        BY <1>2, <3>2, StrayStays
      <4>3. IsWord(text)
        BY <2>3 DEF Tame
      <4> HIDE DEF text
      <4>4. ~Accepts(text)
        BY <4>2, <4>3, StrayIsRefused DEF Accepts
      <4> QED
        BY <4>1, <4>4
    <3> QED
      BY <1>2, <3>1, <3>2, LettersOfQuery
  <2> QED
    BY <2>1, <2>4, <2>5
<1> QED
  BY <1>1, <1>2

-----------------------------------------------------------------------------
(* Counts that are the same, padded or not: the same two numbers. *)
Numbered(first, last) == IF first = Zero THEN <<last>> ELSE <<first, last>>

LEMMA NumberedSame ==
    ASSUME NEW f, NEW l, NEW g, NEW m
    PROVE  Numbered(f, l) = Numbered(g, m) <=> f = g /\ l = m
<1> DEFINE a == <<l>>
           b == <<f, l>>
           c == <<m>>
           d == <<g, m>>
<1>1. /\ Len(a) = 1 /\ a[1] = l /\ Len(b) = 2 /\ b[1] = f /\ b[2] = l
      /\ Len(c) = 1 /\ c[1] = m /\ Len(d) = 2 /\ d[1] = g /\ d[2] = m
  BY ShortWords
<1>2. (f = g /\ l = m) => a = c /\ b = d
  OBVIOUS
<1> HIDE DEF a, b, c, d
<1>3. /\ a = c => l = m
      /\ b = d => f = g /\ l = m
      /\ a # d /\ b # c
  BY <1>1
<1>4. Numbered(f, l) = (IF f = Zero THEN a ELSE b) /\ Numbered(g, m) = (IF g = Zero THEN c ELSE d)
  BY DEF Numbered, a, b, c, d
<1> QED
  BY <1>2, <1>3, <1>4

LEMMA TailOfTwo ==
    ASSUME NEW S, NEW s \in Seq(S), Len(s) = 2
    PROVE  Tail(s) \in Seq(S) /\ Len(Tail(s)) = 1 /\ Tail(s)[1] = s[2]
<1>1. s # <<>>
  OBVIOUS
<1>2. Tail(s) \in Seq(S) /\ Len(Tail(s)) = Len(s) - 1
  BY <1>1
<1>4. Tail(s)[1] = s[1 + 1]
  BY <1>1, <1>2
<1> QED
  BY <1>2, <1>4

LEMMA NumberOf ==
    ASSUME NEW t, IsWord(t), NEW a \in 1 .. Len(t), NEW b \in 1 .. Len(t), b = a \/ b = a + 1
    PROVE  Number(SubSeq(t, a, b)) = Numbered(IF b = a THEN Zero ELSE t[a], t[b])
<1> DEFINE s == SubSeq(t, a, b)
           first == IF b = a THEN Zero ELSE t[a]
           o == <<t[b]>>
           pair == <<t[a], t[b]>>
<1>1. t \in Seq(Range(t)) /\ Len(t) \in Nat
  BY WordIsSeq, WordLength
<1>2. /\ s \in Seq(Range(t)) /\ Len(s) = b - a + 1
      /\ \A i \in 1 .. Len(s) : s[i] = t[a + i - 1]
  <2> HIDE DEF s
  <2>1. s = SubSeq(t, a, b)
    BY DEF s
  <2> QED
    BY <1>1, <2>1
<1>3. IsWord(s)
  BY <1>2, SeqIsWord
<1>4. Number(s) = IF s[1] = Zero /\ Len(s) > 1 THEN Tail(s) ELSE s
  BY DEF Number, Zero
<1>5. /\ IsWord(o) /\ Len(o) = 1 /\ o[1] = t[b]
      /\ IsWord(pair) /\ Len(pair) = 2 /\ pair[1] = t[a] /\ pair[2] = t[b]
  BY ShortWords
<1>6. Numbered(first, t[b]) = IF first = Zero THEN o ELSE <<first, t[b]>>
  BY DEF Numbered
<1> DEFINE r == Tail(s)
<1>7. Len(s) = 2 => r \in Seq(Range(t)) /\ Len(r) = 1 /\ r[1] = s[2]
  <2> HIDE DEF s
  <2> QED
    BY <1>2, TailOfTwo
<1>8. Len(s) = 2 => IsWord(r)
  BY <1>7, SeqIsWord
<1> HIDE DEF s, r, o, pair
<1>9. CASE b = a
  <2>1. Len(s) = 1 /\ s[1] = t[b] /\ first = Zero
    BY <1>2, <1>9
  <2>2. \A i \in 1 .. Len(s) : s[i] = o[i]
    BY <1>5, <2>1
  <2>3. s = o
    BY <1>3, <1>5, <2>1, <2>2, WordsEqual
  <2>4. Number(s) = s
    BY <1>4, <2>1
  <2> QED
    BY <1>6, <2>1, <2>3, <2>4 DEF s
<1>10. CASE b = a + 1 /\ t[a] = Zero
  <2>1. Len(s) = 2 /\ s[1] = t[a] /\ s[2] = t[b] /\ first = Zero
    <3>1. b = a + 1 /\ b # a
      BY <1>10
    <3>2. Len(s) = 2 /\ s[1] = t[a] /\ s[2] = t[b]
      BY <1>2, <3>1
    <3> QED
      BY <1>10, <3>1, <3>2
  <2>2. Len(r) = 1 /\ r[1] = t[b]
    BY <1>7, <2>1
  <2>3. \A i \in 1 .. Len(r) : r[i] = o[i]
    BY <1>5, <2>2
  <2>4. r = o
    <3>1. IsWord(r)
      BY <1>8, <2>1
    <3> QED
      BY <1>5, <2>2, <2>3, <3>1, WordsEqual
  <2>5. Number(s) = r
    BY <1>4, <1>10, <2>1 DEF r
  <2> QED
    BY <1>6, <2>1, <2>4, <2>5 DEF s
<1>11. CASE b = a + 1 /\ t[a] # Zero
  <2>1. Len(s) = 2 /\ s[1] = t[a] /\ s[2] = t[b] /\ first = t[a]
    BY <1>2, <1>11
  <2>2. \A i \in 1 .. Len(s) : s[i] = pair[i]
    BY <1>5, <2>1
  <2>3. s = pair
    BY <1>3, <1>5, <2>1, <2>2, WordsEqual
  <2>4. Number(s) = s
    BY <1>4, <1>11, <2>1
  <2>5. Numbered(first, t[b]) = pair
    BY <1>11, <2>1 DEF pair, Numbered
  <2> QED
    BY <2>3, <2>4, <2>5 DEF s
<1> QED
  BY <1>9, <1>10, <1>11

LEMMA NumbersOf ==
    ASSUME NEW t, IsWord(t), NEW i, CountsAt(t, i)
    PROVE  /\ Number(SubSeq(t, 1, i - 1)) = Numbered(IF i = 2 THEN Zero ELSE t[1], t[i - 1])
           /\ Number(SubSeq(t, i + 1, Len(t)))
                = Numbered(IF Len(t) = i + 1 THEN Zero ELSE t[i + 1], t[Len(t)])
<1>1. Len(t) \in Nat /\ i \in {2, 3} /\ (Len(t) = i + 1 \/ Len(t) = i + 2)
  BY WordLength DEF CountsAt
<1>2. Number(SubSeq(t, 1, i - 1)) = Numbered(IF i = 2 THEN Zero ELSE t[1], t[i - 1])
  <2>1. /\ 1 \in 1 .. Len(t) /\ i - 1 \in 1 .. Len(t) /\ (i - 1 = 1 \/ i - 1 = 1 + 1)
        /\ i - 1 = 1 <=> i = 2
    BY <1>1
  <2>2. Number(SubSeq(t, 1, i - 1)) = Numbered(IF i - 1 = 1 THEN Zero ELSE t[1], t[i - 1])
    BY <2>1, NumberOf
  <2> QED
    BY <2>1, <2>2
<1>3. i + 1 \in 1 .. Len(t) /\ Len(t) \in 1 .. Len(t) /\ (Len(t) = i + 1 \/ Len(t) = i + 1 + 1)
  BY <1>1
<1> QED
  BY <1>2, <1>3, NumberOf

LEMMA PaddedKeepsCase ==
    ASSUME NEW t, IsWord(t), NEW i, CountsAt(t, i), Counts(t) = {i}
    PROVE  Lowered(Padded(t)) = Padded(t) /\ CountsAt(Padded(t), 3)
<1> DEFINE w == Padded(t)
           l == Lowered(w)
<1>1. IsPadded(w, t, i)
  BY PaddedIs
<1>2. DOMAIN t = 1 .. Len(t) /\ Len(t) \in Nat
  BY DEF IsWord
<1>3. i \in {2, 3} /\ (Len(t) = i + 1 \/ Len(t) = i + 2)
  BY WordLength DEF CountsAt
<1>4. \A j \in 1 .. Len(t) : j # i => t[j] \in Digits
  BY <1>2 DEF CountsAt
<1>5. t[1] \in Digits /\ t[i - 1] \in Digits /\ t[i + 1] \in Digits /\ t[Len(t)] \in Digits
  <2>1. /\ 1 \in 1 .. Len(t) /\ i - 1 \in 1 .. Len(t) /\ i + 1 \in 1 .. Len(t) /\ Len(t) \in 1 .. Len(t)
        /\ 1 # i /\ i - 1 # i /\ i + 1 # i /\ Len(t) # i
    BY <1>3
  <2> QED
    BY <1>4, <2>1
<1>6. Zero \in Digits
  BY DEF Zero, Digits
<1> HIDE DEF w
<1>7. /\ IsWord(w) /\ Len(w) = 5 /\ w[3] = Ex
      /\ w[1] \in Digits /\ w[2] \in Digits /\ w[4] \in Digits /\ w[5] \in Digits
  BY <1>1, <1>5, <1>6 DEF IsPadded
<1>8. \A j \in 1 .. 5 : j # 3 => w[j] \in Digits
  <2> SUFFICES ASSUME NEW j \in 1 .. 5, j # 3
               PROVE  w[j] \in Digits
    OBVIOUS
  <2>1. j = 1 \/ j = 2 \/ j = 4 \/ j = 5
    OBVIOUS
  <2> QED
    BY <1>7, <2>1
<1>9. \A c \in Digits : LowerOf(c) = c
  BY LettersAssumption DEF LowerOf
<1>10. LowerOf(Ex) = Ex
  BY LettersAssumption DEF LowerOf, Ex
<1>11. IsWord(l) /\ Len(l) = 5 /\ \A j \in 1 .. 5 : l[j] = LowerOf(w[j])
  BY <1>7, LoweredIs
<1> HIDE DEF l
<1>12. \A j \in 1 .. 5 : l[j] = w[j]
  BY <1>7, <1>8, <1>9, <1>10, <1>11
<1>13. l = w
  BY <1>7, <1>11, <1>12, WordsEqual
<1>14. CountsAt(w, 3)
  <2>1. DOMAIN w = 1 .. 5
    BY <1>7 DEF IsWord
  <2>2. w[3] \in {"x", "X"}
    BY <1>7 DEF Ex
  <2>3. 3 \in {2, 3} /\ 3 < Len(w) /\ Len(w) - 3 <= 2
    BY <1>7
  <2> QED
    BY <1>8, <2>1, <2>2, <2>3 DEF CountsAt
<1> QED
  BY <1>13, <1>14 DEF w, l

LEMMA CountsAre ==
    ASSUME NEW t, IsWord(t), NEW i
    PROVE  i \in Counts(t) <=> CountsAt(t, i)
BY DEF Counts, CountsAt

(* A token of five letters is the same count as a word if and only if it   *)
(* is the word padded.                                                     *)
LEMMA SameCountIs ==
    ASSUME NEW t, IsWord(t), NEW p, IsWord(p), Len(p) = 5,
           \A j \in 1 .. Len(p) : p[j] \notin DOMAIN Lower
    PROVE  SameCount(t, p) <=> Counts(t) # {} /\ p = Padded(t)
<1>1. ASSUME SameCount(t, p)
      PROVE  Counts(t) # {} /\ p = Padded(t)
  <2>1. PICK i \in Counts(t), j \in Counts(p) :
          /\ Number(SubSeq(t, 1, i - 1)) = Number(SubSeq(p, 1, j - 1))
          /\ Number(SubSeq(t, i + 1, Len(t))) = Number(SubSeq(p, j + 1, Len(p)))
    BY <1>1 DEF SameCount
  <2>2. CountsAt(t, i) /\ CountsAt(p, j)
    BY CountsAre
  <2>3. j = 3
    BY <2>2 DEF CountsAt
  <2>4. Counts(t) = {i}
    BY <2>1, CountsOf
  <2> DEFINE w == Padded(t)
             t1 == IF i = 2 THEN Zero ELSE t[1]
             t4 == IF Len(t) = i + 1 THEN Zero ELSE t[i + 1]
  <2>5. IsPadded(w, t, i)
    BY <2>2, <2>4, PaddedIs
  <2>6. /\ Number(SubSeq(t, 1, i - 1)) = Numbered(t1, t[i - 1])
        /\ Number(SubSeq(t, i + 1, Len(t))) = Numbered(t4, t[Len(t)])
    BY <2>2, NumbersOf
  <2>7. /\ Number(SubSeq(p, 1, 3 - 1)) = Numbered(p[1], p[2])
        /\ Number(SubSeq(p, 3 + 1, Len(p))) = Numbered(p[4], p[5])
    <3>1. CountsAt(p, 3)
      BY <2>2, <2>3
    <3>2. /\ Number(SubSeq(p, 1, 3 - 1)) = Numbered(IF 3 = 2 THEN Zero ELSE p[1], p[3 - 1])
          /\ Number(SubSeq(p, 3 + 1, Len(p)))
               = Numbered(IF Len(p) = 3 + 1 THEN Zero ELSE p[3 + 1], p[Len(p)])
      BY <3>1, NumbersOf
    <3>3. 3 # 2 /\ 3 - 1 = 2 /\ Len(p) # 3 + 1 /\ 3 + 1 = 4
      OBVIOUS
    <3> QED
      BY <3>2, <3>3
  <2> HIDE DEF w, t1, t4
  <2>8. /\ Numbered(t1, t[i - 1]) = Numbered(p[1], p[2])
        /\ Numbered(t4, t[Len(t)]) = Numbered(p[4], p[5])
    BY <2>1, <2>3, <2>6, <2>7
  <2>9. t1 = p[1] /\ t[i - 1] = p[2] /\ t4 = p[4] /\ t[Len(t)] = p[5]
    BY <2>8, NumberedSame
  <2>10. p[3] = Ex
    <3>1. p[3] \in {"x", "X"} /\ 3 \in 1 .. Len(p)
      BY <2>2, <2>3 DEF CountsAt
    <3>2. p[3] # "X"
      BY <3>1, LettersAssumption
    <3> QED
      BY <3>1, <3>2 DEF Ex
  <2>11. /\ IsWord(w) /\ Len(w) = 5 /\ w[1] = t1 /\ w[2] = t[i - 1] /\ w[3] = Ex
         /\ w[4] = t4 /\ w[5] = t[Len(t)]
    BY <2>5 DEF IsPadded, t1, t4
  <2>12. \A k \in 1 .. Len(p) : p[k] = w[k]
    <3> SUFFICES ASSUME NEW k \in 1 .. Len(p)
                 PROVE  p[k] = w[k]
      OBVIOUS
    <3>1. k = 1 \/ k = 2 \/ k = 3 \/ k = 4 \/ k = 5
      OBVIOUS
    <3> QED
      BY <2>9, <2>10, <2>11, <3>1
  <2>13. p = w
    BY <2>11, <2>12, WordsEqual
  <2> QED
    BY <2>1, <2>13 DEF w
<1>2. ASSUME Counts(t) # {}, p = Padded(t)
      PROVE  SameCount(t, p)
  <2>1. PICK i : CountsAt(t, i) /\ Counts(t) = {i}
    BY <1>2, CountsOf
  <2>2. IsPadded(p, t, i) /\ CountsAt(p, 3)
    BY <1>2, <2>1, PaddedIs, PaddedKeepsCase
  <2>3. /\ Number(SubSeq(t, 1, i - 1)) = Numbered(IF i = 2 THEN Zero ELSE t[1], t[i - 1])
        /\ Number(SubSeq(t, i + 1, Len(t)))
             = Numbered(IF Len(t) = i + 1 THEN Zero ELSE t[i + 1], t[Len(t)])
    BY <2>1, NumbersOf
  <2>4. /\ Number(SubSeq(p, 1, 3 - 1)) = Numbered(IF 3 = 2 THEN Zero ELSE p[1], p[3 - 1])
        /\ Number(SubSeq(p, 3 + 1, Len(p)))
             = Numbered(IF Len(p) = 3 + 1 THEN Zero ELSE p[3 + 1], p[Len(p)])
    BY <2>2, NumbersOf
  <2>5. 3 # 2 /\ 3 - 1 = 2 /\ Len(p) # 3 + 1 /\ 3 + 1 = 4
    OBVIOUS
  <2>6. /\ Number(SubSeq(t, 1, i - 1)) = Number(SubSeq(p, 1, 3 - 1))
        /\ Number(SubSeq(t, i + 1, Len(t))) = Number(SubSeq(p, 3 + 1, Len(p)))
    BY <2>2, <2>3, <2>4, <2>5 DEF IsPadded
  <2>7. i \in Counts(t) /\ 3 \in Counts(p)
    BY <2>1, <2>2, CountsAre
  <2> QED
    BY <2>6, <2>7 DEF SameCount
<1> QED
  BY <1>1, <1>2

-----------------------------------------------------------------------------
(* A phrase of one token is in a column if the token is one of its tokens. *)
LEMMA ContainedOne ==
    ASSUME NEW x, NEW w, IsWord(w)
    PROVE  Contained(<<x>>, w) <=> Among(x, w)
<1> DEFINE o == <<x>>
           n == Len(w)
<1>1. w \in Seq(Range(w)) /\ n \in Nat
  BY WordIsSeq, WordLength
<1>2. o \in Seq({x}) /\ IsWord(o) /\ Len(o) = 1 /\ o[1] = x
  <2>1. o \in Seq({x})
    OBVIOUS
  <2> QED
    BY <2>1, ShortWords
<1> HIDE DEF o, n
<1>3. SubSeq(o, 1, 1) = o
  BY <1>2
<1>4. ASSUME NEW i \in 0 .. n - 1
      PROVE  IsPrefix(o, SubSeq(w, i + 1, n)) <=> w[i + 1] = x
  <2> DEFINE v == SubSeq(w, i + 1, n)
             u == SubSeq(v, 1, 1)
  <2>1. v \in Seq(Range(w)) /\ Len(v) = n - i /\ v[1] = w[i + 1]
    <3>1. v \in Seq(Range(w)) /\ Len(v) = n - i /\ \A j \in 1 .. n - i : v[j] = w[i + j]
      BY <1>1 DEF n
    <3>2. 1 \in 1 .. n - i
      BY <1>1
    <3> QED
      BY <3>1, <3>2
  <2> HIDE DEF v
  <2>2. 1 <= Len(v)
    BY <1>1, <2>1
  <2>3. u \in Seq(Range(w)) /\ Len(u) = 1 /\ u[1] = v[1]
    BY <2>1, <2>2
  <2> HIDE DEF u
  <2>4. IsWord(u)
    BY <2>3, SeqIsWord
  <2>5. o = u <=> x = v[1]
    <3>1. x = v[1] => \A j \in 1 .. Len(o) : o[j] = u[j]
      BY <1>2, <2>3
    <3>2. x = v[1] => o = u
      BY <1>2, <2>3, <2>4, <3>1, WordsEqual
    <3> QED
      BY <1>2, <2>3, <3>2
  <2>6. IsPrefix(o, v) <=> o = u
    BY <1>2, <1>3, <2>1, <2>2 DEF IsPrefix, u
  <2> QED
    BY <2>1, <2>5, <2>6 DEF v
<1>5. Contained(o, w) <=> \E i \in 0 .. n - 1 : w[i + 1] = x
  BY <1>2, <1>4 DEF Contained, n
<1>6. /\ \A i \in 0 .. n - 1 : i + 1 \in 1 .. n
      /\ \A k \in 1 .. n : k - 1 \in 0 .. n - 1 /\ (k - 1) + 1 = k
  BY <1>1
<1>7. (\E i \in 0 .. n - 1 : w[i + 1] = x) <=> \E k \in 1 .. n : w[k] = x
  BY <1>6
<1> QED
  BY <1>5, <1>7 DEF Among, n, o

(* A token is a word in lower case. *)
LEMMA TokenIs ==
    ASSUME NEW text, IsWord(text)
    PROVE  /\ IsWord(Tokens(text))
           /\ \A p : Among(p, Tokens(text)) => IsWord(p) /\ \A j \in 1 .. Len(p) : p[j] \notin DOMAIN Lower
<1> DEFINE w == Lowered(text)
           P == Pieces(w, Separators, Separators)
<1>1. IsWord(w) /\ Len(w) = Len(text) /\ \A i \in 1 .. Len(text) : w[i] = LowerOf(text[i])
  BY LoweredIs
<1>2. Tokens(text) = P
  BY DEF Tokens, Runs
<1> HIDE DEF w
<1>3. Shaped(P, w, Separators, Separators)
  BY <1>1, PiecesAreShaped
<1> HIDE DEF P
<1>4. \A c : LowerOf(c) \notin DOMAIN Lower
  BY LettersAssumption DEF LowerOf
<1>5. ASSUME NEW p, Among(p, P)
      PROVE  IsWord(p) /\ \A j \in 1 .. Len(p) : p[j] \notin DOMAIN Lower
  <2>1. IsPiece(p, w, Separators, Separators)
    BY <1>3, <1>5 DEF Shaped, Among
  <2>2. \A j \in 1 .. Len(p) : \E i \in 1 .. Len(w) : w[i] = p[j]
    BY <2>1 DEF IsPiece
  <2> QED
    BY <1>1, <1>4, <2>1, <2>2 DEF IsPiece
<1> QED
  BY <1>2, <1>3, <1>5 DEF Shaped

(* What is meant by one word of a query. *)
Means(word, token) == \/ <<token>> = Tokens(word)
                      \/ Len(token) = 5 /\ SameCount(word, token)
Meaning(word, row) == \E c \in DOMAIN row : \E token \in Range(Tokens(row[c])) : Means(word, token)

LEMMA FoundIsMeant ==
    ASSUME NEW t, Term(t), NEW row, \A c \in DOMAIN row : IsWord(row[c])
    PROVE  Found(t, row) <=> Meaning(t, row)
<1> DEFINE l == Lowered(t)
           w == Padded(t)
           Has5(c) == Counts(t) # {} /\ Among(w, Tokens(row[c]))
<1>1. IsWord(t) /\ Lettered(t)
  BY DEF Term, Lettered
<1>2. Tokens(t) = <<l>>
  BY <1>1, TokensOfLettered
<1>3. InRow(Tokens(t), row) <=> \E c \in DOMAIN row : Among(l, Tokens(row[c]))
  <2>1. \A c \in DOMAIN row : Contained(<<l>>, Tokens(row[c])) <=> Among(l, Tokens(row[c]))
    BY TokenIs, ContainedOne
  <2> HIDE DEF l
  <2> QED
    BY <1>2, <2>1 DEF InRow
<1>4. ASSUME Counts(t) # {}
      PROVE  /\ InRow(Tokens(w), row) <=> \E c \in DOMAIN row : Among(w, Tokens(row[c]))
             /\ IsWord(w) /\ Len(w) = 5
  <2>1. Lettered(w) /\ Len(w) = 5
    BY <1>1, <1>4, PaddedIsTerm DEF Term
  <2>2. Lowered(w) = w
    BY <1>1, <1>4, CountsOf, PaddedKeepsCase
  <2>3. Tokens(w) = <<w>>
    BY <2>1, <2>2, TokensOfLettered
  <2> HIDE DEF w
  <2>4. \A c \in DOMAIN row : Contained(<<w>>, Tokens(row[c])) <=> Among(w, Tokens(row[c]))
    BY TokenIs, ContainedOne
  <2>5. InRow(Tokens(w), row) <=> \E c \in DOMAIN row : Among(w, Tokens(row[c]))
    BY <2>3, <2>4 DEF InRow
  <2> QED
    BY <2>1, <2>5 DEF Lettered
<1>5. ASSUME NEW c \in DOMAIN row
      PROVE  (\E token \in Range(Tokens(row[c])) : Means(t, token))
             <=> Among(l, Tokens(row[c])) \/ Has5(c)
  <2> DEFINE T == Tokens(row[c])
  <2>1. /\ IsWord(T)
        /\ \A p : Among(p, T) => IsWord(p) /\ \A j \in 1 .. Len(p) : p[j] \notin DOMAIN Lower
    BY TokenIs
  <2> HIDE DEF T
  <2>2. DOMAIN T = 1 .. Len(T)
    BY <2>1 DEF IsWord
  <2>3. \A p : p \in Range(T) <=> Among(p, T)
    BY <2>2 DEF Range, Among
  <2>4. ASSUME NEW p
        PROVE  <<p>> = Tokens(t) <=> p = l
    <3>1. \A q : <<p>> = <<q>> <=> p = q
      OBVIOUS
    <3> HIDE DEF l
    <3> QED
      BY <1>2, <3>1
  <2>5. ASSUME NEW p, Among(p, T)
        PROVE  Len(p) = 5 /\ SameCount(t, p) <=> Counts(t) # {} /\ p = w
    <3>1. CASE Len(p) = 5
      BY <1>1, <2>1, <2>5, <3>1, SameCountIs
    <3>2. CASE Len(p) # 5
      BY <1>4, <3>2
    <3> QED
      BY <3>1, <3>2
  <2> HIDE DEF l, w
  <2>6. ASSUME NEW p, Among(p, T)
        PROVE  Means(t, p) <=> p = l \/ (Counts(t) # {} /\ p = w)
    BY <2>4, <2>5, <2>6 DEF Means
  <2>7. (\E p \in Range(T) : Means(t, p)) <=> Among(l, T) \/ (Counts(t) # {} /\ Among(w, T))
    BY <2>3, <2>6
  <2> QED
    BY <2>7 DEF T
<1> HIDE DEF Has5
<1>6. Meaning(t, row) <=> \E c \in DOMAIN row : Among(l, Tokens(row[c])) \/ Has5(c)
  <2> HIDE DEF l
  <2> QED
    BY <1>5 DEF Meaning
<1> HIDE DEF l, w
<1> QED
  BY <1>3, <1>4, <1>6 DEF Found, w, Has5

(* A plain query: its terms are its words, and there is one. *)
LEMMA PlainHasTerms ==
    ASSUME NEW query, IsWord(query), Plain(query)
    PROVE  /\ ~HasSyntax(query) /\ Worded(query)
           /\ Terms(query) = Runs(query, Separators)
           /\ IsWord(Terms(query)) /\ Len(Terms(query)) # 0
<1>1. DOMAIN query = 1 .. Len(query)
  BY DEF IsWord
<1>2. ~HasSyntax(query) /\ Worded(query)
  BY <1>1 DEF Plain, Worded, Gaps
<1>3. \A c : Alphanumeric(c) \/ c \in Gaps => (c \in Gaps <=> c \in Separators)
  BY DEF Alphanumeric, Gaps, Separators
<1>4. \A i \in 1 .. Len(query) : query[i] \in Gaps <=> query[i] \in Separators
  BY <1>2, <1>3 DEF Worded
<1>5. Pieces(query, Gaps, Gaps) = Pieces(query, Separators, Separators)
  BY <1>4, PiecesAlike
<1>6. Terms(query) = Pieces(query, Gaps, Gaps)
  BY DEF Terms, Runs, Gaps
<1>7. Terms(query) = Runs(query, Separators)
  BY <1>5, <1>6 DEF Runs
<1>8. PICK i \in 1 .. Len(query) : query[i] \notin Gaps
  <2>1. \A c : Alphanumeric(c) => c \notin Gaps
    BY DEF Alphanumeric, Gaps, Separators
  <2> QED
    BY <1>1, <2>1 DEF Plain
<1>9. Kept(Terms(query), query, Gaps)
  BY <1>6, LettersAreKept
<1>10. IsWord(Terms(query))
  BY TermsAreWords
<1> DEFINE T == Terms(query)
<1> HIDE DEF T
<1>11. \E k \in 1 .. Len(T) : TRUE
  BY <1>8, <1>9 DEF Kept, T
<1>12. Len(T) # 0
  BY <1>11
<1> QED
  BY <1>2, <1>7, <1>10, <1>12 DEF T

(* search.rs 138-171: a plain query, once it is rewritten, matches the     *)
(* rows that have each of its words, counts padded or not, and no other,   *)
(* whatever the words of the query and of the row.                         *)
THEOREM PlainMatchesMeant ==
    ASSUME NEW query, IsWord(query), Plain(query)
    PROVE  /\ ~Beyond(NormalizeQuery(query))
           /\ \A row : (\A c \in DOMAIN row : IsWord(row[c])) =>
                 (Match(NormalizeQuery(query), row) = <<TRUE>> <=> Meant(query, row))
<1> DEFINE T == Terms(query)
<1>1. /\ ~HasSyntax(query) /\ Worded(query)
      /\ T = Runs(query, Separators) /\ IsWord(T) /\ Len(T) # 0
  BY PlainHasTerms
<1>2. NormalizeQuery(query) = JoinTerms(T)
  <2>1. T # <<>>
    <3>1. Len(<<>>) = 0
      OBVIOUS
    <3> HIDE DEF T
    <3> QED
      BY <1>1, <3>1
  <2> QED
    BY <1>1, <2>1 DEF NormalizeQuery
<1>3. \A k \in 1 .. Len(T) : Term(T[k])
  BY <1>1, TermsOfWords
<1>4. \A k \in 1 .. Len(T) : Tame(T[k])
  BY <1>1, TermsAre
<1> HIDE DEF T
<1>5. ~Beyond(JoinTerms(T))
  <2>1. Tame(JoinTerms(T))
    BY <1>1, <1>4, JoinedTermsAre
  <2> QED
    BY <2>1, TameIsNotBeyond
<1>6. ASSUME NEW row, \A c \in DOMAIN row : IsWord(row[c])
      PROVE  Match(JoinTerms(T), row) = <<TRUE>> <=> Meant(query, row)
  <2>1. Match(JoinTerms(T), row) = <<TRUE>> <=> AllFound(T, row)
    BY <1>1, <1>3, MatchOfTerms
  <2>2. \A k \in 1 .. Len(T) : Found(T[k], row) <=> Meaning(T[k], row)
    BY <1>3, <1>6, FoundIsMeant
  <2>3. DOMAIN T = 1 .. Len(T)
    BY <1>1 DEF IsWord
  <2>4. Meant(query, row) <=> \A word \in Range(T) : Meaning(word, row)
    BY <1>1 DEF Meant, Meaning, Means
  <2>5. (\A word \in Range(T) : Meaning(word, row)) <=> \A k \in 1 .. Len(T) : Meaning(T[k], row)
    BY <2>3 DEF Range
  <2> QED
    BY <2>1, <2>2, <2>4, <2>5 DEF AllFound
<1> QED
  BY <1>2, <1>5, <1>6

-----------------------------------------------------------------------------
(* One letter after the other: what Replace writes for the first n. *)
Becomes(c, letter, by) == IF c = letter THEN by ELSE <<c>>
NextReplaced(word, letter, by, out, n) ==
    IF n = 0 THEN <<>> ELSE Joined(out[n - 1], Becomes(word[n], letter, by))

LEMMA ReplacedExist ==
    ASSUME NEW word, NEW letter, NEW by
    PROVE  \A m \in Nat : \E out : out = [n \in 0 .. m |-> NextReplaced(word, letter, by, out, n)]
<1> DEFINE Step(out, n) == NextReplaced(word, letter, by, out, n)
           Reached == {m \in Nat : \E out : out = [n \in 0 .. m |-> Step(out, n)]}
<1>1. 0 \in Reached
  <2> DEFINE out == [n \in 0 .. 0 |-> <<>>]
  <2>1. out = [n \in 0 .. 0 |-> Step(out, n)]
    BY DEF NextReplaced
  <2> HIDE DEF out
  <2> QED
    BY <2>1
<1>2. ASSUME NEW m \in Nat, m \in Reached
      PROVE  m + 1 \in Reached
  <2>1. PICK f : f = [n \in 0 .. m |-> Step(f, n)]
    BY <1>2
  <2> DEFINE out == [n \in 0 .. m + 1 |-> Step(f, n)]
             known == [n \in 0 .. m |-> Step(f, n)]
  <2>2. \A n \in 0 .. m : out[n] = f[n]
    <3>1. \A n \in 0 .. m : out[n] = known[n]
      OBVIOUS
    <3> HIDE DEF out, known
    <3> QED
      BY <2>1, <3>1 DEF known
  <2>3. \A n \in 0 .. m + 1 : Step(f, n) = Step(out, n)
    <3> SUFFICES ASSUME NEW n \in 0 .. m + 1
                 PROVE  Step(f, n) = Step(out, n)
      OBVIOUS
    <3>1. n = 0 \/ n - 1 \in 0 .. m
      OBVIOUS
    <3> HIDE DEF out
    <3> QED
      BY <2>2, <3>1 DEF NextReplaced
  <2>4. out = [n \in 0 .. m + 1 |-> Step(out, n)]
    <3> DEFINE next == [n \in 0 .. m + 1 |-> Step(out, n)]
    <3>1. out = next
      BY <2>3, Zenon
    <3> QED
      BY <3>1
  <2> HIDE DEF out
  <2> QED
    BY <2>4
<1> HIDE DEF Reached
<1>3. \A m \in Nat : m \in Reached
  BY <1>1, <1>2, Induction
<1> QED
  BY <1>3 DEF Reached

(* Written so far, as Replace has it. *)
Replacing(word, letter, by) ==
    CHOOSE out : out = [n \in 0 .. Len(word) |-> NextReplaced(word, letter, by, out, n)]

LEMMA ReplaceIs ==
    ASSUME NEW word, Len(word) \in Nat, NEW letter, NEW by
    PROVE  /\ Replace(word, letter, by) = Replacing(word, letter, by)[Len(word)]
           /\ \A n \in 0 .. Len(word) :
                 Replacing(word, letter, by)[n]
                    = NextReplaced(word, letter, by, Replacing(word, letter, by), n)
<1> DEFINE out == Replacing(word, letter, by)
           all == [n \in 0 .. Len(word) |-> NextReplaced(word, letter, by, out, n)]
<1>1. \E f : f = [n \in 0 .. Len(word) |-> NextReplaced(word, letter, by, f, n)]
  BY ReplacedExist
<1>2. out = all
  BY <1>1, Zenon DEF Replacing
<1>3. Replace(word, letter, by) = out[Len(word)]
  BY Zenon DEF Replace, Replacing, NextReplaced, Becomes, Joined
<1>4. \A n \in 0 .. Len(word) : all[n] = NextReplaced(word, letter, by, out, n)
  OBVIOUS
<1> HIDE DEF out, all
<1>5. \A n \in 0 .. Len(word) : out[n] = NextReplaced(word, letter, by, out, n)
  BY <1>2, <1>4
<1> QED
  BY <1>3, <1>5 DEF out

(* The first n letters' worth of what Replace writes. *)
Writing(word, letter, by, out) ==
    \A n \in 0 .. Len(word) : out[n] = NextReplaced(word, letter, by, out, n)

LEMMA WritingWords ==
    ASSUME NEW word, IsWord(word), NEW letter, NEW by, IsWord(by),
           NEW out, Writing(word, letter, by, out)
    PROVE  \A n \in 0 .. Len(word) : IsWord(out[n])
<1> DEFINE Good == {n \in Nat : n <= Len(word) => IsWord(out[n])}
<1>1. Len(word) \in Nat
  BY WordLength
<1>2. 0 \in Good
  <2>1. out[0] = <<>>
    BY <1>1 DEF Writing, NextReplaced
  <2> QED
    BY <2>1, ShortWords
<1>3. ASSUME NEW n \in Nat, n \in Good
      PROVE  n + 1 \in Good
  <2> SUFFICES ASSUME n + 1 <= Len(word)
               PROVE  IsWord(out[n + 1])
    OBVIOUS
  <2>1. n + 1 \in 0 .. Len(word) /\ (n + 1) - 1 = n /\ n + 1 # 0 /\ IsWord(out[n])
    BY <1>1, <1>3
  <2>2. out[n + 1] = Joined(out[n], Becomes(word[n + 1], letter, by))
    BY <2>1 DEF Writing, NextReplaced
  <2>3. IsWord(Becomes(word[n + 1], letter, by))
    BY ShortWords DEF Becomes
  <2>4. Continues(Joined(out[n], Becomes(word[n + 1], letter, by)), out[n],
                  Becomes(word[n + 1], letter, by))
    BY <2>1, <2>3, JoinedIs
  <2> QED
    BY <2>2, <2>4 DEF Continues
<1> HIDE DEF Good
<1>4. \A n \in Nat : n \in Good
  BY <1>2, <1>3, Induction
<1> QED
  BY <1>1, <1>4 DEF Good

(* Writing is deterministic, and a longer word is written the same way. *)
LEMMA WritingAgrees ==
    ASSUME NEW word, Len(word) \in Nat, NEW longer, Len(longer) \in Nat, Len(word) <= Len(longer),
           \A i \in 1 .. Len(word) : longer[i] = word[i],
           NEW letter, NEW by, NEW f, NEW g,
           Writing(word, letter, by, f), Writing(longer, letter, by, g)
    PROVE  \A n \in 0 .. Len(word) : g[n] = f[n]
<1> DEFINE Same == {n \in Nat : n <= Len(word) => g[n] = f[n]}
<1>1. 0 \in Same
  <2>1. f[0] = <<>> /\ g[0] = <<>>
    BY DEF Writing, NextReplaced
  <2> QED
    BY <2>1
<1>2. ASSUME NEW n \in Nat, n \in Same
      PROVE  n + 1 \in Same
  <2> SUFFICES ASSUME n + 1 <= Len(word)
               PROVE  g[n + 1] = f[n + 1]
    OBVIOUS
  <2>1. /\ n + 1 \in 1 .. Len(word) /\ n + 1 \in 0 .. Len(word) /\ n + 1 \in 0 .. Len(longer)
        /\ (n + 1) - 1 = n /\ n + 1 # 0 /\ g[n] = f[n]
    BY <1>2
  <2>2. f[n + 1] = Joined(f[n], Becomes(word[n + 1], letter, by))
    BY <2>1 DEF Writing, NextReplaced
  <2>3. g[n + 1] = Joined(g[n], Becomes(longer[n + 1], letter, by))
    BY <2>1 DEF Writing, NextReplaced
  <2>4. longer[n + 1] = word[n + 1]
    BY <2>1
  <2> QED
    BY <2>1, <2>2, <2>3, <2>4
<1> HIDE DEF Same
<1>3. \A n \in Nat : n \in Same
  BY <1>1, <1>2, Induction
<1> QED
  BY <1>3 DEF Same

LEMMA ReplaceWrites ==
    ASSUME NEW word, IsWord(word), NEW letter, NEW by
    PROVE  \E out : Writing(word, letter, by, out) /\ Replace(word, letter, by) = out[Len(word)]
<1>1. Len(word) \in Nat
  BY WordLength
<1> DEFINE out == Replacing(word, letter, by)
<1>2. /\ Replace(word, letter, by) = out[Len(word)]
      /\ \A n \in 0 .. Len(word) : out[n] = NextReplaced(word, letter, by, out, n)
  BY <1>1, ReplaceIs, Zenon
<1> HIDE DEF out
<1> QED
  BY <1>2 DEF Writing

LEMMA ReplaceType ==
    ASSUME NEW word, IsWord(word), NEW letter, NEW by, IsWord(by)
    PROVE  IsWord(Replace(word, letter, by))
<1>1. PICK out : Writing(word, letter, by, out) /\ Replace(word, letter, by) = out[Len(word)]
  BY ReplaceWrites
<1>2. \A n \in 0 .. Len(word) : IsWord(out[n])
  BY <1>1, WritingWords
<1>3. Len(word) \in Nat
  BY WordLength
<1> QED
  BY <1>1, <1>2, <1>3

(* Of no letter it makes none. *)
LEMMA ReplaceNone == ASSUME NEW letter, NEW by PROVE Replace(<<>>, letter, by) = <<>>
<1>1. IsWord(<<>>) /\ Len(<<>>) = 0
  BY ShortWords
<1>2. PICK out : Writing(<<>>, letter, by, out) /\ Replace(<<>>, letter, by) = out[Len(<<>>)]
  BY <1>1, ReplaceWrites
<1> QED
  BY <1>1, <1>2 DEF Writing, NextReplaced

(* What a letter at the end adds. *)
LEMMA ReplaceOneMore ==
    ASSUME NEW word, IsWord(word), NEW c, NEW letter, NEW by
    PROVE  Replace(With(word, c), letter, by)
              = Joined(Replace(word, letter, by), Becomes(c, letter, by))
<1> DEFINE longer == With(word, c)
<1>1. Len(word) \in Nat /\ Extends(longer, word, c)
  BY WordLength, WithIs
<1> HIDE DEF longer
<1>2. /\ IsWord(longer) /\ Len(longer) = Len(word) + 1 /\ longer[Len(word) + 1] = c
      /\ Len(longer) \in Nat /\ \A i \in 1 .. Len(word) : longer[i] = word[i]
  BY <1>1 DEF Extends
<1>3. PICK f : Writing(word, letter, by, f) /\ Replace(word, letter, by) = f[Len(word)]
  BY ReplaceWrites
<1>4. PICK g : Writing(longer, letter, by, g) /\ Replace(longer, letter, by) = g[Len(longer)]
  BY <1>2, ReplaceWrites
<1>5. g[Len(word)] = f[Len(word)]
  <2>1. \A n \in 0 .. Len(word) : g[n] = f[n]
    BY <1>1, <1>2, <1>3, <1>4, WritingAgrees
  <2> QED
    BY <1>1, <2>1
<1>6. g[Len(longer)] = Joined(g[Len(word)], Becomes(c, letter, by))
  <2>1. Len(longer) \in 0 .. Len(longer) /\ Len(longer) - 1 = Len(word) /\ Len(longer) # 0
    BY <1>1, <1>2
  <2>2. g[Len(longer)] = NextReplaced(longer, letter, by, g, Len(longer)) /\ longer[Len(longer)] = c
    BY <1>2, <1>4, <2>1 DEF Writing
  <2> QED
    BY <2>1, <2>2 DEF NextReplaced
<1> QED
  BY <1>3, <1>4, <1>5, <1>6 DEF longer

(* One of the three replacements: a backslash before the letter. *)
Barred(word, letter) == Replace(word, letter, <<"\\", letter>>)

LEMMA BarredOneMore ==
    ASSUME NEW word, IsWord(word), NEW c, NEW letter
    PROVE  /\ IsWord(Barred(word, letter))
           /\ c = letter => Barred(With(word, c), letter)
                               = With(With(Barred(word, letter), "\\"), c)
           /\ c # letter => Barred(With(word, c), letter) = With(Barred(word, letter), c)
<1> DEFINE by == <<"\\", letter>>
           r == Replace(word, letter, by)
<1>1. IsWord(by)
  BY ShortWords
<1>2. Joined(r, <<"\\", letter>>) = With(With(r, "\\"), letter)
  <2>1. IsWord(r)
    BY <1>1, ReplaceType, Zenon
  <2> HIDE DEF r
  <2> QED
    BY <2>1, JoinedTwo
<1> HIDE DEF by
<1>3. IsWord(r) /\ Replace(With(word, c), letter, by) = Joined(r, Becomes(c, letter, by))
  BY <1>1, ReplaceType, ReplaceOneMore
<1> HIDE DEF r
<1>4. c = letter => Joined(r, Becomes(c, letter, by)) = With(With(r, "\\"), c)
  BY <1>2 DEF Becomes, by
<1>5. c # letter => Joined(r, Becomes(c, letter, by)) = With(r, c)
  BY DEF Becomes, With
<1>6. Barred(word, letter) = r /\ Barred(With(word, c), letter) = Replace(With(word, c), letter, by)
  BY DEF Barred, r, by
<1> QED
  BY <1>3, <1>4, <1>5, <1>6

LEMMA BarPasses ==
    ASSUME NEW word, IsWord(word), NEW c, NEW letter, c # letter, "\\" # letter
    PROVE  Barred(With(With(word, "\\"), c), letter)
              = With(With(Barred(word, letter), "\\"), c)
<1> DEFINE v == With(word, "\\")
<1>1. IsWord(v)
  BY WithIs DEF Extends
<1>2. Barred(v, letter) = With(Barred(word, letter), "\\")
  BY BarredOneMore
<1> HIDE DEF v
<1>3. Barred(With(v, c), letter) = With(Barred(v, letter), c)
  BY <1>1, BarredOneMore
<1> QED
  BY <1>2, <1>3 DEF v

LEMMA EscapeIsBarred ==
    ASSUME NEW word
    PROVE  EscapeLike(word) = Barred(Barred(Barred(word, "\\"), "%"), "_")
BY DEF EscapeLike, Barred

(* escape_like sets a backslash before the letters that LIKE does not take *)
(* as they are, and only there.                                            *)
Special == {"\\", "%", "_"}

LEMMA EscapeOneMore ==
    ASSUME NEW word, IsWord(word), NEW c
    PROVE  /\ IsWord(EscapeLike(word))
           /\ c \in Special => EscapeLike(With(word, c)) = With(With(EscapeLike(word), "\\"), c)
           /\ c \notin Special => EscapeLike(With(word, c)) = With(EscapeLike(word), c)
<1> DEFINE a == Barred(word, "\\")
           b == Barred(a, "%")
           e == Barred(b, "_")
<1>1. "\\" # "%" /\ "\\" # "_" /\ "%" # "_"
  OBVIOUS
<1>2. IsWord(a)
  BY BarredOneMore
<1>3. IsWord(b)
  BY <1>2, BarredOneMore
<1>4. IsWord(e)
  BY <1>3, BarredOneMore
<1>5. /\ EscapeLike(word) = e
      /\ EscapeLike(With(word, c)) = Barred(Barred(Barred(With(word, c), "\\"), "%"), "_")
  BY EscapeIsBarred
<1>9. CASE c = "\\"
  <2>1. Barred(With(word, c), "\\") = With(With(a, "\\"), c)
    BY <1>9, BarredOneMore
  <2>2. Barred(With(With(a, "\\"), c), "%") = With(With(b, "\\"), c)
    BY <1>1, <1>2, <1>9, BarPasses
  <2>3. Barred(With(With(b, "\\"), c), "_") = With(With(e, "\\"), c)
    BY <1>1, <1>3, <1>9, BarPasses
  <2> QED
    BY <1>4, <1>5, <1>9, <2>1, <2>2, <2>3 DEF Special
<1>10. CASE c = "%"
  <2>1. Barred(With(word, c), "\\") = With(a, c)
    BY <1>1, <1>10, BarredOneMore
  <2>2. Barred(With(a, c), "%") = With(With(b, "\\"), c)
    BY <1>2, <1>10, BarredOneMore
  <2>3. Barred(With(With(b, "\\"), c), "_") = With(With(e, "\\"), c)
    BY <1>1, <1>3, <1>10, BarPasses
  <2> QED
    BY <1>4, <1>5, <1>10, <2>1, <2>2, <2>3 DEF Special
<1>11. CASE c = "_"
  <2>1. Barred(With(word, c), "\\") = With(a, c)
    BY <1>1, <1>11, BarredOneMore
  <2>2. Barred(With(a, c), "%") = With(b, c)
    BY <1>1, <1>2, <1>11, BarredOneMore
  <2>3. Barred(With(b, c), "_") = With(With(e, "\\"), c)
    BY <1>3, <1>11, BarredOneMore
  <2> QED
    BY <1>4, <1>5, <1>11, <2>1, <2>2, <2>3 DEF Special
<1>12. CASE c \notin Special
  <2>1. c # "\\" /\ c # "%" /\ c # "_"
    BY <1>12 DEF Special
  <2>2. Barred(With(word, c), "\\") = With(a, c)
    BY <2>1, BarredOneMore
  <2>3. Barred(With(a, c), "%") = With(b, c)
    BY <1>2, <2>1, BarredOneMore
  <2>4. Barred(With(b, c), "_") = With(e, c)
    BY <1>3, <2>1, BarredOneMore
  <2> QED
    BY <1>4, <1>5, <1>12, <2>2, <2>3, <2>4
<1> QED
  BY <1>9, <1>10, <1>11, <1>12 DEF Special

-----------------------------------------------------------------------------
(* Where the letters of a word are in its escaped form: the i-th ends      *)
(* off[i] letters in, after a backslash if it is special.                  *)
LaidAt(word, e, off, i) ==
    LET c == word[i]
        before == off[i - 1]
    IN  /\ c \in Special => off[i] = before + 2 /\ e[before + 1] = "\\" /\ e[before + 2] = c
        /\ c \notin Special => off[i] = before + 1 /\ e[before + 1] = c
Laid(word, e, off) == /\ off \in [0 .. Len(word) -> 0 .. Len(e)]
                      /\ off[0] = 0 /\ off[Len(word)] = Len(e)
                      /\ \A i \in 1 .. Len(word) : LaidAt(word, e, off, i)

LEMMA EscapeNone == EscapeLike(<<>>) = <<>>
<1>1. \A letter : Barred(<<>>, letter) = <<>>
  BY ReplaceNone DEF Barred
<1> QED
  BY <1>1, EscapeIsBarred

LEMMA LaidOneMore ==
    ASSUME NEW v, IsWord(v), NEW c, NEW off, Laid(v, EscapeLike(v), off)
    PROVE  \E more : Laid(With(v, c), EscapeLike(With(v, c)), more)
<1> DEFINE n == Len(v)
           e == EscapeLike(v)
           w == With(v, c)
           d == EscapeLike(w)
           more == [i \in 0 .. n + 1 |-> IF i <= n THEN off[i] ELSE Len(d)]
<1>1. n \in Nat /\ IsWord(e) /\ Len(e) \in Nat
  BY EscapeOneMore, WordLength
<1>2. Extends(w, v, c)
  BY WithIs
<1>3. Len(w) = n + 1 /\ w[n + 1] = c /\ \A i \in 1 .. n : w[i] = v[i]
  BY <1>2 DEF Extends
<1>4. /\ Len(d) \in Nat /\ Len(e) <= Len(d)
      /\ \A i \in 1 .. Len(e) : d[i] = e[i]
      /\ c \in Special => Len(d) = Len(e) + 2 /\ d[Len(e) + 1] = "\\" /\ d[Len(e) + 2] = c
      /\ c \notin Special => Len(d) = Len(e) + 1 /\ d[Len(e) + 1] = c
  <2>1. CASE c \in Special
    <3> DEFINE x == With(e, "\\")
    <3>1. d = With(x, c)
      BY <2>1, EscapeOneMore
    <3>2. Extends(x, e, "\\")
      BY <1>1, WithIs
    <3>3. Extends(With(x, c), x, c)
      BY <3>2, WithIs DEF Extends
    <3> HIDE DEF x, d, e
    <3>4. Extends(d, x, c)
      BY <3>1, <3>3
    <3> QED
      BY <1>1, <2>1, <3>2, <3>4 DEF Extends
  <2>2. CASE c \notin Special
    <3>1. d = With(e, c)
      BY <2>2, EscapeOneMore
    <3>2. Extends(With(e, c), e, c)
      BY <1>1, WithIs
    <3> HIDE DEF d, e
    <3>3. Extends(d, e, c)
      BY <3>1, <3>2
    <3> QED
      BY <1>1, <2>2, <3>3 DEF Extends
  <2> QED
    BY <2>1, <2>2
<1>5. /\ off \in [0 .. n -> 0 .. Len(e)] /\ off[0] = 0 /\ off[n] = Len(e)
      /\ \A i \in 1 .. n : LaidAt(v, e, off, i)
  BY DEF Laid
<1> HIDE DEF w, d, e, n
<1>6. more[0] = 0 /\ more[n + 1] = Len(d) /\ \A i \in 0 .. n : more[i] = off[i]
  BY <1>1, <1>5
<1>7. more \in [0 .. n + 1 -> 0 .. Len(d)]
  <2>1. \A i \in 0 .. n + 1 : (IF i <= n THEN off[i] ELSE Len(d)) \in 0 .. Len(d)
    BY <1>1, <1>4, <1>5
  <2> QED
    BY <2>1
<1> HIDE DEF more
<1>8. ASSUME NEW i \in 1 .. n
      PROVE  LaidAt(w, d, more, i)
  <2>1. LaidAt(v, e, off, i) /\ w[i] = v[i]
    BY <1>3, <1>5
  <2>2. more[i] = off[i] /\ more[i - 1] = off[i - 1]
    BY <1>1, <1>6
  <2>3. off[i - 1] \in Nat /\ off[i] \in Nat /\ off[i] <= Len(e)
    BY <1>1, <1>5
  <2> DEFINE before == off[i - 1]
  <2>4. /\ v[i] \in Special => off[i] = before + 2 /\ e[before + 1] = "\\" /\ e[before + 2] = v[i]
        /\ v[i] \notin Special => off[i] = before + 1 /\ e[before + 1] = v[i]
    BY <2>1 DEF LaidAt
  <2>5. /\ before \in Nat /\ more[i - 1] = before
        /\ \A k \in 1 .. 2 : before + k <= off[i] => d[before + k] = e[before + k]
    <3>1. before \in Nat /\ more[i - 1] = before
      BY <2>2, <2>3
    <3>2. \A k \in 1 .. 2 : before + k <= off[i] => before + k \in 1 .. Len(e)
      BY <1>1, <2>3
    <3>3. \A k \in 1 .. Len(e) : d[k] = e[k]
      BY <1>4
    <3> QED
      BY <3>1, <3>2, <3>3
  <2> HIDE DEF before
  <2>6. /\ v[i] \in Special => d[before + 1] = e[before + 1] /\ d[before + 2] = e[before + 2]
        /\ v[i] \notin Special => d[before + 1] = e[before + 1]
    BY <2>4, <2>5
  <2> QED
    BY <2>1, <2>2, <2>4, <2>5, <2>6 DEF LaidAt
<1>9. LaidAt(w, d, more, n + 1)
  <2>1. more[n + 1] = Len(d) /\ more[(n + 1) - 1] = Len(e)
    BY <1>1, <1>5, <1>6
  <2> QED
    BY <1>3, <1>4, <2>1 DEF LaidAt
<1>10. \A i \in 1 .. n + 1 : i \in 1 .. n \/ i = n + 1
  BY <1>1
<1>11. Laid(w, d, more)
  BY <1>3, <1>6, <1>7, <1>8, <1>9, <1>10 DEF Laid
<1> QED
  BY <1>11 DEF w, d

LEMMA EscapeIsLaid ==
    ASSUME NEW word, IsWord(word)
    PROVE  \E off : Laid(word, EscapeLike(word), off)
<1> DEFINE Good == {n \in Nat : \A w : IsWord(w) /\ Len(w) = n =>
                                         \E off : Laid(w, EscapeLike(w), off)}
<1>1. 0 \in Good
  <2> SUFFICES ASSUME NEW w, IsWord(w), Len(w) = 0
               PROVE  \E off : Laid(w, EscapeLike(w), off)
    OBVIOUS
  <2>1. w = <<>>
    BY ShortWords, WordsEqual
  <2>2. EscapeLike(w) = <<>> /\ Len(EscapeLike(w)) = 0
    BY <2>1, EscapeNone, ShortWords
  <2> DEFINE off == [i \in 0 .. 0 |-> 0]
  <2>3. off \in [0 .. 0 -> 0 .. 0] /\ off[0] = 0
    OBVIOUS
  <2> HIDE DEF off
  <2>4. Laid(w, EscapeLike(w), off)
    BY <2>2, <2>3 DEF Laid
  <2> QED
    BY <2>4
<1>2. ASSUME NEW n \in Nat, n \in Good
      PROVE  n + 1 \in Good
  <2> SUFFICES ASSUME NEW w, IsWord(w), Len(w) = n + 1
               PROVE  \E off : Laid(w, EscapeLike(w), off)
    OBVIOUS
  <2>1. PICK v : IsWord(v) /\ Len(v) = n /\ w = With(v, w[n + 1])
    BY LastLetter
  <2>2. PICK off : Laid(v, EscapeLike(v), off)
    BY <1>2, <2>1
  <2> QED
    BY <2>1, <2>2, LaidOneMore
<1> HIDE DEF Good
<1>3. \A n \in Nat : n \in Good
  BY <1>1, <1>2, Induction
<1> QED
  BY <1>3, WordLength DEF Good

-----------------------------------------------------------------------------
(* LIKE, by its equations. *)
SameLetter(a, b) == LowerOf(a) = LowerOf(b)
NextFrom(text, pattern, from, n) ==
    LET p == Len(pattern) - n + 1 IN
    IF n = 0 THEN {Len(text) + 1}
    ELSE IF pattern[p] = "%" THEN {t \in 1 .. Len(text) + 1 : \E u \in from[n - 1] : t <= u}
    ELSE {t \in 1 .. Len(text) :
             IF pattern[p] = "\\"
             THEN n > 1 /\ SameLetter(pattern[p + 1], text[t]) /\ t + 1 \in from[n - 2]
             ELSE (pattern[p] = "_" \/ SameLetter(pattern[p], text[t])) /\ t + 1 \in from[n - 1]}

LEMMA NextFromAlike ==
    ASSUME NEW text, NEW pattern, NEW f, NEW g, NEW n \in Nat,
           \A i \in 0 .. n - 1 : f[i] = g[i]
    PROVE  NextFrom(text, pattern, f, n) = NextFrom(text, pattern, g, n)
<1>1. CASE n = 0
  BY <1>1 DEF NextFrom
<1>2. CASE n = 1
  <2>1. f[n - 1] = g[n - 1] /\ n # 0 /\ ~(n > 1)
    BY <1>2
  <2> QED
    BY <2>1 DEF NextFrom
<1>3. CASE n > 1
  <2>1. f[n - 1] = g[n - 1] /\ f[n - 2] = g[n - 2] /\ n # 0
    BY <1>3
  <2> QED
    BY <2>1, Zenon DEF NextFrom
<1> QED
  BY <1>1, <1>2, <1>3

LEMMA LikeFromExists ==
    ASSUME NEW text, NEW pattern
    PROVE  \A m \in Nat : \E from : from = [n \in 0 .. m |-> NextFrom(text, pattern, from, n)]
<1> DEFINE Step(f, n) == NextFrom(text, pattern, f, n)
           Reached == {m \in Nat : \E f : f = [n \in 0 .. m |-> Step(f, n)]}
<1>1. 0 \in Reached
  <2> DEFINE f == [n \in 0 .. 0 |-> {Len(text) + 1}]
  <2>1. f = [n \in 0 .. 0 |-> Step(f, n)]
    BY DEF NextFrom
  <2> HIDE DEF f
  <2> QED
    BY <2>1
<1>2. ASSUME NEW m \in Nat, m \in Reached
      PROVE  m + 1 \in Reached
  <2>1. PICK f : f = [n \in 0 .. m |-> Step(f, n)]
    BY <1>2
  <2> DEFINE g == [n \in 0 .. m + 1 |-> Step(f, n)]
             known == [n \in 0 .. m |-> Step(f, n)]
  <2>2. \A n \in 0 .. m : g[n] = f[n]
    <3>1. \A n \in 0 .. m : g[n] = known[n]
      OBVIOUS
    <3> HIDE DEF g, known
    <3> QED
      BY <2>1, <3>1 DEF known
  <2>3. \A n \in 0 .. m + 1 : Step(f, n) = Step(g, n)
    <3> SUFFICES ASSUME NEW n \in 0 .. m + 1
                 PROVE  Step(f, n) = Step(g, n)
      OBVIOUS
    <3> HIDE DEF g
    <3>1. n \in Nat /\ \A i \in 0 .. n - 1 : f[i] = g[i]
      BY <2>2
    <3> QED
      BY <3>1, NextFromAlike
  <2>4. g = [n \in 0 .. m + 1 |-> Step(g, n)]
    <3> DEFINE next == [n \in 0 .. m + 1 |-> Step(g, n)]
    <3>1. g = next
      BY <2>3, Zenon
    <3> QED
      BY <3>1
  <2> HIDE DEF g
  <2> QED
    BY <2>4
<1> HIDE DEF Reached
<1>3. \A m \in Nat : m \in Reached
  BY <1>1, <1>2, Induction
<1> QED
  BY <1>3 DEF Reached

LEMMA LikeFromIs ==
    ASSUME NEW text, NEW pattern, Len(pattern) \in Nat
    PROVE  \A n \in 0 .. Len(pattern) :
              LikeFrom(text, pattern)[n] = NextFrom(text, pattern, LikeFrom(text, pattern), n)
<1> DEFINE from == CHOOSE f : f = [n \in 0 .. Len(pattern) |-> NextFrom(text, pattern, f, n)]
           all == [n \in 0 .. Len(pattern) |-> NextFrom(text, pattern, from, n)]
<1>1. \E f : f = [n \in 0 .. Len(pattern) |-> NextFrom(text, pattern, f, n)]
  BY LikeFromExists
<1>2. from = all
  BY <1>1, Zenon
<1>3. LikeFrom(text, pattern) = from
  BY Zenon DEF LikeFrom, NextFrom, SameLetter
<1>4. \A n \in 0 .. Len(pattern) : all[n] = NextFrom(text, pattern, from, n)
  OBVIOUS
<1> HIDE DEF from, all
<1> QED
  BY <1>2, <1>3, <1>4

-----------------------------------------------------------------------------
(* Where the word is found in the text from its i-th letter on. *)
MatchAt(text, word, i, t) ==
    /\ t + (Len(word) - i) <= Len(text) + 1
    /\ \A j \in i + 1 .. Len(word) : SameLetter(word[j], text[t + (j - i) - 1])
FoundFrom(text, word, i) == {t \in 1 .. Len(text) + 1 : MatchAt(text, word, i, t)}

LEMMA MatchOneMore ==
    ASSUME NEW text, NEW word, Len(text) \in Nat, Len(word) \in Nat, NEW i \in 1 .. Len(word)
    PROVE  FoundFrom(text, word, i - 1)
             = {t \in 1 .. Len(text) :
                   SameLetter(word[i], text[t]) /\ t + 1 \in FoundFrom(text, word, i)}
<1>1. ASSUME NEW t \in 1 .. Len(text) + 1
      PROVE  MatchAt(text, word, i - 1, t)
               <=> /\ t <= Len(text) /\ SameLetter(word[i], text[t])
                   /\ MatchAt(text, word, i, t + 1)
  <2>1. \A j \in i + 1 .. Len(word) : t + (j - (i - 1)) - 1 = (t + 1) + (j - i) - 1
    OBVIOUS
  <2>2. t + (i - (i - 1)) - 1 = t /\ (i - 1) + 1 = i /\ i \in i .. Len(word)
    OBVIOUS
  <2>3. \A j \in i .. Len(word) : j = i \/ j \in i + 1 .. Len(word)
    OBVIOUS
  <2>4. i + 1 .. Len(word) \subseteq i .. Len(word)
    OBVIOUS
  <2>5. /\ t + (Len(word) - (i - 1)) <= Len(text) + 1
             <=> (t + 1) + (Len(word) - i) <= Len(text) + 1
        /\ t + (Len(word) - (i - 1)) <= Len(text) + 1 => t <= Len(text)
    OBVIOUS
  <2>6. (\A j \in i .. Len(word) : SameLetter(word[j], text[t + (j - (i - 1)) - 1]))
          <=> /\ SameLetter(word[i], text[t])
              /\ \A j \in i + 1 .. Len(word) : SameLetter(word[j], text[(t + 1) + (j - i) - 1])
    <3>1. ASSUME \A j \in i .. Len(word) : SameLetter(word[j], text[t + (j - (i - 1)) - 1])
          PROVE  /\ SameLetter(word[i], text[t])
                 /\ \A j \in i + 1 .. Len(word) :
                       SameLetter(word[j], text[(t + 1) + (j - i) - 1])
      BY <2>1, <2>2, <2>4, <3>1
    <3>2. ASSUME SameLetter(word[i], text[t]),
                 \A j \in i + 1 .. Len(word) : SameLetter(word[j], text[(t + 1) + (j - i) - 1]),
                 NEW j \in i .. Len(word)
          PROVE  SameLetter(word[j], text[t + (j - (i - 1)) - 1])
      BY <2>1, <2>2, <2>3, <3>2
    <3> QED
      BY <3>1, <3>2
  <2> QED
    BY <2>2, <2>5, <2>6 DEF MatchAt
<1>2. \A t \in 1 .. Len(text) : t \in 1 .. Len(text) + 1 /\ t + 1 \in 1 .. Len(text) + 1
  OBVIOUS
<1>3. \A t \in 1 .. Len(text) + 1 : t <= Len(text) => t \in 1 .. Len(text)
  OBVIOUS
<1>4. \A t \in 1 .. Len(text) : t <= Len(text)
  OBVIOUS
<1> QED
  BY <1>1, <1>2, <1>3, <1>4, Zenon DEF FoundFrom

(* Read from its end, an escaped word between two % matches where the      *)
(* letters of the word are.                                                *)
LEMMA EscapedMatches ==
    ASSUME NEW text, IsWord(text), NEW word, IsWord(word),
           NEW pattern, IsWord(pattern), NEW e, IsWord(e), NEW off, Laid(word, e, off),
           Len(pattern) = Len(e) + 2, pattern[Len(e) + 2] = "%",
           \A i \in 1 .. Len(e) : pattern[i + 1] = e[i]
    PROVE  LikeFrom(text, pattern)[Len(e) + 1] = FoundFrom(text, word, 0)
<1> DEFINE from == LikeFrom(text, pattern)
           m == Len(e)
           n == Len(word)
           Good == {k \in Nat : k <= n => from[m + 1 - off[n - k]] = FoundFrom(text, word, n - k)}
<1>1. Len(text) \in Nat /\ n \in Nat /\ m \in Nat /\ Len(pattern) \in Nat
  BY WordLength
<1>2. \A i \in 0 .. m + 2 : from[i] = NextFrom(text, pattern, from, i)
  BY <1>1, LikeFromIs
<1>3. /\ off \in [0 .. n -> 0 .. m] /\ off[0] = 0 /\ off[n] = m
      /\ \A i \in 1 .. n : LaidAt(word, e, off, i)
  BY DEF Laid
<1> HIDE DEF from, m, n
<1>4. from[0] = {Len(text) + 1} /\ from[1] = 1 .. Len(text) + 1
  <2>1. 0 \in 0 .. m + 2 /\ 1 \in 0 .. m + 2 /\ 1 - 1 = 0
    BY <1>1
  <2>2. from[0] = NextFrom(text, pattern, from, 0) /\ from[1] = NextFrom(text, pattern, from, 1)
    BY <1>2, <2>1
  <2>3. NextFrom(text, pattern, from, 0) = {Len(text) + 1}
    BY DEF NextFrom
  <2>4. pattern[Len(pattern) - 1 + 1] = "%"
    BY <1>1 DEF m
  <2>5. NextFrom(text, pattern, from, 1) = {t \in 1 .. Len(text) + 1 : \E u \in from[1 - 1] : t <= u}
    BY <2>4 DEF NextFrom
  <2>6. from[0] = {Len(text) + 1}
    BY <2>2, <2>3
  <2>7. from[1] = {t \in 1 .. Len(text) + 1 : \E u \in from[0] : t <= u}
    BY <2>1, <2>2, <2>5
  <2>8. from[1] = 1 .. Len(text) + 1
    BY <1>1, <2>6, <2>7
  <2> QED
    BY <2>6, <2>8
<1>5. 0 \in Good
  <2>1. m + 1 - off[n - 0] = 1 /\ n - 0 = n
    BY <1>1, <1>3
  <2>2. FoundFrom(text, word, n) = 1 .. Len(text) + 1
    BY <1>1 DEF FoundFrom, MatchAt, n
  <2> QED
    BY <1>4, <2>1, <2>2
<1>6. ASSUME NEW k \in Nat, k \in Good
      PROVE  k + 1 \in Good
  <2> SUFFICES ASSUME k + 1 <= n
               PROVE  from[m + 1 - off[n - (k + 1)]] = FoundFrom(text, word, n - (k + 1))
    OBVIOUS
  <2> DEFINE i == n - k
             c == word[i]
             before == off[i - 1]
             q == m + 1 - before
  <2>1. i \in 1 .. n /\ i - 1 = n - (k + 1) /\ i - 1 \in 0 .. n /\ i \in 0 .. n
    BY <1>1
  <2>2. from[m + 1 - off[i]] = FoundFrom(text, word, i)
    BY <1>1, <1>6
  <2>3. LaidAt(word, e, off, i) /\ off[i] \in 0 .. m /\ before \in 0 .. m
    BY <1>3, <2>1
  <2>4. /\ c \in Special => off[i] = before + 2 /\ e[before + 1] = "\\" /\ e[before + 2] = c
        /\ c \notin Special => off[i] = before + 1 /\ e[before + 1] = c
    BY <2>3 DEF LaidAt
  <2> HIDE DEF i, before
  <2>5. FoundFrom(text, word, i - 1)
          = {t \in 1 .. Len(text) : SameLetter(c, text[t]) /\ t + 1 \in FoundFrom(text, word, i)}
    <3>1. Len(word) \in Nat /\ i \in 1 .. Len(word)
      BY <1>1, <2>1 DEF n
    <3> QED
      BY <1>1, <3>1, MatchOneMore
  <2> HIDE DEF c
  <2>6. q \in 0 .. m + 2 /\ q # 0 /\ Len(pattern) - q + 1 = before + 2
    BY <1>1, <2>3 DEF m
  <2>7. from[q] = NextFrom(text, pattern, from, q)
    BY <1>2, <2>6
  <2>8. from[q] = {t \in 1 .. Len(text) : SameLetter(c, text[t]) /\ t + 1 \in from[m + 1 - off[i]]}
    <3>1. CASE c \in Special
      <4>1. off[i] = before + 2 /\ before + 1 \in 1 .. m /\ before + 2 \in 1 .. m
        BY <1>1, <2>3, <2>4, <3>1
      <4>2. (before + 1) + 1 = before + 2 /\ (before + 2) + 1 = before + 3
        BY <2>3
      <4>3. pattern[before + 2] = "\\" /\ pattern[(before + 2) + 1] = c
        BY <2>4, <3>1, <4>1, <4>2 DEF m
      <4>4. q > 1 /\ q - 2 = m + 1 - off[i]
        BY <1>1, <2>3, <4>1
      <4> HIDE DEF q
      <4>5. from[q] = {t \in 1 .. Len(text) :
                          q > 1 /\ SameLetter(c, text[t]) /\ t + 1 \in from[q - 2]}
        BY <2>6, <2>7, <4>3 DEF NextFrom
      <4> QED
        BY <4>4, <4>5
    <3>2. CASE c \notin Special
      <4>1. off[i] = before + 1 /\ before + 1 \in 1 .. m
        BY <1>1, <2>3, <2>4, <3>2
      <4>2. (before + 1) + 1 = before + 2
        BY <2>3
      <4>3. pattern[before + 2] = c
        BY <2>4, <3>2, <4>1, <4>2 DEF m
      <4>4. q - 1 = m + 1 - off[i]
        BY <1>1, <2>3, <4>1
      <4>5. c # "%" /\ c # "\\" /\ c # "_"
        BY <3>2 DEF Special
      <4> HIDE DEF q
      <4>6. from[q] = {t \in 1 .. Len(text) : SameLetter(c, text[t]) /\ t + 1 \in from[q - 1]}
        BY <2>6, <2>7, <4>3, <4>5 DEF NextFrom
      <4> QED
        BY <4>4, <4>6
    <3> QED
      BY <3>1, <3>2
  <2>9. from[q] = FoundFrom(text, word, i - 1)
    BY <2>2, <2>5, <2>8
  <2> QED
    BY <2>1, <2>9 DEF before
<1> HIDE DEF Good
<1>7. \A k \in Nat : k \in Good
  BY <1>5, <1>6, Induction
<1>8. m + 1 - off[n - n] = m + 1 /\ n - n = 0 /\ n <= n
  BY <1>1, <1>3
<1> QED
  BY <1>1, <1>7, <1>8 DEF Good, from, m

(* The pattern of find_compatible matches the texts that contain the word, *)
(* whatever the case, and whatever metacharacters it has.                  *)
LEMMA ContainedIs ==
    ASSUME NEW text, IsWord(text), NEW word, IsWord(word)
    PROVE  Contained(Lowered(word), Lowered(text))
             <=> \E t \in 1 .. Len(text) + 1 : MatchAt(text, word, 0, t)
<1> DEFINE p == Lowered(word)
           w == Lowered(text)
           n == Len(word)
           m == Len(text)
<1>1. n \in Nat /\ m \in Nat
  BY WordLength
<1>2. /\ p \in Seq(Range(p)) /\ Len(p) = n /\ \A i \in 1 .. n : p[i] = LowerOf(word[i])
      /\ w \in Seq(Range(w)) /\ Len(w) = m /\ \A i \in 1 .. m : w[i] = LowerOf(text[i])
  <2>1. DOMAIN word = 1 .. n /\ DOMAIN text = 1 .. m
    BY DEF IsWord
  <2>2. p = [i \in 1 .. n |-> LowerOf(word[i])] /\ w = [i \in 1 .. m |-> LowerOf(text[i])]
    BY <2>1 DEF Lowered
  <2> DEFINE L == {LowerOf(word[i]) : i \in 1 .. n}
             M == {LowerOf(text[i]) : i \in 1 .. m}
  <2>3. [i \in 1 .. n |-> LowerOf(word[i])] \in [1 .. n -> L]
        /\ [i \in 1 .. m |-> LowerOf(text[i])] \in [1 .. m -> M]
    OBVIOUS
  <2> HIDE DEF L, M, p, w
  <2>4. p \in Seq(L) /\ w \in Seq(M) /\ Len(p) = n /\ Len(w) = m
    BY <1>1, <2>2, <2>3
  <2>5. p \in Seq(Range(p)) /\ w \in Seq(Range(w))
    BY <2>4, SeqIsWord, WordIsSeq
  <2> QED
    BY <2>2, <2>4, <2>5
<1> HIDE DEF p, w, n, m
<1>3. ASSUME NEW i \in 0 .. m - n
      PROVE  IsPrefix(p, SubSeq(w, i + 1, m)) <=> \A j \in 1 .. n : p[j] = w[i + j]
  <2> DEFINE v == SubSeq(w, i + 1, m)
  <2>1. v \in Seq(Range(w)) /\ Len(v) = m - i /\ \A j \in 1 .. m - i : v[j] = w[i + j]
    BY <1>1, <1>2
  <2> HIDE DEF v
  <2>2. n <= m - i
    BY <1>1
  <2>3. SubSeq(p, 1, n) = p
    BY <1>1, <1>2
  <2> DEFINE u == SubSeq(v, 1, n)
  <2>4. u \in Seq(Range(w)) /\ Len(u) = n /\ \A j \in 1 .. n : u[j] = w[i + j]
    <3>1. u \in Seq(Range(w)) /\ Len(u) = n /\ \A j \in 1 .. n : u[j] = v[j]
      BY <1>1, <2>1, <2>2
    <3>2. \A j \in 1 .. n : j \in 1 .. m - i
      BY <1>1, <2>2
    <3> HIDE DEF u
    <3> QED
      BY <2>1, <3>1, <3>2
  <2> HIDE DEF u
  <2>5. IsWord(p) /\ IsWord(u)
    BY <1>2, <2>4, SeqIsWord
  <2>6. p = u <=> \A j \in 1 .. n : p[j] = u[j]
    BY <1>2, <2>4, <2>5, WordsEqual
  <2>7. IsPrefix(p, v) <=> p = u
    BY <1>1, <1>2, <2>1, <2>2, <2>3 DEF IsPrefix, u
  <2> QED
    BY <2>4, <2>6, <2>7 DEF v
<1>4. ASSUME NEW i \in 0 .. m - n
      PROVE  (\A j \in 1 .. n : p[j] = w[i + j]) <=> MatchAt(text, word, 0, i + 1)
  <2>1. \A j \in 1 .. n : i + j \in 1 .. m /\ (i + 1) + (j - 0) - 1 = i + j
    BY <1>1
  <2>2. (i + 1) + (n - 0) <= m + 1 /\ 0 + 1 = 1
    BY <1>1
  <2>3. \A j \in 1 .. n : p[j] = w[i + j] <=> SameLetter(word[j], text[(i + 1) + (j - 0) - 1])
    BY <1>2, <2>1 DEF SameLetter
  <2>4. (\A j \in 1 .. n : p[j] = w[i + j])
          <=> \A j \in 0 + 1 .. n : SameLetter(word[j], text[(i + 1) + (j - 0) - 1])
    BY <2>2, <2>3
  <2> QED
    BY <2>2, <2>4 DEF MatchAt, n, m
<1>5. ASSUME NEW t \in 1 .. m + 1, MatchAt(text, word, 0, t)
      PROVE  t - 1 \in 0 .. m - n /\ (t - 1) + 1 = t
  <2>1. t + (n - 0) <= m + 1
    BY <1>5 DEF MatchAt, n, m
  <2> QED
    BY <1>1, <2>1
<1>6. \A i \in 0 .. m - n : i + 1 \in 1 .. m + 1
  BY <1>1
<1>7. Contained(p, w) <=> \E i \in 0 .. m - n : IsPrefix(p, SubSeq(w, i + 1, m))
  BY <1>2 DEF Contained
<1>8. Contained(p, w) <=> \E i \in 0 .. m - n : MatchAt(text, word, 0, i + 1)
  BY <1>3, <1>4, <1>7
<1>9. (\E i \in 0 .. m - n : MatchAt(text, word, 0, i + 1))
         <=> \E t \in 1 .. m + 1 : MatchAt(text, word, 0, t)
  BY <1>5, <1>6
<1> QED
  BY <1>8, <1>9 DEF p, w, m

(* search.rs escape_like: LIKE finds an escaped word between two percent   *)
(* signs where the word itself is, whatever metacharacters are in it.      *)
THEOREM EscapeIsLiteral ==
    ASSUME NEW text, IsWord(text), NEW word, IsWord(word)
    PROVE  Like(text, <<"%">> \o EscapeLike(word) \o <<"%">>)
             <=> Contained(Lowered(word), Lowered(text))
<1> DEFINE e == EscapeLike(word)
           o == <<"%">>
           first == Joined(o, e)
           pattern == Joined(first, o)
           from == LikeFrom(text, pattern)
           k == Len(e)
<1>1. IsWord(o) /\ Len(o) = 1 /\ o[1] = "%" /\ IsWord(e) /\ k \in Nat /\ Len(text) \in Nat
  BY ShortWords, EscapeOneMore, WordLength
<1>2. PICK off : Laid(word, e, off)
  BY EscapeIsLaid
<1> HIDE DEF e, o
<1>3. Continues(first, o, e)
  BY <1>1, JoinedIs
<1> HIDE DEF first, k
<1>4. Continues(pattern, first, o)
  <2>1. IsWord(first)
    BY <1>3 DEF Continues
  <2> QED
    BY <1>1, <2>1, JoinedIs
<1>5. /\ Len(first) = k + 1 /\ first[1] = "%" /\ \A i \in 1 .. k : first[i + 1] = e[i]
  <2>1. /\ Len(first) = 1 + k /\ \A i \in 1 .. 1 : first[i] = o[i]
        /\ \A i \in 1 .. k : first[1 + i] = e[i]
    BY <1>1, <1>3 DEF Continues, k
  <2>2. \A i \in 1 .. k : 1 + i = i + 1
    BY <1>1
  <2> QED
    BY <1>1, <2>1, <2>2
<1> HIDE DEF pattern
<1>6. /\ IsWord(pattern) /\ Len(pattern) = k + 2 /\ pattern[k + 2] = "%" /\ pattern[1] = "%"
      /\ \A i \in 1 .. k : pattern[i + 1] = e[i]
  <2>1. /\ IsWord(pattern) /\ Len(pattern) = (k + 1) + 1
        /\ \A i \in 1 .. k + 1 : pattern[i] = first[i]
        /\ \A i \in 1 .. 1 : pattern[(k + 1) + i] = o[i]
    BY <1>1, <1>4, <1>5 DEF Continues
  <2>2. (k + 1) + 1 = k + 2 /\ 1 \in 1 .. k + 1 /\ \A i \in 1 .. k : i + 1 \in 1 .. k + 1
    BY <1>1
  <2> QED
    BY <1>1, <1>5, <2>1, <2>2
<1>7. from[k + 1] = FoundFrom(text, word, 0)
  BY <1>1, <1>2, <1>6, EscapedMatches DEF k
<1>8. from[k + 2] = {t \in 1 .. Len(text) + 1 : \E u \in from[k + 1] : t <= u}
  <2>1. from[k + 2] = NextFrom(text, pattern, from, k + 2)
    <3>1. k + 2 \in 0 .. Len(pattern) /\ Len(pattern) \in Nat
      BY <1>1, <1>6
    <3> QED
      BY <3>1, LikeFromIs
  <2> HIDE DEF from
  <2>2. Len(pattern) - (k + 2) + 1 = 1 /\ k + 2 # 0 /\ (k + 2) - 1 = k + 1
    BY <1>1, <1>6
  <2> QED
    BY <1>6, <2>1, <2>2 DEF NextFrom
<1>9. 1 \in from[k + 2] <=> \E t \in 1 .. Len(text) + 1 : MatchAt(text, word, 0, t)
  <2>1. 1 \in 1 .. Len(text) + 1 /\ \A t \in 1 .. Len(text) + 1 : 1 <= t
    BY <1>1
  <2>2. FoundFrom(text, word, 0) \subseteq 1 .. Len(text) + 1
    BY DEF FoundFrom
  <2> HIDE DEF from
  <2>3. 1 \in from[k + 2] <=> \E u \in FoundFrom(text, word, 0) : TRUE
    BY <1>7, <1>8, <2>1, <2>2
  <2> QED
    BY <2>3 DEF FoundFrom
<1>10. Like(text, pattern) <=> 1 \in from[k + 2]
  BY <1>6 DEF Like
<1>11. Like(text, pattern) <=> Contained(Lowered(word), Lowered(text))
  BY <1>9, <1>10, ContainedIs
<1> QED
  BY <1>11 DEF pattern, first, o, e, Joined

-----------------------------------------------------------------------------
(* What may be in an answer: official rows of the base, and published ones *)
(* of one catalog that was live.                                           *)
Clean(rows, catalogs) ==
    LET generated == rows \ Official(Base) IN
    /\ \A r \in generated : r.source = "generated" /\ r.status = "published"
    /\ \E l \in catalogs : generated \subseteq IF l = <<>> THEN Base ELSE l[1]

(* What pc says of the rest: the inductive invariant. *)
Asks == /\ pc \in {"idle", "search", "merge", "compatible", "list", "answered"}
        /\ pc \in {"search", "compatible", "list"} => ask.do = pc
        /\ pc = "merge" => ask.do = "search"
Lives == /\ live = <<>> \/ \E p \in Packs : live = <<p>>
         /\ pc # "idle" => live \in seen
Items == pc = "merge" => items \subseteq Visible(Base)
Inv == Asks /\ Lives /\ Items /\ SupersededNeverLeaks

-----------------------------------------------------------------------------
(* ORDER BY and LIMIT, and the dedup, only choose among the rows.          *)
LEMMA FirstOfChooses ==
    ASSUME NEW rows, NEW limit, NEW s \in FirstOf(rows, limit, Better)
    PROVE  Range(s) \subseteq rows
  BY DEF FirstOf, Range

LEMMA MergedChooses ==
    ASSUME NEW rows, NEW s \in Merged(rows)
    PROVE  Range(s) \subseteq rows
<1>1. PICK kept \in Deduped(rows) : s \in FirstOf(kept, ask.limit, Better)
  BY DEF Merged
<1>2. kept \subseteq rows
  BY <1>1 DEF Deduped
<1> QED BY <1>1, <1>2, FirstOfChooses

LEMMA ResultsAreVisible ==
    ASSUME NEW rows, NEW found \in Results(rows)
    PROVE  found \subseteq Visible(rows)
<1>1. PICK match \in Matching(ask.query, Visible(rows)) : found \in Tops(match, ask.limit)
  BY DEF Results
<1>2. match \subseteq Visible(rows)
  <2> DEFINE V == Visible(rows)
  <2>1. match \in Matching(ask.query, V)
    BY <1>1
  <2> HIDE DEF V
  <2>2. match \subseteq V
    BY <2>1 DEF Matching
  <2> QED BY <2>2 DEF V
<1>3. found \subseteq match
  BY <1>1 DEF Tops, kSubset
<1> QED BY <1>2, <1>3

(* A visible row is official or published. *)
LEMMA VisibleRows ==
    ASSUME NEW rows, NEW r \in Visible(rows)
    PROVE  r \in rows /\ (r.source = "official" \/ r.status = "published")
  BY DEF Visible, InLib

-----------------------------------------------------------------------------
LEMMA Initially == Init => Inv
  BY DEF Init, Inv, Asks, Lives, Items, SupersededNeverLeaks, Answered

(* The answer of a search is clean when its merge gives it. *)
LEMMA MergeLiveIsClean ==
    ASSUME Inv, MergeLive
    PROVE  Clean(Range(answer'.rows), seen) /\ pc' = "answered"
<1> USE DEF Inv
<1>1. PICK found \in Results(live[1]) :
        \E rows \in Merged(Official(items) \cup (found \ Official(found))) :
           Answer([error |-> "none", rows |-> rows, from |-> live])
  BY DEF MergeLive
<1>2. PICK rows \in Merged(Official(items) \cup (found \ Official(found))) :
        Answer([error |-> "none", rows |-> rows, from |-> live])
  BY <1>1
<1>3. answer'.rows = rows /\ pc' = "answered"
  BY <1>2 DEF Answer
<1>4. Range(rows) \subseteq Official(items) \cup (found \ Official(found))
  BY <1>2, MergedChooses
<1>5. items \subseteq Base
  BY VisibleRows DEF MergeLive, Items
<1>6. Official(items) \subseteq Official(Base)
  BY <1>5 DEF Official
<1>7. PICK p \in Packs : live = <<p>>
  BY DEF MergeLive, Lives
<1>8. \A r \in found : r \in p /\ (r.source = "official" \/ r.status = "published")
  BY <1>7, ResultsAreVisible, VisibleRows
<1>9. \A r \in found \ Official(found) : r.source = "generated" /\ r.status = "published"
  BY <1>7, <1>8, CatalogsAssumption DEF Official, Rows
<1>10. live \in seen /\ live # <<>> /\ live[1] = p
  BY <1>7 DEF MergeLive, Lives
<1>11. Range(rows) \ Official(Base) \subseteq found \ Official(found)
  BY <1>4, <1>6
<1>12. Range(rows) \ Official(Base) \subseteq p
  BY <1>11, <1>8
<1> QED BY <1>3, <1>9, <1>10, <1>11, <1>12 DEF Clean

LEMMA MergeNoneIsClean ==
    ASSUME Inv, MergeNone
    PROVE  Clean(Range(answer'.rows), seen) /\ pc' = "answered"
<1>1. PICK rows \in Merged(items) : Answer([error |-> "none", rows |-> rows, from |-> live])
  BY DEF MergeNone
<1>2. answer'.rows = rows /\ pc' = "answered"
  BY <1>1 DEF Answer
<1>3. Range(rows) \subseteq items
  BY <1>1, MergedChooses
<1>4. \A r \in items : r \in Base /\ (r.source = "official" \/ r.status = "published")
  BY VisibleRows DEF MergeNone, Inv, Items
<1>5. \A r \in Range(rows) \ Official(Base) :
        r \in Base /\ r.source = "generated" /\ r.status = "published"
  BY <1>3, <1>4, CatalogsAssumption DEF Official, Rows
<1>6. live \in seen /\ live = <<>>
  BY DEF MergeNone, Inv, Lives
<1> QED BY <1>2, <1>5, <1>6 DEF Clean

-----------------------------------------------------------------------------
(* Each action that leaves the answer alone, or answers something else. *)
LEMMA ReloadSafe == ASSUME NEW pack \in Packs, Inv, Reload(pack) PROVE Inv'
<1>1. Asks' /\ Lives'
  BY DEF Inv, Reload, Asks, Lives
<1>2. Items'
  BY DEF Inv, Reload, Items, Visible, InLib
<1>3. SupersededNeverLeaks'
  <2> SUFFICES ASSUME Answered("search")'
               PROVE  Clean(Range(answer.rows), seen \cup {<<pack>>})
    BY DEF Reload, SupersededNeverLeaks, Clean, Answered
  <2>1. Clean(Range(answer.rows), seen)
    BY DEF Inv, Reload, SupersededNeverLeaks, Clean, Answered
  <2> QED BY <2>1 DEF Clean
<1> QED BY <1>1, <1>2, <1>3 DEF Inv

LEMMA ArriveSafe == ASSUME NEW c \in Calls, Inv, Arrive(c) PROVE Inv'
<1> USE DEF Inv, Arrive
<1>1. Asks'
  BY DEF Asks
<1>2. Lives'
  BY DEF Lives
<1>3. Items' /\ SupersededNeverLeaks'
  BY DEF Items, SupersededNeverLeaks, Answered
<1> QED BY <1>1, <1>2, <1>3

LEMMA SearchSafe == ASSUME Inv, SearchRefused \/ SearchBase PROVE Inv'
<1>1. CASE SearchRefused
  <2>1. pc' = "answered" /\ answer'.error = "InvalidQuery" /\ live \in seen /\ UNCHANGED <<live, seen>>
    BY <1>1 DEF Inv, SearchRefused, Answer, Failure, Nothing, Lives
  <2>2. SupersededNeverLeaks'
    BY <2>1 DEF SupersededNeverLeaks, Answered
  <2> QED BY <2>1, <2>2 DEF Inv, Asks, Lives, Items
<1>2. CASE SearchBase
  <2>1. items' \subseteq Visible(Base)
    BY <1>2, ResultsAreVisible DEF SearchBase
  <2>2. Visible(Base)' = Visible(Base)
    BY <1>2 DEF SearchBase, Visible, InLib
  <2> QED BY <1>2, <2>1, <2>2 DEF SearchBase, Inv, Asks, Lives, Items, SupersededNeverLeaks, Answered
<1> QED BY <1>1, <1>2

LEMMA MergeSafe == ASSUME Inv, MergeLive \/ MergeNone PROVE Inv'
<1>1. Clean(Range(answer'.rows), seen) /\ pc' = "answered"
  BY MergeLiveIsClean, MergeNoneIsClean
<1>2. UNCHANGED <<live, ask, seen>> /\ live \in seen
  BY DEF MergeLive, MergeNone, Answer, Inv, Lives
<1>3. SupersededNeverLeaks'
  BY <1>1, <1>2 DEF Clean, SupersededNeverLeaks, Official
<1> QED BY <1>1, <1>2, <1>3 DEF Inv, Asks, Lives, Items

LEMMA OthersSafe ==
    ASSUME Inv, CompatibleRefused \/ FindCompatible \/ ListSymbols \/ Return
    PROVE  Inv'
<1>1. CASE CompatibleRefused \/ FindCompatible \/ ListSymbols
  <2>1. /\ pc' = "answered" /\ ask.do # "search" /\ pc # "idle"
        /\ UNCHANGED <<live, ask, seen>>
    BY <1>1 DEF CompatibleRefused, FindCompatible, ListSymbols, Answer, Inv, Asks
  <2> QED BY <2>1 DEF Inv, Asks, Lives, Items, SupersededNeverLeaks, Answered
<1>2. CASE Return
  BY <1>2 DEF Return, Inv, Asks, Lives, Items, SupersededNeverLeaks, Answered
<1> QED BY <1>1, <1>2

LEMMA Stutters == ASSUME Inv, UNCHANGED vars PROVE Inv'
<1>1. Items'
  BY DEF Inv, vars, Items, Visible, InLib
<1> QED BY <1>1 DEF Inv, vars, Asks, Lives, SupersededNeverLeaks, Answered

(* Generated rows of an answer are published rows of one catalog that was  *)
(* live while the request ran: state.rs 80-82, for every value of the      *)
(* constants.                                                              *)
THEOREM NothingSupersededLeaks == Spec => []SupersededNeverLeaks
<1>1. Inv /\ [Next]_vars => Inv'
  BY ReloadSafe, ArriveSafe, SearchSafe, MergeSafe, OthersSafe, Stutters DEF Next
<1>2. Inv => SupersededNeverLeaks
  BY DEF Inv
<1> QED BY Initially, <1>1, <1>2, PTL DEF Spec

-----------------------------------------------------------------------------
(* Min and Max of sets of naturals. *)
LEMMA MinIsLeast ==
    ASSUME NEW S \in SUBSET Nat, IsFiniteSet(S), S # {}
    PROVE  Min(S) \in S /\ \A x \in S : Min(S) <= x
BY LeastExists DEF Min

LEMMA MaxIsGreatest ==
    ASSUME NEW S \in SUBSET Nat, IsFiniteSet(S), S # {}
    PROVE  Max(S) \in S /\ \A x \in S : x <= Max(S)
<1>1. PICK m \in S : \A x \in S : x <= m
  BY GreatestExists
<1>2. \A x \in S : m >= x
  BY <1>1
<1>3. Max(S) \in S /\ \A x \in S : Max(S) >= x
  BY <1>2 DEF Max
<1> QED
  BY <1>3

LEMMA IndexSets ==
    ASSUME NEW n \in Nat, NEW S \in SUBSET (1 .. n)
    PROVE  S \in SUBSET Nat /\ IsFiniteSet(S)
<1>1. IsFiniteSet(1 .. n)
  BY FS_Interval
<1>2. IsFiniteSet(S)
  BY <1>1, FS_Subset
<1>3. S \subseteq Nat
  OBVIOUS
<1> QED
  BY <1>2, <1>3

LEMMA PairFinite ==
    ASSUME NEW a, NEW b
    PROVE  IsFiniteSet({a, b})
<1>1. IsFiniteSet({a} \cup {b})
  BY FS_Singleton, FS_AddElement
<1>2. {a, b} = {a} \cup {b}
  OBVIOUS
<1> QED
  BY <1>1, <1>2

LEMMA MinOfTwo ==
    ASSUME NEW a \in Nat, NEW b \in Nat
    PROVE  Min({a, b}) = IF a <= b THEN a ELSE b
<1>1. Min({a, b}) \in {a, b} /\ \A x \in {a, b} : Min({a, b}) <= x
  BY PairFinite, MinIsLeast
<1> QED
  BY <1>1

LEMMA ClampType ==
    ASSUME NEW a, NEW default \in Nat, IsArguments(a)
    PROVE  Clamp(a, default) \in Nat
<1> DEFINE asked == IF Has(a, "limit") THEN a.limit ELSE default
           atMost == Min({200, asked})
<1>1. asked \in Nat
  BY DEF IsArguments, Has
<1>2. atMost \in Nat
  BY <1>1, MinOfTwo
<1> HIDE DEF atMost
<1>3. Max({1, atMost}) \in {1, atMost}
  <2>1. {1, atMost} \in SUBSET Nat
    BY <1>2
  <2>2. IsFiniteSet({1, atMost})
    BY PairFinite
  <2> QED
    BY <2>1, <2>2, MaxIsGreatest
<1>4. Max({1, atMost}) \in Nat
  BY <1>2, <1>3
<1> QED
  BY <1>4 DEF Clamp, atMost

-----------------------------------------------------------------------------
(* What either face asks of the catalogs for one call. *)
AsksFor(tool, a, what) ==
    \/ what.do \in {"refused", "symbol", "mpn", "provenance", "revision", "list", "libraries"}
    \/ tool = "search" /\ what = Search(a, 20)
    \/ tool = "compatible" /\ what = Compatible(a, 50)
    \/ /\ tool = "offers" /\ Keys(a) # <<>>
       /\ \E catalog : what = Offers(a, catalog)

LEMMA Decides ==
    ASSUME NEW checks, NEW what
    PROVE  Decide(checks, what) = what \/ Decide(checks, what).do = "refused"
BY DEF Decide, Refused

LEMMA RestAsks ==
    ASSUME NEW tool \in Tools, NEW a
    PROVE  AsksFor(tool, a, Rest(tool, a))
<1> USE Decides DEF AsksFor, Rest
<1>1. CASE tool = "search"
  BY <1>1 DEF RestSearch
<1>2. CASE tool = "compatible"
  BY <1>2 DEF RestCompatible
<1>3. CASE tool = "symbol"
  BY <1>3 DEF RestSymbol, Symbol
<1>4. CASE tool = "offers"
  BY <1>4 DEF RestOffers, Refused
<1>5. CASE tool = "mpn"
  BY <1>5 DEF RestByMpn, ByPart
<1>6. CASE tool = "provenance"
  BY <1>6 DEF RestProvenance
<1>7. CASE tool = "list"
  BY <1>7 DEF RestList
<1>8. CASE tool = "libraries"
  BY <1>8
<1> QED
  BY <1>1, <1>2, <1>3, <1>4, <1>5, <1>6, <1>7, <1>8 DEF Tools

LEMMA McpAsks ==
    ASSUME NEW tool \in Tools, NEW a, OnMcp(tool, a)
    PROVE  AsksFor(tool, a, Mcp(tool, a))
<1> USE Decides DEF AsksFor, Mcp
<1>1. CASE tool = "search"
  BY <1>1 DEF McpSearch
<1>2. CASE tool = "compatible"
  BY <1>2 DEF McpCompatible
<1>3. CASE tool = "symbol"
  BY <1>3 DEF McpSymbol, Symbol
<1>4. CASE tool = "offers"
  BY <1>4 DEF McpOffers, Refused
<1>5. CASE tool = "mpn"
  BY <1>5 DEF McpByMpn, ByPart
<1>6. CASE tool = "provenance"
  BY <1>6 DEF McpProvenance
<1>7. CASE tool = "libraries"
  BY <1>7
<1> QED
  BY <1>1, <1>2, <1>3, <1>4, <1>5, <1>6, <1>7 DEF Tools, OnMcp

(* While a call is being answered, the ask is what one face made of it. *)
Asking == pc # "idle" =>
            /\ call \in Calls
            /\ \/ OnRest(call[1], call[2]) /\ ask = Rest(call[1], call[2])
               \/ OnMcp(call[1], call[2]) /\ ask = Mcp(call[1], call[2])

LEMMA AskingHolds == Spec => []Asking
<1>1. Init => Asking
  BY DEF Init, Asking
<1>2. Asking /\ [Next]_vars => Asking'
  <2> SUFFICES ASSUME Asking, [Next]_vars
               PROVE  Asking'
    OBVIOUS
  <2>1. CASE \E c \in Calls : Arrive(c)
    BY <2>1 DEF Asking, Arrive
  <2>2. CASE Return
    BY <2>2 DEF Asking, Return
  <2>3. CASE UNCHANGED <<call, ask>> /\ (pc = "idle" => pc' = "idle")
    BY <2>3 DEF Asking
  <2> QED
    BY <2>1, <2>2, <2>3
    DEF Next, Reload, SearchRefused, SearchBase, MergeLive, MergeNone, CompatibleRefused,
        FindCompatible, ListSymbols, Answer, vars
<1> QED
  BY <1>1, <1>2, PTL DEF Spec

LEMMA AskedFor ==
    ASSUME Asking, pc # "idle"
    PROVE  AsksFor(call[1], call[2], ask) /\ IsArguments(call[2])
BY RestAsks, McpAsks, CallsAssumption DEF Asking, IsCall

-----------------------------------------------------------------------------
(* Trimmed words, and the symbol_id that is made of two of them. *)
Trimmed(w) == /\ w \in Seq(Range(w)) /\ w # <<>>
              /\ ~Blank(w[1]) /\ ~Blank(w[Len(w)])

LEMMA SolidSpan ==
    ASSUME NEW S, NEW w \in Seq(S),
           NEW solid, solid = {i \in DOMAIN w : ~Blank(w[i])}, solid # {}
    PROVE  /\ Min(solid) \in solid /\ Max(solid) \in solid
           /\ \A i \in solid : Min(solid) <= i /\ i <= Max(solid)
           /\ solid \subseteq 1 .. Len(w)
<1>1. solid \subseteq 1 .. Len(w) /\ Len(w) \in Nat
  OBVIOUS
<1>2. solid \in SUBSET Nat /\ IsFiniteSet(solid)
  BY <1>1, IndexSets
<1>3. Min(solid) \in solid /\ \A i \in solid : Min(solid) <= i
  BY <1>2, MinIsLeast
<1>4. Max(solid) \in solid /\ \A i \in solid : i <= Max(solid)
  BY <1>2, MaxIsGreatest
<1> QED
  BY <1>1, <1>3, <1>4

LEMMA TrimTrims ==
    ASSUME NEW w, IsWord(w), Trim(w) # <<>>
    PROVE  Trimmed(Trim(w))
<1> DEFINE S == Range(w)
           solid == {i \in DOMAIN w : ~Blank(w[i])}
           low == Min(solid)
           high == Max(solid)
<1>1. w \in Seq(S)
  BY WordIsSeq
<1>2. solid # {} /\ Trim(w) = SubSeq(w, low, high)
  BY DEF Trim
<1>3. low \in solid /\ high \in solid /\ low <= high /\ solid \subseteq 1 .. Len(w)
  BY <1>1, <1>2, SolidSpan
<1>4. low \in 1 .. Len(w) /\ high \in 1 .. Len(w) /\ ~Blank(w[low]) /\ ~Blank(w[high])
  BY <1>3
<1> HIDE DEF low, high, solid, S
<1> DEFINE t == SubSeq(w, low, high)
<1>5. /\ t \in Seq(S) /\ Len(t) = high - low + 1
      /\ \A i \in 1 .. high - low + 1 : t[i] = w[low + i - 1]
  BY <1>1, <1>3, <1>4
<1> HIDE DEF t
<1>6. t[1] = w[low] /\ t[Len(t)] = w[high] /\ t # <<>>
  BY <1>3, <1>4, <1>5
<1>7. t \in Seq(Range(t))
  BY <1>5 DEF Range
<1>8. Trimmed(t)
  BY <1>4, <1>6, <1>7 DEF Trimmed
<1> QED
  BY <1>2, <1>8 DEF t

LEMMA TrimKeepsTrimmed ==
    ASSUME NEW w, Trimmed(w)
    PROVE  Trim(w) = w
<1> DEFINE S == Range(w)
           solid == {i \in DOMAIN w : ~Blank(w[i])}
<1>1. w \in Seq(S) /\ Len(w) \in Nat \ {0} /\ 1 \in solid /\ Len(w) \in solid
  BY DEF Trimmed
<1>2. Min(solid) = 1 /\ Max(solid) = Len(w)
  <2>1. /\ Min(solid) \in solid /\ Max(solid) \in solid
        /\ \A i \in solid : Min(solid) <= i /\ i <= Max(solid)
        /\ solid \subseteq 1 .. Len(w)
    BY <1>1, SolidSpan
  <2> QED
    BY <1>1, <2>1
<1>3. Trim(w) = SubSeq(w, 1, Len(w))
  BY <1>1, <1>2 DEF Trim
<1> QED
  BY <1>1, <1>3

(* An offer's symbol_id takes a client back to the symbol, as long as the  *)
(* library has no colon of its own.                                        *)
LEMMA SplitRejoins ==
    ASSUME NEW lib, NEW name, Trimmed(lib), Trimmed(name), ":" \notin Range(lib)
    PROVE  SplitSymbolId(SymbolId(lib, name)) = <<lib, name>>
<1> DEFINE S == Range(lib) \cup Range(name) \cup {":"}
           id == lib \o <<":">> \o name
           at == {i \in DOMAIN id : id[i] = ":"}
           m == Len(lib)
           n == Len(name)
<1>1. lib \in Seq(S) /\ name \in Seq(S) /\ <<":">> \in Seq(S)
  BY DEF Trimmed
<1>2. SymbolId(lib, name) = id
  BY TrimKeepsTrimmed DEF SymbolId
<1>3. /\ id \in Seq(S) /\ Len(id) = m + 1 + n /\ m \in Nat /\ n \in Nat
      /\ \A i \in 1 .. m : id[i] = lib[i]
      /\ id[m + 1] = ":"
      /\ \A i \in 1 .. n : id[m + 1 + i] = name[i]
  BY <1>1
<1>4. \A i \in 1 .. m : lib[i] # ":"
  BY <1>1 DEF Range
<1> HIDE DEF id
<1>5. m + 1 \in at /\ \A i \in at : m + 1 <= i
  BY <1>3, <1>4
<1>6. Min(at) = m + 1
  <2>1. at \subseteq 1 .. Len(id)
    BY <1>3
  <2>2. Len(id) \in Nat /\ at # {}
    BY <1>3, <1>5
  <2> HIDE DEF at
  <2>3. at \in SUBSET Nat /\ IsFiniteSet(at)
    BY <2>1, <2>2, IndexSets
  <2>4. Min(at) \in at /\ \A x \in at : Min(at) <= x
    BY <2>2, <2>3, MinIsLeast
  <2>5. Min(at) \in Nat /\ Min(at) <= m + 1 /\ m + 1 <= Min(at) /\ m + 1 \in Nat
    BY <1>3, <1>5, <2>3, <2>4
  <2> QED
    BY <2>5
<1>7. SubSeq(id, 1, m) = lib
  <2>1. /\ SubSeq(id, 1, m) \in Seq(S) /\ Len(SubSeq(id, 1, m)) = m
        /\ \A i \in 1 .. m : SubSeq(id, 1, m)[i] = lib[i]
    BY <1>3
  <2> QED
    BY <1>1, <2>1
<1>8. SubSeq(id, m + 2, Len(id)) = name
  <2>1. /\ SubSeq(id, m + 2, m + 1 + n) \in Seq(S)
        /\ Len(SubSeq(id, m + 2, m + 1 + n)) = n
        /\ \A i \in 1 .. n : SubSeq(id, m + 2, m + 1 + n)[i] = name[i]
    BY <1>3
  <2>2. SubSeq(id, m + 2, m + 1 + n) = name
    BY <1>1, <2>1
  <2> QED
    BY <1>3, <2>2
<1>9. Min(at) - 1 = m /\ Min(at) + 1 = m + 2
  BY <1>3, <1>6
<1>10. Trim(SubSeq(id, 1, Min(at) - 1)) = lib /\ Trim(SubSeq(id, Min(at) + 1, Len(id))) = name
  BY <1>7, <1>8, <1>9, TrimKeepsTrimmed
<1>11. at # {} /\ lib # <<>> /\ name # <<>>
  BY <1>5 DEF Trimmed
<1>12. SplitSymbolId(id) = <<lib, name>>
  BY <1>10, <1>11 DEF SplitSymbolId
<1> QED
  BY <1>2, <1>12

LEMMA KeysAreTrimmed ==
    ASSUME NEW a, IsArguments(a), Keys(a) # <<>>
    PROVE  Trimmed(Keys(a)[1]) /\ Trimmed(Keys(a)[2])
<1>1. CASE Has(a, "symbol_id")
  <2> DEFINE id == a.symbol_id
             at == {i \in DOMAIN id : id[i] = ":"}
             left == SubSeq(id, 1, Min(at) - 1)
             right == SubSeq(id, Min(at) + 1, Len(id))
  <2>1. IsWord(id) /\ Keys(a) = SplitSymbolId(id)
    BY <1>1 DEF IsArguments, Has, Keys
  <2>2. at # {} /\ Trim(left) # <<>> /\ Trim(right) # <<>>
        /\ Keys(a) = <<Trim(left), Trim(right)>>
    BY <2>1 DEF SplitSymbolId
  <2>3. id \in Seq(Range(id)) /\ Len(id) \in Nat
    BY <2>1, WordIsSeq
  <2>4. Min(at) \in 1 .. Len(id)
    <3>1. at \subseteq 1 .. Len(id)
      BY <2>3
    <3> HIDE DEF at
    <3>2. at \in SUBSET Nat /\ IsFiniteSet(at)
      BY <2>3, <3>1, IndexSets
    <3> QED
      BY <2>2, <3>1, <3>2, MinIsLeast
  <2> HIDE DEF at
  <2>5. left \in Seq(Range(id)) /\ right \in Seq(Range(id))
    BY <2>3, <2>4
  <2>6. IsWord(left) /\ IsWord(right)
    BY <2>5, SeqIsWord
  <2> HIDE DEF left, right
  <2> QED
    BY <2>2, <2>6, TrimTrims
<1>2. CASE ~Has(a, "symbol_id")
  <2>1. /\ Solid(a, "lib") /\ Solid(a, "name")
        /\ Keys(a) = <<Trim(a.lib), Trim(a.name)>>
    BY <1>2 DEF Keys
  <2>2. IsWord(a.lib) /\ IsWord(a.name) /\ Trim(a.lib) # <<>> /\ Trim(a.name) # <<>>
    BY <2>1 DEF Solid, Has, IsArguments
  <2> QED
    BY <2>1, <2>2, TrimTrims
<1> QED
  BY <1>1, <1>2

-----------------------------------------------------------------------------
(* The two handlers of a tool make the same checks, in an order that names *)
(* the same argument, and ask the same: for all but two of the tools they  *)
(* are one text; of an offer they differ in the catalog; and of provenance *)
(* a symbol whose two words are solid and have no blanks around them       *)
(* leaves only the two caps.                                               *)
LEMMA FirstBad ==
    ASSUME NEW checks, NEW n \in Nat, DOMAIN checks = 1 .. n, NEW what,
           NEW i \in 1 .. n, checks[i][1], \A j \in 1 .. n : j < i => ~checks[j][1]
    PROVE  Decide(checks, what) = Refused(checks[i][2])
<1> DEFINE bad == {j \in DOMAIN checks : checks[j][1]}
<1>1. i \in bad /\ bad \subseteq 1 .. n /\ \A j \in bad : ~(j < i)
  OBVIOUS
<1> HIDE DEF bad
<1>2. bad \in SUBSET Nat /\ IsFiniteSet(bad)
  BY <1>1, IndexSets
<1>3. Min(bad) \in bad /\ Min(bad) <= i
  BY <1>1, <1>2, MinIsLeast
<1>4. Min(bad) = i
  <2>1. Min(bad) \in Nat /\ i \in Nat /\ ~(Min(bad) < i)
    BY <1>1, <1>2, <1>3
  <2> QED
    BY <1>3, <2>1
<1> QED
  BY <1>1, <1>4 DEF Decide, bad

LEMMA TwoOrFour ==
    ASSUME NEW long \in BOOLEAN, NEW longer \in BOOLEAN, NEW what
    PROVE  Decide(<< <<long, "lib">>, <<longer, "name">> >>, what)
             = Decide(<< <<FALSE, "revision_id">>, <<FALSE, "revision_id">>,
                         <<long, "lib">>, <<longer, "name">> >>, what)
<1> DEFINE two == << <<long, "lib">>, <<longer, "name">> >>
           four == << <<FALSE, "revision_id">>, <<FALSE, "revision_id">>,
                      <<long, "lib">>, <<longer, "name">> >>
<1>1. DOMAIN two = 1 .. 2 /\ DOMAIN four = 1 .. 4
  OBVIOUS
<1>2. /\ two[1][1] = long /\ two[2][1] = longer /\ four[1][1] = FALSE
      /\ four[2][1] = FALSE /\ four[3][1] = long /\ four[4][1] = longer
  OBVIOUS
<1>3. two[1][2] = "lib" /\ two[2][2] = "name" /\ four[3][2] = "lib" /\ four[4][2] = "name"
  OBVIOUS
<1> HIDE DEF two, four
<1>0. 1 \in 1 .. 2 /\ 2 \in 1 .. 2 /\ 3 \in 1 .. 4 /\ 4 \in 1 .. 4 /\ 2 \in Nat /\ 4 \in Nat
  OBVIOUS
<1>4. CASE long = TRUE
  <2>1. \A j \in 1 .. 4 : j < 3 => ~four[j][1]
    BY <1>2
  <2>2. four[3][1] /\ two[1][1]
    BY <1>2, <1>4
  <2>3. Decide(four, what) = Refused(four[3][2])
    BY <1>1, <1>0, <2>1, <2>2, FirstBad, Zenon
  <2>4. \A j \in 1 .. 2 : j < 1 => ~two[j][1]
    OBVIOUS
  <2>5. Decide(two, what) = Refused(two[1][2])
    BY <1>1, <1>0, <2>2, <2>4, FirstBad, Zenon
  <2> QED
    BY <1>3, <2>3, <2>5 DEF two, four
<1>5. CASE long = FALSE /\ longer = TRUE
  <2>1. \A j \in 1 .. 4 : j < 4 => ~four[j][1]
    BY <1>2, <1>5
  <2>2. \A j \in 1 .. 2 : j < 2 => ~two[j][1]
    BY <1>2, <1>5
  <2>3. four[4][1] /\ two[2][1]
    BY <1>2, <1>5
  <2>4. Decide(four, what) = Refused(four[4][2])
    BY <1>1, <1>0, <2>1, <2>3, FirstBad, Zenon
  <2>5. Decide(two, what) = Refused(two[2][2])
    BY <1>1, <1>0, <2>2, <2>3, FirstBad, Zenon
  <2> QED
    BY <1>3, <2>4, <2>5 DEF two, four
<1>6. CASE long = FALSE /\ longer = FALSE
  <2>1. \A j \in 1 .. 2 : ~two[j][1]
    BY <1>2, <1>6
  <2>2. \A j \in 1 .. 4 : ~four[j][1]
    BY <1>2, <1>6
  <2>3. Decide(two, what) = what
    BY <1>1, <2>1 DEF Decide
  <2>4. Decide(four, what) = what
    BY <1>1, <2>2 DEF Decide
  <2> QED
    BY <2>3, <2>4 DEF two, four
<1> QED
  BY <1>4, <1>5, <1>6

LEMMA ProvenanceAlike ==
    ASSUME NEW a, IsArguments(a), DOMAIN a = {"lib", "name"},
           a.lib = Trim(a.lib), a.lib # <<>>, a.name = Trim(a.name), a.name # <<>>
    PROVE  RestProvenance(a) = McpProvenance(a)
<1> DEFINE longLib == Bytes(a.lib) > 64
           longName == Bytes(a.name) > 128
           what == [do |-> "provenance", in |-> "generated", lib |-> a.lib, name |-> a.name]
<1>1. RestProvenance(a) = Decide(<< <<longLib, "lib">>, <<longName, "name">> >>, what)
  BY DEF RestProvenance, Over, Has
<1> DEFINE revision == Solid(a, "revision_id")
           symbol == Solid(a, "lib") \/ Solid(a, "name")
           Long(field, cap) == Solid(a, field) /\ Bytes(Trim(a[field])) > cap
           neither == revision = symbol \/ (Solid(a, "lib") # Solid(a, "name"))
           longRevision == Long("revision_id", 256)
           longSolidLib == Long("lib", 64)
           longSolidName == Long("name", 128)
           either == IF revision
                     THEN [do |-> "revision", in |-> "generated", revision |-> Trim(a.revision_id)]
                     ELSE [do |-> "provenance", in |-> "generated",
                           lib |-> Trim(a.lib), name |-> Trim(a.name)]
<1>2. McpProvenance(a) = Decide(<< <<neither, "revision_id">>, <<longRevision, "revision_id">>,
                                   <<longSolidLib, "lib">>, <<longSolidName, "name">> >>, either)
  BY DEF McpProvenance
<1>3. revision = FALSE /\ Solid(a, "lib") = TRUE /\ Solid(a, "name") = TRUE
  BY DEF Solid, Has
<1>4. neither = FALSE /\ longRevision = FALSE
  <2>1. symbol = TRUE /\ (revision = symbol) = FALSE
    BY <1>3
  <2> HIDE DEF symbol
  <2> QED
    BY <1>3, <2>1
<1>5. longSolidLib = longLib /\ longSolidName = longName
  BY <1>3
<1>6. either = what
  BY <1>3
<1>7. longLib \in BOOLEAN /\ longName \in BOOLEAN
  OBVIOUS
<1> HIDE DEF neither, longRevision, longSolidLib, longSolidName, either, longLib, longName, what
<1>8. McpProvenance(a) = Decide(<< <<FALSE, "revision_id">>, <<FALSE, "revision_id">>,
                                   <<longLib, "lib">>, <<longName, "name">> >>, what)
  BY <1>2, <1>4, <1>5, <1>6
<1> QED
  BY <1>1, <1>7, <1>8, TwoOrFour

LEMMA OffersAlike ==
    ASSUME NEW a
    PROVE  SameCatalog(RestOffers(a)) = SameCatalog(McpOffers(a))
<1>1. CASE Keys(a) = <<>>
  BY <1>1 DEF RestOffers, McpOffers
<1>2. CASE Keys(a) # <<>>
  <2> DEFINE keys == Keys(a)
             checks == << <<Bytes(keys[1]) > 64, "lib">>, <<Bytes(keys[2]) > 128, "name">>,
                          <<Over(a, "value", 256), "value">>, <<Over(a, "package", 64), "package">>,
                          <<Over(a, "market", 8), "market">> >>
             bad == {i \in DOMAIN checks : checks[i][1]}
             catalog == CatalogFor(keys[1])
  <2>1. RestOffers(a) = Decide(checks, Offers(a, "base"))
        /\ McpOffers(a) = Decide(checks, Offers(a, catalog))
    BY <1>2 DEF RestOffers, McpOffers
  <2>2. SameCatalog(Offers(a, "base")) = SameCatalog(Offers(a, catalog))
    BY DEF SameCatalog, Offers
  <2> HIDE DEF checks, catalog
  <2> QED
    BY <2>1, <2>2 DEF Decide, bad
<1> QED
  BY <1>1, <1>2

LEMMA HandlersAlike ==
    ASSUME NEW tool \in Tools, NEW a, IsArguments(a), Shared(tool, a)
    PROVE  SameCatalog(Rest(tool, a)) = SameCatalog(Mcp(tool, a))
<1>1. CASE tool = "search"
  BY <1>1 DEF Rest, Mcp, RestSearch, McpSearch
<1>2. CASE tool = "compatible"
  BY <1>2 DEF Rest, Mcp, RestCompatible, McpCompatible
<1>3. CASE tool = "symbol"
  BY <1>3 DEF Rest, Mcp, RestSymbol, McpSymbol
<1>4. CASE tool = "offers"
  BY <1>4, OffersAlike DEF Rest, Mcp
<1>5. CASE tool = "mpn"
  BY <1>5 DEF Rest, Mcp, RestByMpn, McpByMpn
<1>6. CASE tool = "provenance"
  BY <1>6, ProvenanceAlike DEF Rest, Mcp, Shared, OnRest
<1>7. CASE tool = "libraries"
  BY <1>7 DEF Rest, Mcp
<1> QED
  BY <1>1, <1>2, <1>3, <1>4, <1>5, <1>6, <1>7 DEF Tools, Shared, OnMcp

LEMMA FacesAlike ==
    ASSUME Asking
    PROVE  FacesAskAlike
<1> SUFFICES ASSUME pc # "idle", Shared(call[1], call[2])
             PROVE  /\ SameCatalog(Rest(call[1], call[2])) = SameCatalog(Mcp(call[1], call[2]))
                    /\ ask.do = "offers" /\ ":" \notin Range(ask.lib) =>
                          SplitSymbolId(ask.id) = <<ask.lib, ask.name>>
                    /\ \A e \in Errors : RestStatus(e) < 500 <=> McpCode(e) = "INVALID_PARAMS"
  BY DEF FacesAskAlike
<1>1. call[1] \in Tools /\ IsArguments(call[2]) /\ AsksFor(call[1], call[2], ask)
  BY AskedFor, CallsAssumption DEF Asking, IsCall
<1>2. SameCatalog(Rest(call[1], call[2])) = SameCatalog(Mcp(call[1], call[2]))
  BY <1>1, HandlersAlike
<1>3. ASSUME ask.do = "offers", ":" \notin Range(ask.lib)
      PROVE  SplitSymbolId(ask.id) = <<ask.lib, ask.name>>
  <2>1. PICK catalog : ask = Offers(call[2], catalog) /\ Keys(call[2]) # <<>>
    BY <1>1, <1>3 DEF AsksFor, Search, Compatible
  <2>2. /\ ask.lib = Keys(call[2])[1] /\ ask.name = Keys(call[2])[2]
        /\ ask.id = SymbolId(ask.lib, ask.name)
    BY <2>1 DEF Offers
  <2> QED
    BY <1>1, <1>3, <2>1, <2>2, KeysAreTrimmed, SplitRejoins
<1>4. \A e \in Errors : RestStatus(e) < 500 <=> McpCode(e) = "INVALID_PARAMS"
  BY DEF Errors, RestStatus, McpCode
<1> QED
  BY <1>2, <1>3, <1>4

(* Whatever a client sends, both faces ask the catalogs for the same or    *)
(* refuse the same argument, and the symbol_id of an offer leads back to   *)
(* its symbol (server/src/rest/, server/src/mcp/server.rs).                *)
THEOREM FacesAgree == Spec => []FacesAskAlike
BY AskingHolds, FacesAlike, PTL

-----------------------------------------------------------------------------
(* What a search answers, said of sets of rows: Ranked is what the ranking *)
(* and the dedup need of a set, Spans what it takes to leave a row out.    *)
Ranked(rows) == IsFiniteSet(rows) /\ rows \subseteq Rows

(* At least `limit` symbols of `rows` are no worse than r. *)
Spans(rows, r, limit) ==
    \E top \in SUBSET rows : /\ Cardinality(top) = limit /\ OneRowEach(top)
                             /\ \A t \in top : t.score <= r.score

LEMMA RowFacts ==
    ASSUME NEW r \in Rows
    PROVE  r.score \in Nat /\ Place(r) \in Nat /\ Order[Place(r)] = Id(r)
<1>1. r.score \in Nat /\ \E i \in DOMAIN Order : Order[i] = Id(r)
  BY CatalogsAssumption DEF Id
<1>2. Place(r) \in DOMAIN Order /\ Order[Place(r)] = Id(r)
  BY <1>1 DEF Place
<1> QED
  BY <1>1, <1>2, CatalogsAssumption

LEMMA RankedSubset ==
    ASSUME NEW rows, Ranked(rows), NEW part \in SUBSET rows
    PROVE  Ranked(part) /\ Cardinality(part) \in Nat /\ Cardinality(part) <= Cardinality(rows)
<1>1. IsFiniteSet(part) /\ Cardinality(part) <= Cardinality(rows)
  BY FS_Subset DEF Ranked
<1>2. part \subseteq Rows
  BY DEF Ranked
<1> QED
  BY <1>1, <1>2, FS_CardinalityType DEF Ranked

(* A row that its catalog's search leaves out is no better than any of the *)
(* `limit` rows that it returns.                                           *)
LEMMA TopsSpan ==
    ASSUME NEW match, Ranked(match), NEW limit \in Nat, NEW top \in Tops(match, limit)
    PROVE  /\ top \subseteq match
           /\ Cardinality(match) <= limit => top = match
           /\ \A r \in match \ top : /\ Cardinality(top) = limit
                                     /\ \A t \in top : t.score <= r.score
<1>1. /\ top \subseteq match
      /\ Cardinality(top) = Min({limit, Cardinality(match)})
      /\ \A t \in top, q \in match \ top : ~ByScore(q, t)
  BY DEF Tops, kSubset
<1>2. Cardinality(match) \in Nat
  BY RankedSubset
<1>3. Cardinality(top) = IF limit <= Cardinality(match) THEN limit ELSE Cardinality(match)
  BY <1>1, <1>2, MinOfTwo
<1>4. Cardinality(top) = Cardinality(match) => top = match
  BY <1>1, FS_Subset DEF Ranked
<1>5. Cardinality(match) <= limit => top = match
  BY <1>2, <1>3, <1>4
<1>6. ASSUME NEW r \in match \ top
      PROVE  Cardinality(top) = limit /\ \A t \in top : t.score <= r.score
  <2>1. Cardinality(top) = limit
    BY <1>2, <1>3, <1>4, <1>6
  <2>2. ASSUME NEW t \in top
        PROVE  t.score <= r.score
    <3>1. t.score \in Nat /\ r.score \in Nat
      BY <1>1, <1>6, RowFacts DEF Ranked
    <3>2. ~(r.score < t.score)
      BY <1>1, <1>6 DEF ByScore
    <3> QED
      BY <3>1, <3>2
  <2> QED
    BY <2>1, <2>2
<1> QED
  BY <1>1, <1>5, <1>6

(* The dedup keeps one row for each symbol, and none that is worse than    *)
(* another row of its symbol.                                              *)
LEMMA DedupKeepsBest ==
    ASSUME NEW rows, Ranked(rows), NEW kept \in Deduped(rows)
    PROVE  /\ kept \subseteq rows /\ OneRowEach(kept)
           /\ \A r \in rows : \E k \in kept : Id(k) = Id(r) /\ k.score <= r.score
<1>1. /\ kept \subseteq rows
      /\ \A r \in rows : Cardinality({k \in kept : Id(k) = Id(r)}) = 1
      /\ \A k \in kept, r \in rows : Id(k) = Id(r) => ~ByScore(r, k)
  BY DEF Deduped
<1>2. ASSUME NEW r \in rows
      PROVE  \E k \in kept : {q \in kept : Id(q) = Id(r)} = {k}
  <2> DEFINE same == {q \in kept : Id(q) = Id(r)}
  <2>1. same \in SUBSET rows /\ Cardinality(same) = 1
    BY <1>1
  <2>2. IsFiniteSet(same)
    BY <2>1, RankedSubset DEF Ranked
  <2> HIDE DEF same
  <2>3. PICK k : same = {k}
    BY <2>1, <2>2, FS_Singleton
  <2>4. k \in kept
    BY <2>3 DEF same
  <2> QED
    BY <2>3, <2>4 DEF same
<1>3. OneRowEach(kept)
  BY <1>1, <1>2 DEF OneRowEach
<1>4. ASSUME NEW r \in rows
      PROVE  \E k \in kept : Id(k) = Id(r) /\ k.score <= r.score
  <2>1. PICK k \in kept : Id(k) = Id(r)
    BY <1>2
  <2>2. ~(r.score < k.score)
    BY <1>1, <2>1 DEF ByScore
  <2>3. k.score \in Nat /\ r.score \in Nat
    BY <1>1, RowFacts DEF Ranked
  <2> QED
    BY <2>1, <2>2, <2>3
<1> QED
  BY <1>1, <1>3, <1>4

(* What LIMIT leaves of a set of rows: so many distinct ones, in an order  *)
(* and of which none that is left out comes before one that is not.        *)
LEMMA FirstRows ==
    ASSUME NEW rows, IsFiniteSet(rows), NEW limit \in Nat, NEW s,
           s \in [1 .. Min({limit, Cardinality(rows)}) -> rows],
           \A i, j \in DOMAIN s : i < j => s[i] # s[j]
    PROVE  /\ Len(s) \in Nat /\ DOMAIN s = 1 .. Len(s) /\ Range(s) \subseteq rows
           /\ Len(s) = Min({limit, Cardinality(rows)})
           /\ Len(s) <= limit /\ Len(s) <= Cardinality(rows)
           /\ \A i, j \in DOMAIN s : s[i] = s[j] => i = j
           /\ IsFiniteSet(Range(s)) /\ Cardinality(Range(s)) = Len(s)
<1> DEFINE n == Min({limit, Cardinality(rows)})
<1>1. Cardinality(rows) \in Nat
  BY FS_CardinalityType
<1>2. n \in Nat /\ n <= limit /\ n <= Cardinality(rows)
  BY <1>1, MinOfTwo
<1> HIDE DEF n
<1>3. s \in [1 .. n -> rows]
  BY DEF n
<1>4. Len(s) = n /\ DOMAIN s = 1 .. n /\ Range(s) \subseteq rows
  BY <1>2, <1>3 DEF Range
<1>5. \A i, j \in DOMAIN s : s[i] = s[j] => i = j
  <2> SUFFICES ASSUME NEW i \in DOMAIN s, NEW j \in DOMAIN s, s[i] = s[j], i # j
               PROVE  FALSE
    OBVIOUS
  <2>1. i \in Nat /\ j \in Nat
    BY <1>2, <1>4
  <2>2. i < j \/ j < i
    BY <2>1
  <2> QED
    BY <2>2
<1>6. s \in Bijection(1 .. n, Range(s))
  BY <1>3, <1>4, <1>5 DEF Range, Bijection, Injection, Surjection, IsInjective
<1>7. IsFiniteSet(1 .. n) /\ Cardinality(1 .. n) = n
  BY <1>2, FS_Interval
<1>8. IsFiniteSet(Range(s)) /\ Cardinality(Range(s)) = n
  BY <1>6, <1>7, FS_Bijection DEF ExistsBijection
<1> QED
  BY <1>2, <1>4, <1>5, <1>8 DEF n

(* As many ids as rows. *)
LEMMA IdsOfOneRowEach ==
    ASSUME NEW rows, IsFiniteSet(rows), OneRowEach(rows)
    PROVE  /\ IsFiniteSet({Id(r) : r \in rows})
           /\ Cardinality({Id(r) : r \in rows}) = Cardinality(rows)
<1> DEFINE ids == {Id(r) : r \in rows}
           f == [r \in rows |-> Id(r)]
<1>1. f \in Bijection(rows, ids)
  BY DEF OneRowEach, Bijection, Injection, Surjection, IsInjective
<1> HIDE DEF f, ids
<1>2. IsFiniteSet(ids) /\ Cardinality(ids) = Cardinality(rows)
  BY <1>1, FS_Bijection DEF ExistsBijection
<1> QED
  BY <1>2 DEF ids

(* Nothing that spans the rows is better than what the limit leaves of     *)
(* them: `limit` better symbols would have filled it.                      *)
LEMMA NothingBeatsSpan ==
    ASSUME NEW rows, Ranked(rows), NEW kept \in Deduped(rows), NEW limit \in Nat,
           NEW s \in FirstOf(kept, limit, Better), NEW r \in Rows, Spans(rows, r, limit),
           NEW i \in DOMAIN s, r.score < s[i].score
    PROVE  FALSE
<1>1. /\ kept \subseteq rows /\ OneRowEach(kept)
      /\ \A q \in rows : \E k \in kept : Id(k) = Id(q) /\ k.score <= q.score
  BY DedupKeepsBest
<1>2. IsFiniteSet(kept) /\ kept \subseteq Rows
  BY <1>1, RankedSubset DEF Ranked
<1>3. /\ Len(s) \in Nat /\ DOMAIN s = 1 .. Len(s) /\ Range(s) \subseteq kept /\ Len(s) <= limit
      /\ IsFiniteSet(Range(s)) /\ Cardinality(Range(s)) = Len(s)
  BY <1>2, FirstRows DEF FirstOf
<1>4. \A q \in kept \ Range(s) : ~Better(q, s[i])
  BY DEF FirstOf
<1>5. s[i] \in Range(s)
  BY DEF Range
<1>6. PICK top \in SUBSET rows : /\ Cardinality(top) = limit /\ OneRowEach(top)
                                 /\ \A t \in top : t.score <= r.score
  BY DEF Spans
<1> DEFINE f == [t \in top |-> CHOOSE k \in kept : Id(k) = Id(t) /\ k.score <= t.score]
           rest == Range(s) \ {s[i]}
<1>7. \A t \in top : f[t] \in kept /\ Id(f[t]) = Id(t) /\ f[t].score <= t.score
  BY <1>1
<1> HIDE DEF f
<1>8. ASSUME NEW t \in top
      PROVE  f[t] \in rest
  <2>1. f[t].score \in Nat /\ t.score \in Nat /\ r.score \in Nat /\ s[i].score \in Nat
    BY <1>2, <1>3, <1>5, <1>6, <1>7, RowFacts DEF Ranked
  <2>2. f[t].score < s[i].score
    BY <1>6, <1>7, <2>1
  <2>3. Better(f[t], s[i])
    BY <2>2 DEF Better, ByScore
  <2>4. f[t] # s[i]
    BY <2>1, <2>2
  <2> QED
    BY <1>4, <1>7, <2>3, <2>4
<1>9. f \in Injection(top, rest)
  <2>1. f \in [top -> rest]
    BY <1>8 DEF f
  <2>2. \A t, u \in top : f[t] = f[u] => t = u
    BY <1>6, <1>7 DEF OneRowEach
  <2> QED
    BY <2>1, <2>2 DEF Injection, IsInjective
<1>10. IsFiniteSet(rest) /\ Cardinality(rest) = Len(s) - 1
  <2>1. /\ IsFiniteSet(rest)
        /\ Cardinality(rest) = IF s[i] \in Range(s) THEN Cardinality(Range(s)) - 1
                                                    ELSE Cardinality(Range(s))
    BY <1>3, FS_RemoveElement, Zenon
  <2> QED
    BY <1>3, <1>5, <2>1
<1> HIDE DEF rest
<1>11. Cardinality(top) <= Cardinality(rest)
  BY <1>9, <1>10, FS_Injection
<1> QED
  BY <1>3, <1>6, <1>10, <1>11

(* Of each symbol there is a row that none of its rows is better than. *)
LEMMA BestRowExists ==
    ASSUME NEW rows, Ranked(rows), NEW r \in rows
    PROVE  \E b \in rows : Id(b) = Id(r) /\ \A q \in rows : Id(q) = Id(r) => ~ByScore(q, b)
<1> DEFINE same == {q \in rows : Id(q) = Id(r)}
           scores == {q.score : q \in same}
<1>1. same \in SUBSET rows /\ r \in same
  OBVIOUS
<1>2. IsFiniteSet(same) /\ same \subseteq Rows
  BY <1>1, RankedSubset DEF Ranked
<1>3. IsFiniteSet(scores)
  <2> DEFINE f == [q \in same |-> q.score]
  <2>1. f \in Surjection(same, scores)
    BY DEF Surjection
  <2> HIDE DEF f, scores
  <2> QED
    BY <1>2, <2>1, FS_Surjection
<1>4. scores \in SUBSET Nat /\ scores # {}
  BY <1>1, <1>2, RowFacts
<1>5. PICK m \in scores : \A x \in scores : m <= x
  BY <1>3, <1>4, LeastExists
<1>6. PICK b \in same : b.score = m
  BY <1>5
<1>7. ASSUME NEW q \in same
      PROVE  ~ByScore(q, b)
  <2>1. m <= q.score /\ m \in Nat /\ q.score \in Nat
    BY <1>4, <1>5
  <2> QED
    BY <1>6, <2>1 DEF ByScore
<1> QED
  BY <1>6, <1>7

(* The better of two symbols is decided, by their names if need be. *)
LEMMA BetterDecides ==
    ASSUME NEW a \in Rows, NEW b \in Rows, Id(a) # Id(b), ~Better(b, a)
    PROVE  Better(a, b)
<1>1. /\ a.score \in Nat /\ b.score \in Nat /\ Place(a) \in Nat /\ Place(b) \in Nat
      /\ Place(a) # Place(b)
  BY RowFacts
<1> QED
  BY <1>1 DEF Better, ByScore, ByName

(* The dedup and the limit keep the best of all rows, of those too that    *)
(* were left out before if the ones before them span them.                 *)
LEMMA SelectionIsBest ==
    ASSUME NEW all, Ranked(all), NEW rows \in SUBSET all, NEW limit \in Nat,
           \A r \in all \ rows : Spans(rows, r, limit),
           NEW kept \in Deduped(rows), NEW s \in FirstOf(kept, limit, Better)
    PROVE  /\ BestOf(s, {r \in all : \A q \in all : Id(q) = Id(r) => ~ByScore(q, r)},
                     limit, ByScore)
           /\ \A i, j \in DOMAIN s : i < j => Better(s[i], s[j])
<1> DEFINE best == {r \in all : \A q \in all : Id(q) = Id(r) => ~ByScore(q, r)}
           ids == {Id(s[i]) : i \in DOMAIN s}
           Ids(part) == {Id(r) : r \in part}
<1>0. Ranked(rows) /\ all \subseteq Rows /\ IsFiniteSet(all)
  BY RankedSubset DEF Ranked
<1>1. /\ kept \subseteq rows /\ OneRowEach(kept)
      /\ \A r \in rows : \E k \in kept : Id(k) = Id(r) /\ k.score <= r.score
  BY <1>0, DedupKeepsBest
<1>2. IsFiniteSet(kept) /\ kept \subseteq Rows /\ kept \subseteq all
  BY <1>0, <1>1, RankedSubset DEF Ranked
<1>3. /\ Len(s) \in Nat /\ DOMAIN s = 1 .. Len(s) /\ Range(s) \subseteq kept
      /\ Len(s) = Min({limit, Cardinality(kept)})
      /\ \A i, j \in DOMAIN s : s[i] = s[j] => i = j
      /\ IsFiniteSet(Range(s)) /\ Cardinality(Range(s)) = Len(s)
  BY <1>2, FirstRows DEF FirstOf
<1>4. /\ \A i, j \in DOMAIN s : i < j => ~Better(s[j], s[i])
      /\ \A i \in DOMAIN s : \A r \in kept \ Range(s) : ~Better(r, s[i])
  BY DEF FirstOf
<1>5. \A i \in DOMAIN s : s[i] \in Range(s) /\ s[i] \in kept /\ s[i] \in Rows
  BY <1>2, <1>3 DEF Range
<1>6. ASSUME NEW r \in all, NEW i \in DOMAIN s, r.score < s[i].score
      PROVE  r \in rows
  <2>1. r \in Rows
    BY <1>0
  <2> QED
    BY <1>0, <1>6, <2>1, NothingBeatsSpan
<1>7. Range(s) \subseteq best
  <2> SUFFICES ASSUME NEW i \in DOMAIN s, NEW q \in all, Id(q) = Id(s[i]), ByScore(q, s[i])
               PROVE  FALSE
    BY <1>2, <1>3 DEF Range
  <2>1. q \in rows
    BY <1>6 DEF ByScore
  <2>2. PICK k \in kept : Id(k) = Id(q) /\ k.score <= q.score
    BY <1>1, <2>1
  <2>3. k = s[i]
    BY <1>1, <1>5, <2>2 DEF OneRowEach
  <2>4. k.score \in Nat /\ q.score \in Nat
    BY <1>0, <1>2, RowFacts
  <2> QED
    BY <2>2, <2>3, <2>4 DEF ByScore
<1>8. Cardinality(ids) = Len(s)
  <2>1. OneRowEach(Range(s))
    BY <1>1, <1>3 DEF OneRowEach
  <2>2. ids = Ids(Range(s))
    BY DEF Range
  <2>3. Cardinality(Ids(Range(s))) = Cardinality(Range(s))
    BY <1>3, <2>1, IdsOfOneRowEach
  <2> QED
    BY <1>3, <2>2, <2>3
<1>9. Len(s) = Min({limit, Cardinality(Ids(best))})
  <2>1. Ids(best) = Ids(all)
    <3>1. ASSUME NEW r \in all
          PROVE  \E b \in best : Id(b) = Id(r)
      <4>1. PICK b \in all : Id(b) = Id(r) /\ \A q \in all : Id(q) = Id(r) => ~ByScore(q, b)
        BY BestRowExists
      <4> QED
        BY <4>1
    <3> QED
      BY <3>1
  <2>2. Ids(kept) = Ids(rows)
    BY <1>1
  <2>3. Cardinality(Ids(kept)) = Cardinality(kept)
    BY <1>1, <1>2, IdsOfOneRowEach
  <2>4. CASE rows = all
    BY <1>3, <2>1, <2>2, <2>3, <2>4
  <2>5. CASE rows # all
    <3>1. PICK r \in all : r \notin rows
      BY <2>5
    <3>2. PICK top \in SUBSET rows : Cardinality(top) = limit /\ OneRowEach(top)
      BY <3>1 DEF Spans
    <3>3. IsFiniteSet(top)
      BY <1>0, <3>2, RankedSubset DEF Ranked
    <3>4. Cardinality(Ids(top)) = limit
      BY <3>2, <3>3, IdsOfOneRowEach
    <3>5. IsFiniteSet(Ids(all))
      <4> DEFINE f == [q \in all |-> Id(q)]
      <4>1. f \in Surjection(all, Ids(all))
        BY DEF Surjection
      <4> HIDE DEF f, Ids
      <4> QED
        BY <1>0, <4>1, FS_Surjection
    <3>6. Ids(top) \subseteq Ids(rows) /\ Ids(rows) \subseteq Ids(all)
      BY <3>2
    <3> HIDE DEF Ids
    <3>7. IsFiniteSet(Ids(rows)) /\ Cardinality(Ids(rows)) \in Nat
          /\ Cardinality(Ids(top)) <= Cardinality(Ids(rows))
      BY <3>5, <3>6, FS_Subset, FS_CardinalityType
    <3>8. Cardinality(Ids(all)) \in Nat /\ Cardinality(Ids(rows)) <= Cardinality(Ids(all))
      BY <3>5, <3>6, FS_Subset, FS_CardinalityType
    <3>9. limit <= Cardinality(kept) /\ Cardinality(kept) \in Nat
      BY <2>2, <2>3, <3>4, <3>7
    <3>10. limit <= Cardinality(Ids(all))
      BY <3>4, <3>7, <3>8
    <3>11. Min({limit, Cardinality(kept)}) = limit
      BY <3>9, MinOfTwo
    <3>12. Min({limit, Cardinality(Ids(all))}) = limit
      BY <3>8, <3>10, MinOfTwo
    <3> QED
      BY <1>3, <2>1, <3>11, <3>12
  <2> QED
    BY <2>4, <2>5
<1>10. \A i, j \in DOMAIN s : i < j => ~ByScore(s[j], s[i])
  BY <1>4 DEF Better
<1>11. ASSUME NEW r \in best, NEW i \in DOMAIN s, Id(r) \notin ids, ByScore(r, s[i])
       PROVE  FALSE
  <2>1. r \in rows
    BY <1>6, <1>11 DEF ByScore
  <2>2. PICK k \in kept : Id(k) = Id(r) /\ k.score <= r.score
    BY <1>1, <2>1
  <2>3. k \notin Range(s)
    BY <1>11, <2>2 DEF Range
  <2>4. ~(k.score < s[i].score)
    BY <1>4, <2>2, <2>3 DEF Better, ByScore
  <2>5. k.score \in Nat /\ r.score \in Nat /\ s[i].score \in Nat
    BY <1>0, <1>2, <1>5, RowFacts
  <2> QED
    BY <1>11, <2>2, <2>4, <2>5 DEF ByScore
<1>12. ASSUME NEW i \in DOMAIN s, NEW j \in DOMAIN s, i < j
       PROVE  Better(s[i], s[j])
  <2>0. i # j
    <3>1. i \in Nat /\ j \in Nat
      BY <1>3
    <3> QED
      BY <1>12, <3>1
  <2>1. s[i] # s[j]
    BY <1>3, <2>0, Zenon
  <2>2. Id(s[i]) # Id(s[j])
    BY <1>1, <1>5, <2>1 DEF OneRowEach
  <2> QED
    BY <1>4, <1>5, <1>12, <2>2, BetterDecides
<1>13. BestOf(s, best, limit, ByScore)
  <2> HIDE DEF best
  <2> QED
    BY <1>7, <1>8, <1>9, <1>10, <1>11 DEF BestOf
<1> QED
  BY <1>12, <1>13

-----------------------------------------------------------------------------
(* Where the rows of an answer come from. *)
FromLive(before, pack) ==
    \E found \in Results(pack) :
       answer.rows \in Merged(Official(before) \cup (found \ Official(found)))
Searched ==
    /\ pc = "merge" => items \in Results(Base)
    /\ Answered("search") =>
          \E before \in Results(Base) :
             \/ answer.from = <<>> /\ answer.rows \in Merged(before)
             \/ \E pack \in Packs : answer.from = <<pack>> /\ FromLive(before, pack)

LEMMA AskDecides ==
    ASSUME UNCHANGED ask
    PROVE  \A of : Results(of)' = Results(of) /\ Merged(of)' = Merged(of)
BY DEF Results, Visible, InLib, Matching, Tops, Merged, Deduped, FirstOf

LEMMA SearchedStep ==
    ASSUME Inv, Searched, [Next]_vars
    PROVE  Searched'
<1>1. CASE \E c \in Calls : Arrive(c)
  BY <1>1 DEF Arrive, Searched, Answered
<1>2. CASE Return
  BY <1>2 DEF Return, Searched, Answered
<1>3. CASE SearchRefused
  <2>1. pc' = "answered" /\ answer'.error = "InvalidQuery"
    BY <1>3 DEF SearchRefused, Answer, Failure, Nothing
  <2> QED
    BY <2>1 DEF Searched, Answered
<1>4. CASE SearchBase
  <2>1. Results(Base)' = Results(Base)
    BY <1>4, AskDecides DEF SearchBase
  <2> QED
    BY <1>4, <2>1 DEF SearchBase, Searched, Answered
<1>5. CASE MergeLive
  <2>1. PICK before : before = items
    OBVIOUS
  <2>2. PICK pack \in Packs : live = <<pack>>
    BY <1>5 DEF MergeLive, Inv, Lives
  <2>3. before \in Results(Base)
    BY <1>5, <2>1 DEF MergeLive, Searched
  <2>4. PICK found \in Results(pack) :
          \E rows \in Merged(Official(before) \cup (found \ Official(found))) :
             Answer([error |-> "none", rows |-> rows, from |-> live])
    BY <1>5, <2>1, <2>2 DEF MergeLive
  <2>5. UNCHANGED ask /\ pc' = "answered" /\ answer'.from = <<pack>>
        /\ answer'.rows \in Merged(Official(before) \cup (found \ Official(found)))
    BY <2>2, <2>4 DEF Answer
  <2>6. before \in Results(Base)' /\ found \in Results(pack)'
        /\ answer'.rows \in Merged(Official(before) \cup (found \ Official(found)))'
    <3>1. /\ \A of : Results(of)' = Results(of)
          /\ \A of : Merged(of)' = Merged(of)
      BY <2>5, AskDecides
    <3> QED
      BY <2>3, <2>4, <2>5, <3>1
  <2>7. FromLive(before, pack)'
    BY <2>6 DEF FromLive
  <2> QED
    BY <2>5, <2>6, <2>7 DEF Searched
<1>6. CASE MergeNone
  <2>1. PICK before : before = items
    OBVIOUS
  <2>2. before \in Results(Base)
    BY <1>6, <2>1 DEF MergeNone, Searched
  <2>3. PICK rows \in Merged(before) : Answer([error |-> "none", rows |-> rows, from |-> live])
    BY <1>6, <2>1 DEF MergeNone
  <2>4. /\ UNCHANGED ask /\ pc' = "answered" /\ answer'.from = <<>>
        /\ answer'.rows \in Merged(before)
    BY <1>6, <2>3 DEF Answer, MergeNone
  <2>5. before \in Results(Base)' /\ answer'.rows \in Merged(before)'
    <3>1. /\ \A of : Results(of)' = Results(of)
          /\ \A of : Merged(of)' = Merged(of)
      BY <2>4, AskDecides
    <3> QED
      BY <2>2, <2>4, <3>1
  <2> QED
    BY <2>4, <2>5 DEF Searched
<1>7. CASE CompatibleRefused \/ FindCompatible \/ ListSymbols
  BY <1>7 DEF CompatibleRefused, FindCompatible, ListSymbols, Answer, Inv, Asks, Searched,
              Answered
<1>8. CASE UNCHANGED <<pc, ask, items, answer>>
  <2>1. /\ \A of : Results(of)' = Results(of)
        /\ \A of : Merged(of)' = Merged(of)
    BY <1>8, AskDecides
  <2>2. (pc = "merge" => items \in Results(Base))'
    BY <1>8, <2>1 DEF Searched
  <2>3. ASSUME Answered("search")'
        PROVE  \E before \in Results(Base)' :
                  \/ answer.from' = <<>> /\ answer.rows' \in Merged(before)'
                  \/ \E pack \in Packs : answer.from' = <<pack>> /\ FromLive(before, pack)'
    <3>1. PICK before \in Results(Base) :
             \/ answer.from = <<>> /\ answer.rows \in Merged(before)
             \/ \E pack \in Packs : answer.from = <<pack>> /\ FromLive(before, pack)
      BY <1>8, <2>3 DEF Searched, Answered
    <3>2. before \in Results(Base)'
      BY <2>1
    <3>3. CASE answer.from = <<>> /\ answer.rows \in Merged(before)
      BY <1>8, <2>1, <3>2, <3>3
    <3>4. ASSUME NEW pack \in Packs, answer.from = <<pack>>, FromLive(before, pack)
          PROVE  answer.from' = <<pack>> /\ FromLive(before, pack)'
      <4>1. PICK found \in Results(pack) :
               answer.rows \in Merged(Official(before) \cup (found \ Official(found)))
        BY <3>4 DEF FromLive
      <4>2. /\ found \in Results(pack)'
            /\ answer.rows' \in Merged(Official(before) \cup (found \ Official(found)))'
        BY <1>8, <2>1, <4>1
      <4> QED
        BY <1>8, <3>4, <4>2 DEF FromLive
    <3> QED
      BY <3>1, <3>2, <3>3, <3>4
  <2> QED
    BY <2>2, <2>3 DEF Searched
<1> QED
  BY <1>1, <1>2, <1>3, <1>4, <1>5, <1>6, <1>7, <1>8 DEF Next, Reload, vars

(* What is searched for is a word, and if it is plain FTS5 matches for it, *)
(* once it is rewritten, the rows that it means.                           *)
Asked == ask.do = "search" \/ (ask.do = "compatible" /\ ask.query # <<>>)

LEMMA QueryIsWord ==
    ASSUME Asking, pc # "idle", Asked
    PROVE  IsWord(Query)
<1> DEFINE a == call[2]
<1>1. AsksFor(call[1], a, ask) /\ IsArguments(a) /\ call \in Calls
  BY AskedFor DEF Asking
<1>2. CASE ask.do = "search"
  <2>1. call[1] = "search" /\ ask = Search(a, 20)
    BY <1>1, <1>2 DEF AsksFor, Compatible, Offers
  <2>2. Has(a, "query")
    <3>1. IsCall(call[1], a)
      BY <1>1, CallsAssumption
    <3> QED
      BY <2>1, <3>1 DEF IsCall
  <2>3. Query = a.query
    BY <2>1 DEF Search, Query
  <2> QED
    BY <1>1, <2>2, <2>3 DEF Has, IsArguments
<1>3. CASE ask.do = "compatible" /\ ask.query # <<>>
  <2>1. ask = Compatible(a, 50)
    BY <1>1, <1>3 DEF AsksFor, Search, Offers
  <2>2. ask.query = Optional(a, "query")
    BY <2>1 DEF Compatible
  <2>3. Has(a, "query") /\ Query = a.query
    BY <1>3, <2>2 DEF Optional, Query
  <2> QED
    BY <1>1, <2>3 DEF Has, IsArguments
<1> QED
  BY <1>2, <1>3 DEF Asked

MatchesMeaning(query) ==
    LET text == NormalizeQuery(query) IN
    /\ ~Beyond(text)
    /\ \A r \in Rows : Match(text, r.text) = <<TRUE>> <=> Meant(query, r.text)

LEMMA PlainIsFound ==
    ASSUME NEW query, IsWord(query), Plain(query)
    PROVE  MatchesMeaning(query)
<1>1. \A r \in Rows : \A i \in DOMAIN r.text : IsWord(r.text[i])
  BY CatalogsAssumption
<1> QED
  BY <1>1, PlainMatchesMeant DEF MatchesMeaning

(* What the search of one catalog returns: the first of the rows that the  *)
(* query means.                                                            *)
LEMMA ResultsAreTops ==
    ASSUME MatchesMeaning(ask.query), NEW rows \in SUBSET Rows, NEW found \in Results(rows)
    PROVE  found \in Tops(ShouldFind(rows), ask.limit)
<1>1. Visible(rows) \subseteq rows
  BY DEF Visible, InLib
<1>2. {r \in Visible(rows) : Match(NormalizeQuery(ask.query), r.text) = <<TRUE>>} = ShouldFind(rows)
  BY <1>1 DEF MatchesMeaning, ShouldFind
<1>3. Matching(ask.query, Visible(rows)) = {ShouldFind(rows)}
  BY <1>2 DEF MatchesMeaning, Matching
<1> QED
  BY <1>3 DEF Results

LEMMA FindableRows ==
    ASSUME NEW rows, IsFiniteSet(rows), rows \subseteq Rows
    PROVE  Ranked(ShouldFind(rows)) /\ ShouldFind(rows) \subseteq rows
<1>1. ShouldFind(rows) \subseteq rows
  BY DEF ShouldFind, Visible, InLib
<1>2. Ranked(rows)
  BY DEF Ranked
<1> QED
  BY <1>1, <1>2, RankedSubset

LEMMA SearchAsks ==
    ASSUME Asking, pc # "idle", ask.do = "search"
    PROVE  ask.limit \in Nat /\ (Plain(ask.query) => MatchesMeaning(ask.query))
<1>1. IsWord(ask.query)
  BY QueryIsWord DEF Query, Asked
<1>2. call[1] = "search" /\ ask = Search(call[2], 20) /\ IsArguments(call[2])
  BY AskedFor DEF AsksFor, Compatible, Offers
<1>3. ask.limit = Clamp(call[2], 20)
  BY <1>2 DEF Search
<1>4. ask.limit \in Nat
  BY <1>2, <1>3, ClampType
<1> QED
  BY <1>1, <1>4, PlainIsFound

(* The base alone: what its search leaves out is spanned by what it keeps. *)
LEMMA BaseSpans ==
    ASSUME NEW match, Ranked(match), NEW limit \in Nat, NEW top \in Tops(match, limit),
           NEW r \in match \ top, Cardinality(match) <= limit \/ OneRowEach(match)
    PROVE  OneRowEach(match) /\ Spans(top, r, limit)
<1>1. /\ top \subseteq match /\ top # match
      /\ Cardinality(match) <= limit => top = match
      /\ Cardinality(top) = limit /\ \A t \in top : t.score <= r.score
  BY TopsSpan
<1>2. OneRowEach(match)
  BY <1>1
<1>3. OneRowEach(top)
  BY <1>1, <1>2 DEF OneRowEach
<1> QED
  BY <1>1, <1>2, <1>3 DEF Spans

(* With a live catalog: an official row of the pack that its search        *)
(* returned and the merge drops is kept from the base, or is spanned by    *)
(* what the base returned, and with it all that it spans.                  *)
LEMMA MergedSpans ==
    ASSUME OneScore, NEW limit \in Nat, NEW pack \in Packs,
           NEW before \in Tops(ShouldFind(Base), limit),
           NEW found \in Tops(ShouldFind(pack), limit),
           \/ Cardinality(ShouldFind(Base)) <= limit
           \/ OneRowEach(ShouldFind(Base)) /\ ShouldFind(Base) = Official(ShouldFind(Base)),
           Cardinality(ShouldFind(pack)) <= limit \/ OneRowEach(ShouldFind(pack)),
           NEW r \in (Official(ShouldFind(Base)) \cup (ShouldFind(pack) \ Official(Base)))
                       \ (Official(before) \cup (found \ Official(found)))
    PROVE  Spans(Official(before) \cup (found \ Official(found)), r, limit)
<1> DEFINE base == ShouldFind(Base)
           rows == Official(before) \cup (found \ Official(found))
<1>1. Ranked(base) /\ base \subseteq Base
  BY FindableRows, CatalogsAssumption DEF Rows
<1>2. Ranked(ShouldFind(pack)) /\ ShouldFind(pack) \subseteq pack
  BY FindableRows, CatalogsAssumption DEF Rows
<1>3. before \subseteq base /\ found \subseteq ShouldFind(pack)
  BY <1>1, <1>2, TopsSpan
<1>4. ASSUME NEW q \in base \ before, q.score <= r.score
      PROVE  Spans(rows, r, limit)
  <2>1. OneRowEach(base) /\ Spans(before, q, limit) /\ base = Official(base)
    <3>1. Cardinality(base) <= limit => before = base
      BY <1>1, TopsSpan
    <3>2. OneRowEach(base) /\ base = Official(base)
      BY <1>4, <3>1
    <3> QED
      BY <1>1, <1>4, <3>2, BaseSpans
  <2>2. before \subseteq rows
    BY <1>3, <2>1 DEF Official
  <2>3. PICK top \in SUBSET before : /\ Cardinality(top) = limit /\ OneRowEach(top)
                                     /\ \A t \in top : t.score <= q.score
    BY <2>1 DEF Spans
  <2>4. \A t \in top : t.score <= r.score
    <3>1. before \subseteq Rows /\ q \in Rows /\ r \in Rows
      BY <1>1, <1>2, <1>3 DEF Ranked, Official
    <3> QED
      BY <1>4, <2>3, <3>1, RowFacts
  <2> QED
    BY <2>2, <2>3, <2>4 DEF Spans
<1>5. CASE r \in Official(base)
  <2>1. r \in base \ before /\ r.source = "official"
    BY <1>5 DEF Official
  <2>2. r.score <= r.score
    BY <1>1, <2>1, RowFacts DEF Ranked
  <2> QED
    BY <1>4, <2>1, <2>2
<1>6. CASE r \in ShouldFind(pack) \ Official(Base)
  <2>1. r \notin Official(pack)
    BY <1>2, <1>6 DEF OneScore, Official
  <2>2. r \notin found
    BY <1>2, <1>6, <2>1 DEF Official
  <2>3. Spans(found, r, limit)
    BY <1>2, <1>6, <2>2, BaseSpans
  <2>4. PICK top \in SUBSET found : /\ Cardinality(top) = limit /\ OneRowEach(top)
                                    /\ \A t \in top : t.score <= r.score
    BY <2>3 DEF Spans
  <2>5. CASE top \subseteq rows
    BY <2>4, <2>5 DEF Spans
  <2>6. CASE ~(top \subseteq rows)
    <3>1. PICK o \in top : o \notin rows
      BY <2>6
    <3>2. o \in ShouldFind(pack) /\ o \in Official(pack) /\ o.score <= r.score
      BY <1>2, <1>3, <2>4, <3>1 DEF Official
    <3>3. o \in base
      BY <3>2 DEF OneScore, Official, ShouldFind, Visible, InLib
    <3>4. o \notin before
      BY <3>1, <3>2 DEF Official
    <3> QED
      BY <1>4, <3>2, <3>3, <3>4
  <2> QED
    BY <2>5, <2>6
<1> QED
  BY <1>5, <1>6

LEMMA SearchIsComplete ==
    ASSUME OneScore, Asking, Searched
    PROVE  Complete
<1> DEFINE base == ShouldFind(Base)
           found == IF answer.from = <<>> THEN {} ELSE ShouldFind(answer.from[1])
           all == IF answer.from = <<>> THEN base ELSE Official(base) \cup (found \ Official(Base))
           best == {r \in all : \A q \in all : Id(q) = Id(r) => ~ByScore(q, r)}
           Fits(rows) == Cardinality(rows) <= ask.limit
<1> SUFFICES ASSUME Answered("search"), Plain(ask.query),
                    Fits(base) \/ (OneRowEach(base) /\ (answer.from # <<>> => base = Official(base))),
                    Fits(found) \/ OneRowEach(found)
             PROVE  /\ BestOf(answer.rows, best, ask.limit, ByScore)
                    /\ \A i, j \in DOMAIN answer.rows : i < j => Better(answer.rows[i], answer.rows[j])
  BY DEF Complete
<1>1. ask.limit \in Nat /\ MatchesMeaning(ask.query)
  BY SearchAsks DEF Answered
<1>2. PICK before \in Results(Base) :
         \/ answer.from = <<>> /\ answer.rows \in Merged(before)
         \/ \E pack \in Packs : answer.from = <<pack>> /\ FromLive(before, pack)
  BY DEF Searched
<1>3. before \in Tops(base, ask.limit)
  BY <1>1, <1>2, ResultsAreTops DEF Rows
<1>4. Ranked(base) /\ base \subseteq Base
  BY FindableRows, CatalogsAssumption DEF Rows
<1>5. CASE answer.from = <<>> /\ answer.rows \in Merged(before)
  <2>1. PICK kept \in Deduped(before) : answer.rows \in FirstOf(kept, ask.limit, Better)
    BY <1>5 DEF Merged
  <2>2. before \subseteq base
    BY <1>1, <1>3, <1>4, TopsSpan
  <2>3. \A r \in base \ before : Spans(before, r, ask.limit)
    BY <1>1, <1>3, <1>4, BaseSpans
  <2>4. all = base
    BY <1>5
  <2> HIDE DEF all, base
  <2> QED
    BY <1>1, <1>4, <2>1, <2>2, <2>3, <2>4, SelectionIsBest
<1>6. ASSUME NEW pack \in Packs, answer.from = <<pack>>, FromLive(before, pack)
      PROVE  /\ BestOf(answer.rows, best, ask.limit, ByScore)
             /\ \A i, j \in DOMAIN answer.rows : i < j => Better(answer.rows[i], answer.rows[j])
  <2>1. found = ShouldFind(pack) /\ all = Official(base) \cup (ShouldFind(pack) \ Official(Base))
    BY <1>6
  <2>2. PICK returned \in Results(pack) :
           answer.rows \in Merged(Official(before) \cup (returned \ Official(returned)))
    BY <1>6 DEF FromLive
  <2> DEFINE rows == Official(before) \cup (returned \ Official(returned))
  <2>3. PICK kept \in Deduped(rows) : answer.rows \in FirstOf(kept, ask.limit, Better)
    BY <2>2 DEF Merged
  <2>4. returned \in Tops(ShouldFind(pack), ask.limit)
    BY <1>1, <2>2, ResultsAreTops DEF Rows
  <2>5. Ranked(ShouldFind(pack)) /\ ShouldFind(pack) \subseteq pack
    BY FindableRows, CatalogsAssumption DEF Rows
  <2>6. before \subseteq base /\ returned \subseteq ShouldFind(pack)
    BY <1>1, <1>3, <1>4, <2>4, <2>5, TopsSpan
  <2>7. rows \subseteq all
    BY <2>1, <2>6 DEF Official
  <2>8. Ranked(all)
    <3>1. IsFiniteSet(base \cup ShouldFind(pack)) /\ base \cup ShouldFind(pack) \subseteq Rows
      BY <1>4, <2>5, FS_Union DEF Ranked
    <3>2. all \subseteq base \cup ShouldFind(pack)
      BY <2>1 DEF Official
    <3> QED
      BY <3>1, <3>2, FS_Subset DEF Ranked
  <2>9. \A r \in all \ rows : Spans(rows, r, ask.limit)
    <3>1. base = ShouldFind(Base)
      OBVIOUS
    <3> QED
      BY <1>1, <1>3, <1>6, <2>1, <2>4, MergedSpans
  <2> HIDE DEF all, base, rows
  <2> QED
    BY <1>1, <2>3, <2>7, <2>8, <2>9, SelectionIsBest
<1> QED
  BY <1>2, <1>5, <1>6

(* README.md 60 and search.rs 138-171, state.rs 80-143: an answer is the   *)
(* best of all the rows that the query means, whatever catalog they are    *)
(* in, each symbol once and in order, for any catalogs, calls and scores,  *)
(* if an official row has the same score in either.                        *)
THEOREM AnswersAreComplete ==
    ASSUME OneScore
    PROVE  Spec => []Complete
<1>1. Init => Searched
  BY DEF Init, Searched, Answered
<1>2. Inv /\ Searched /\ [Next]_vars => Searched'
  BY SearchedStep
<1>3. Inv /\ [Next]_vars => Inv'
  BY ReloadSafe, ArriveSafe, SearchSafe, MergeSafe, OthersSafe, Stutters DEF Next
<1>4. Asking /\ Searched => Complete
  BY SearchIsComplete
<1> QED
  BY Initially, <1>1, <1>2, <1>3, <1>4, AskingHolds, PTL DEF Spec

-----------------------------------------------------------------------------
(* find_compatible.  The rows it chooses from, without and with a query.   *)
Says(word, part) == Contained(Lowered(part), Lowered(word))
Literal == {r \in Base :
    /\ r.source = "official"
    /\ ask.lib # <<>> => ask.lib[1] = r.lib
    /\ ask.pins # <<>> => ask.pins[1] = r.pins
    /\ ask.fp # <<>> => Says(r.text[4], ask.fp[1]) \/ Says(r.footprint, ask.fp[1])
    /\ ask.query # <<>> => Meant(ask.query[1], r.text)}

Chosen == Answered("compatible") => answer.rows \in Compatibles

LEMMA ChosenStep ==
    ASSUME Inv, Chosen, [Next]_vars
    PROVE  Chosen'
<1>1. UNCHANGED ask => Compatibles' = Compatibles
  BY DEF Compatibles, FirstOf, Passing, InLib, Matching
<1>2. CASE FindCompatible
  <2>1. PICK rows \in Compatibles : Answer([Nothing EXCEPT !.rows = rows])
    BY <1>2 DEF FindCompatible
  <2> QED
    BY <1>1, <2>1 DEF Answer, Nothing, Chosen
<1>3. CASE CompatibleRefused
  <2>1. answer'.error = "InvalidQuery"
    BY <1>3 DEF CompatibleRefused, Answer, Failure, Nothing
  <2> QED
    BY <2>1 DEF Chosen, Answered
<1>4. CASE \E c \in Calls : Arrive(c)
  BY <1>4 DEF Arrive, Chosen, Answered
<1>5. CASE Return
  BY <1>5 DEF Return, Chosen, Answered
<1>6. CASE SearchRefused \/ SearchBase \/ MergeLive \/ MergeNone \/ ListSymbols
  BY <1>6 DEF SearchRefused, SearchBase, MergeLive, MergeNone, ListSymbols, Answer, Inv, Asks,
              Chosen, Answered
<1>7. CASE UNCHANGED <<pc, ask, items, answer>>
  BY <1>1, <1>7 DEF Chosen, Answered
<1> QED
  BY <1>2, <1>3, <1>4, <1>5, <1>6, <1>7 DEF Next, Reload, vars

LEMMA CompatibleAsks ==
    ASSUME Asking, pc # "idle", ask.do = "compatible"
    PROVE  /\ ask.limit \in Nat
           /\ ask.query # <<>> /\ Plain(ask.query[1]) => MatchesMeaning(ask.query[1])
           /\ ask.lib = <<>> \/ \E x : ask.lib = <<x>>
           /\ ask.pins = <<>> \/ \E x : ask.pins = <<x>>
           /\ ask.fp = <<>> \/ \E x : IsWord(x) /\ ask.fp = <<x>>
<1> DEFINE a == call[2]
<1>1. ask.query # <<>> => IsWord(ask.query[1])
  BY QueryIsWord DEF Query, Asked
<1>2. call[1] = "compatible" /\ ask = Compatible(a, 50) /\ IsArguments(a)
  BY AskedFor DEF AsksFor, Search, Offers
<1> HIDE DEF a
<1>3. /\ ask.query = Optional(a, "query") /\ ask.limit = Clamp(a, 50) /\ ask.lib = Optional(a, "lib")
      /\ ask.pins = Optional(a, "pins") /\ ask.fp = Optional(a, "fp_pattern")
  BY <1>2 DEF Compatible
<1>4. ask.limit \in Nat
  BY <1>2, <1>3, ClampType
<1>5. Has(a, "fp_pattern") => IsWord(a.fp_pattern)
  BY <1>2 DEF Has, IsArguments
<1> QED
  BY <1>1, <1>3, <1>4, <1>5, PlainIsFound DEF Optional

(* What passes the filters of the SQL meets them as they were written. *)
LEMMA PassingIsLiteral ==
    ASSUME Asking, pc # "idle", ask.do = "compatible"
    PROVE  Literal = {r \in Passing : ask.query # <<>> => Meant(ask.query[1], r.text)}
<1>1. ASSUME NEW r \in Base, NEW x, IsWord(x)
      PROVE  /\ Like(r.text[4], Pattern(x)) <=> Says(r.text[4], x)
             /\ Like(r.footprint, Pattern(x)) <=> Says(r.footprint, x)
  <2>1. IsWord(r.text[4]) /\ IsWord(r.footprint)
    <3>1. r \in Rows /\ 4 \in 1 .. 4
      BY DEF Rows
    <3> QED
      BY <3>1, CatalogsAssumption
  <2> QED
    BY <1>1, <2>1, EscapeIsLiteral DEF Pattern, Says
<1>2. ASSUME NEW r \in Base
      PROVE  (\A i \in DOMAIN ask.fp : \/ Like(r.text[4], Pattern(ask.fp[i]))
                                         \/ Like(r.footprint, Pattern(ask.fp[i])))
             <=> (ask.fp # <<>> => Says(r.text[4], ask.fp[1]) \/ Says(r.footprint, ask.fp[1]))
  <2>1. CASE ask.fp = <<>>
    BY <2>1
  <2>2. ASSUME NEW x, IsWord(x), ask.fp = <<x>>
        PROVE  (\A i \in DOMAIN ask.fp : \/ Like(r.text[4], Pattern(ask.fp[i]))
                                           \/ Like(r.footprint, Pattern(ask.fp[i])))
               <=> (ask.fp # <<>> => Says(r.text[4], ask.fp[1]) \/ Says(r.footprint, ask.fp[1]))
    <3>1. DOMAIN ask.fp = {1} /\ ask.fp[1] = x /\ ask.fp # <<>>
      BY <2>2
    <3> QED
      BY <1>1, <2>2, <3>1
  <2> QED
    BY <2>1, <2>2, CompatibleAsks
<1>3. \A r : r \in Official(InLib(Base, ask.lib))
             <=> r \in Base /\ r.source = "official" /\ (ask.lib # <<>> => ask.lib[1] = r.lib)
  BY CompatibleAsks DEF Official, InLib
<1>4. \A r : ask.pins = <<>> \/ ask.pins = <<r.pins>> <=> (ask.pins # <<>> => ask.pins[1] = r.pins)
  BY CompatibleAsks
<1> QED
  BY <1>2, <1>3, <1>4 DEF Literal, Passing

(* LIMIT on rows of different symbols. *)
LEMMA FirstIsBest ==
    ASSUME NEW rows, IsFiniteSet(rows), OneRowEach(rows), NEW limit \in Nat, NEW s
    PROVE  /\ s \in FirstOf(rows, limit, ByPins) => BestOf(s, rows, limit, ByPins)
           /\ s \in FirstOf(rows, limit, ByScore) => BestOf(s, rows, limit, ByScore)
<1> DEFINE ids == {Id(s[i]) : i \in DOMAIN s}
           all == {Id(r) : r \in rows}
<1>1. ASSUME s \in [1 .. Min({limit, Cardinality(rows)}) -> rows],
             \A i, j \in DOMAIN s : i < j => s[i] # s[j]
      PROVE  /\ Range(s) \subseteq rows /\ Cardinality(ids) = Len(s)
             /\ Len(s) = Min({limit, Cardinality(all)})
             /\ \A r \in rows : Id(r) \notin ids => r \in rows \ Range(s)
  <2>1. /\ Range(s) \subseteq rows /\ Len(s) = Min({limit, Cardinality(rows)})
        /\ IsFiniteSet(Range(s)) /\ Cardinality(Range(s)) = Len(s)
    BY <1>1, FirstRows
  <2>2. ids = {Id(r) : r \in Range(s)}
    BY DEF Range
  <2>3. OneRowEach(Range(s))
    BY <2>1 DEF OneRowEach
  <2>4. Cardinality({Id(r) : r \in Range(s)}) = Cardinality(Range(s))
    BY <2>1, <2>3, IdsOfOneRowEach
  <2>5. Cardinality(all) = Cardinality(rows)
    BY IdsOfOneRowEach
  <2>6. \A r \in Range(s) : Id(r) \in ids
    BY <2>2
  <2> HIDE DEF ids, all
  <2> QED
    BY <2>1, <2>2, <2>4, <2>5, <2>6
<1>2. ASSUME s \in FirstOf(rows, limit, ByPins)
      PROVE  BestOf(s, rows, limit, ByPins)
  <2>1. /\ s \in [1 .. Min({limit, Cardinality(rows)}) -> rows]
        /\ \A i, j \in DOMAIN s : i < j => s[i] # s[j] /\ ~ByPins(s[j], s[i])
        /\ \A i \in DOMAIN s : \A r \in rows \ Range(s) : ~ByPins(r, s[i])
    BY <1>2 DEF FirstOf
  <2>2. /\ Range(s) \subseteq rows /\ Cardinality(ids) = Len(s)
        /\ Len(s) = Min({limit, Cardinality(all)})
        /\ \A r \in rows : Id(r) \notin ids => r \in rows \ Range(s)
    BY <1>1, <2>1
  <2> QED
    BY <2>1, <2>2 DEF BestOf
<1>3. ASSUME s \in FirstOf(rows, limit, ByScore)
      PROVE  BestOf(s, rows, limit, ByScore)
  <2>1. /\ s \in [1 .. Min({limit, Cardinality(rows)}) -> rows]
        /\ \A i, j \in DOMAIN s : i < j => s[i] # s[j] /\ ~ByScore(s[j], s[i])
        /\ \A i \in DOMAIN s : \A r \in rows \ Range(s) : ~ByScore(r, s[i])
    BY <1>3 DEF FirstOf
  <2>2. /\ Range(s) \subseteq rows /\ Cardinality(ids) = Len(s)
        /\ Len(s) = Min({limit, Cardinality(all)})
        /\ \A r \in rows : Id(r) \notin ids => r \in rows \ Range(s)
    BY <1>1, <2>1
  <2> QED
    BY <2>1, <2>2 DEF BestOf
<1> QED
  BY <1>2, <1>3

LEMMA ChosenIsLiteral ==
    ASSUME Asking, Chosen
    PROVE  CompatibleLiteral
<1> SUFFICES ASSUME Answered("compatible"), ask.query = <<>> \/ Plain(ask.query[1])
             PROVE  IF ask.query = <<>> THEN BestOf(answer.rows, Literal, ask.limit, ByPins)
                    ELSE BestOf(answer.rows, Literal, ask.limit, ByScore)
  BY DEF CompatibleLiteral, Literal, Says
<1>1. pc # "idle" /\ ask.do = "compatible" /\ answer.rows \in Compatibles
  BY DEF Answered, Chosen
<1>2. ask.limit \in Nat /\ (ask.query # <<>> => MatchesMeaning(ask.query[1]))
  BY <1>1, CompatibleAsks
<1>3. Literal = {r \in Passing : ask.query # <<>> => Meant(ask.query[1], r.text)}
  BY <1>1, PassingIsLiteral
<1>4. Passing \subseteq Base /\ Literal \subseteq Passing /\ Base \subseteq Rows
  BY <1>3 DEF Passing, Official, InLib, Rows
<1>5. IsFiniteSet(Literal) /\ OneRowEach(Literal)
  <2>1. IsFiniteSet(Base)
    BY CatalogsAssumption
  <2>2. \A r \in Literal : r \in Base /\ r.source = "official"
    BY DEF Literal
  <2> QED
    BY <1>4, <2>1, <2>2, FS_Subset, CatalogsAssumption DEF OneRowEach, Id
<1>6. CASE ask.query = <<>>
  <2>1. Literal = Passing
    BY <1>3, <1>6
  <2>2. answer.rows \in FirstOf(Literal, ask.limit, ByPins)
    BY <1>1, <1>6, <2>1 DEF Compatibles
  <2> QED
    BY <1>2, <1>5, <1>6, <2>2, FirstIsBest
<1>7. CASE ask.query # <<>>
  <2>1. {r \in Passing : Match(NormalizeQuery(ask.query[1]), r.text) = <<TRUE>>} = Literal
    BY <1>2, <1>3, <1>4, <1>7 DEF MatchesMeaning
  <2>2. Matching(ask.query[1], Passing) = {Literal}
    BY <1>2, <1>7, <2>1 DEF MatchesMeaning, Matching
  <2>3. answer.rows \in FirstOf(Literal, ask.limit, ByScore)
    BY <1>1, <1>7, <2>2 DEF Compatibles
  <2> QED
    BY <1>2, <1>5, <1>7, <2>3, FirstIsBest
<1> QED
  BY <1>6, <1>7

(* search.rs 560-673: find_compatible answers with the first of all the    *)
(* official symbols whose footprints contain the pattern as it is written, *)
(* for any word and any text: the pattern it hands to LIKE has no          *)
(* metacharacter left but the two at its ends.                             *)
THEOREM CompatiblesAreLiteral == Spec => []CompatibleLiteral
<1>1. Init => Chosen
  BY DEF Init, Chosen, Answered
<1>2. Inv /\ Chosen /\ [Next]_vars => Chosen'
  BY ChosenStep
<1>3. Inv /\ [Next]_vars => Inv'
  BY ReloadSafe, ArriveSafe, SearchSafe, MergeSafe, OthersSafe, Stutters DEF Next
<1>4. Asking /\ Chosen => CompatibleLiteral
  BY ChosenIsLiteral
<1> QED
  BY Initially, <1>1, <1>2, <1>3, <1>4, AskingHolds, PTL DEF Spec

-----------------------------------------------------------------------------
(* Refusals.  An answer says of its query what FTS5 says of its rewriting: *)
(* the search has gone on to merge only if that was accepted.              *)
MayBeRefused == TRUE \in Refuses(Query)
MayPass == FALSE \in Refuses(Query)
Judged ==
    /\ pc = "merge" => MayPass
    /\ pc = "answered" /\ Asked => IF answer.error = "InvalidQuery" THEN MayBeRefused ELSE MayPass

LEMMA JudgedStep ==
    ASSUME Inv, Judged, [Next]_vars
    PROVE  Judged'
<1>1. UNCHANGED ask => Query' = Query /\ (Asked' <=> Asked)
  BY DEF Query, Asked
<1>2. UNCHANGED ask => (MayBeRefused' <=> MayBeRefused) /\ (MayPass' <=> MayPass)
  BY <1>1 DEF Refuses, MayBeRefused, MayPass
<1>3. CASE SearchRefused
  <2>1. pc' = "answered" /\ UNCHANGED ask /\ answer'.error = "InvalidQuery"
    BY <1>3 DEF SearchRefused, Answer, Failure, Nothing
  <2>2. MayBeRefused
    BY <1>3 DEF SearchRefused, Inv, Asks, Query, MayBeRefused
  <2> QED
    BY <1>2, <2>1, <2>2 DEF Judged
<1>4. CASE SearchBase
  <2>1. pc' = "merge" /\ UNCHANGED ask
    BY <1>4 DEF SearchBase
  <2>2. MayPass
    BY <1>4 DEF SearchBase, Inv, Asks, Query, MayPass
  <2> QED
    BY <1>2, <2>1, <2>2 DEF Judged
<1>5. CASE MergeLive \/ MergeNone
  <2>1. /\ pc = "merge" /\ pc' = "answered" /\ UNCHANGED ask
        /\ answer'.error = "none"
    <3>1. CASE MergeLive
      BY <3>1 DEF MergeLive, Answer
    <3>2. CASE MergeNone
      BY <3>2 DEF MergeNone, Answer
    <3> QED
      BY <1>5, <3>1, <3>2
  <2> QED
    BY <1>2, <2>1 DEF Judged
<1>6. CASE CompatibleRefused
  <2>1. pc' = "answered" /\ UNCHANGED ask /\ answer'.error = "InvalidQuery"
    BY <1>6 DEF CompatibleRefused, Answer, Failure, Nothing
  <2>2. MayBeRefused
    BY <1>6 DEF CompatibleRefused, Inv, Asks, Query, MayBeRefused
  <2> QED
    BY <1>2, <2>1, <2>2 DEF Judged
<1>7. CASE FindCompatible
  <2>1. pc' = "answered" /\ UNCHANGED ask /\ answer'.error = "none"
    BY <1>7 DEF FindCompatible, Answer, Nothing
  <2>2. Asked => MayPass
    BY <1>7 DEF FindCompatible, Inv, Asks, Query, Asked, MayPass
  <2> QED
    BY <1>1, <1>2, <2>1, <2>2 DEF Judged
<1>8. CASE \E c \in Calls : Arrive(c)
  <2>1. pc' # "merge" /\ (pc' = "answered" => ask'.do \notin {"search", "compatible"})
    BY <1>8 DEF Arrive
  <2> QED
    BY <2>1 DEF Judged, Asked
<1>9. CASE ListSymbols
  <2>1. pc' = "answered" /\ ask'.do = "list"
    BY <1>9 DEF ListSymbols, Answer, Inv, Asks
  <2> QED
    BY <2>1 DEF Judged, Asked
<1>10. CASE Return
  BY <1>10 DEF Return, Judged
<1>11. CASE UNCHANGED <<pc, ask, answer>>
  BY <1>1, <1>2, <1>11 DEF Judged
<1> QED
  BY <1>3, <1>4, <1>5, <1>6, <1>7, <1>8, <1>9, <1>10, <1>11 DEF Next, Reload, vars

LEMMA JudgedForCause ==
    ASSUME Asking, Judged
    PROVE  RefusedForCause
<1> SUFFICES ASSUME pc = "answered", Asked, ~Beyond(Query), "+" \notin Range(Query)
             PROVE  answer.error = "InvalidQuery" <=> ~Accepts(Query)
  BY DEF RefusedForCause, Asked
<1>1. IsWord(Query)
  BY QueryIsWord
<1>2. ~Beyond(NormalizeQuery(Query)) /\ (Accepts(NormalizeQuery(Query)) <=> Accepts(Query))
  BY <1>1, RewritingRefusesNothing
<1>3. Refuses(Query) = {~Accepts(NormalizeQuery(Query))}
  BY <1>2 DEF Refuses
<1>4. CASE answer.error = "InvalidQuery"
  <2>1. TRUE \in Refuses(Query)
    BY <1>4 DEF Judged, MayBeRefused
  <2> QED
    BY <1>2, <1>3, <1>4, <2>1
<1>5. CASE answer.error # "InvalidQuery"
  <2>1. FALSE \in Refuses(Query)
    BY <1>5 DEF Judged, MayPass
  <2> QED
    BY <1>2, <1>3, <1>5, <2>1
<1> QED
  BY <1>4, <1>5

(* search.rs 130-171: whatever the query, a client is told that it is      *)
(* invalid if and only if FTS5 refuses it as it was written; the terms     *)
(* that the rewriting joins, pads and puts in parentheses are always read  *)
(* again as one expression.                                                *)
THEOREM RefusalsHaveCause == Spec => []RefusedForCause
<1>1. Init => Judged
  BY DEF Init, Judged
<1>2. Inv /\ Judged /\ [Next]_vars => Judged'
  BY JudgedStep
<1>3. Inv /\ [Next]_vars => Inv'
  BY ReloadSafe, ArriveSafe, SearchSafe, MergeSafe, OthersSafe, Stutters DEF Next
<1>4. Asking /\ Judged => RefusedForCause
  BY JudgedForCause
<1> QED
  BY Initially, <1>1, <1>2, <1>3, <1>4, AskingHolds, PTL DEF Spec
=============================================================================
