------------------------------- MODULE Words -------------------------------
(* Words, the sequences of letters that texts and arguments are made of (a *)
(* letter may stand for several that are never told apart).                *)
EXTENDS Integers, SequencesExt

CONSTANT Lower  \* the lower-case letter of each upper-case one

IsWord(raw) == Len(raw) \in Nat /\ raw = [i \in 1 .. Len(raw) |-> raw[i]]

LowerOf(letter) == IF letter \in DOMAIN Lower THEN Lower[letter] ELSE letter
Lowered(word) == [i \in DOMAIN word |-> LowerOf(word[i])]
Blank(letter) == letter = " "

Trim(raw) == LET solid == {i \in DOMAIN raw : ~Blank(raw[i])} IN
             IF solid = {} THEN <<>> ELSE SubSeq(raw, Min(solid), Max(solid))

(* The letters of a word without the dropped ones, each run of letters     *)
(* that are not apart as one piece.                                        *)
Grown(pieces, letter) == [pieces EXCEPT ![Len(pieces)] = Append(@, letter)]
AddLetter(word, apart, dropped, before, n) ==
    IF word[n] \in dropped THEN before
    ELSE IF n > 1 /\ {word[n - 1], word[n]} \cap apart = {} THEN Grown(before, word[n])
    ELSE Append(before, <<word[n]>>)
Pieces(word, apart, dropped) ==
    LET out[n \in 0 .. Len(word)] ==
            IF n = 0 THEN <<>> ELSE AddLetter(word, apart, dropped, out[n - 1], n)
    IN  out[Len(word)]

Runs(word, apart) == Pieces(word, apart, apart)

Contained(part, word) == \E i \in 0 .. Len(word) - Len(part) : IsPrefix(part, SubSeq(word, i + 1, Len(word)))
=============================================================================
