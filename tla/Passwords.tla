----------------------------- MODULE Passwords -----------------------------
(***************************************************************************)
(* The arithmetic of the password generator (commands/generator.rs) and of *)
(* the password score (commands/entries.rs), as functions.  A character is *)
(* its index in the character set.  Entropy and strength, computed in      *)
(* floating point, are left out.                                           *)
(***************************************************************************)
EXTENDS Naturals, Sequences, SequencesExt, FiniteSets

\* The character classes, by their sizes.
Classes == [upper |-> 26, lower |-> 26, numbers |-> 10, symbols |-> 26]

\* The size of the character set for the classes that are selected.
CharsetLen(selected) ==
    LET sizes == SetToSeq(selected)
    IN FoldLeft(LAMBDA n, c : n + Classes[c], 0, sizes)

\* What is refused: lengths out of range, and no class at all.
Accepts(length, selected) == length \in 4..256 /\ selected # {}

\* The bytes that may be used: as many whole character sets as fit.
MaxValid(n) == (256 \div n) * n

\* The characters a stream of random bytes gives: one from each byte below
\* MaxValid, the others are drawn again.
Drawn(n, bytes) ==
    LET used == SelectSeq(bytes, LAMBDA b : b < MaxValid(n))
    IN [k \in DOMAIN used |-> used[k] % n]

\* compute_pwd_score, from the length and the kinds of characters.
Score(length, kinds) ==
    IF length = 0 THEN 0
    ELSE LET at(n, points) == IF length >= n THEN points ELSE 0
             has(k, points) == IF k \in kinds THEN points ELSE 0
             sum == at(8, 20) + at(12, 10) + at(16, 10) + at(24, 10)
                    + has("upper", 15) + has("lower", 15) + has("numbers", 10)
                    + has("symbols", 10)
         IN IF sum > 100 THEN 100 ELSE sum
-----------------------------------------------------------------------------
Selections == SUBSET (DOMAIN Classes) \ {{}}

\* Every character is as likely as every other, in each of the fifteen
\* character sets: equally many of the 256 bytes give it (generator.rs line
\* 47; byte % n alone would favour the first ones).
ASSUME Uniform ==
    \A selected \in Selections :
       LET n == CharsetLen(selected)
           Gives(c) == {b \in 0..255 : Drawn(n, <<b>>) = <<c>>}
       IN \A c \in 0..(n - 1) : Cardinality(Gives(c)) = 256 \div n

\* More than half of all bytes are used, so the loop ends.
ASSUME MostBytesCount ==
    \A selected \in Selections : MaxValid(CharsetLen(selected)) > 128

\* A byte is one character or none, whatever came before it.
ASSUME BytesAreIndependent ==
    \A a, b \in {0, 87, 88, 175, 176, 255} :
       Drawn(88, <<a, b>>) = Drawn(88, <<a>>) \o Drawn(88, <<b>>)

\* A score is a percentage, a longer password or one with more kinds of
\* characters never scores less, and only the best of all scores 100.
ASSUME ScoreOrders ==
    LET lengths == {0, 1, 7, 8, 11, 12, 15, 16, 23, 24, 25}
        kinds == SUBSET (DOMAIN Classes)
    IN \A l, m \in lengths, j, k \in kinds :
          /\ Score(l, j) \in 0..100
          /\ l <= m /\ j \subseteq k => Score(l, j) <= Score(m, k)
          /\ Score(l, j) = 100 <=> l >= 24 /\ j = DOMAIN Classes
=============================================================================
