---------------------------- MODULE MCKnowledge ----------------------------
(* An instance of Knowledge for TLC, and the chunks of all small texts.     *)
EXTENDS Knowledge, TLC

CONSTANTS w1, c1, c2, r1, r2, k1, k2, k3

\* Requests, calls and rows are alike.
MCSymmetry == Permutations({r1, r2}) \union Permutations({c1, c2})
                \union Permutations({k1, k2, k3})

-----------------------------------------------------------------------------
(* Up to four pieces of one or two lengths, one of them over the limit, in  *)
(* one block each or in blocks of two.                                      *)

C == INSTANCE Chunking

UpTo(n, S) == UNION {[1..m -> S] : m \in 0..n}

Pieces == [len : {1, 3, 7}, ends : BOOLEAN]
Texts == UpTo(4, {<<p>> : p \in Pieces}) \union UpTo(2, [1..2 -> Pieces])

MaxChars == 5
Overlap == 2

ASSUME ChunkUnitsHolds ==
  \A units \in UpTo(4, 1..MaxChars + 2), overlap \in 0..3 :
    \A cut \in C!ChunkUnits(units, MaxChars, overlap) :
      C!NothingIsLost(units, cut) /\ C!SizeIsBounded(units, cut, MaxChars, overlap)

ASSUME ChunkTextHolds ==
  \A type \in {"text", "xlsx"}, doc \in Texts :
    LET paragraphs == C!Paragraphs(type, doc)
        units == C!Units(paragraphs, MaxChars) IN
    /\ C!OnlySentencesAreLong(paragraphs, MaxChars)
    /\ \A cut \in C!ChunkText(type, doc, MaxChars, 0, Overlap) :
         C!NothingIsLost(units, cut) /\ C!SizeIsBounded(units, cut, MaxChars, Overlap)

\* The bound is reached: a chunk may be one longer than the limit, and one that
\* begins with an overlap longer than that.
ASSUME BoundIsReached ==
  /\ \E cut \in C!ChunkUnits(<<2, 2>>, MaxChars, Overlap) : cut[1].len = MaxChars + 1
  /\ \E cut \in C!ChunkUnits(<<5, 5>>, MaxChars, Overlap) : cut[2].len = Overlap + 1 + 5
=============================================================================
