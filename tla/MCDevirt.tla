------------------------------ MODULE MCDevirt ------------------------------
(***************************************************************************)
(* The arguments of the samples: every byte for the one that takes chars,  *)
(* and the words of 16 bits around the places where a carry or a sign      *)
(* changes for the others.                                                 *)
(***************************************************************************)
EXTENDS Devirt

Bytes == Word(8)

\* 0, 1, 2, 1000, 1001, the alternating words, and what is next to a power of two.
Boundary ==
  LET all == Bits(16)
      near == UNION {{{k}, Bits(k), {k, 0}} : k \in {3, 4, 7, 8, 9, 14, 15}}
  IN  near \cup {Not(16, a) : a \in near}
           \cup {{}, all, {0}, {1}, {3, 5, 6, 7, 8, 9}, {0, 3, 5, 6, 7, 8, 9},
                 {k \in all : k % 2 = 0}, {k \in all : k % 3 = 0}}

AllSamples == [n \in 1..5 |-> IF n = 3 THEN Bytes ELSE Boundary]

SignedSample == [n \in {4} |-> Boundary]

=============================================================================
