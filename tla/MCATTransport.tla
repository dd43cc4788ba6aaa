--------------------------- MODULE MCATTransport ---------------------------
(***************************************************************************)
(* ATTransport on a small instance: one DMA, one Display, a memory of one  *)
(* or two words, addresses that decode to it and one that nothing decodes. *)
(***************************************************************************)
EXTENDS ATTransport, TLC

CONSTANTS low, high, hole, w0, w1

\* Two addresses of the same word, as main.cpp maps the memory twice.
MCAlias == [a \in Addr |-> IF a = hole THEN NoOffset ELSE w0]

\* A word for each address.
MCDistinct == [a \in Addr |-> IF a = low THEN w0 ELSE w1]

\* No definition tells one payload object from another.
Symmetry == Permutations(Gp)
=============================================================================
