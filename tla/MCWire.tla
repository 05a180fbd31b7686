------------------------------- MODULE MCWire -------------------------------
(* Wire with ids and names at the edges of their encodings.                *)
EXTENDS Wire

SomeIds == {0, 1, 128, 16384}

Repeat(b, n) == [i \in 1..n |-> b]

(* Empty, one that looks like fields, the last length of one byte and the  *)
(* first of two, and the longest that fit a request or an answer.          *)
SomeNames == {<<>>, <<8, 1, 18, 255>>} \cup
             {Repeat(97, n) : n \in {127, 128, 475, 476}}

(* Nothing, a field, and the end of a longer string.                       *)
SomeLeftovers == {<<0>>, <<8, 1, 0>>, <<88, 0>>}

=============================================================================
