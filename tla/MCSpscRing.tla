----------------------------- MODULE MCSpscRing -----------------------------
(* SpscRing on a ring of a few slots: a stream several times as long as the  *)
(* ring, whose items are told apart.                                         *)
EXTENDS SpscRing

Numbered == [i \in 0 .. Total - 1 |-> i]
=============================================================================
