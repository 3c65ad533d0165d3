---- MODULE MCRoundRobin ----
(* Two blocks with message ports only, before and after a chain of three     *)
(* whose sink listens to its source.                                         *)
EXTENDS RoundRobin, TLC
MCPublisher == 0 :> 2 @@ 3 :> 1 @@ 4 :> 1
====
