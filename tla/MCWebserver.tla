---------------------------- MODULE MCWebserver ----------------------------
(* Webserver for TLC: the clients are interchangeable.                     *)
EXTENDS Webserver

ClientSymmetry == Permutations(Conns)
=============================================================================
