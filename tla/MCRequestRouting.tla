--------------------------- MODULE MCRequestRouting ---------------------------
(* Two paths, one of them matched by both patterns; the routes' targets are  *)
(* interchangeable.                                                          *)
EXTENDS RequestRouting, TLC

MCMatch == "/user/:id" :> {"/user/1"} @@ "/user/:any" :> {"/user/1"}

Symmetry == Permutations(Targets)
===============================================================================
