---------------------------- MODULE MCHttpServer ----------------------------
(* Instances of HttpServer for TLC: model values for the objects, which are *)
(* interchangeable, so the safety runs use symmetry.                        *)
EXTENDS HttpServer, TLC

Symmetry == Permutations(Conns) \cup Permutations(WorkIds)
=============================================================================
