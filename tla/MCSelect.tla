------------------------------ MODULE MCSelect ------------------------------
(***************************************************************************)
(* An instance of Select: three processes and one socket, so that two of   *)
(* them collide while the third is recorded with the socket.               *)
(***************************************************************************)
EXTENDS Select, TLC

CONSTANTS p1, p2, p3, s1

ThreeProcs == {p1, p2, p3}
OneSock  == {s1}
Symmetry == Permutations(Procs)
=============================================================================
