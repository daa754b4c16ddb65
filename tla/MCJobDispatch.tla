--------------------------- MODULE MCJobDispatch ---------------------------
(***************************************************************************)
(* Failover: two machines of two owners, one that resumes its streams and  *)
(* one that does not; between them they connect once more, and one link    *)
(* breaks or one loop hangs. Standing: one legacy machine that connects    *)
(* twice more and meets two faults, so that a connection that broke before *)
(* its registration may overwrite the one that came after it.              *)
(***************************************************************************)
EXTENDS JobDispatch

CONSTANTS m1, m2, j1

MCOwner == [m \in Machines |-> IF m = m1 THEN "did1" ELSE "did2"]
=============================================================================
