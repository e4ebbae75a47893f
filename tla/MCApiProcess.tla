---------------------------- MODULE MCApiProcess ----------------------------
(* ApiProcess with settings that are negative, unset, in range and, for     *)
(* durations, beyond what the type holds.                                   *)
EXTENDS ApiProcess

SmallConns == {-1, 0, 1}
SmallSeconds == {-1, 0, 8}
=============================================================================
