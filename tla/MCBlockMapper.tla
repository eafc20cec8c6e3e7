--------------------------- MODULE MCBlockMapper ---------------------------
(* Instances of BlockMapper: the values written, and the zero of a hole.   *)
EXTENDS BlockMapper
MCValues == Inputs \cup {Zero}
=============================================================================
