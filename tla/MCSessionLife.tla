---------------------------- MODULE MCSessionLife ----------------------------
(* Instances: one session through rewind and shutdown; a session and a side   *)
(* chat of it.  No session may stay resident, so that every trigger releases   *)
(* what is idle.                                                             *)
EXTENDS SessionLife
CONSTANTS s1, s2, c1
MCParent == [s \in Sessions |-> IF s = s2 THEN s1 ELSE None]
MCViews == {{}, {s1}}
=============================================================================
