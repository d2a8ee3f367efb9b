------------------------------ MODULE MCRoutes ------------------------------
EXTENDS Routes, TLC

CONSTANTS a, b, c, d

(* A circle of channels, so that routes come back to where they start. *)
MCEdge == {<<a, b>>, <<b, c>>, <<c, d>>, <<d, a>>, <<c, b>>}
MCWatched == <<c, d>>
=============================================================================
