---------------------------- MODULE MCSseStreams ----------------------------
(* Bounded instance of SseStreams for TLC.  Symmetry would not be sound     *)
(* with a liveness property.                                                *)
EXTENDS SseStreams, TLC
=============================================================================
