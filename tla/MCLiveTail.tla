---------------------------- MODULE MCLiveTail ----------------------------
(* A queue of one event before a connection that holds one frame: the tail  *)
(* overtakes a slow client within three lines.                              *)
EXTENDS LiveTail
=============================================================================
