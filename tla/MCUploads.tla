------------------------------- MODULE MCUploads -------------------------------
(* Uploads with two sessions for one destination and two requests at once. *)
EXTENDS Uploads, TLC

Interchangeable == Permutations(Session) \cup Permutations(Request)
=============================================================================
