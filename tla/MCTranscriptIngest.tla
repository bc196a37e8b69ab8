------------------------ MODULE MCTranscriptIngest --------------------------
(* TranscriptIngest for TLC. *)
EXTENDS TranscriptIngest, TLC
=============================================================================
