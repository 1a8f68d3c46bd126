---------------------------- MODULE MCTranscoder ----------------------------
(* A few packets through the vocoders of one or two modules.                *)
EXTENDS TranscoderProps

CONSTANTS A, B
=============================================================================
