---------------------------- MODULE MCCodecStream ----------------------------
(* Small transmissions through the codec stream of one module.               *)
EXTENDS CodecStreamProps, TLC

CONSTANTS s1, s2, s3
=============================================================================
