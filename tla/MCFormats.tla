------------------------------ MODULE MCFormats ------------------------------
(* An instance of each part of FormatProps: a client, a module with          *)
(* transcoder and one without; two transmissions of nine frames, so that     *)
(* some are left over in each mode; each code with data that has no          *)
(* regularity.                                                               *)
EXTENDS FormatProps

CONSTANTS c1, A, B

MCSamples == {{x \in 0..359 : (x * x + 5 * x) % 11 < 5}}
=============================================================================
