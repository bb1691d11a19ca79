------------------------------ MODULE MCCodec ------------------------------
(* Model-checking instance of Decoding. The lengths are those at which     *)
(* the length of the properties, or the remaining length, needs another    *)
(* byte, and the longest string.                                           *)
EXTENDS Decoding
=============================================================================
