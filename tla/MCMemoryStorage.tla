-------------------------- MODULE MCMemoryStorage --------------------------
(* Model-checking instance of MemoryStorage: a full store (one entry per   *)
(* identifier), two goroutines that call any method at any time.           *)
EXTENDS MemoryStorage
=============================================================================
