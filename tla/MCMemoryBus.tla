---------------------------- MODULE MCMemoryBus ----------------------------
(* An instance of MemoryBus with one address of work RAM, one of the I/O   *)
(* page and the first and last words of high RAM.                          *)
EXTENDS MemoryBus

MCAddr == {0, 16773888, 16774144, 16777215}
=============================================================================
