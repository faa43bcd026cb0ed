---------------------------- MODULE MCRingBuffer ----------------------------
(* Small rings for TLC: 4 cells, indices that wrap every 8 bytes.            *)
EXTENDS RingBuffer

const_Requests == {1, 3}
=============================================================================
