------------------------------- MODULE MCDevCan -------------------------------
(* One sample of a frame, an extended one: only ReadDeals looks at the bytes.   *)
EXTENDS DevCan

CONSTANTS c1, c2

const_Callers == {c1, c2}
const_Frames == {<<8, 1, 3, 0, 128, 1, 2, 3, 4, 5, 6, 7, 255>>}
const_Strays == {0}
=============================================================================
