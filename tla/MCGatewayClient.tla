-------------------------- MODULE MCGatewayClient --------------------------
(* Frames of 2 bytes in rings of 5 and of 3: whole frames and half a one.    *)
EXTENDS GatewayClient
=============================================================================
