--------------------------- MODULE MCBridgeDriver ---------------------------
(* BridgeDriver for TLC.  Its configurations check liveness or action      *)
(* properties, so the symmetry of the request slots is not used.           *)
EXTENDS BridgeDriver
=============================================================================
