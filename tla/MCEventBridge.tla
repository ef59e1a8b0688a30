--------------------------- MODULE MCEventBridge ----------------------------
(* EventBridgeRotation on small instances. *)
EXTENDS EventBridgeRotation
=============================================================================
