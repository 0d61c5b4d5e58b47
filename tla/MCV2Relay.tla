------------------------------ MODULE MCV2Relay ------------------------------
(* The vehicle commands with two handshake attempts instead of fifty, and a  *)
(* controller that may refuse what it can refuse.            *)
EXTENDS V2Relay

MCRefusable == {"HANDSHAKE", "UNLOCK_STATUS", "UNLOCK", "LOCK"}

MCNone == {}
=============================================================================
