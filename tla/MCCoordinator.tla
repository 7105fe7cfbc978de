--------------------------- MODULE MCCoordinator ---------------------------
(* One peer that initiates to us and one we initiate to.                   *)
EXTENDS Coordinator

CONSTANTS l1, h1
=============================================================================
