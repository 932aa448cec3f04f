----------------------------- MODULE MCObserved -----------------------------
(***************************************************************************)
(* ObservedGateway on the instance of module MCGateway.                    *)
(***************************************************************************)
EXTENDS ObservedGateway, MCGateway
=============================================================================
