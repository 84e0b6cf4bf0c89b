---------------------------- MODULE MCGateBypass ----------------------------
(***************************************************************************)
(* Instances of GateBypass for TLC.                                        *)
(***************************************************************************)
EXTENDS GateBypass

CONSTANTS t1, t2, n1, peer, author, transfer

(* The author's signature and one of the peer that does not verify; valid  *)
(* ones come from collect_signatures.                                      *)
MCHanded == {{<<author, TRUE>>, <<peer, FALSE>>}}

=============================================================================
