-------------------------- MODULE MCMerkleVerifier --------------------------
(***************************************************************************)
(* Instances of MerkleVerifier for TLC.                                    *)
(***************************************************************************)
EXTENDS MerkleVerifier

=============================================================================
