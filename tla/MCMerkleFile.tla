---------------------------- MODULE MCMerkleFile ----------------------------
(***************************************************************************)
(* Instances of MerkleFile for TLC.  Hashes are interchangeable.           *)
(***************************************************************************)
EXTENDS MerkleFile, TLC

CONSTANTS h1, h2

HashSymmetry == Permutations({h1, h2})

=============================================================================
