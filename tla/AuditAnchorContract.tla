------------------------- MODULE AuditAnchorContract -------------------------
(***************************************************************************)
(* The on-chain witness, contracts/src/AuditAnchor.sol: an append-only     *)
(* list of anchors one committer may extend, and the owner who appoints    *)
(* the committer.  A transaction that reverts changes nothing and is not a *)
(* step.                                                                   *)
(***************************************************************************)
EXTENDS Naturals, Sequences

CONSTANTS
  Addresses,   (* the accounts that may send transactions                  *)
  NoAddress,   (* address(0)                                               *)
  Roots,       (* tree head hashes                                         *)
  MaxSize,     (* bound of the model: tree sizes are 1 .. MaxSize          *)
  MaxAnchors   (* bound of the model: length of the list                   *)

ASSUME AddressAssumption == NoAddress \notin Addresses

ASSUME SizeAssumption == MaxSize \in Nat /\ MaxAnchors \in Nat

VARIABLES
  anchors,       (* the Anchor[] array; by is history: who sent the commit *)
  committer, owner, pendingOwner,
  nominator      (* history: who nominated pendingOwner                    *)

roles == <<committer, owner, pendingOwner, nominator>>
chainVars == <<anchors, committer, owner, pendingOwner, nominator>>

LastSize == IF anchors = <<>> THEN 0 ELSE anchors[Len(anchors)].size

(* The constructor, sent by the deployer with any committer.               *)
ChainInit ==
  /\ anchors = <<>>
  /\ owner \in Addresses
  /\ committer \in Addresses
  /\ pendingOwner = NoAddress
  /\ nominator = NoAddress

(* Slip: an equal size is accepted.                                        *)
AcceptsEqual(sender, size) ==
  sender = committer /\ size > 0 /\ (anchors # <<>> => size >= LastSize)

(* The checks of commit: onlyCommitter, EmptyTree, TreeShrank.             *)
Accepts(sender, size) ==
  sender = committer /\ size > 0 /\ (anchors # <<>> => size > LastSize)

Commit(sender, size, root) ==
  /\ Accepts(sender, size)
  /\ anchors' = Append(anchors, [size |-> size, root |-> root, by |-> sender])
  /\ UNCHANGED roles

SetCommitter(sender, next) ==
  /\ sender = owner
  /\ next # NoAddress
  /\ committer' = next
  /\ UNCHANGED <<anchors, owner, pendingOwner, nominator>>

TransferOwnership(sender, next) ==
  /\ sender = owner
  /\ next # NoAddress
  /\ pendingOwner' = next
  /\ nominator' = sender
  /\ UNCHANGED <<anchors, committer, owner>>

(* Slip: the nomination is not cleared.                                    *)
AcceptOwnershipTwice(sender) ==
  /\ sender = pendingOwner
  /\ owner' = pendingOwner
  /\ UNCHANGED <<anchors, committer, pendingOwner, nominator>>

AcceptOwnership(sender) ==
  /\ sender = pendingOwner
  /\ owner' = pendingOwner
  /\ pendingOwner' = NoAddress
  /\ nominator' = NoAddress
  /\ UNCHANGED <<anchors, committer>>

ChainNext ==
  \E sender \in Addresses :
    \/ /\ Len(anchors) < MaxAnchors
       /\ \E size \in 0..MaxSize, root \in Roots : Commit(sender, size, root)
    \/ \E next \in Addresses \cup {NoAddress} :
         SetCommitter(sender, next) \/ TransferOwnership(sender, next)
    \/ AcceptOwnership(sender)

ChainSpec == ChainInit /\ [][ChainNext]_chainVars

-----------------------------------------------------------------------------
(* The type invariant of the contract's storage.                           *)
AnchorType == [size : 1..MaxSize, root : Roots, by : Addresses]

ChainTypeOK ==
  /\ anchors \in Seq(AnchorType)
  /\ committer \in Addresses
  /\ owner \in Addresses
  /\ pendingOwner \in Addresses \cup {NoAddress}
  /\ nominator \in Addresses \cup {NoAddress}

(* Any two anchors have different sizes, in the order of their ids, so a   *)
(* consistency proof always has a smaller size to extend (AuditAnchor.sol  *)
(* 71-75), however often the committer is rotated.                         *)
SizesIncrease ==
  \A i, j \in DOMAIN anchors : i < j => anchors[i].size < anchors[j].size

(* A nomination dies with the tenure of the owner who made it: whoever may *)
(* accept was named by the present owner (AuditAnchor.sol 115-129).        *)
NominationIsCurrent == pendingOwner # NoAddress => nominator = owner

(* Nothing is removed or overwritten, and a committer who was rotated out  *)
(* adds nothing more (AuditAnchor.sol 44-46, 108-113).                     *)
OnlyCommitterExtends ==
  [][/\ Len(anchors') >= Len(anchors)
     /\ \A i \in DOMAIN anchors : anchors'[i] = anchors[i]
     /\ \A i \in DOMAIN anchors' \ DOMAIN anchors :
          anchors'[i].by = committer]_chainVars

=============================================================================
