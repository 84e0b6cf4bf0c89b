----------------------------- MODULE MerkleFile -----------------------------
(***************************************************************************)
(* The file-backed Merkle tree (merkle/persistence.go): an append writes   *)
(* the leaf hash to a flat file and syncs it before the leaf exists in     *)
(* memory.  Underneath is a POSIX file: a write may be short and then      *)
(* fail, a sync may fail, a machine crash keeps what was synced and any    *)
(* part, from the front, of what was not, and a killed process loses       *)
(* nothing it wrote, although none of it need be on disk yet.              *)
(*                                                                         *)
(* The 32 bytes of a leaf hash are two halves, enough to tell a whole leaf *)
(* from a torn one; a leaf is the pair of its halves.                      *)
(***************************************************************************)
EXTENDS Integers, Sequences

CONSTANTS Hashes,     (* leaf hashes                                       *)
          MaxHalves,  (* bound of the model: length of the file            *)
          MaxStops    (* bound of the model: crashes and closes            *)

ASSUME FileBounds == MaxHalves \in Nat /\ MaxStops \in Nat

VARIABLES
  file,     (* the contents of the file, in halves                         *)
  synced,   (* how many halves of it survive a crash                       *)
  pc,       (* "down": no Tree on the file; "open"; "writing": the lock is *)
            (* held between Write and Sync; "closed": after Close          *)
  leaves,   (* Tree.leaves                                                 *)
  leaf,     (* the leaf being appended                                     *)
  stops,    (* crashes and closes so far                                   *)
  kept,     (* history: leaves as of the last time a Tree was open         *)
  acked,    (* history: how many of them an Append has answered for        *)
  healthy   (* history: no call ever failed having written something       *)

vars == <<file, synced, pc, leaves, leaf, stops, kept, acked, healthy>>

Halves(h) == <<<<h, "first">>, <<h, "second">>>>

Leaf == {Halves(h) : h \in Hashes}

NoLeaf == <<>>

Init ==
  /\ file = <<>> /\ synced = 0
  /\ pc = "down"
  /\ leaves = <<>> /\ leaf = NoLeaf
  /\ stops = 0
  /\ kept = <<>> /\ acked = 0 /\ healthy = TRUE

(* Slip: the last leaf is not read.                                        *)
LoadedButOne ==
  [i \in 1..(Len(file) \div 2 - 1) |-> <<file[2 * i - 1], file[2 * i]>>]

(* What loadLocked makes of the file: every 32 bytes are a leaf.           *)
Loaded == [i \in 1..(Len(file) \div 2) |-> <<file[2 * i - 1], file[2 * i]>>]

Aligned == Len(file) % 2 = 0

(* Open and loadLocked; a size that is no multiple of HashSize is refused  *)
(* and changes nothing.                                                    *)
Open ==
  /\ pc \in {"down", "closed"}
  /\ Aligned
  /\ pc' = "open"
  /\ leaves' = Loaded
  /\ kept' = Loaded
  /\ UNCHANGED <<file, synced, leaf, stops, acked, healthy>>

(* persistLocked: file.Write of the whole hash ...                         *)
Write(l) ==
  /\ pc = "open"
  /\ Len(file) + 2 <= MaxHalves
  /\ pc' = "writing"
  /\ leaf' = l
  /\ file' = file \o l
  /\ UNCHANGED <<synced, leaves, stops, kept, acked, healthy>>

(* ... or of a part of it, with an error.  Nothing cuts the part off.      *)
WriteFails(l) ==
  /\ pc = "open"
  /\ Len(file) + 2 <= MaxHalves
  /\ \E n \in 0..1 :
       /\ file' = file \o SubSeq(l, 1, n)
       /\ healthy' = (healthy /\ n = 0)
  /\ UNCHANGED <<synced, pc, leaves, leaf, stops, kept, acked>>

(* Slip: the leaf is acknowledged without a sync.                          *)
SyncLater ==
  /\ pc = "writing"
  /\ pc' = "open"
  /\ leaves' = Append(leaves, leaf)
  /\ kept' = leaves' /\ acked' = Len(leaves')
  /\ leaf' = NoLeaf
  /\ UNCHANGED <<file, synced, stops, healthy>>

(* file.Sync; Append then adds the leaf and returns its index.             *)
Sync ==
  /\ pc = "writing"
  /\ pc' = "open"
  /\ synced' = Len(file)
  /\ leaves' = Append(leaves, leaf)
  /\ kept' = leaves' /\ acked' = Len(leaves')
  /\ leaf' = NoLeaf
  /\ UNCHANGED <<file, stops, healthy>>

(* Slip: the error path does not release the lock.                         *)
SyncFailsLocked ==
  /\ pc = "writing"
  /\ leaf' = NoLeaf
  /\ healthy' = FALSE
  /\ UNCHANGED <<file, synced, pc, leaves, stops, kept, acked>>

(* The sync fails: Append returns the error, the bytes stay in the file.   *)
SyncFails ==
  /\ pc = "writing"
  /\ pc' = "open"
  /\ leaf' = NoLeaf
  /\ healthy' = FALSE
  /\ UNCHANGED <<file, synced, leaves, stops, kept, acked>>

(* Close; the Tree stays readable but refuses to append.                   *)
Close ==
  /\ pc = "open"
  /\ stops < MaxStops
  /\ pc' = "closed"
  /\ stops' = stops + 1
  /\ UNCHANGED <<file, synced, leaves, leaf, kept, acked, healthy>>

(* The process is killed, or the machine goes down, between any two steps. *)
Die ==
  /\ stops < MaxStops
  /\ stops' = stops + 1
  /\ pc' = "down"
  /\ leaves' = <<>> /\ leaf' = NoLeaf
  /\ UNCHANGED <<kept, acked, healthy>>

Kill == Die /\ pc # "down" /\ UNCHANGED <<file, synced>>

Crash ==
  /\ Die
  /\ \E n \in synced..Len(file) : file' = SubSeq(file, 1, n) /\ synced' = n

Next ==
  \/ Open
  \/ \E l \in Leaf : Write(l) \/ WriteFails(l)
  \/ Sync \/ SyncFails
  \/ Close \/ Kill \/ Crash

Spec == Init /\ [][Next]_vars

-----------------------------------------------------------------------------
Half == Hashes \X {"first", "second"}

(* The type invariant of the file and the tree.                            *)
TypeOK ==
  /\ file \in Seq(Half) /\ Len(file) <= MaxHalves
  /\ synced \in 0..Len(file)
  /\ pc \in {"down", "open", "writing", "closed"}
  /\ leaves \in Seq(Half \X Half)
  /\ kept \in Seq(Half \X Half)
  /\ leaf \in Leaf \cup {NoLeaf}
  /\ (leaf # NoLeaf) <=> (pc = "writing")
  /\ stops \in 0..MaxStops
  /\ acked \in Nat
  /\ healthy \in BOOLEAN

(* persistence.go 18-20: while no call failed halfway, every leaf that was *)
(* answered for is on disk for good, in place, whatever stops come next,   *)
(* and the file has the size of the tree (merkle/README.md 44-46).         *)
LeavesAreDurable ==
  healthy =>
    /\ 2 * acked <= synced
    /\ pc = "open" => Len(file) = 2 * Len(leaves)
    /\ \A i \in 1..acked : <<file[2 * i - 1], file[2 * i]>> = kept[i]

(* Reopening finds the tree as it was: no leaf that was answered for is    *)
(* missing, none has changed, and at most the one whose append was cut off *)
(* is new (merkle/README.md 44-46), unless a call failed halfway before.   *)
ReopensTheTree ==
  [][healthy /\ Open =>
       /\ Len(leaves') \in acked..Len(kept) + 1
       /\ \A i \in DOMAIN leaves' \cap DOMAIN kept : leaves'[i] = kept[i]]_vars

=============================================================================
