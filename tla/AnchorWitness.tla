--------------------------- MODULE AnchorWitness ----------------------------
(***************************************************************************)
(* What anchoring promises an auditor: the ledger holds ever larger heads, *)
(* and the head the service reports is one of them and only moves forward, *)
(* until the reporter restarts and knows nothing (a ledger kept inside the *)
(* reporter's process is lost with it).                                    *)
(***************************************************************************)
EXTENDS Naturals, Sequences

VARIABLES ledger,   (* the anchored sizes, in order                        *)
          known     (* the anchored size the service reports, 0 if none    *)

Init == ledger = <<>> /\ known = 0

LedgerHead == IF ledger = <<>> THEN 0 ELSE ledger[Len(ledger)]

Extend ==
  /\ Len(ledger') = Len(ledger) + 1
  /\ \A i \in DOMAIN ledger : ledger'[i] = ledger[i]
  /\ ledger'[Len(ledger')] > LedgerHead
  /\ UNCHANGED known

Learn ==
  /\ \E i \in DOMAIN ledger : ledger[i] > known /\ known' = ledger[i]
  /\ UNCHANGED ledger

Forget == known' = 0 /\ ledger' \in {ledger, <<>>}

Spec == Init /\ [][Extend \/ Learn \/ Forget]_<<ledger, known>>

=============================================================================
