----------------------------- MODULE MCAuditLog -----------------------------
(***************************************************************************)
(* Small instances of AuditLog for TLC.                                    *)
(***************************************************************************)
EXTENDS AuditLog, TLC

CONSTANTS g1, n1, c1, c2

(* Handler goroutines are interchangeable.                                 *)
CallerSymmetry == Permutations(Callers)

(* The same nonce used by two actions, the second one signed for a time    *)
(* after the window of the first.                                          *)
MCReuse == {[agent |-> g1, nonce |-> n1, ts |-> 2],
            [agent |-> g1, nonce |-> n1, ts |-> 5]}

(* The same nonce used by two actions signed one after the other.          *)
MCReuseSoon == {[agent |-> g1, nonce |-> n1, ts |-> 1],
                [agent |-> g1, nonce |-> n1, ts |-> 2]}

=============================================================================
