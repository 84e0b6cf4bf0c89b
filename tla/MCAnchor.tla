------------------------------ MODULE MCAnchor ------------------------------
(***************************************************************************)
(* Instances of Anchor for TLC.  A root is the number of the life whose    *)
(* log it heads, and one more number stands for a foreign root.            *)
(***************************************************************************)
EXTENDS Anchor

CONSTANTS svc, other, loop, once

MCForeignRoot == MaxRestarts + 1
MCRoots == 0..MCForeignRoot

=============================================================================
