---------------------------- MODULE MCDashboard -----------------------------
(***************************************************************************)
(* An instance of Dashboard for TLC: the loop alone commits, and a root is *)
(* the number of the life whose log it heads.                              *)
(***************************************************************************)
EXTENDS Dashboard

CONSTANTS svc, loop, q1, q2

MCForeignRoot == MaxRestarts + 1
MCRoots == 0..MCForeignRoot

(* Two overlapping polls of the head; with a committer, one poll at a time *)
(* of the anchor it reports.                                               *)
Setup(m, h, s, f) == [mode |-> m, hook |-> h, slots |-> s, faults |-> f]

MCSetups == {Setup("cast", "anchor", {q1}, 0),
             Setup("dry-run", "anchor", {q1}, 0),
             Setup("off", "head", {q1, q2}, 2)}

=============================================================================
