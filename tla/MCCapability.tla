---------------------------- MODULE MCCapability ----------------------------
(***************************************************************************)
(* An instance of Capability for TLC: an agent whose tokens allow one      *)
(* action on any target or any action on one target, and a guard of        *)
(* another agent.                                                          *)
(***************************************************************************)
EXTENDS Capability

CONSTANTS a1, a2, read, write, file, site, any

MCScopes == {[actions |-> {read}, targets |-> {any}],
             [actions |-> {any}, targets |-> {file}]}

MCAsks == {[agent |-> a1, action |-> read, target |-> file],
           [agent |-> a2, action |-> read, target |-> file],
           [agent |-> a1, action |-> write, target |-> site]}

=============================================================================
