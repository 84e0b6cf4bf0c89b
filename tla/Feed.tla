-------------------------------- MODULE Feed --------------------------------
(***************************************************************************)
(* What the live feed promises a dashboard: the running server numbers its *)
(* events from 0 without holes, the client is shown them in order and      *)
(* never twice, and as long as the feed has lost nothing it skips nothing  *)
(* and catches up.  A restarted server numbers from 0 again; the client,   *)
(* which cannot tell, goes on from where it was.                           *)
(***************************************************************************)
EXTENDS Naturals

CONSTANT MaxSeq      (* bound of the model: events published in a life     *)

VARIABLES published,  (* events 0 .. published - 1 exist                   *)
          next,       (* the client was last shown event next - 1          *)
          lossless    (* no event has ever been dropped                    *)

feed == <<published, next, lossless>>

Init == published = 0 /\ next = 0 /\ lossless = TRUE

Publish ==
  /\ published < MaxSeq
  /\ published' = published + 1
  /\ lossless' \in {lossless, FALSE}
  /\ UNCHANGED next

Show ==
  /\ next < published
  /\ \/ next' = next + 1
     \/ ~lossless /\ next' \in next + 1 .. published
  /\ UNCHANGED <<published, lossless>>

Restart == published' = 0 /\ UNCHANGED <<next, lossless>>

Next == Publish \/ Show \/ Restart

(* A feed that lost nothing keeps showing while there is something to show. *)
Spec == Init /\ [][Next]_feed /\ WF_feed(lossless /\ Show)

=============================================================================
