---------------------------- MODULE MCDurableRun ----------------------------
(***************************************************************************)
(* Instances of DurableRun for TLC.                                        *)
(***************************************************************************)
EXTENDS DurableRun, TLC

\* A frame node, a capability step on it, and a second step on that one.
Chain == 1 :> {} @@ 2 :> {1} @@ 3 :> {2}
ChainClass == 1 :> "structural" @@ 2 :> "capability" @@ 3 :> "capability"

\* Two steps, listed against their order: node 1 needs node 2.
Back == 1 :> {2} @@ 2 :> {}
BackClass == 1 :> "capability" @@ 2 :> "capability"

\* Tickets are interchangeable.
TicketSymmetry == Permutations(Ticket)
=============================================================================
