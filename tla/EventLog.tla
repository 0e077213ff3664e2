------------------------------- MODULE EventLog -------------------------------
(***************************************************************************)
(* The rows of table `event` (db/pg/init.sql), and what a subscriber makes *)
(* of them: "you can follow them one by one, to follow blockchain state".  *)
(***************************************************************************)
EXTENDS BlockTree

(* A block joins the chain, or leaves it (column `revert`).                *)
Added(b)    == [id |-> b, revert |-> FALSE]
Reverted(b) == [id |-> b, revert |-> TRUE]

(* k is where the chains part.                                             *)
ForkPoint(c, d, k) ==
    /\ SubSeq(c, 1, k) = SubSeq(d, 1, k)
    /\ k < Len(c) => c[k + 1] # d[k + 1]

(* The events of a move from chain c to chain d, which share k blocks: the *)
(* ones that leave, from the top down, then those that come.               *)
MoveEvents(c, d, k) ==
       [i \in 1..(Len(c) - k) |-> Reverted(c[Len(c) + 1 - i])]
    \o [i \in 1..(Len(d) - k) |-> Added(d[k + i])]

(* A subscriber adds a block on top, or removes the block on top.          *)
Apply(c, e) ==
    IF e.revert THEN SubSeq(c, 1, Len(c) - 1) ELSE Append(c, e.id)

(* What it holds after all of `events`, if it began with chain c.          *)
Follow(c, events) ==
    LET chain[n \in 0..Len(events)] ==
            IF n = 0 THEN c ELSE Apply(chain[n - 1], events[n])
    IN  chain[Len(events)]

Replay(events) == Follow(<<>>, events)
=============================================================================
