--------------------------- MODULE LaggedReplica ---------------------------
(***************************************************************************)
(* What a mirror of a source promises, whatever it is built from: it shows *)
(* the state the source had after some event of its history, moves only    *)
(* forward, possibly over several events at once, and catches up in time.  *)
(***************************************************************************)
EXTENDS Integers, Sequences

CONSTANT Nothing    \* shown before the first event

VARIABLES
  published,  \* the source's state after each of its events
  position,   \* how many of them the mirror has seen
  shown       \* the state the mirror shows

replicaVars == <<published, position, shown>>

Init == published = <<>> /\ position = 0 /\ shown = Nothing

Publish ==
  /\ Len(published') = Len(published) + 1
  /\ \A i \in 1..Len(published) : published'[i] = published[i]
  /\ UNCHANGED <<position, shown>>

CatchUp ==
  /\ \E k \in (position + 1)..Len(published) :
       position' = k /\ shown' = published[k]
  /\ UNCHANGED published

Next == Publish \/ CatchUp

Safe == Init /\ [][Next]_replicaVars

(* The mirror catches up with every event, however many follow it. *)
CaughtUp(i) == position >= i
Live == \A i \in 1..Len(published) : <>CaughtUp(i)
=============================================================================
