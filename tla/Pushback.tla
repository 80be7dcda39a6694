------------------------------ MODULE Pushback ------------------------------
(***************************************************************************)
(* What a read-back buffer promises its client.  The source's items are    *)
(* delivered in order, each once.  The client's cursor moves forward one   *)
(* item at a time, and back over the items it consumed last; what it reads *)
(* is always the item under the cursor, whether that item is new or had    *)
(* been pushed back.  Nothing is lost, repeated or reordered.              *)
(*                                                                         *)
(* scanner.go makes this promise twice, each time with a ring of three     *)
(* slots: reader, over runes (module RuneReader, used by Scanner), and     *)
(* bufScanner, over tokens (module TokenBuffer, used by Parser).           *)
(***************************************************************************)
EXTENDS Naturals, Sequences

CONSTANTS
  Item,    \* what the source delivers
  Depth    \* how far back the client moves

VARIABLES
  seen,    \* every item the source has delivered, in order
  cur,     \* the number of items the client has consumed
  got      \* the item the client read last

pvars == <<seen, cur, got>>

PInit == seen = <<>> /\ cur = 0

\* The client has read the item under its cursor and pushes back k items.
Consume(k) ==
  /\ got' = seen'[cur + 1]
  /\ k <= cur + 1
  /\ cur' = cur + 1 - k
  /\ Len(seen') - cur' <= Depth

\* The cursor is at the end: the source delivers its next item.
Fresh(k) ==
  /\ cur = Len(seen)
  /\ Len(seen') = cur + 1
  /\ seen'[cur + 1] \in Item
  /\ seen' = Append(seen, seen'[cur + 1])
  /\ Consume(k)

\* The cursor is on an item pushed back earlier: it is delivered again.
Again(k) ==
  /\ cur < Len(seen)
  /\ UNCHANGED seen
  /\ Consume(k)

\* The client pushes back k items without reading.
Back(k) ==
  /\ k <= cur
  /\ cur' = cur - k
  /\ Len(seen) - cur' <= Depth
  /\ UNCHANGED <<seen, got>>

PNext == \E k \in 0 .. Depth : Back(k) \/ Again(k) \/ Fresh(k)

PSpec == PInit /\ [][PNext]_pvars
=============================================================================
