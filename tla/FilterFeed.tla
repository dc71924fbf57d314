----------------------------- MODULE FilterFeed -----------------------------
(***************************************************************************)
(* What the compact-filter synchronization of the patched Wasabi client    *)
(* promises the filter store that reads its channel, whatever its peers    *)
(* do: filters arrive block after block, from the first one the store does *)
(* not have, each of them the filter that the committed filter headers     *)
(* name, and a committed header is never taken back.                       *)
(*                                                                         *)
(* A committed header is TRUE when it commits to the genuine filter of its *)
(* block, and a filter is TRUE when it is the genuine one.                 *)
(***************************************************************************)
EXTENDS Integers, Sequences

CONSTANT Stored     \* height of the last filter in the store at the start

VARIABLES
  committed,        \* committed[h]: the filter header of height h
  fed               \* the filters written to the channel: [height, genuine]

Init ==
  /\ committed = [h \in 1 .. Stored |-> TRUE]
  /\ fed = <<>>

\* The chain of filter headers grows at its end, by any number of headers.
Commit ==
  /\ committed' \in Seq(BOOLEAN)
  /\ Len(committed) <= Len(committed')
  /\ \A h \in 1 .. Len(committed) : committed'[h] = committed[h]
  /\ UNCHANGED fed

\* The filters of the next n heights, as the committed headers have them.
NextFilters(n) ==
  [i \in 1 .. n |-> [height  |-> Stored + Len(fed) + i,
                     genuine |-> committed[Stored + Len(fed) + i]]]

Feed ==
  /\ \E n \in 1 .. Len(committed) - (Stored + Len(fed)) : fed' = fed \o NextFilters(n)
  /\ UNCHANGED committed

Next == Commit \/ Feed

Spec == Init /\ [][Next]_<<committed, fed>>
=============================================================================
