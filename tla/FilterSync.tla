----------------------------- MODULE FilterSync -----------------------------
(***************************************************************************)
(* The compact-filter synchronization that nix/patches/wasabi adds to the  *)
(* Wasabi client: one CompactFilterBehavior for each connected node, and   *)
(* the FilterSynchronizationState they share, which hands out ranges of    *)
(* filter headers and of filters, takes them back when their node is gone  *)
(* or too slow, and writes completed filter ranges to a channel in order.  *)
(*                                                                         *)
(* Three threads call into a behavior: the one that completed the          *)
(* handshake, the one that delivers the node's messages, and the timer's.  *)
(* The shared state has a lock; the fields of a behavior have none.        *)
(*                                                                         *)
(* There is one chain of blocks 1..Tip, the client learns of its blocks as *)
(* time goes by, and it is not reorganized.  A filter header is TRUE if it *)
(* commits to the genuine filter of its block, on top of the header before *)
(* it; a filter is TRUE if it is the genuine one.                          *)
(***************************************************************************)
EXTENDS Integers, Sequences

CONSTANTS
  Nodes,               \* the nodes the client connects to, each once
  Honest,              \* those that follow the protocol
  Tip,                 \* height of the last block
  Stored,              \* height of the last filter in the store at the start
  HeadersPerRequest,
  FiltersPerRequest,
  MaxLookaheadRanges,
  Threads              \* the threads that call into each behavior

ASSUME FilterSyncAssumption ==
  /\ Honest \subseteq Nodes
  /\ Tip \in Nat /\ Stored \in Nat /\ Stored <= Tip
  /\ HeadersPerRequest \in Nat \ {0}
  /\ FiltersPerRequest \in Nat \ {0}
  /\ MaxLookaheadRanges \in Nat \ {0}
  /\ "message" \in Threads
  /\ Threads \subseteq {"connect", "message", "tick"}

VARIABLES
  blockTip,      \* height of the client's chain of block headers (external)
  headers,       \* the FilterHeaderChain: headers[h] for the heights 1 .. Len
  hTracker,      \* RequestTracker of header ranges
  fTracker,      \* RequestTracker of filter ranges
  delivered,     \* what was written to the channel: [height, block, genuine]
  node,          \* node[n]: "new", "up", "invalid", "lost" or "detached"
  hRange,        \* hRange[n]: _assignedHeaderRange
  fRange,        \* fRange[n]: _assignedFilterRange
  collected,     \* collected[n]: _collectedFilters
  wire,          \* wire[n]: the requests the honest node n has still to answer
  pc,            \* pc[n][t]: the statement of thread t in the behavior of n
  got            \* got[n][t]: the range it was assigned and has not stored yet

sharedVars == <<blockTip, headers, hTracker, fTracker, delivered>>
nodeVars   == <<node, hRange, fRange, collected, wire, pc, got>>
vars       == <<sharedVars, nodeVars>>

RangeRequest(start, stop) == [start |-> start, stop |-> stop]

\* null
NoRange == RangeRequest(0, 0)

\* Math.Min
Least(a, b) == IF a <= b THEN a ELSE b

-----------------------------------------------------------------------------
(* RequestTracker. *)

\* LastHeight, the starts of the ranges being fetched, and the completed ranges
\* by their start.
Tracker(last) == [last |-> last, active |-> {}, pending |-> <<>>]

AddActive(tr, start) == [tr EXCEPT !.active = @ \cup {start}]

RemoveActive(tr, start) == [tr EXCEPT !.active = @ \ {start}]

MoveActiveToPending(tr, start, response) ==
  [RemoveActive(tr, start) EXCEPT
     !.pending = [s \in DOMAIN tr.pending \cup {start} |->
                    IF s = start THEN response ELSE tr.pending[s]]]

RemovePending(tr, start) ==
  [tr EXCEPT !.pending = [s \in DOMAIN tr.pending \ {start} |-> tr.pending[s]]]

\* Seeded fault: assignments never grow old.
ReleaseStaleNever(tr) == {}

\* GetOldestStaleAssignment and its removal.  Time is not modelled: any of the
\* assignments may turn out to be older than the timeout, or none.
ReleaseStale(tr) == {RemoveActive(tr, s) : s \in tr.active}

\* The ranges TryGetNextRangeStartHeight may look ahead to, counted from the
\* last height, without those assigned or completed.
Unassigned(tr, size) ==
  {k \in 0 .. MaxLookaheadRanges - 1 :
     tr.last + 1 + k * size \notin tr.active \cup DOMAIN tr.pending}

\* Its result, when the lookahead limit leaves any.
NextStart(tr, size) ==
  tr.last + 1 + size * (CHOOSE k \in Unassigned(tr, size) :
                          \A j \in Unassigned(tr, size) : k <= j)

-----------------------------------------------------------------------------

\* The lock of the shared state is kept while completed ranges are processed.
LockFree == \A n \in Nodes : pc[n]["message"] \notin {"drainHeaders", "drainFilters"}

Goto(n, t, statement) == pc' = [pc EXCEPT ![n][t] = statement]

\* SendMessage; the liars' answers do not depend on what they were asked.
Request(n, kind, range) ==
  wire' = IF node[n] = "up" /\ n \in Honest
          THEN [wire EXCEPT ![n] = Append(@, [kind |-> kind, start |-> range.start,
                                              stop |-> range.stop])]
          ELSE wire

\* A block header arrives.
Grow ==
  /\ \E h \in blockTip + 1 .. Tip : blockTip' = h
  /\ UNCHANGED <<headers, hTracker, fTracker, delivered, nodeVars>>

-----------------------------------------------------------------------------
(* The life of a node. *)

\* OnStateChanged: the handshake is complete, and TrySync is called.
Handshake(n) ==
  /\ node[n] = "new"
  /\ node' = [node EXCEPT ![n] = "up"]
  /\ pc' = [pc EXCEPT ![n] = [t \in Threads |-> IF t = "message" THEN "idle" ELSE "headers"]]
  /\ UNCHANGED <<sharedVars, hRange, fRange, collected, wire, got>>

\* The connection breaks.
Lose(n) ==
  /\ node[n] = "up"
  /\ node' = [node EXCEPT ![n] = "lost"]
  /\ wire' = [wire EXCEPT ![n] = <<>>]
  /\ UNCHANGED <<sharedVars, hRange, fRange, collected, pc, got>>

\* ReleaseAssignments.
Release(n) ==
  /\ LockFree
  /\ hTracker' = IF hRange[n] = NoRange THEN hTracker
                 ELSE RemoveActive(hTracker, hRange[n].start)
  /\ fTracker' = IF fRange[n] = NoRange THEN fTracker
                 ELSE RemoveActive(fTracker, fRange[n].start)
  /\ hRange' = [hRange EXCEPT ![n] = NoRange]
  /\ fRange' = [fRange EXCEPT ![n] = NoRange]
  /\ collected' = [collected EXCEPT ![n] = <<>>]

\* HandleInvalid, in the thread that delivers messages.
HandleInvalid(n) ==
  /\ Release(n)
  /\ node' = [node EXCEPT ![n] = "invalid"]
  /\ wire' = [wire EXCEPT ![n] = <<>>]
  /\ UNCHANGED <<blockTip, headers, delivered, pc, got>>

\* DetachCore.
Detach(n) ==
  /\ node[n] \in {"invalid", "lost"}
  /\ Release(n)
  /\ node' = [node EXCEPT ![n] = "detached"]
  /\ UNCHANGED <<blockTip, headers, delivered, wire, pc, got>>

-----------------------------------------------------------------------------
(* TrySync. *)

\* TrySync returns.  The timer calls it again and again.
Return(n, t) == Goto(n, t, IF t = "tick" THEN "headers" ELSE "idle")

\* Nothing more to do, or IsNodeInValidState is false at the start of TrySync.
SyncEnds(n, t) ==
  /\ \/ pc[n][t] = "headers" /\ node[n] # "up"
     \/ pc[n][t] = "filters" /\ fRange[n] # NoRange
  /\ Return(n, t)
  /\ UNCHANGED <<sharedVars, node, hRange, fRange, collected, wire, got>>

HasHeaderRange(n, t) ==
  /\ pc[n][t] = "headers" /\ node[n] = "up"
  /\ hRange[n] # NoRange
  /\ Goto(n, t, "filters")
  /\ UNCHANGED <<sharedVars, node, hRange, fRange, collected, wire, got>>

\* Seeded fault: without the look at the header before the range.
CanAssignHeadersAnywhere(tr) ==
  /\ Unassigned(tr, HeadersPerRequest) # {}
  /\ NextStart(tr, HeadersPerRequest) <= blockTip

\* TryAssignHeaderRange: a range starts below the tip of the block headers and
\* right above a known filter header.
CanAssignHeaders(tr) ==
  /\ Unassigned(tr, HeadersPerRequest) # {}
  /\ NextStart(tr, HeadersPerRequest) <= blockTip
  /\ NextStart(tr, HeadersPerRequest) - 1 <= Len(headers)

\* The test of _assignedHeaderRange and the call, which takes the lock and finds
\* the tracker tr after the release of a stale assignment.
AssignHeadersFrom(n, t, tr) ==
  /\ pc[n][t] = "headers" /\ node[n] = "up"
  /\ hRange[n] = NoRange
  /\ LockFree
  /\ LET start == NextStart(tr, HeadersPerRequest)
     IN  IF CanAssignHeaders(tr)
         THEN /\ hTracker' = AddActive(tr, start)
              /\ got' = [got EXCEPT ![n][t] =
                           RangeRequest(start, Least(start + HeadersPerRequest - 1, blockTip))]
              /\ Goto(n, t, "storeHeaders")
         ELSE /\ hTracker' = tr
              /\ Goto(n, t, "filters")
              /\ UNCHANGED got
  /\ UNCHANGED <<blockTip, headers, fTracker, delivered, node, hRange, fRange, collected, wire>>

AssignHeaders(n, t) ==
  \E tr \in {hTracker} \cup ReleaseStale(hTracker) : AssignHeadersFrom(n, t, tr)

\* The assignment is stored in the behavior, and the node is asked.
StoreHeaders(n, t) ==
  /\ pc[n][t] = "storeHeaders"
  /\ hRange' = [hRange EXCEPT ![n] = got[n][t]]
  /\ Request(n, "headers", got[n][t])
  /\ got' = [got EXCEPT ![n][t] = NoRange]
  /\ Goto(n, t, "filters")
  /\ UNCHANGED <<sharedVars, node, fRange, collected>>

\* Seeded fault: off by one at the tip of the filter headers.
CanAssignFiltersPastTip(tr) ==
  /\ Unassigned(tr, FiltersPerRequest) # {}
  /\ NextStart(tr, FiltersPerRequest) <= Len(headers) + 1

\* TryAssignFilterRange: a range starts below the tip of the filter headers.
CanAssignFilters(tr) ==
  /\ Unassigned(tr, FiltersPerRequest) # {}
  /\ NextStart(tr, FiltersPerRequest) <= Len(headers)

AssignFiltersFrom(n, t, tr) ==
  /\ pc[n][t] = "filters"
  /\ fRange[n] = NoRange
  /\ LockFree
  /\ LET start == NextStart(tr, FiltersPerRequest)
     IN  IF CanAssignFilters(tr)
         THEN /\ fTracker' = AddActive(tr, start)
              /\ got' = [got EXCEPT ![n][t] =
                           RangeRequest(start, Least(start + FiltersPerRequest - 1, Len(headers)))]
              /\ Goto(n, t, "storeFilters")
         ELSE /\ fTracker' = tr
              /\ Return(n, t)
              /\ UNCHANGED got
  /\ UNCHANGED <<blockTip, headers, hTracker, delivered, node, hRange, fRange, collected, wire>>

AssignFilters(n, t) ==
  \E tr \in {fTracker} \cup ReleaseStale(fTracker) : AssignFiltersFrom(n, t, tr)

StoreFilters(n, t) ==
  /\ pc[n][t] = "storeFilters"
  /\ fRange' = [fRange EXCEPT ![n] = got[n][t]]
  /\ collected' = [collected EXCEPT ![n] = <<>>]
  /\ Request(n, "filters", got[n][t])
  /\ got' = [got EXCEPT ![n][t] = NoRange]
  /\ Return(n, t)
  /\ UNCHANGED <<sharedVars, node, hRange>>

-----------------------------------------------------------------------------
(* HandleFilterHeaderMessage. *)

\* A cfheaders message can be looked at: the message thread is free, and its
\* node is in a valid state.
Receiving(n) == node[n] = "up" /\ pc[n]["message"] = "idle"

\* OnHeaderCompleted, up to its loop.
HeadersCompleted(n, batch) ==
  /\ LockFree
  /\ hTracker' = MoveActiveToPending(hTracker, hRange[n].start, batch)
  /\ Goto(n, "message", "drainHeaders")
  /\ UNCHANGED <<blockTip, headers, fTracker, delivered, node, hRange, fRange, collected, got>>

\* The header before start is the genuine one: it commits to all before it.
GenuineBelow(start) == \A h \in 1 .. start - 1 : headers[h]

\* The answer of an honest node: the hashes it was asked for, on top of the
\* genuine header before them.  It is compared with the assignment the behavior
\* has now, and its first header with the client's own chain.
HeadersAnswered(n) ==
  /\ Receiving(n)
  /\ wire[n] # <<>> /\ Head(wire[n]).kind = "headers"
  /\ LET asked == Head(wire[n])
     IN  \/ /\ hRange[n] = NoRange
            /\ wire' = [wire EXCEPT ![n] = Tail(@)]
            /\ UNCHANGED <<sharedVars, node, hRange, fRange, collected, pc, got>>
         \/ /\ hRange[n] # NoRange
            /\ asked.start # hRange[n].start \/ ~GenuineBelow(asked.start)
            /\ HandleInvalid(n)
         \/ /\ hRange[n] # NoRange
            /\ asked.start = hRange[n].start /\ GenuineBelow(asked.start)
            /\ HeadersCompleted(n, [i \in 1 .. asked.stop - asked.start + 1 |-> TRUE])
            /\ wire' = [wire EXCEPT ![n] = Tail(@)]

\* Any other node may send headers that start where its assignment does, as
\* many as there are blocks for, or anything that is rejected.
HeadersInvented(n) ==
  /\ n \notin Honest
  /\ Receiving(n)
  /\ hRange[n] # NoRange
  /\ \/ HandleInvalid(n)
     \/ /\ \E count \in 1 .. blockTip - hRange[n].start + 1 :
             \E batch \in [1 .. count -> BOOLEAN] : HeadersCompleted(n, batch)
        /\ UNCHANGED wire

\* One turn of ProcessPendingHeaderRanges, and what follows its last one: the
\* assignment is cleared and TrySync called.
DrainHeaders(n) ==
  /\ pc[n]["message"] = "drainHeaders"
  /\ LET next == hTracker.last + 1
     IN  IF next \in DOMAIN hTracker.pending
         THEN /\ headers' = headers \o hTracker.pending[next]
              /\ hTracker' = [RemovePending(hTracker, next) EXCEPT
                                !.last = @ + Len(hTracker.pending[next])]
              /\ UNCHANGED <<hRange, pc>>
         ELSE /\ hRange' = [hRange EXCEPT ![n] = NoRange]
              /\ Goto(n, "message", "headers")
              /\ UNCHANGED <<headers, hTracker>>
  /\ UNCHANGED <<blockTip, fTracker, delivered, node, fRange, collected, wire, got>>

-----------------------------------------------------------------------------
(* HandleFilterMessage. *)

\* A filter with the block hash of height block, the content of the genuine
\* (or of a forged) filter of height of.
Filter(block, of, genuine) == [block |-> block, of |-> of, genuine |-> genuine]

\* Seeded fault: a filter of the right height passes whatever its header is.
ValidatedByHeight(start, filters) ==
  \A i \in DOMAIN filters :
    start + i - 1 <= Len(headers) /\ filters[i].of = start + i - 1

\* ValidateFilters: the content of each filter gives the committed header of
\* its height.  Its block hash is not looked at.
Validated(start, filters) ==
  \A i \in DOMAIN filters :
    /\ start + i - 1 <= Len(headers)
    /\ filters[i].of = start + i - 1
    /\ filters[i].genuine = headers[start + i - 1]

\* The message has a filter for the current assignment: it is collected, and
\* the last one completes the range.
FilterReceived(n, filter) ==
  LET filters == Append(collected[n], filter)
      range   == fRange[n]
      last    == filter.block = range.stop \/ Len(filters) >= range.stop - range.start + 1
  IN  IF ~last
      THEN /\ collected' = [collected EXCEPT ![n] = filters]
           /\ UNCHANGED <<sharedVars, node, hRange, fRange, pc, got>>
      ELSE /\ LockFree
           /\ Validated(range.start, filters)
           /\ fTracker' = MoveActiveToPending(fTracker, range.start,
                [i \in DOMAIN filters |-> [height  |-> range.start + i - 1,
                                           block   |-> filters[i].block,
                                           genuine |-> filters[i].genuine]])
           /\ collected' = [collected EXCEPT ![n] = <<>>]
           /\ Goto(n, "message", "drainFilters")
           /\ UNCHANGED <<blockTip, headers, hTracker, delivered, node, hRange, fRange, got>>

\* The range is complete and its filters are not the committed ones.
FilterRejected(n, filter) ==
  LET filters == Append(collected[n], filter)
      range   == fRange[n]
  IN  /\ filter.block = range.stop \/ Len(filters) >= range.stop - range.start + 1
      /\ ~Validated(range.start, filters)
      /\ HandleInvalid(n)

\* The rest of the request at the head of the queue of n.
Answered(n) ==
  LET asked == Head(wire[n])
  IN  wire' = [wire EXCEPT ![n] =
                 IF asked.start = asked.stop THEN Tail(@)
                 ELSE [@ EXCEPT ![1].start = asked.start + 1]]

\* An honest node answers with one filter after the other.
FilterAnswered(n) ==
  /\ Receiving(n)
  /\ wire[n] # <<>> /\ Head(wire[n]).kind = "filters"
  /\ LET h == Head(wire[n]).start
     IN  \/ /\ fRange[n] = NoRange
            /\ Answered(n)
            /\ UNCHANGED <<sharedVars, node, hRange, fRange, collected, pc, got>>
         \/ /\ fRange[n] # NoRange
            /\ FilterReceived(n, Filter(h, h, TRUE))
            /\ Answered(n)
         \/ /\ fRange[n] # NoRange
            /\ FilterRejected(n, Filter(h, h, TRUE))

\* Any other node may send a filter of the next height, genuine or not, under
\* the hash of any block.
FilterInvented(n) ==
  /\ n \notin Honest
  /\ Receiving(n)
  /\ fRange[n] # NoRange
  /\ \E block \in 1 .. Tip, genuine \in BOOLEAN :
       LET filter == Filter(block, fRange[n].start + Len(collected[n]), genuine)
       IN  \/ FilterReceived(n, filter) /\ UNCHANGED wire
           \/ FilterRejected(n, filter)

\* Seeded fault: ranges are written as they come in.
DrainFiltersAsCompleted(n) ==
  /\ pc[n]["message"] = "drainFilters"
  /\ IF DOMAIN fTracker.pending # {}
     THEN /\ \E s \in DOMAIN fTracker.pending :
               /\ delivered' = delivered \o fTracker.pending[s]
               /\ fTracker' = [RemovePending(fTracker, s) EXCEPT
                                 !.last = @ + Len(fTracker.pending[s])]
          /\ UNCHANGED <<fRange, pc>>
     ELSE /\ fRange' = [fRange EXCEPT ![n] = NoRange]
          /\ Goto(n, "message", "headers")
          /\ UNCHANGED <<delivered, fTracker>>
  /\ UNCHANGED <<blockTip, headers, hTracker, node, hRange, collected, wire, got>>

\* One turn of TryMakeNextFilterRangeReadyNoLock, and what follows its last one.
DrainFilters(n) ==
  /\ pc[n]["message"] = "drainFilters"
  /\ LET next == fTracker.last + 1
     IN  IF next \in DOMAIN fTracker.pending
         THEN /\ delivered' = delivered \o fTracker.pending[next]
              /\ fTracker' = [RemovePending(fTracker, next) EXCEPT
                                !.last = @ + Len(fTracker.pending[next])]
              /\ UNCHANGED <<fRange, pc>>
         ELSE /\ fRange' = [fRange EXCEPT ![n] = NoRange]
              /\ Goto(n, "message", "headers")
              /\ UNCHANGED <<delivered, fTracker>>
  /\ UNCHANGED <<blockTip, headers, hTracker, node, hRange, collected, wire, got>>

-----------------------------------------------------------------------------

Init ==
  /\ blockTip \in Stored .. Tip
  /\ headers = [h \in 1 .. Stored |-> TRUE]
  /\ hTracker = Tracker(Stored)
  /\ fTracker = Tracker(Stored)
  /\ delivered = <<>>
  /\ node = [n \in Nodes |-> "new"]
  /\ hRange = [n \in Nodes |-> NoRange]
  /\ fRange = [n \in Nodes |-> NoRange]
  /\ collected = [n \in Nodes |-> <<>>]
  /\ wire = [n \in Nodes |-> <<>>]
  /\ pc = [n \in Nodes |-> [t \in Threads |-> "idle"]]
  /\ got = [n \in Nodes |-> [t \in Threads |-> NoRange]]

TrySync(n, t) ==
  \/ SyncEnds(n, t)
  \/ HasHeaderRange(n, t) \/ AssignHeaders(n, t) \/ StoreHeaders(n, t)
  \/ AssignFilters(n, t) \/ StoreFilters(n, t)

MessageReceived(n) ==
  \/ HeadersAnswered(n) \/ HeadersInvented(n)
  \/ FilterAnswered(n) \/ FilterInvented(n)

Next ==
  \/ Grow
  \/ \E n \in Nodes :
       \/ Handshake(n) \/ Lose(n) \/ Detach(n)
       \/ MessageReceived(n) \/ DrainHeaders(n) \/ DrainFilters(n)
       \/ \E t \in Threads : TrySync(n, t)

Spec == Init /\ [][Next]_vars

\* Threads run, the timer ticks, assignments grow old, and an honest node that
\* is connected answers.
Fairness ==
  /\ SF_vars(\E n \in Nodes, t \in Threads :
               \E tr \in ReleaseStale(hTracker) : AssignHeadersFrom(n, t, tr))
  /\ SF_vars(\E n \in Nodes, t \in Threads :
               \E tr \in ReleaseStale(fTracker) : AssignFiltersFrom(n, t, tr))
  /\ \A n \in Nodes :
       /\ WF_vars(Detach(n))
       /\ WF_vars(HeadersAnswered(n) \/ FilterAnswered(n))
       /\ WF_vars(DrainHeaders(n) \/ DrainFilters(n))
       /\ \A t \in Threads : WF_vars(TrySync(n, t))

FairSpec == Spec /\ Fairness

-----------------------------------------------------------------------------
(* Properties. *)

Statements == {"idle", "headers", "storeHeaders", "drainHeaders",
               "filters", "storeFilters", "drainFilters"}

Delivery == [height : 1 .. Tip, block : 1 .. Tip, genuine : BOOLEAN]

TrackerOK(tr, Response) ==
  /\ tr.last \in Stored .. Tip
  /\ tr.active \subseteq 1 .. Tip
  /\ \A s \in DOMAIN tr.pending : s \in 1 .. Tip /\ tr.pending[s] \in Response

FilterSyncTypeOK ==
  /\ blockTip \in Stored .. Tip
  /\ headers \in Seq(BOOLEAN)
  /\ TrackerOK(hTracker, Seq(BOOLEAN))
  /\ TrackerOK(fTracker, Seq(Delivery))
  /\ delivered \in Seq(Delivery)
  /\ node \in [Nodes -> {"new", "up", "invalid", "lost", "detached"}]
  /\ hRange \in [Nodes -> [start : 0 .. Tip, stop : 0 .. Tip]]
  /\ fRange \in [Nodes -> [start : 0 .. Tip, stop : 0 .. Tip]]
  /\ collected \in [Nodes -> Seq([block : 1 .. Tip, of : Nat, genuine : BOOLEAN])]
  /\ wire \in [Nodes -> Seq([kind : {"headers", "filters"}, start : 1 .. Tip, stop : 1 .. Tip])]
  /\ pc \in [Nodes -> [Threads -> Statements]]
  /\ got \in [Nodes -> [Threads -> [start : 0 .. Tip, stop : 0 .. Tip]]]

\* Whatever the nodes send, however slow they are and whenever they go, the
\* channel is fed as FilterFeed has it: block after block, with the committed
\* filters, although ranges are downloaded out of order, twice, or in part.
Feed == INSTANCE FilterFeed WITH
          committed <- headers,
          fed <- [i \in DOMAIN delivered |-> [height  |-> delivered[i].height,
                                              genuine |-> delivered[i].genuine]]

FeedsInOrder == Feed!Spec

\* Only the header range right above the tip of the filter headers is ever being
\* fetched, however often it was handed out and taken back: the previous header
\* that TryAssignHeaderRange asks for rules out any other, so a range of headers
\* never waits for one before it, and the lookahead limit is never met.
HeaderRangesFollowTip ==
  /\ hTracker.last = Len(headers)
  /\ hTracker.active \subseteq {hTracker.last + 1}

\* While one honest node stays connected, every filter of the chain the client
\* knows is delivered: a range whose node is lost, lies or is slow, and one whose
\* assignment was overwritten, is always handed out again.
AllDelivered ==
  (\E n \in Honest : <>[](node[n] = "up")) => <>[](Stored + Len(delivered) = blockTip)

\* A node is disconnected for invalid data (HandleInvalid: "Invalid compact
\* filters received") only if it sent some: a node that follows the protocol is
\* not, where no other kind of node has misled the client before.
HonestNotAccused == \A n \in Honest : node[n] # "invalid"

\* "cfilter block-hash mismatch is rejected or punished" (scenario/catalog.go):
\* a filter is delivered under the hash of the block at its height, not under
\* the hash that its sender gave.
FiltersNameTheirBlock ==
  \A i \in DOMAIN delivered : delivered[i].block = delivered[i].height

=============================================================================
