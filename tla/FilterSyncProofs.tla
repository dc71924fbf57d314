-------------------------- MODULE FilterSyncProofs --------------------------
(***************************************************************************)
(* The safety of the Wasabi synchronization for every number of nodes, of  *)
(* blocks and of threads, and every length of ranges: it implements        *)
(* FilterFeed whatever the nodes send.                                     *)
(***************************************************************************)
EXTENDS FilterSync, SequenceTheorems, WellFoundedInduction, TLAPS

(***************************************************************************)
(* The inductive invariant.                                                *)
(***************************************************************************)

\* A tracker has its three fields, and its completed ranges are a function.
IsTracker(tr) ==
  /\ tr = [last |-> tr.last, active |-> tr.active, pending |-> tr.pending]
  /\ tr.pending = [s \in DOMAIN tr.pending |-> tr.pending[s]]

\* A range of heights 1 .. top.
RangeWithin(r, top) ==
  /\ r = RangeRequest(r.start, r.stop)
  /\ r.start \in 1 .. top /\ r.stop \in r.start .. top

\* Ranges of headers end at the tip of the block headers, those of filters at
\* the tip of the filter headers, when they are handed out and ever after.
RangesInv ==
  /\ Len(headers) <= blockTip
  /\ \A n \in Nodes :
       /\ hRange[n] = NoRange \/ RangeWithin(hRange[n], blockTip)
       /\ fRange[n] = NoRange \/ RangeWithin(fRange[n], Len(headers))
       /\ \A i \in DOMAIN wire[n] : wire[n][i].stop \in wire[n][i].start .. blockTip
       /\ \A t \in Threads :
            /\ pc[n][t] = "storeHeaders" => RangeWithin(got[n][t], blockTip)
            /\ pc[n][t] = "storeFilters" => RangeWithin(got[n][t], Len(headers))

TypeInv ==
  /\ FilterSyncTypeOK
  /\ IsTracker(hTracker) /\ IsTracker(fTracker)
  /\ RangesInv

\* A completed range of headers is not empty, does not pass the tip of the block
\* headers, and is not being fetched.
HeaderInv ==
  /\ HeaderRangesFollowTip
  /\ hTracker.active \cap DOMAIN hTracker.pending = {}
  /\ \A s \in DOMAIN hTracker.pending :
       /\ Len(hTracker.pending[s]) >= 1
       /\ s + Len(hTracker.pending[s]) - 1 <= blockTip

\* The filters of filters are the committed ones of the heights from start on.
Committed(start, filters) ==
  /\ start + Len(filters) - 1 <= Len(headers)
  /\ \A i \in 1 .. Len(filters) :
       /\ filters[i].height = start + i - 1
       /\ filters[i].genuine = headers[start + i - 1]

FilterInv ==
  /\ fTracker.last = Stored + Len(delivered)
  /\ Committed(Stored + 1, delivered)
  /\ \A s \in DOMAIN fTracker.pending :
       Len(fTracker.pending[s]) >= 1 /\ Committed(s, fTracker.pending[s])

SyncInv == TypeInv /\ HeaderInv /\ FilterInv

-----------------------------------------------------------------------------
(* Lemmas about the trackers. *)

LEMMA LeastExists ==
  ASSUME NEW S, S \subseteq Nat, S # {}
  PROVE  \E k \in S : \A j \in S : k <= j
<1>1. PICK k \in S : \A j \in S : <<j, k>> \notin OpToRel(<, Nat)
  BY WFMin, NatLessThanWellFounded, Zenon
<1>2. \A j \in S : ~(j < k)
  BY <1>1, Zenon DEF OpToRel
<1>3. \A j \in S : j \in Nat
  OBVIOUS
<1> QED
  BY <1>2, <1>3

\* The next range is neither fetched nor completed, and not below the last one.
LEMMA NextStartIsUnassigned ==
  ASSUME NEW tr, NEW size \in Nat, tr.last \in Nat, Unassigned(tr, size) # {}
  PROVE  /\ NextStart(tr, size) \in Nat
         /\ NextStart(tr, size) >= tr.last + 1
         /\ NextStart(tr, size) \notin tr.active \cup DOMAIN tr.pending
<1> DEFINE U == Unassigned(tr, size)
           least == CHOOSE k \in U : \A j \in U : k <= j
<1>1. U \subseteq Nat
  BY FilterSyncAssumption DEF Unassigned
<1>2. \E k \in U : \A j \in U : k <= j
  BY <1>1, LeastExists
<1>3. least \in U
  BY <1>2
<1>4. least \in Nat /\ tr.last + 1 + least * size \notin tr.active \cup DOMAIN tr.pending
  BY <1>1, <1>3 DEF Unassigned
<1>5. NextStart(tr, size) = tr.last + 1 + size * least
  BY DEF NextStart
<1> HIDE DEF least
<1>6. size * least = least * size /\ size * least \in Nat
  BY <1>4
<1> QED
  BY <1>4, <1>5, <1>6

\* What the operators on trackers do to each field.
LEMMA AddUpdates ==
  ASSUME NEW tr, IsTracker(tr), NEW s
  PROVE  /\ IsTracker(AddActive(tr, s))
         /\ AddActive(tr, s).last = tr.last
         /\ AddActive(tr, s).active = tr.active \cup {s}
         /\ AddActive(tr, s).pending = tr.pending
<1> DEFINE l == tr.last
           a == tr.active
           p == tr.pending
<1>1. tr = [last |-> l, active |-> a, pending |-> p] /\ p = [r \in DOMAIN p |-> p[r]]
  BY DEF IsTracker
<1> HIDE DEF l, a, p
<1>2. AddActive(tr, s) = [last |-> l, active |-> a \cup {s}, pending |-> p]
  BY <1>1 DEF AddActive
<1> QED
  BY <1>1, <1>2 DEF IsTracker

LEMMA RemoveUpdates ==
  ASSUME NEW tr, IsTracker(tr), NEW s
  PROVE  /\ IsTracker(RemoveActive(tr, s))
         /\ RemoveActive(tr, s).last = tr.last
         /\ RemoveActive(tr, s).active = tr.active \ {s}
         /\ RemoveActive(tr, s).pending = tr.pending
<1> DEFINE l == tr.last
           a == tr.active
           p == tr.pending
<1>1. tr = [last |-> l, active |-> a, pending |-> p] /\ p = [r \in DOMAIN p |-> p[r]]
  BY DEF IsTracker
<1> HIDE DEF l, a, p
<1>2. RemoveActive(tr, s) = [last |-> l, active |-> a \ {s}, pending |-> p]
  BY <1>1 DEF RemoveActive
<1> QED
  BY <1>1, <1>2 DEF IsTracker

LEMMA MoveUpdates ==
  ASSUME NEW tr, IsTracker(tr), NEW s, NEW response
  PROVE  /\ IsTracker(MoveActiveToPending(tr, s, response))
         /\ MoveActiveToPending(tr, s, response).last = tr.last
         /\ MoveActiveToPending(tr, s, response).active = tr.active \ {s}
         /\ DOMAIN MoveActiveToPending(tr, s, response).pending = DOMAIN tr.pending \cup {s}
         /\ \A r \in DOMAIN tr.pending \cup {s} :
              MoveActiveToPending(tr, s, response).pending[r] =
                IF r = s THEN response ELSE tr.pending[r]
<1> DEFINE old == RemoveActive(tr, s)
           p   == [r \in DOMAIN tr.pending \cup {s} |-> IF r = s THEN response ELSE tr.pending[r]]
<1>1. IsTracker(old) /\ old.last = tr.last /\ old.active = tr.active \ {s}
  BY RemoveUpdates
<1>2. MoveActiveToPending(tr, s, response) = [old EXCEPT !.pending = p]
  BY DEF MoveActiveToPending
<1>3. p = [r \in DOMAIN p |-> p[r]]
  OBVIOUS
<1>4. /\ DOMAIN p = DOMAIN tr.pending \cup {s}
      /\ \A r \in DOMAIN tr.pending \cup {s} : p[r] = IF r = s THEN response ELSE tr.pending[r]
  OBVIOUS
<1> HIDE DEF old, p
<1>5. [old EXCEPT !.pending = p] = [last |-> old.last, active |-> old.active, pending |-> p]
  BY <1>1 DEF IsTracker
<1>6. IsTracker(MoveActiveToPending(tr, s, response))
  BY <1>2, <1>3, <1>5 DEF IsTracker
<1> QED
  BY <1>1, <1>2, <1>4, <1>5, <1>6

\* A turn of a drain loop: the k items of the range at s leave the tracker.
Drained(tr, s, k) == [RemovePending(tr, s) EXCEPT !.last = @ + k]

LEMMA DrainUpdates ==
  ASSUME NEW tr, IsTracker(tr), NEW s, NEW k
  PROVE  /\ IsTracker(Drained(tr, s, k))
         /\ Drained(tr, s, k).last = tr.last + k
         /\ Drained(tr, s, k).active = tr.active
         /\ DOMAIN Drained(tr, s, k).pending = DOMAIN tr.pending \ {s}
         /\ \A r \in DOMAIN tr.pending \ {s} :
              Drained(tr, s, k).pending[r] = tr.pending[r]
<1> DEFINE l == tr.last
           a == tr.active
           p == [r \in DOMAIN tr.pending \ {s} |-> tr.pending[r]]
<1>1. RemovePending(tr, s) = [last |-> l, active |-> a, pending |-> p]
  BY DEF RemovePending, IsTracker
<1>2. p = [r \in DOMAIN p |-> p[r]]
  OBVIOUS
<1>3. DOMAIN p = DOMAIN tr.pending \ {s} /\ \A r \in DOMAIN tr.pending \ {s} : p[r] = tr.pending[r]
  OBVIOUS
<1>4. l = tr.last /\ a = tr.active
  OBVIOUS
<1> HIDE DEF l, a, p
<1>5. Drained(tr, s, k) = [last |-> l + k, active |-> a, pending |-> p]
  BY <1>1 DEF Drained
<1>6. IsTracker(Drained(tr, s, k))
  BY <1>2, <1>5 DEF IsTracker
<1> QED
  BY <1>3, <1>4, <1>5, <1>6

-----------------------------------------------------------------------------
(* Types, and that ranges stay within their tips. *)

LEMMA InitTypes == Init => SyncInv
<1> SUFFICES ASSUME Init PROVE SyncInv
  OBVIOUS
<1> USE FilterSyncAssumption DEF Init
<1>1. headers \in Seq(BOOLEAN) /\ Len(headers) = Stored /\ DOMAIN headers = 1 .. Stored
  OBVIOUS
<1>2. IsTracker(Tracker(Stored))
  BY DEF IsTracker, Tracker
<1>3. /\ Tracker(Stored).last = Stored /\ Tracker(Stored).active = {}
      /\ DOMAIN Tracker(Stored).pending = {}
  BY DEF Tracker
<1>4. FilterSyncTypeOK
  BY <1>1, <1>3 DEF FilterSyncTypeOK, TrackerOK, NoRange, RangeRequest, Statements
<1>5. RangesInv
  BY <1>1 DEF RangesInv
<1>6. TypeInv
  BY <1>2, <1>4, <1>5 DEF TypeInv
<1>7. HeaderInv
  BY <1>1, <1>3 DEF HeaderInv, HeaderRangesFollowTip
<1>8. FilterInv
  BY <1>1, <1>3 DEF FilterInv, Committed
<1> QED
  BY <1>6, <1>7, <1>8 DEF SyncInv

\* What Release leaves of a behavior and of the trackers.
LEMMA ReleaseTypes ==
  ASSUME TypeInv, NEW n \in Nodes, Release(n)
  PROVE  /\ IsTracker(hTracker') /\ IsTracker(fTracker')
         /\ hTracker'.last = hTracker.last /\ fTracker'.last = fTracker.last
         /\ hTracker'.active \subseteq hTracker.active
         /\ fTracker'.active \subseteq fTracker.active
         /\ hTracker'.pending = hTracker.pending /\ fTracker'.pending = fTracker.pending
<1> DEFINE hs == hRange[n].start
           fs == fRange[n].start
<1>1. IsTracker(hTracker) /\ IsTracker(fTracker)
  BY DEF TypeInv
<1>2. hTracker' = hTracker \/ hTracker' = RemoveActive(hTracker, hs)
  BY DEF Release
<1>3. fTracker' = fTracker \/ fTracker' = RemoveActive(fTracker, fs)
  BY DEF Release
<1> HIDE DEF hs, fs
<1>4. QED
  BY <1>1, <1>2, <1>3, RemoveUpdates

\* The sequences of a behavior, and what is kept of them.
Assignments == [start : 0 .. Tip, stop : 0 .. Tip]

CollectedSeqs == Seq([block : 1 .. Tip, of : Nat, genuine : BOOLEAN])

WireSeqs == Seq([kind : {"headers", "filters"}, start : 1 .. Tip, stop : 1 .. Tip])

Conditions == {"new", "up", "invalid", "lost", "detached"}

LEMMA TypeParts ==
  FilterSyncTypeOK <=>
    /\ blockTip \in Stored .. Tip
    /\ headers \in Seq(BOOLEAN)
    /\ TrackerOK(hTracker, Seq(BOOLEAN))
    /\ TrackerOK(fTracker, Seq(Delivery))
    /\ delivered \in Seq(Delivery)
    /\ node \in [Nodes -> Conditions]
    /\ hRange \in [Nodes -> Assignments]
    /\ fRange \in [Nodes -> Assignments]
    /\ collected \in [Nodes -> CollectedSeqs]
    /\ wire \in [Nodes -> WireSeqs]
    /\ pc \in [Nodes -> [Threads -> Statements]]
    /\ got \in [Nodes -> [Threads -> Assignments]]
BY DEF FilterSyncTypeOK, Conditions, Assignments, CollectedSeqs, WireSeqs

LEMMA TypePartsNext ==
  FilterSyncTypeOK' <=>
    /\ blockTip' \in Stored .. Tip
    /\ headers' \in Seq(BOOLEAN)
    /\ TrackerOK(hTracker', Seq(BOOLEAN))
    /\ TrackerOK(fTracker', Seq(Delivery))
    /\ delivered' \in Seq(Delivery)
    /\ node' \in [Nodes -> Conditions]
    /\ hRange' \in [Nodes -> Assignments]
    /\ fRange' \in [Nodes -> Assignments]
    /\ collected' \in [Nodes -> CollectedSeqs]
    /\ wire' \in [Nodes -> WireSeqs]
    /\ pc' \in [Nodes -> [Threads -> Statements]]
    /\ got' \in [Nodes -> [Threads -> Assignments]]
BY DEF FilterSyncTypeOK, Conditions, Assignments, CollectedSeqs, WireSeqs

LEMMA NullTypes == NoRange \in Assignments /\ <<>> \in CollectedSeqs /\ <<>> \in WireSeqs
BY FilterSyncAssumption DEF NoRange, RangeRequest, Assignments, CollectedSeqs, WireSeqs

\* RangesInv is kept while the chains stay, by a step that empties some of the
\* assignments and queues.
LEMMA ReleasedRanges ==
  ASSUME TypeInv, NEW n \in Nodes, Release(n),
         UNCHANGED <<blockTip, headers, delivered, pc, got>>,
         wire' = wire \/ wire' = [wire EXCEPT ![n] = <<>>],
         node' \in [Nodes -> Conditions]
  PROVE  TypeInv'
<1>1. /\ IsTracker(hTracker') /\ IsTracker(fTracker')
      /\ TrackerOK(hTracker', Seq(BOOLEAN)) /\ TrackerOK(fTracker', Seq(Delivery))
  <2>1. TrackerOK(hTracker, Seq(BOOLEAN)) /\ TrackerOK(fTracker, Seq(Delivery))
    BY TypeParts DEF TypeInv
  <2> QED
    BY <2>1, ReleaseTypes DEF TrackerOK
<1>2. /\ hRange \in [Nodes -> Assignments] /\ fRange \in [Nodes -> Assignments]
      /\ collected \in [Nodes -> CollectedSeqs] /\ wire \in [Nodes -> WireSeqs]
  BY TypeParts DEF TypeInv
<1>3. /\ hRange' \in [Nodes -> Assignments] /\ fRange' \in [Nodes -> Assignments]
      /\ collected' \in [Nodes -> CollectedSeqs] /\ wire' \in [Nodes -> WireSeqs]
  BY <1>2, NullTypes DEF Release
<1>4. /\ \A m \in Nodes : hRange'[m] = NoRange \/ hRange'[m] = hRange[m]
      /\ \A m \in Nodes : fRange'[m] = NoRange \/ fRange'[m] = fRange[m]
      /\ \A m \in Nodes : wire'[m] = <<>> \/ wire'[m] = wire[m]
  BY <1>2 DEF Release
<1>5. FilterSyncTypeOK'
  BY <1>1, <1>3, TypeParts, TypePartsNext DEF TypeInv
<1>6. blockTip' = blockTip /\ headers' = headers /\ pc' = pc /\ got' = got
  OBVIOUS
<1>7. RangesInv'
  <2> SUFFICES ASSUME NEW m \in Nodes
               PROVE  /\ hRange'[m] = NoRange \/ RangeWithin(hRange'[m], blockTip)
                      /\ fRange'[m] = NoRange \/ RangeWithin(fRange'[m], Len(headers))
                      /\ \A i \in DOMAIN wire'[m] : wire'[m][i].stop \in wire'[m][i].start .. blockTip
    BY <1>6 DEF TypeInv, RangesInv, RangeWithin
  <2> QED
    BY <1>4 DEF TypeInv, RangesInv
<1> QED
  BY <1>1, <1>5, <1>7 DEF TypeInv

\* The queues of requests: each asks for blocks up to the tip.
AskedWithin(queue) == \A i \in DOMAIN queue : queue[i].stop \in queue[i].start .. blockTip

LEMMA GotoTypes ==
  ASSUME pc \in [Nodes -> [Threads -> Statements]],
         NEW n \in Nodes, NEW t \in Threads, NEW st \in Statements, Goto(n, t, st)
  PROVE  /\ pc' \in [Nodes -> [Threads -> Statements]]
         /\ pc'[n][t] = st
         /\ \A m \in Nodes, u \in Threads : m # n \/ u # t => pc'[m][u] = pc[m][u]
BY DEF Goto

LEMMA GotTypes ==
  ASSUME got \in [Nodes -> [Threads -> Assignments]],
         NEW n \in Nodes, NEW t \in Threads, NEW r \in Assignments,
         got' = [got EXCEPT ![n][t] = r]
  PROVE  /\ got' \in [Nodes -> [Threads -> Assignments]]
         /\ got'[n][t] = r
         /\ \A m \in Nodes, u \in Threads : m # n \/ u # t => got'[m][u] = got[m][u]
OBVIOUS

LEMMA RequestTypes ==
  ASSUME wire \in [Nodes -> WireSeqs], blockTip \in Stored .. Tip,
         \A m \in Nodes : AskedWithin(wire[m]),
         NEW n \in Nodes, NEW kind \in {"headers", "filters"}, NEW r, RangeWithin(r, blockTip),
         Request(n, kind, r)
  PROVE  /\ wire' \in [Nodes -> WireSeqs]
         /\ \A m \in Nodes : AskedWithin(wire'[m])
<1> DEFINE Asked == [kind : {"headers", "filters"}, start : 1 .. Tip, stop : 1 .. Tip]
           asked == [kind |-> kind, start |-> r.start, stop |-> r.stop]
<1>1. CASE wire' = wire
  BY <1>1
<1>2. CASE wire' = [wire EXCEPT ![n] = Append(@, asked)]
  <2>1. asked \in Asked /\ asked.stop \in asked.start .. blockTip
    BY FilterSyncAssumption DEF RangeWithin, RangeRequest
  <2>2. wire[n] \in Seq(Asked)
    BY DEF WireSeqs
  <2>3. wire'[n] = Append(wire[n], asked) /\ \A m \in Nodes \ {n} : wire'[m] = wire[m]
    BY <1>2
  <2> HIDE DEF asked, Asked
  <2>4. /\ Append(wire[n], asked) \in Seq(Asked)
        /\ DOMAIN Append(wire[n], asked) = 1 .. Len(wire[n]) + 1
        /\ \A i \in 1 .. Len(wire[n]) : Append(wire[n], asked)[i] = wire[n][i]
        /\ Append(wire[n], asked)[Len(wire[n]) + 1] = asked
        /\ DOMAIN wire[n] = 1 .. Len(wire[n]) /\ Len(wire[n]) \in Nat
    BY <2>1, <2>2, AppendProperties, LenProperties
  <2>5. \A i \in 1 .. Len(wire[n]) + 1 : i \in 1 .. Len(wire[n]) \/ i = Len(wire[n]) + 1
    BY <2>4
  <2>6. AskedWithin(wire'[n])
    BY <2>1, <2>3, <2>4, <2>5 DEF AskedWithin
  <2>7. wire' \in [Nodes -> WireSeqs]
    BY <1>2, <2>4 DEF WireSeqs, Asked
  <2> QED
    BY <2>3, <2>6, <2>7
<1> QED
  BY <1>1, <1>2 DEF Request

LEMMA AnsweredTypes ==
  ASSUME wire \in [Nodes -> WireSeqs], blockTip \in Stored .. Tip,
         \A m \in Nodes : AskedWithin(wire[m]),
         NEW n \in Nodes, wire[n] # <<>>,
         \/ Answered(n)
         \/ wire' = [wire EXCEPT ![n] = Tail(@)]
  PROVE  /\ wire' \in [Nodes -> WireSeqs]
         /\ \A m \in Nodes : AskedWithin(wire'[m])
<1> DEFINE Asked == [kind : {"headers", "filters"}, start : 1 .. Tip, stop : 1 .. Tip]
           q == wire[n]
<1>1. q \in Seq(Asked) /\ q # <<>>
  BY DEF WireSeqs
<1>2. AskedWithin(q)
  OBVIOUS
<1>3. wire' = [wire EXCEPT ![n] = wire'[n]]
  BY DEF Answered
<1>4. SUFFICES wire'[n] \in Seq(Asked) /\ AskedWithin(wire'[n])
  BY <1>3 DEF WireSeqs
<1>5. CASE wire'[n] = Tail(q)
  <2>1. /\ Tail(q) \in Seq(Asked) /\ Len(Tail(q)) = Len(q) - 1 /\ Len(q) \in Nat
        /\ \A i \in 1 .. Len(Tail(q)) : Tail(q)[i] = q[i + 1]
        /\ DOMAIN Tail(q) = 1 .. Len(Tail(q)) /\ DOMAIN q = 1 .. Len(q)
    BY <1>1, HeadTailProperties, LenProperties
  <2>2. \A i \in 1 .. Len(Tail(q)) : i + 1 \in 1 .. Len(q)
    BY <2>1
  <2> QED
    BY <1>2, <1>5, <2>1, <2>2 DEF AskedWithin
<1>6. CASE /\ Head(q).start # Head(q).stop
           /\ wire'[n] = [q EXCEPT ![1].start = Head(q).start + 1]
  <2> DEFINE rest == [Head(q) EXCEPT !.start = Head(q).start + 1]
  <2>1. /\ Len(q) \in Nat /\ 1 \in 1 .. Len(q) /\ DOMAIN q = 1 .. Len(q) /\ Head(q) = q[1]
        /\ Head(q) \in Asked
    <3>1. PICK p \in Seq(Asked) : p = q /\ p # <<>>
      BY <1>1
    <3> HIDE DEF Asked, q
    <3>2. /\ Len(p) \in Nat /\ 1 \in 1 .. Len(p) /\ DOMAIN p = 1 .. Len(p) /\ Head(p) = p[1]
          /\ Head(p) \in Asked
      BY <3>1
    <3> QED
      BY <3>1, <3>2
  <2>2. Head(q).stop \in Head(q).start .. blockTip
    BY <1>2, <2>1 DEF AskedWithin
  <2>3. rest \in Asked /\ rest.stop \in rest.start .. blockTip
    <3>1. PICK h \in Asked : h = Head(q)
      BY <2>1
    <3>2. /\ h.kind \in {"headers", "filters"} /\ h.start \in 1 .. Tip /\ h.stop \in 1 .. Tip
          /\ h = [kind |-> h.kind, start |-> h.start, stop |-> h.stop]
      OBVIOUS
    <3>3. h.start + 1 \in 1 .. Tip /\ h.stop \in h.start + 1 .. blockTip
      BY <1>6, <2>2, <3>1, <3>2, FilterSyncAssumption
    <3>4. rest = [kind |-> h.kind, start |-> h.start + 1, stop |-> h.stop]
      BY <3>1, <3>2
    <3> HIDE DEF rest
    <3> QED
      BY <3>2, <3>3, <3>4
  <2>4. wire'[n] = [q EXCEPT ![1] = rest]
    BY <1>6, <2>1
  <2> HIDE DEF rest
  <2>5. /\ wire'[n] \in Seq(Asked) /\ DOMAIN wire'[n] = DOMAIN q
        /\ wire'[n][1] = rest /\ \A i \in 1 .. Len(q) : i # 1 => wire'[n][i] = q[i]
    BY <1>1, <2>1, <2>3, <2>4, ExceptSeq
  <2> QED
    BY <1>2, <2>1, <2>3, <2>5 DEF AskedWithin
<1> QED
  BY <1>5, <1>6 DEF Answered

\* The ranges of every behavior at once, for the steps that follow.
NodeRangesOK(n, hr, fr, queue, pcs, gots) ==
  /\ hr = NoRange \/ RangeWithin(hr, blockTip)
  /\ fr = NoRange \/ RangeWithin(fr, Len(headers))
  /\ AskedWithin(queue)
  /\ \A t \in Threads :
       /\ pcs[t] = "storeHeaders" => RangeWithin(gots[t], blockTip)
       /\ pcs[t] = "storeFilters" => RangeWithin(gots[t], Len(headers))

\* The steps of a behavior that leave both chains as they are.
LEMMA RangesByNode ==
  ASSUME RangesInv, UNCHANGED <<blockTip, headers>>,
         \A n \in Nodes : NodeRangesOK(n, hRange'[n], fRange'[n], wire'[n], pc'[n], got'[n])
  PROVE  RangesInv'
<1>1. blockTip' = blockTip /\ headers' = headers
  OBVIOUS
<1> QED
  BY <1>1 DEF RangesInv, RangeWithin, NodeRangesOK, AskedWithin

LEMMA RangesOfNodes ==
  ASSUME RangesInv
  PROVE  \A n \in Nodes : NodeRangesOK(n, hRange[n], fRange[n], wire[n], pc[n], got[n])
BY DEF RangesInv, NodeRangesOK, AskedWithin

\* TrySync keeps the types.
LEMMA TrySyncTypes ==
  ASSUME SyncInv, NEW n \in Nodes, NEW t \in Threads, TrySync(n, t)
  PROVE  TypeInv'
<1>1. /\ blockTip \in Stored .. Tip /\ headers \in Seq(BOOLEAN) /\ delivered \in Seq(Delivery)
      /\ TrackerOK(hTracker, Seq(BOOLEAN)) /\ TrackerOK(fTracker, Seq(Delivery))
      /\ node \in [Nodes -> Conditions] /\ hRange \in [Nodes -> Assignments]
      /\ fRange \in [Nodes -> Assignments] /\ collected \in [Nodes -> CollectedSeqs]
      /\ wire \in [Nodes -> WireSeqs] /\ pc \in [Nodes -> [Threads -> Statements]]
      /\ got \in [Nodes -> [Threads -> Assignments]]
  BY TypeParts DEF SyncInv, TypeInv
<1>2. /\ IsTracker(hTracker) /\ IsTracker(fTracker) /\ RangesInv
      /\ \A m \in Nodes : NodeRangesOK(m, hRange[m], fRange[m], wire[m], pc[m], got[m])
  BY RangesOfNodes DEF SyncInv, TypeInv
<1>3. /\ Len(headers) \in Nat /\ Len(headers) <= blockTip
      /\ blockTip \in Nat /\ Tip \in Nat /\ blockTip <= Tip
  BY <1>1, <1>2, FilterSyncAssumption, LenProperties DEF RangesInv
<1>4. CASE SyncEnds(n, t) \/ HasHeaderRange(n, t)
  <2>1. PICK st \in {"headers", "idle", "filters"} : Goto(n, t, st)
    BY <1>4 DEF SyncEnds, HasHeaderRange, Return
  <2>2. st \in Statements
    BY DEF Statements
  <2>3. /\ UNCHANGED <<blockTip, headers, hTracker, fTracker, delivered>>
        /\ UNCHANGED <<node, hRange, fRange, collected, wire, got>>
    BY <1>4 DEF SyncEnds, HasHeaderRange, sharedVars
  <2>4. /\ pc' \in [Nodes -> [Threads -> Statements]] /\ pc'[n][t] = st
        /\ \A m \in Nodes, u \in Threads : m # n \/ u # t => pc'[m][u] = pc[m][u]
    BY <1>1, <2>1, <2>2, GotoTypes
  <2>5. FilterSyncTypeOK'
    BY <1>1, <2>3, <2>4, TypePartsNext
  <2>6. RangesInv'
    BY <1>2, <2>1, <2>3, <2>4, RangesByNode DEF NodeRangesOK
  <2> QED
    BY <1>2, <2>3, <2>5, <2>6 DEF TypeInv
<1>5. CASE AssignHeaders(n, t)
  <2>1. PICK tr \in {hTracker} \cup ReleaseStale(hTracker) : AssignHeadersFrom(n, t, tr)
    BY <1>5 DEF AssignHeaders
  <2> DEFINE start == NextStart(tr, HeadersPerRequest)
             r     == RangeRequest(start, Least(start + HeadersPerRequest - 1, blockTip))
  <2>2. /\ IsTracker(tr) /\ TrackerOK(tr, Seq(BOOLEAN)) /\ tr.last = hTracker.last
    BY <1>1, <1>2, <2>1, RemoveUpdates DEF ReleaseStale, TrackerOK
  <2>3. /\ UNCHANGED <<blockTip, headers, fTracker, delivered>>
        /\ UNCHANGED <<node, hRange, fRange, collected, wire>>
    BY <2>1 DEF AssignHeadersFrom
  <2>4. CASE CanAssignHeaders(tr)
    <3>1. start \in 1 .. blockTip
      BY <1>1, <1>3, <2>2, <2>4, NextStartIsUnassigned, FilterSyncAssumption
         DEF CanAssignHeaders, TrackerOK
    <3>2. RangeWithin(r, blockTip) /\ r \in Assignments
      BY <1>3, <3>1, FilterSyncAssumption DEF RangeWithin, RangeRequest, Least, Assignments
    <3>3. /\ hTracker' = AddActive(tr, start) /\ got' = [got EXCEPT ![n][t] = r]
          /\ Goto(n, t, "storeHeaders")
      BY <2>1, <2>4 DEF AssignHeadersFrom
    <3> HIDE DEF r, start
    <3>4. IsTracker(hTracker') /\ TrackerOK(hTracker', Seq(BOOLEAN))
      <4>1. /\ IsTracker(hTracker') /\ hTracker'.last = tr.last /\ hTracker'.pending = tr.pending
            /\ hTracker'.active = tr.active \cup {start}
        BY <2>2, <3>3, AddUpdates
      <4>2. start \in 1 .. Tip
        BY <1>3, <3>1
      <4> QED
        BY <2>2, <4>1, <4>2 DEF TrackerOK
    <3>5. /\ pc' \in [Nodes -> [Threads -> Statements]] /\ pc'[n][t] = "storeHeaders"
          /\ \A m \in Nodes, u \in Threads : m # n \/ u # t => pc'[m][u] = pc[m][u]
      BY <1>1, <3>3, GotoTypes DEF Statements
    <3>6. /\ got' \in [Nodes -> [Threads -> Assignments]] /\ got'[n][t] = r
          /\ \A m \in Nodes, u \in Threads : m # n \/ u # t => got'[m][u] = got[m][u]
      BY <1>1, <3>2, <3>3, GotTypes
    <3>7. FilterSyncTypeOK'
      BY <1>1, <2>3, <3>4, <3>5, <3>6, TypePartsNext
    <3>8. RangesInv'
      BY <1>2, <2>3, <3>2, <3>5, <3>6, RangesByNode DEF NodeRangesOK
    <3> QED
      BY <1>2, <2>3, <3>4, <3>7, <3>8 DEF TypeInv
  <2>5. CASE ~CanAssignHeaders(tr)
    <3>1. hTracker' = tr /\ Goto(n, t, "filters") /\ got' = got
      BY <2>1, <2>5 DEF AssignHeadersFrom
    <3>2. /\ pc' \in [Nodes -> [Threads -> Statements]] /\ pc'[n][t] = "filters"
          /\ \A m \in Nodes, u \in Threads : m # n \/ u # t => pc'[m][u] = pc[m][u]
      BY <1>1, <3>1, GotoTypes DEF Statements
    <3>3. FilterSyncTypeOK'
      BY <1>1, <2>2, <2>3, <3>1, <3>2, TypePartsNext
    <3>4. RangesInv'
      BY <1>2, <2>3, <3>1, <3>2, RangesByNode DEF NodeRangesOK
    <3> QED
      BY <1>2, <2>2, <2>3, <3>1, <3>3, <3>4 DEF TypeInv
  <2> QED
    BY <2>4, <2>5
<1>6. CASE StoreHeaders(n, t)
  <2>1. /\ UNCHANGED <<blockTip, headers, hTracker, fTracker, delivered>>
        /\ UNCHANGED <<node, fRange, collected>>
        /\ pc[n][t] = "storeHeaders" /\ Goto(n, t, "filters")
        /\ hRange' = [hRange EXCEPT ![n] = got[n][t]]
        /\ got' = [got EXCEPT ![n][t] = NoRange]
        /\ Request(n, "headers", got[n][t])
    BY <1>6 DEF StoreHeaders, sharedVars
  <2>2. RangeWithin(got[n][t], blockTip) /\ got[n][t] \in Assignments
    BY <1>1, <1>2, <2>1 DEF NodeRangesOK
  <2>3. hRange' \in [Nodes -> Assignments] /\ hRange'[n] = got[n][t]
        /\ \A m \in Nodes \ {n} : hRange'[m] = hRange[m]
    BY <1>1, <2>1, <2>2
  <2>4. /\ pc' \in [Nodes -> [Threads -> Statements]] /\ pc'[n][t] = "filters"
        /\ \A m \in Nodes, u \in Threads : m # n \/ u # t => pc'[m][u] = pc[m][u]
    BY <1>1, <2>1, GotoTypes DEF Statements
  <2>5. /\ got' \in [Nodes -> [Threads -> Assignments]]
        /\ \A m \in Nodes, u \in Threads : m # n \/ u # t => got'[m][u] = got[m][u]
    BY <1>1, <2>1, NullTypes, GotTypes
  <2>6. wire' \in [Nodes -> WireSeqs] /\ \A m \in Nodes : AskedWithin(wire'[m])
    BY <1>1, <1>2, <2>1, <2>2, RequestTypes DEF NodeRangesOK
  <2>7. FilterSyncTypeOK'
    BY <1>1, <2>1, <2>3, <2>4, <2>5, <2>6, TypePartsNext
  <2>8. RangesInv'
    BY <1>2, <2>1, <2>2, <2>3, <2>4, <2>5, <2>6, RangesByNode DEF NodeRangesOK
  <2> QED
    BY <1>2, <2>1, <2>7, <2>8 DEF TypeInv
<1>7. CASE AssignFilters(n, t)
  <2>1. PICK tr \in {fTracker} \cup ReleaseStale(fTracker) : AssignFiltersFrom(n, t, tr)
    BY <1>7 DEF AssignFilters
  <2> DEFINE start == NextStart(tr, FiltersPerRequest)
             r     == RangeRequest(start, Least(start + FiltersPerRequest - 1, Len(headers)))
  <2>2. /\ IsTracker(tr) /\ TrackerOK(tr, Seq(Delivery)) /\ tr.last = fTracker.last
    BY <1>1, <1>2, <2>1, RemoveUpdates DEF ReleaseStale, TrackerOK
  <2>3. /\ UNCHANGED <<blockTip, headers, hTracker, delivered>>
        /\ UNCHANGED <<node, hRange, fRange, collected, wire>>
    BY <2>1 DEF AssignFiltersFrom
  <2>4. CASE CanAssignFilters(tr)
    <3>1. start \in 1 .. Len(headers)
      BY <1>1, <1>3, <2>2, <2>4, NextStartIsUnassigned, FilterSyncAssumption
         DEF CanAssignFilters, TrackerOK
    <3>2. RangeWithin(r, Len(headers)) /\ r \in Assignments
      BY <1>3, <3>1, FilterSyncAssumption DEF RangeWithin, RangeRequest, Least, Assignments
    <3>3. /\ fTracker' = AddActive(tr, start) /\ got' = [got EXCEPT ![n][t] = r]
          /\ Goto(n, t, "storeFilters")
      BY <2>1, <2>4 DEF AssignFiltersFrom
    <3> HIDE DEF r, start
    <3>4. IsTracker(fTracker') /\ TrackerOK(fTracker', Seq(Delivery))
      <4>1. /\ IsTracker(fTracker') /\ fTracker'.last = tr.last /\ fTracker'.pending = tr.pending
            /\ fTracker'.active = tr.active \cup {start}
        BY <2>2, <3>3, AddUpdates
      <4>2. start \in 1 .. Tip
        BY <1>3, <3>1
      <4> QED
        BY <2>2, <4>1, <4>2 DEF TrackerOK
    <3>5. /\ pc' \in [Nodes -> [Threads -> Statements]] /\ pc'[n][t] = "storeFilters"
          /\ \A m \in Nodes, u \in Threads : m # n \/ u # t => pc'[m][u] = pc[m][u]
      BY <1>1, <3>3, GotoTypes DEF Statements
    <3>6. /\ got' \in [Nodes -> [Threads -> Assignments]] /\ got'[n][t] = r
          /\ \A m \in Nodes, u \in Threads : m # n \/ u # t => got'[m][u] = got[m][u]
      BY <1>1, <3>2, <3>3, GotTypes
    <3>7. FilterSyncTypeOK'
      BY <1>1, <2>3, <3>4, <3>5, <3>6, TypePartsNext
    <3>8. RangesInv'
      BY <1>2, <2>3, <3>2, <3>5, <3>6, RangesByNode DEF NodeRangesOK
    <3> QED
      BY <1>2, <2>3, <3>4, <3>7, <3>8 DEF TypeInv
  <2>5. CASE ~CanAssignFilters(tr)
    <3>1. fTracker' = tr /\ got' = got
      BY <2>1, <2>5 DEF AssignFiltersFrom
    <3>2. PICK st \in {"headers", "idle"} : Goto(n, t, st)
      BY <2>1, <2>5 DEF AssignFiltersFrom, Return
    <3>3. /\ pc' \in [Nodes -> [Threads -> Statements]] /\ pc'[n][t] = st
          /\ \A m \in Nodes, u \in Threads : m # n \/ u # t => pc'[m][u] = pc[m][u]
      BY <1>1, <3>2, GotoTypes DEF Statements
    <3>4. FilterSyncTypeOK'
      BY <1>1, <2>2, <2>3, <3>1, <3>3, TypePartsNext
    <3>5. RangesInv'
      BY <1>2, <2>3, <3>1, <3>2, <3>3, RangesByNode DEF NodeRangesOK
    <3> QED
      BY <1>2, <2>2, <2>3, <3>1, <3>4, <3>5 DEF TypeInv
  <2> QED
    BY <2>4, <2>5
<1>8. CASE StoreFilters(n, t)
  <2>1. /\ UNCHANGED <<blockTip, headers, hTracker, fTracker, delivered>>
        /\ UNCHANGED <<node, hRange>>
        /\ pc[n][t] = "storeFilters"
        /\ fRange' = [fRange EXCEPT ![n] = got[n][t]]
        /\ collected' = [collected EXCEPT ![n] = <<>>]
        /\ got' = [got EXCEPT ![n][t] = NoRange]
        /\ Request(n, "filters", got[n][t])
    BY <1>8 DEF StoreFilters, sharedVars
  <2>2. RangeWithin(got[n][t], Len(headers)) /\ got[n][t] \in Assignments
    BY <1>1, <1>2, <2>1 DEF NodeRangesOK
  <2>3. RangeWithin(got[n][t], blockTip)
    BY <1>3, <2>2 DEF RangeWithin
  <2>4. /\ fRange' \in [Nodes -> Assignments] /\ fRange'[n] = got[n][t]
        /\ \A m \in Nodes \ {n} : fRange'[m] = fRange[m]
        /\ collected' \in [Nodes -> CollectedSeqs]
    BY <1>1, <2>1, <2>2, NullTypes
  <2>5. PICK st \in {"headers", "idle"} : Goto(n, t, st)
    BY <1>8 DEF StoreFilters, Return
  <2>6. /\ pc' \in [Nodes -> [Threads -> Statements]] /\ pc'[n][t] = st
        /\ \A m \in Nodes, u \in Threads : m # n \/ u # t => pc'[m][u] = pc[m][u]
    BY <1>1, <2>5, GotoTypes DEF Statements
  <2>7. /\ got' \in [Nodes -> [Threads -> Assignments]]
        /\ \A m \in Nodes, u \in Threads : m # n \/ u # t => got'[m][u] = got[m][u]
    BY <1>1, <2>1, NullTypes, GotTypes
  <2>8. wire' \in [Nodes -> WireSeqs] /\ \A m \in Nodes : AskedWithin(wire'[m])
    BY <1>1, <1>2, <2>1, <2>3, RequestTypes DEF NodeRangesOK
  <2>9. FilterSyncTypeOK'
    BY <1>1, <2>1, <2>4, <2>6, <2>7, <2>8, TypePartsNext
  <2>10. NodeRangesOK(n, hRange'[n], fRange'[n], wire'[n], pc'[n], got'[n])
    <3>1. hRange'[n] = NoRange \/ RangeWithin(hRange'[n], blockTip)
      BY <1>2, <2>1 DEF NodeRangesOK
    <3>2. \A u \in Threads :
            \/ pc'[n][u] \notin {"storeHeaders", "storeFilters"}
            \/ pc'[n][u] = pc[n][u] /\ got'[n][u] = got[n][u]
      BY <2>6, <2>7
    <3> QED
      BY <1>2, <2>2, <2>4, <2>8, <3>1, <3>2 DEF NodeRangesOK
  <2>11. \A m \in Nodes \ {n} : NodeRangesOK(m, hRange'[m], fRange'[m], wire'[m], pc'[m], got'[m])
    <3> TAKE m \in Nodes \ {n}
    <3>1. hRange'[m] = hRange[m] /\ fRange'[m] = fRange[m] /\ AskedWithin(wire'[m])
      BY <2>1, <2>4, <2>8
    <3>2. \A u \in Threads : pc'[m][u] = pc[m][u] /\ got'[m][u] = got[m][u]
      BY <2>6, <2>7
    <3> QED
      BY <1>2, <3>1, <3>2 DEF NodeRangesOK
  <2>12. RangesInv'
    BY <1>2, <2>1, <2>10, <2>11, RangesByNode
  <2> QED
    BY <1>2, <2>1, <2>9, <2>12 DEF TypeInv
<1> QED
  BY <1>4, <1>5, <1>6, <1>7, <1>8 DEF TrySync

\* What the invariant says of each variable.
LEMMA StateTypes ==
  ASSUME SyncInv
  PROVE  /\ blockTip \in Stored .. Tip /\ headers \in Seq(BOOLEAN) /\ delivered \in Seq(Delivery)
         /\ TrackerOK(hTracker, Seq(BOOLEAN)) /\ TrackerOK(fTracker, Seq(Delivery))
         /\ node \in [Nodes -> Conditions] /\ hRange \in [Nodes -> Assignments]
         /\ fRange \in [Nodes -> Assignments] /\ collected \in [Nodes -> CollectedSeqs]
         /\ wire \in [Nodes -> WireSeqs] /\ pc \in [Nodes -> [Threads -> Statements]]
         /\ got \in [Nodes -> [Threads -> Assignments]]
         /\ IsTracker(hTracker) /\ IsTracker(fTracker) /\ RangesInv
         /\ \A m \in Nodes : NodeRangesOK(m, hRange[m], fRange[m], wire[m], pc[m], got[m])
         /\ Len(headers) \in Nat /\ Len(headers) <= blockTip /\ Stored \in Nat
         /\ blockTip \in Nat /\ Tip \in Nat /\ blockTip <= Tip
<1>1. FilterSyncTypeOK /\ IsTracker(hTracker) /\ IsTracker(fTracker) /\ RangesInv
  BY DEF SyncInv, TypeInv
<1>2. blockTip \in Stored .. Tip /\ headers \in Seq(BOOLEAN)
  BY <1>1, TypeParts
<1>3. /\ Len(headers) \in Nat /\ Len(headers) <= blockTip /\ Stored \in Nat
      /\ blockTip \in Nat /\ Tip \in Nat /\ blockTip <= Tip
  BY <1>1, <1>2, FilterSyncAssumption, LenProperties DEF RangesInv
<1> QED
  BY <1>1, <1>3, TypeParts, RangesOfNodes

\* The message thread of a behavior moves on.
LEMMA MessageGoes ==
  ASSUME SyncInv, NEW n \in Nodes,
         NEW st \in Statements, st \notin {"storeHeaders", "storeFilters"}, Goto(n, "message", st)
  PROVE  /\ pc' \in [Nodes -> [Threads -> Statements]]
         /\ \A m \in Nodes, u \in Threads :
              pc'[m][u] = pc[m][u] \/ pc'[m][u] \notin {"storeHeaders", "storeFilters"}
<1>1. "message" \in Threads /\ pc \in [Nodes -> [Threads -> Statements]]
  BY FilterSyncAssumption, StateTypes
<1>2. /\ pc' \in [Nodes -> [Threads -> Statements]] /\ pc'[n]["message"] = st
      /\ \A m \in Nodes, u \in Threads : m # n \/ u # "message" => pc'[m][u] = pc[m][u]
  BY <1>1, GotoTypes
<1> QED
  BY <1>2

\* The ranges after a step of a message thread, which assigns none.
LEMMA RangesOfMessage ==
  ASSUME SyncInv, UNCHANGED <<blockTip, headers, got>>,
         \A m \in Nodes : hRange'[m] = NoRange \/ hRange'[m] = hRange[m],
         \A m \in Nodes : fRange'[m] = NoRange \/ fRange'[m] = fRange[m],
         \A m \in Nodes : AskedWithin(wire'[m]),
         \A m \in Nodes, u \in Threads :
            pc'[m][u] = pc[m][u] \/ pc'[m][u] \notin {"storeHeaders", "storeFilters"}
  PROVE  RangesInv'
<1>1. RangesInv /\ got' = got
      /\ \A m \in Nodes : NodeRangesOK(m, hRange[m], fRange[m], wire[m], pc[m], got[m])
  BY StateTypes
<1>2. \A m \in Nodes : NodeRangesOK(m, hRange'[m], fRange'[m], wire'[m], pc'[m], got'[m])
  <2> TAKE m \in Nodes
  <2>1. NodeRangesOK(m, hRange[m], fRange[m], wire[m], pc[m], got[m])
    BY <1>1
  <2> QED
    BY <1>1, <2>1 DEF NodeRangesOK
<1> QED
  BY <1>1, <1>2, RangesByNode

LEMMA HeadersCompletedTypes ==
  ASSUME SyncInv, NEW n \in Nodes, NEW batch \in Seq(BOOLEAN), hRange[n] # NoRange,
         HeadersCompleted(n, batch),
         wire' \in [Nodes -> WireSeqs], \A m \in Nodes : AskedWithin(wire'[m])
  PROVE  TypeInv'
<1> DEFINE start == hRange[n].start
<1>1. /\ hTracker' = MoveActiveToPending(hTracker, start, batch) /\ Goto(n, "message", "drainHeaders")
      /\ UNCHANGED <<blockTip, headers, fTracker, delivered>>
      /\ UNCHANGED <<node, hRange, fRange, collected, got>>
  BY DEF HeadersCompleted
<1>2. start \in 1 .. Tip
  BY StateTypes DEF NodeRangesOK, RangeWithin
<1> HIDE DEF start
<1>3. IsTracker(hTracker') /\ TrackerOK(hTracker', Seq(BOOLEAN))
  <2>1. /\ IsTracker(hTracker') /\ hTracker'.last = hTracker.last
        /\ hTracker'.active = hTracker.active \ {start}
        /\ DOMAIN hTracker'.pending = DOMAIN hTracker.pending \cup {start}
        /\ \A r \in DOMAIN hTracker.pending \cup {start} :
             hTracker'.pending[r] = IF r = start THEN batch ELSE hTracker.pending[r]
    BY <1>1, StateTypes, MoveUpdates
  <2> QED
    BY <1>2, <2>1, StateTypes DEF TrackerOK
<1>4. /\ pc' \in [Nodes -> [Threads -> Statements]]
      /\ \A m \in Nodes, u \in Threads :
           pc'[m][u] = pc[m][u] \/ pc'[m][u] \notin {"storeHeaders", "storeFilters"}
  BY <1>1, MessageGoes DEF Statements
<1>5. FilterSyncTypeOK'
  BY <1>1, <1>3, <1>4, StateTypes, TypePartsNext
<1>6. RangesInv'
  BY <1>1, <1>4, RangesOfMessage
<1> QED
  BY <1>1, <1>3, <1>5, <1>6, StateTypes DEF TypeInv

\* The filters of a completed range, as they are written to the channel.
Completed(start, filters) ==
  [i \in DOMAIN filters |-> [height  |-> start + i - 1,
                             block   |-> filters[i].block,
                             genuine |-> filters[i].genuine]]

LEMMA CompletedIsCommitted ==
  ASSUME SyncInv, NEW start \in 1 .. Tip, NEW filters \in CollectedSeqs, filters # <<>>,
         Validated(start, filters)
  PROVE  /\ Completed(start, filters) \in Seq(Delivery)
         /\ Len(Completed(start, filters)) >= 1
         /\ Committed(start, Completed(start, filters))
<1> DEFINE Collectable == [block : 1 .. Tip, of : Nat, genuine : BOOLEAN]
           k == Len(filters)
<1>1. k \in Nat /\ k >= 1 /\ DOMAIN filters = 1 .. k /\ \A i \in 1 .. k : filters[i] \in Collectable
  <2>1. filters \in Seq(Collectable)
    BY DEF CollectedSeqs
  <2> HIDE DEF Collectable
  <2> QED
    BY <2>1, LenProperties, EmptySeq
<1>2. \A i \in 1 .. k : filters[i].block \in 1 .. Tip /\ filters[i].genuine \in BOOLEAN
  BY <1>1
<1> HIDE DEF k, Collectable
<1>3. \A i \in 1 .. k : /\ start + i - 1 <= Len(headers)
                        /\ filters[i].genuine = headers[start + i - 1]
  BY <1>1 DEF Validated
<1>4. \A i \in 1 .. k : start + i - 1 \in 1 .. Tip
  BY <1>1, <1>3, StateTypes
<1>5. \A i \in 1 .. k : [height |-> start + i - 1, block |-> filters[i].block,
                         genuine |-> filters[i].genuine] \in Delivery
  BY <1>2, <1>4 DEF Delivery
<1>6. Completed(start, filters) = [i \in 1 .. k |-> [height |-> start + i - 1, block |-> filters[i].block,
                                                   genuine |-> filters[i].genuine]]
  BY <1>1 DEF Completed
<1>7. /\ Completed(start, filters) \in [1 .. k -> Delivery]
      /\ \A i \in 1 .. k : /\ Completed(start, filters)[i].height = start + i - 1
                          /\ Completed(start, filters)[i].genuine = filters[i].genuine
  BY <1>5, <1>6
<1>8. Completed(start, filters) \in Seq(Delivery) /\ Len(Completed(start, filters)) = k
  BY <1>1, <1>7
<1>9. k \in 1 .. k
  BY <1>1
<1>10. start + k - 1 <= Len(headers)
  BY <1>3, <1>9
<1>11. Committed(start, Completed(start, filters))
  BY <1>3, <1>7, <1>8, <1>10 DEF Committed
<1> QED
  BY <1>1, <1>8, <1>11

LEMMA FilterReceivedTypes ==
  ASSUME SyncInv, NEW n \in Nodes, fRange[n] # NoRange,
         NEW filter \in [block : 1 .. Tip, of : Nat, genuine : BOOLEAN],
         FilterReceived(n, filter),
         wire' \in [Nodes -> WireSeqs], \A m \in Nodes : AskedWithin(wire'[m])
  PROVE  TypeInv'
<1> DEFINE filters == Append(collected[n], filter)
           range   == fRange[n]
           last    == filter.block = range.stop \/ Len(filters) >= range.stop - range.start + 1
<1>1. filters \in CollectedSeqs /\ filters # <<>>
  <2> DEFINE Collectable == [block : 1 .. Tip, of : Nat, genuine : BOOLEAN]
  <2>1. collected[n] \in Seq(Collectable) /\ filter \in Collectable
    BY StateTypes DEF CollectedSeqs
  <2> HIDE DEF Collectable
  <2>2. Append(collected[n], filter) \in Seq(Collectable) /\ Append(collected[n], filter) # <<>>
    BY <2>1, AppendProperties
  <2> QED
    BY <2>2 DEF CollectedSeqs, Collectable
<1>2. collected \in [Nodes -> CollectedSeqs]
  BY StateTypes
<1>3. CASE ~last
  <2>1. /\ collected' = [collected EXCEPT ![n] = filters]
        /\ UNCHANGED <<blockTip, headers, hTracker, fTracker, delivered>>
        /\ UNCHANGED <<node, hRange, fRange, pc, got>>
    BY <1>3 DEF FilterReceived, sharedVars
  <2> HIDE DEF filters
  <2>2. collected' \in [Nodes -> CollectedSeqs]
    BY <1>1, <1>2, <2>1
  <2>3. FilterSyncTypeOK'
    BY <2>1, <2>2, StateTypes, TypePartsNext
  <2>4. RangesInv'
    BY <2>1, RangesOfMessage
  <2> QED
    BY <2>1, <2>3, <2>4, StateTypes DEF TypeInv
<1>4. CASE last
  <2>1. /\ Validated(range.start, filters)
        /\ fTracker' = MoveActiveToPending(fTracker, range.start, Completed(range.start, filters))
        /\ collected' = [collected EXCEPT ![n] = <<>>]
        /\ Goto(n, "message", "drainFilters")
        /\ UNCHANGED <<blockTip, headers, hTracker, delivered>>
        /\ UNCHANGED <<node, hRange, fRange, got>>
    BY <1>4 DEF FilterReceived, Completed
  <2>2. range.start \in 1 .. Tip
    BY StateTypes DEF NodeRangesOK, RangeWithin
  <2>3. Completed(range.start, filters) \in Seq(Delivery)
    BY <1>1, <2>1, <2>2, CompletedIsCommitted
  <2> DEFINE start    == range.start
             response == Completed(start, filters)
  <2>4. start \in 1 .. Tip /\ response \in Seq(Delivery)
        /\ fTracker' = MoveActiveToPending(fTracker, start, response)
    BY <2>1, <2>2, <2>3
  <2> HIDE DEF start, response, filters, range
  <2>5. IsTracker(fTracker') /\ TrackerOK(fTracker', Seq(Delivery))
    <3>1. /\ IsTracker(fTracker') /\ fTracker'.last = fTracker.last
          /\ fTracker'.active = fTracker.active \ {start}
          /\ DOMAIN fTracker'.pending = DOMAIN fTracker.pending \cup {start}
          /\ \A r \in DOMAIN fTracker.pending \cup {start} :
               fTracker'.pending[r] = IF r = start THEN response ELSE fTracker.pending[r]
      BY <2>4, StateTypes, MoveUpdates
    <3> QED
      BY <2>4, <3>1, StateTypes DEF TrackerOK
  <2>6. /\ pc' \in [Nodes -> [Threads -> Statements]]
        /\ \A m \in Nodes, u \in Threads :
             pc'[m][u] = pc[m][u] \/ pc'[m][u] \notin {"storeHeaders", "storeFilters"}
    BY <2>1, MessageGoes DEF Statements
  <2>7. collected' \in [Nodes -> CollectedSeqs]
    BY <1>2, <2>1, NullTypes
  <2>8. FilterSyncTypeOK'
    BY <2>1, <2>5, <2>6, <2>7, StateTypes, TypePartsNext
  <2>9. RangesInv'
    BY <2>1, <2>6, RangesOfMessage
  <2> QED
    BY <2>1, <2>5, <2>8, <2>9, StateTypes DEF TypeInv
<1> QED
  BY <1>3, <1>4

LEMMA HandleInvalidTypes ==
  ASSUME SyncInv, NEW n \in Nodes, HandleInvalid(n)
  PROVE  TypeInv'
<1>1. /\ Release(n) /\ UNCHANGED <<blockTip, headers, delivered, pc, got>>
      /\ wire' = [wire EXCEPT ![n] = <<>>]
      /\ node' = [node EXCEPT ![n] = "invalid"]
  BY DEF HandleInvalid
<1>2. node' \in [Nodes -> Conditions]
  BY <1>1, StateTypes DEF Conditions
<1> QED
  BY <1>1, <1>2, ReleasedRanges DEF SyncInv

\* The request at the head of a queue asks for blocks 1 .. blockTip.
LEMMA QueueHead ==
  ASSUME SyncInv, NEW n \in Nodes, wire[n] # <<>>
  PROVE  /\ Head(wire[n]).start \in 1 .. Tip /\ Head(wire[n]).stop \in 1 .. Tip
         /\ Head(wire[n]).stop \in Head(wire[n]).start .. blockTip
<1> DEFINE Asked == [kind : {"headers", "filters"}, start : 1 .. Tip, stop : 1 .. Tip]
<1>1. wire[n] \in Seq(Asked) /\ AskedWithin(wire[n])
  BY StateTypes DEF WireSeqs, NodeRangesOK
<1> HIDE DEF Asked
<1>2. PICK q \in Seq(Asked) : q = wire[n] /\ q # <<>>
  BY <1>1
<1>3. Head(q) \in Asked /\ Head(q) = q[1] /\ 1 \in DOMAIN q
  BY <1>2
<1>4. Head(q).start \in 1 .. Tip /\ Head(q).stop \in 1 .. Tip
  BY <1>3 DEF Asked
<1> QED
  BY <1>1, <1>2, <1>3, <1>4 DEF AskedWithin

LEMMA MessageTypes ==
  ASSUME SyncInv, NEW n \in Nodes, MessageReceived(n)
  PROVE  TypeInv'
<1>1. /\ wire \in [Nodes -> WireSeqs] /\ blockTip \in Stored .. Tip
      /\ \A m \in Nodes : AskedWithin(wire[m])
  BY StateTypes DEF NodeRangesOK
<1>2. CASE UNCHANGED <<blockTip, headers, hTracker, fTracker, delivered, node, hRange, fRange, collected, pc, got>>
           /\ wire[n] # <<>> /\ (Answered(n) \/ wire' = [wire EXCEPT ![n] = Tail(@)])
  <2>1. wire' \in [Nodes -> WireSeqs] /\ \A m \in Nodes : AskedWithin(wire'[m])
    BY <1>1, <1>2, AnsweredTypes
  <2>2. FilterSyncTypeOK'
    BY <1>2, <2>1, StateTypes, TypePartsNext
  <2>3. RangesInv'
    BY <1>2, <2>1, RangesOfMessage
  <2> QED
    BY <1>2, <2>2, <2>3, StateTypes DEF TypeInv
<1>3. CASE HeadersAnswered(n)
  <2> DEFINE asked == Head(wire[n])
             count == asked.stop - asked.start + 1
             batch == [i \in 1 .. count |-> TRUE]
  <2>1. CASE HeadersCompleted(n, batch) /\ wire' = [wire EXCEPT ![n] = Tail(@)] /\ hRange[n] # NoRange
    <3>1. wire[n] # <<>>
      BY <1>3 DEF HeadersAnswered
    <3>2. count \in Nat
      BY <3>1, QueueHead, StateTypes
    <3> HIDE DEF count
    <3>3. batch \in Seq(BOOLEAN)
      BY <3>2
    <3> HIDE DEF batch
    <3>4. wire' \in [Nodes -> WireSeqs] /\ \A m \in Nodes : AskedWithin(wire'[m])
      BY <1>1, <2>1, <3>1, AnsweredTypes
    <3> QED
      BY <2>1, <3>3, <3>4, HeadersCompletedTypes
  <2> QED
    BY <1>2, <1>3, <2>1, HandleInvalidTypes DEF HeadersAnswered, sharedVars
<1>4. CASE HeadersInvented(n)
  <2>1. CASE HandleInvalid(n)
    BY <2>1, HandleInvalidTypes
  <2>2. CASE /\ \E count \in 1 .. blockTip - hRange[n].start + 1 :
                  \E batch \in [1 .. count -> BOOLEAN] : HeadersCompleted(n, batch)
             /\ UNCHANGED wire
    <3>1. PICK count \in 1 .. blockTip - hRange[n].start + 1 :
                 \E batch \in [1 .. count -> BOOLEAN] : HeadersCompleted(n, batch)
      BY <2>2
    <3>2. PICK batch \in [1 .. count -> BOOLEAN] : HeadersCompleted(n, batch)
      BY <3>1
    <3>3. batch \in Seq(BOOLEAN)
      OBVIOUS
    <3> QED
      BY <1>1, <1>4, <2>2, <3>2, <3>3, HeadersCompletedTypes DEF HeadersInvented
  <2> QED
    BY <1>4, <2>1, <2>2 DEF HeadersInvented
<1>5. CASE FilterAnswered(n)
  <2> DEFINE h == Head(wire[n]).start
  <2>1. wire[n] # <<>>
    BY <1>5 DEF FilterAnswered
  <2>2. h \in 1 .. Tip
    BY <2>1, QueueHead
  <2>3. Filter(h, h, TRUE) \in [block : 1 .. Tip, of : Nat, genuine : BOOLEAN]
    BY <2>2, StateTypes DEF Filter
  <2>4. CASE FilterReceived(n, Filter(h, h, TRUE)) /\ Answered(n) /\ fRange[n] # NoRange
    <3>1. wire' \in [Nodes -> WireSeqs] /\ \A m \in Nodes : AskedWithin(wire'[m])
      BY <1>1, <2>1, <2>4, AnsweredTypes
    <3> HIDE DEF h
    <3> QED
      BY <2>3, <2>4, <3>1, FilterReceivedTypes
  <2>5. CASE FilterRejected(n, Filter(h, h, TRUE))
    BY <2>5, HandleInvalidTypes DEF FilterRejected
  <2> QED
    BY <1>2, <1>5, <2>1, <2>4, <2>5 DEF FilterAnswered, sharedVars
<1>6. CASE FilterInvented(n)
  <2>1. PICK block \in 1 .. Tip, genuine \in BOOLEAN :
          LET filter == Filter(block, fRange[n].start + Len(collected[n]), genuine)
          IN  \/ FilterReceived(n, filter) /\ UNCHANGED wire
              \/ FilterRejected(n, filter)
    BY <1>6 DEF FilterInvented
  <2> DEFINE filter == Filter(block, fRange[n].start + Len(collected[n]), genuine)
  <2>2. fRange[n] # NoRange
    BY <1>6 DEF FilterInvented
  <2>3. filter \in [block : 1 .. Tip, of : Nat, genuine : BOOLEAN]
    <3>1. fRange[n].start \in Nat
      BY StateTypes DEF Assignments
    <3>2. Len(collected[n]) \in Nat
      BY StateTypes, LenProperties DEF CollectedSeqs
    <3> QED
      BY <3>1, <3>2 DEF Filter
  <2>4. CASE FilterReceived(n, filter) /\ UNCHANGED wire
    <3> HIDE DEF filter
    <3> QED
      BY <1>1, <2>2, <2>3, <2>4, FilterReceivedTypes
  <2>5. CASE FilterRejected(n, filter)
    BY <2>5, HandleInvalidTypes DEF FilterRejected
  <2> QED
    BY <2>1, <2>4, <2>5
<1> QED
  BY <1>3, <1>4, <1>5, <1>6 DEF MessageReceived

\* The ranges after a step in which both chains may grow.
LEMMA RangesGrow ==
  ASSUME SyncInv, blockTip' \in Nat, blockTip <= blockTip',
         Len(headers') \in Nat, Len(headers) <= Len(headers'), Len(headers') <= blockTip',
         UNCHANGED <<fRange, hRange, wire, pc, got>>
  PROVE  RangesInv'
<1>1. \A r, a, b : RangeWithin(r, a) /\ a \in Nat /\ b \in Nat /\ a <= b => RangeWithin(r, b)
  BY DEF RangeWithin
<1>2. \A n \in Nodes : NodeRangesOK(n, hRange[n], fRange[n], wire[n], pc[n], got[n])
  BY StateTypes
<1>3. Len(headers) \in Nat /\ blockTip \in Nat /\ wire \in [Nodes -> WireSeqs]
  BY StateTypes
<1>4. fRange' = fRange /\ hRange' = hRange /\ wire' = wire /\ pc' = pc /\ got' = got
  OBVIOUS
<1>5. ASSUME NEW n \in Nodes
      PROVE  /\ hRange[n] = NoRange \/ RangeWithin(hRange[n], blockTip')
             /\ fRange[n] = NoRange \/ RangeWithin(fRange[n], Len(headers'))
             /\ \A i \in DOMAIN wire[n] : wire[n][i].stop \in wire[n][i].start .. blockTip'
             /\ \A t \in Threads :
                  /\ pc[n][t] = "storeHeaders" => RangeWithin(got[n][t], blockTip')
                  /\ pc[n][t] = "storeFilters" => RangeWithin(got[n][t], Len(headers'))
  <2>1. NodeRangesOK(n, hRange[n], fRange[n], wire[n], pc[n], got[n])
    BY <1>2
  <2>2. \A i \in DOMAIN wire[n] : wire[n][i].stop \in wire[n][i].start .. blockTip'
    <3>1. wire[n] \in WireSeqs /\ AskedWithin(wire[n])
      BY <1>3, <2>1 DEF NodeRangesOK
    <3> DEFINE Asked == [kind : {"headers", "filters"}, start : 1 .. Tip, stop : 1 .. Tip]
    <3>2. PICK q \in Seq(Asked) : q = wire[n]
      BY <3>1 DEF WireSeqs
    <3>3. \A a \in Asked : a.start \in Nat
      OBVIOUS
    <3> HIDE DEF Asked
    <3>4. \A i \in DOMAIN q : q[i] \in Asked
      OBVIOUS
    <3>5. \A i \in DOMAIN wire[n] : wire[n][i].start \in Nat
      BY <3>2, <3>3, <3>4
    <3> QED
      BY <1>3, <3>1, <3>5 DEF AskedWithin
  <2> QED
    BY <1>1, <1>3, <2>1, <2>2 DEF NodeRangesOK
<1> QED
  BY <1>4, <1>5 DEF RangesInv, RangeWithin

LEMMA GrowTypes ==
  ASSUME SyncInv, Grow
  PROVE  TypeInv'
<1>1. /\ UNCHANGED <<headers, hTracker, fTracker, delivered>>
      /\ UNCHANGED <<node, hRange, fRange, collected, wire, pc, got>>
  BY DEF Grow, nodeVars
<1>2. blockTip' \in Stored .. Tip /\ blockTip <= blockTip' /\ blockTip' \in Nat
  BY StateTypes DEF Grow
<1>3. Len(headers') = Len(headers)
  BY <1>1
<1>4. RangesInv'
  BY <1>1, <1>2, <1>3, StateTypes, RangesGrow
<1>5. FilterSyncTypeOK'
  BY <1>1, <1>2, StateTypes, TypePartsNext
<1> QED
  BY <1>1, <1>4, <1>5, StateTypes DEF TypeInv

\* The types are kept as a node comes and goes.
LEMMA LifeTypes ==
  ASSUME SyncInv, NEW n \in Nodes, Handshake(n) \/ Lose(n) \/ Detach(n)
  PROVE  TypeInv'
<1>1. CASE Handshake(n)
  <2> DEFINE pcs == [t \in Threads |-> IF t = "message" THEN "idle" ELSE "headers"]
  <2>1. /\ UNCHANGED <<blockTip, headers, hTracker, fTracker, delivered>>
        /\ UNCHANGED <<hRange, fRange, collected, wire, got>>
        /\ node' = [node EXCEPT ![n] = "up"] /\ pc' = [pc EXCEPT ![n] = pcs]
    BY <1>1 DEF Handshake, sharedVars
  <2>2. pcs \in [Threads -> Statements]
        /\ \A t \in Threads : pcs[t] \notin {"storeHeaders", "storeFilters"}
    BY DEF Statements
  <2> HIDE DEF pcs
  <2>3. node' \in [Nodes -> Conditions] /\ pc' \in [Nodes -> [Threads -> Statements]]
    BY <2>1, <2>2, StateTypes DEF Conditions
  <2>4. \A m \in Nodes, u \in Threads :
          pc'[m][u] = pc[m][u] \/ pc'[m][u] \notin {"storeHeaders", "storeFilters"}
    BY <2>1, <2>2, StateTypes
  <2>5. FilterSyncTypeOK'
    BY <2>1, <2>3, StateTypes, TypePartsNext
  <2>6. \A m \in Nodes : AskedWithin(wire'[m])
    BY <2>1, StateTypes DEF NodeRangesOK
  <2>7. RangesInv'
    BY <2>1, <2>4, <2>6, RangesOfMessage
  <2> QED
    BY <2>1, <2>5, <2>7, StateTypes DEF TypeInv
<1>2. CASE Lose(n)
  <2>1. /\ UNCHANGED <<blockTip, headers, hTracker, fTracker, delivered>>
        /\ UNCHANGED <<hRange, fRange, collected, pc, got>>
        /\ node' = [node EXCEPT ![n] = "lost"] /\ wire' = [wire EXCEPT ![n] = <<>>]
    BY <1>2 DEF Lose, sharedVars
  <2>2. node' \in [Nodes -> Conditions] /\ wire' \in [Nodes -> WireSeqs]
    BY <2>1, NullTypes, StateTypes DEF Conditions
  <2>3. \A m \in Nodes : AskedWithin(wire'[m])
    <3>1. \A m \in Nodes : wire'[m] = <<>> \/ wire'[m] = wire[m]
      BY <2>1, StateTypes
    <3>2. blockTip' = blockTip /\ \A m \in Nodes : AskedWithin(wire[m])
      BY <2>1, StateTypes DEF NodeRangesOK
    <3>3. ASSUME NEW m \in Nodes, wire'[m] = <<>>
          PROVE  AskedWithin(wire'[m])
      BY <3>3 DEF AskedWithin
    <3>4. ASSUME NEW m \in Nodes, wire'[m] = wire[m]
          PROVE  AskedWithin(wire'[m])
      BY <3>2, <3>4
    <3> QED
      BY <3>1, <3>3, <3>4
  <2>4. FilterSyncTypeOK'
    BY <2>1, <2>2, StateTypes, TypePartsNext
  <2>5. RangesInv'
    BY <2>1, <2>3, RangesOfMessage
  <2> QED
    BY <2>1, <2>4, <2>5, StateTypes DEF TypeInv
<1>3. CASE Detach(n)
  <2>1. /\ Release(n) /\ UNCHANGED <<blockTip, headers, delivered, pc, got>> /\ wire' = wire
        /\ node' = [node EXCEPT ![n] = "detached"]
    BY <1>3 DEF Detach
  <2>2. node' \in [Nodes -> Conditions]
    BY <2>1, StateTypes DEF Conditions
  <2> QED
    BY <2>1, <2>2, ReleasedRanges DEF SyncInv
<1> QED
  BY <1>1, <1>2, <1>3

\* A completed range that comes next: what it adds to the chain of filter headers.
HeadersDrained(next) ==
  /\ next = hTracker.last + 1 /\ next \in DOMAIN hTracker.pending
  /\ headers' = headers \o hTracker.pending[next]
  /\ hTracker' = Drained(hTracker, next, Len(hTracker.pending[next]))
  /\ blockTip' = blockTip

LEMMA HeadersAppended ==
  ASSUME SyncInv, NEW next, HeadersDrained(next)
  PROVE  /\ headers' \in Seq(BOOLEAN) /\ Len(headers') \in Nat
         /\ Len(headers) <= Len(headers') /\ Len(headers') <= blockTip
         /\ \A h \in 1 .. Len(headers) : headers'[h] = headers[h]
         /\ IsTracker(hTracker') /\ TrackerOK(hTracker', Seq(BOOLEAN))
         /\ hTracker'.last = Len(headers') /\ hTracker'.active = hTracker.active
         /\ DOMAIN hTracker'.pending = DOMAIN hTracker.pending \ {next}
         /\ \A s \in DOMAIN hTracker'.pending : hTracker'.pending[s] = hTracker.pending[s]
<1> DEFINE batch == hTracker.pending[next]
           k     == Len(batch)
<1>1. /\ IsTracker(hTracker) /\ TrackerOK(hTracker, Seq(BOOLEAN)) /\ headers \in Seq(BOOLEAN)
      /\ Len(headers) \in Nat /\ blockTip \in Stored .. Tip /\ Stored \in Nat /\ Tip \in Nat
  BY StateTypes
<1>2. /\ hTracker.last = Len(headers) /\ k >= 1 /\ next + k - 1 <= blockTip
      /\ next = hTracker.last + 1
  BY DEF SyncInv, HeaderInv, HeaderRangesFollowTip, HeadersDrained
<1>3. batch \in Seq(BOOLEAN) /\ k \in Nat
  BY <1>1, LenProperties DEF TrackerOK, HeadersDrained
<1> HIDE DEF batch, k
<1>4. /\ headers' \in Seq(BOOLEAN) /\ Len(headers') = Len(headers) + k
      /\ \A h \in 1 .. Len(headers) : headers'[h] = headers[h]
  <2>1. headers' = headers \o batch /\ k = Len(batch)
    BY DEF batch, k, HeadersDrained
  <2>2. \A h \in 1 .. Len(headers) : h \in 1 .. Len(headers) + k /\ h <= Len(headers)
    BY <1>1, <1>3
  <2> QED
    BY <1>1, <1>3, <2>1, <2>2, ConcatProperties
<1>5. hTracker' = Drained(hTracker, next, k)
  BY DEF batch, k, HeadersDrained
<1>6. /\ IsTracker(hTracker') /\ hTracker'.last = hTracker.last + k
      /\ hTracker'.active = hTracker.active
      /\ DOMAIN hTracker'.pending = DOMAIN hTracker.pending \ {next}
      /\ \A s \in DOMAIN hTracker.pending \ {next} : hTracker'.pending[s] = hTracker.pending[s]
  BY <1>1, <1>5, DrainUpdates
<1>7. hTracker'.last = Len(headers') /\ hTracker'.last \in Stored .. Tip
      /\ Len(headers') \in Nat /\ Len(headers) <= Len(headers') /\ Len(headers') <= blockTip
  <2>1. hTracker.last \in Stored .. Tip
    BY <1>1 DEF TrackerOK
  <2> QED
    BY <1>1, <1>2, <1>3, <1>4, <1>6, <2>1
<1>8. TrackerOK(hTracker', Seq(BOOLEAN))
  BY <1>1, <1>6, <1>7 DEF TrackerOK
<1> QED
  BY <1>4, <1>6, <1>7, <1>8

\* The same of filters and the channel.
FiltersDrained(next) ==
  /\ next = fTracker.last + 1 /\ next \in DOMAIN fTracker.pending
  /\ delivered' = delivered \o fTracker.pending[next]
  /\ fTracker' = Drained(fTracker, next, Len(fTracker.pending[next]))
  /\ headers' = headers

LEMMA FiltersAppended ==
  ASSUME SyncInv, NEW next, FiltersDrained(next)
  PROVE  /\ delivered' \in Seq(Delivery)
         /\ IsTracker(fTracker') /\ TrackerOK(fTracker', Seq(Delivery))
         /\ fTracker'.last = Stored + Len(delivered')
         /\ DOMAIN fTracker'.pending = DOMAIN fTracker.pending \ {next}
         /\ \A s \in DOMAIN fTracker'.pending : fTracker'.pending[s] = fTracker.pending[s]
         /\ Committed(Stored + 1, delivered')
<1> DEFINE batch == fTracker.pending[next]
           k     == Len(batch)
           d     == Len(delivered)
<1>1. /\ IsTracker(fTracker) /\ TrackerOK(fTracker, Seq(Delivery)) /\ delivered \in Seq(Delivery)
      /\ Len(headers) \in Nat /\ Len(headers) <= Tip /\ Stored \in Nat /\ Tip \in Nat
  BY StateTypes
<1>2. /\ fTracker.last = Stored + d /\ k >= 1
      /\ Committed(next, batch) /\ Committed(Stored + 1, delivered)
  BY DEF SyncInv, FilterInv, FiltersDrained
<1>3. batch \in Seq(Delivery) /\ k \in Nat /\ d \in Nat
  BY <1>1, LenProperties DEF TrackerOK, FiltersDrained
<1>4. next = Stored + d + 1
  BY <1>2 DEF FiltersDrained
<1>5. delivered' = delivered \o batch /\ fTracker' = Drained(fTracker, next, k)
  BY DEF FiltersDrained
<1> HIDE DEF batch
<1>6. /\ delivered' \in Seq(Delivery) /\ Len(delivered') = d + k
      /\ \A i \in 1 .. d + k : delivered'[i] = IF i <= d THEN delivered[i] ELSE batch[i - d]
  BY <1>1, <1>3, <1>5, ConcatProperties
<1>7. /\ next + k - 1 <= Len(headers)
      /\ \A i \in 1 .. k : batch[i].height = next + i - 1 /\ batch[i].genuine = headers[next + i - 1]
  BY <1>2 DEF Committed
<1>8. \A i \in 1 .. d : /\ delivered[i].height = Stored + 1 + i - 1
                        /\ delivered[i].genuine = headers[Stored + 1 + i - 1]
  BY <1>2 DEF Committed
<1> HIDE DEF k, d
<1>9. ASSUME NEW i \in 1 .. d + k
      PROVE  /\ delivered'[i].height = Stored + 1 + i - 1
             /\ delivered'[i].genuine = headers[Stored + 1 + i - 1]
  <2>1. CASE i <= d
    BY <1>3, <1>6, <1>8, <2>1
  <2>2. CASE ~(i <= d)
    <3>1. i - d \in 1 .. k /\ next + (i - d) - 1 = Stored + 1 + i - 1
      BY <1>1, <1>3, <1>4, <2>2
    <3>2. delivered'[i] = batch[i - d]
      BY <1>6, <2>2
    <3> QED
      BY <1>7, <3>1, <3>2
  <2> QED
    BY <2>1, <2>2
<1>10. Stored + 1 + (d + k) - 1 <= Len(headers)
  BY <1>1, <1>3, <1>4, <1>7
<1>11. Committed(Stored + 1, delivered')
  <2>1. headers' = headers
    BY DEF FiltersDrained
  <2> QED
    BY <1>6, <1>9, <1>10, <2>1 DEF Committed
<1>12. /\ IsTracker(fTracker') /\ fTracker'.last = fTracker.last + k
       /\ fTracker'.active = fTracker.active
       /\ DOMAIN fTracker'.pending = DOMAIN fTracker.pending \ {next}
       /\ \A s \in DOMAIN fTracker.pending \ {next} : fTracker'.pending[s] = fTracker.pending[s]
  BY <1>1, <1>5, DrainUpdates
<1>13. fTracker'.last = Stored + (d + k) /\ fTracker'.last \in Stored .. Tip
  BY <1>1, <1>2, <1>3, <1>10, <1>12
<1>14. TrackerOK(fTracker', Seq(Delivery))
  BY <1>1, <1>12, <1>13 DEF TrackerOK
<1> QED
  BY <1>6, <1>11, <1>12, <1>13, <1>14

LEMMA DrainTypes ==
  ASSUME SyncInv, NEW n \in Nodes, DrainHeaders(n) \/ DrainFilters(n)
  PROVE  TypeInv'
<1>1. ASSUME hRange' = hRange \/ hRange' = [hRange EXCEPT ![n] = NoRange],
             fRange' = fRange \/ fRange' = [fRange EXCEPT ![n] = NoRange],
             pc' = pc \/ Goto(n, "message", "headers"),
             UNCHANGED <<blockTip, headers, wire, got>>
      PROVE  /\ RangesInv' /\ hRange' \in [Nodes -> Assignments] /\ fRange' \in [Nodes -> Assignments]
             /\ pc' \in [Nodes -> [Threads -> Statements]]
  <2>1. /\ hRange \in [Nodes -> Assignments] /\ fRange \in [Nodes -> Assignments]
        /\ pc \in [Nodes -> [Threads -> Statements]]
    BY StateTypes
  <2>2. /\ hRange' \in [Nodes -> Assignments] /\ fRange' \in [Nodes -> Assignments]
        /\ \A m \in Nodes : hRange'[m] = NoRange \/ hRange'[m] = hRange[m]
        /\ \A m \in Nodes : fRange'[m] = NoRange \/ fRange'[m] = fRange[m]
    BY <1>1, <2>1, NullTypes
  <2>3. /\ pc' \in [Nodes -> [Threads -> Statements]]
        /\ \A m \in Nodes, u \in Threads :
             pc'[m][u] = pc[m][u] \/ pc'[m][u] \notin {"storeHeaders", "storeFilters"}
    BY <1>1, <2>1, MessageGoes DEF Statements
  <2>4. \A m \in Nodes : AskedWithin(wire'[m])
    BY <1>1, StateTypes DEF NodeRangesOK
  <2> QED
    BY <1>1, <2>2, <2>3, <2>4, RangesOfMessage
<1>2. CASE DrainHeaders(n)
  <2> DEFINE next == hTracker.last + 1
  <2>1. /\ UNCHANGED <<blockTip, fTracker, delivered, node, fRange, collected, wire, got>>
    BY <1>2 DEF DrainHeaders
  <2>2. CASE next \in DOMAIN hTracker.pending
    <3>1. HeadersDrained(next) /\ hRange' = hRange /\ pc' = pc
      BY <1>2, <2>1, <2>2 DEF DrainHeaders, HeadersDrained, Drained
    <3> HIDE DEF next
    <3>2. /\ headers' \in Seq(BOOLEAN) /\ Len(headers') \in Nat
          /\ Len(headers) <= Len(headers') /\ Len(headers') <= blockTip
          /\ IsTracker(hTracker') /\ TrackerOK(hTracker', Seq(BOOLEAN))
      BY <3>1, HeadersAppended
    <3>3. RangesInv'
      BY <2>1, <3>1, <3>2, StateTypes, RangesGrow
    <3>4. FilterSyncTypeOK'
      BY <2>1, <3>1, <3>2, StateTypes, TypePartsNext
    <3> QED
      BY <2>1, <3>2, <3>3, <3>4, StateTypes DEF TypeInv
  <2>3. CASE next \notin DOMAIN hTracker.pending
    <3>1. /\ hRange' = [hRange EXCEPT ![n] = NoRange] /\ Goto(n, "message", "headers")
          /\ UNCHANGED <<headers, hTracker>>
      BY <1>2, <2>3 DEF DrainHeaders
    <3>2. /\ RangesInv' /\ hRange' \in [Nodes -> Assignments]
          /\ pc' \in [Nodes -> [Threads -> Statements]]
      BY <1>1, <2>1, <3>1
    <3>3. FilterSyncTypeOK'
      BY <2>1, <3>1, <3>2, StateTypes, TypePartsNext
    <3> QED
      BY <2>1, <3>1, <3>2, <3>3, StateTypes DEF TypeInv
  <2> QED
    BY <2>2, <2>3
<1>3. CASE DrainFilters(n)
  <2> DEFINE next == fTracker.last + 1
  <2>1. /\ UNCHANGED <<blockTip, headers, hTracker, node, hRange, collected, wire, got>>
    BY <1>3 DEF DrainFilters
  <2>2. CASE next \in DOMAIN fTracker.pending
    <3>1. FiltersDrained(next) /\ fRange' = fRange /\ pc' = pc
      BY <1>3, <2>1, <2>2 DEF DrainFilters, FiltersDrained, Drained
    <3> HIDE DEF next
    <3>2. /\ delivered' \in Seq(Delivery)
          /\ IsTracker(fTracker') /\ TrackerOK(fTracker', Seq(Delivery))
      BY <3>1, FiltersAppended
    <3>3. RangesInv'
      BY <1>1, <2>1, <3>1
    <3>4. FilterSyncTypeOK'
      BY <2>1, <3>1, <3>2, StateTypes, TypePartsNext
    <3> QED
      BY <2>1, <3>2, <3>3, <3>4, StateTypes DEF TypeInv
  <2>3. CASE next \notin DOMAIN fTracker.pending
    <3>1. /\ fRange' = [fRange EXCEPT ![n] = NoRange] /\ Goto(n, "message", "headers")
          /\ UNCHANGED <<delivered, fTracker>>
      BY <1>3, <2>3 DEF DrainFilters
    <3>2. /\ RangesInv' /\ fRange' \in [Nodes -> Assignments]
          /\ pc' \in [Nodes -> [Threads -> Statements]]
      BY <1>1, <2>1, <3>1
    <3>3. FilterSyncTypeOK'
      BY <2>1, <3>1, <3>2, StateTypes, TypePartsNext
    <3> QED
      BY <2>1, <3>1, <3>2, <3>3, StateTypes DEF TypeInv
  <2> QED
    BY <2>2, <2>3
<1> QED
  BY <1>2, <1>3

LEMMA TypeStep ==
  ASSUME SyncInv, [Next]_vars
  PROVE  TypeInv'
<1>1. CASE UNCHANGED vars
  <2>1. UNCHANGED <<blockTip, headers, hTracker, fTracker, delivered>>
    BY <1>1 DEF vars, sharedVars
  <2>2. UNCHANGED <<node, hRange, fRange, collected, wire, pc, got>>
    BY <1>1 DEF vars, nodeVars
  <2>3. FilterSyncTypeOK'
    BY <2>1, <2>2, StateTypes, TypePartsNext
  <2>4. RangesInv'
    BY <2>1, <2>2, StateTypes, RangesGrow
  <2> QED
    BY <2>1, <2>2, <2>3, <2>4, StateTypes DEF TypeInv
<1> QED
  BY <1>1, GrowTypes, LifeTypes, MessageTypes, DrainTypes, TrySyncTypes DEF Next

-----------------------------------------------------------------------------
(* The filter headers. *)

\* Steps that leave the completed ranges and the chain of filter headers alone.
LEMMA HeadersKept ==
  ASSUME SyncInv, headers' = headers, blockTip' \in Nat, blockTip <= blockTip',
         hTracker'.last = hTracker.last, hTracker'.active \subseteq hTracker.active,
         hTracker'.pending = hTracker.pending
  PROVE  HeaderInv'
<1>1. \A s \in DOMAIN hTracker.pending :
        /\ s \in Nat /\ Len(hTracker.pending[s]) \in Nat
        /\ Len(hTracker.pending[s]) >= 1 /\ s + Len(hTracker.pending[s]) - 1 <= blockTip
  <2>1. TrackerOK(hTracker, Seq(BOOLEAN)) /\ Tip \in Nat
    BY StateTypes
  <2> QED
    BY <2>1, LenProperties DEF TrackerOK, SyncInv, HeaderInv
<1>2. \A s \in DOMAIN hTracker.pending : s + Len(hTracker.pending[s]) - 1 <= blockTip'
  BY <1>1, StateTypes
<1> QED
  BY <1>1, <1>2 DEF SyncInv, HeaderInv, HeaderRangesFollowTip

\* The range that is handed out is the one above the tip: its previous header is
\* known, and no range starts at or below the tip.
LEMMA AssignHeadersKeeps ==
  ASSUME SyncInv, NEW n \in Nodes, NEW t \in Threads, AssignHeaders(n, t)
  PROVE  HeaderInv'
<1>1. PICK tr \in {hTracker} \cup ReleaseStale(hTracker) : AssignHeadersFrom(n, t, tr)
  BY DEF AssignHeaders
<1> DEFINE start == NextStart(tr, HeadersPerRequest)
<1>2. /\ IsTracker(tr) /\ tr.last = hTracker.last /\ tr.active \subseteq hTracker.active
      /\ tr.pending = hTracker.pending
  BY <1>1, StateTypes, RemoveUpdates DEF ReleaseStale
<1>3. headers' = headers /\ blockTip' = blockTip
  BY <1>1 DEF AssignHeadersFrom
<1>4. CASE CanAssignHeaders(tr)
  <2>1. hTracker' = AddActive(tr, start)
    BY <1>1, <1>4 DEF AssignHeadersFrom
  <2>2. hTracker.last = Len(headers) /\ Len(headers) \in Nat
    BY StateTypes DEF SyncInv, HeaderInv, HeaderRangesFollowTip
  <2>3. start = hTracker.last + 1 /\ start \notin DOMAIN hTracker.pending
    BY <1>2, <1>4, <2>2, NextStartIsUnassigned, FilterSyncAssumption DEF CanAssignHeaders
  <2> HIDE DEF start
  <2>4. /\ hTracker'.last = tr.last /\ hTracker'.active = tr.active \cup {start}
        /\ hTracker'.pending = tr.pending
    BY <1>2, <2>1, AddUpdates
  <2> QED
    BY <1>2, <1>3, <2>3, <2>4 DEF SyncInv, HeaderInv, HeaderRangesFollowTip
<1>5. CASE ~CanAssignHeaders(tr)
  <2>1. hTracker' = tr
    BY <1>1, <1>5 DEF AssignHeadersFrom
  <2> QED
    BY <1>2, <1>3, <2>1, StateTypes, HeadersKept
<1> QED
  BY <1>4, <1>5

LEMMA HeadersCompletedKeeps ==
  ASSUME SyncInv, NEW n \in Nodes, NEW batch \in Seq(BOOLEAN), hRange[n] # NoRange,
         Len(batch) >= 1, hRange[n].start + Len(batch) - 1 <= blockTip,
         HeadersCompleted(n, batch)
  PROVE  HeaderInv'
<1> DEFINE start == hRange[n].start
<1>1. /\ hTracker' = MoveActiveToPending(hTracker, start, batch)
      /\ headers' = headers /\ blockTip' = blockTip
  BY DEF HeadersCompleted
<1>2. start + Len(batch) - 1 <= blockTip
  OBVIOUS
<1> HIDE DEF start
<1>3. /\ hTracker'.last = hTracker.last
      /\ hTracker'.active = hTracker.active \ {start}
      /\ DOMAIN hTracker'.pending = DOMAIN hTracker.pending \cup {start}
      /\ \A r \in DOMAIN hTracker.pending \cup {start} :
           hTracker'.pending[r] = IF r = start THEN batch ELSE hTracker.pending[r]
  BY <1>1, StateTypes, MoveUpdates
<1>4. \A s \in DOMAIN hTracker.pending :
        /\ Len(hTracker.pending[s]) >= 1 /\ s + Len(hTracker.pending[s]) - 1 <= blockTip
  BY DEF SyncInv, HeaderInv
<1>5. /\ hTracker.last = Len(headers) /\ hTracker.active \subseteq {hTracker.last + 1}
      /\ hTracker.active \cap DOMAIN hTracker.pending = {}
  BY DEF SyncInv, HeaderInv, HeaderRangesFollowTip
<1>6. \A s \in DOMAIN hTracker'.pending :
        /\ Len(hTracker'.pending[s]) >= 1 /\ s + Len(hTracker'.pending[s]) - 1 <= blockTip'
  BY <1>1, <1>2, <1>3, <1>4
<1> QED
  BY <1>1, <1>3, <1>5, <1>6 DEF HeaderInv, HeaderRangesFollowTip

LEMMA MessageKeepsHeaders ==
  ASSUME SyncInv, NEW n \in Nodes, MessageReceived(n)
  PROVE  HeaderInv'
<1>1. ASSUME headers' = headers, blockTip' = blockTip, hTracker' = hTracker
      PROVE  HeaderInv'
  BY <1>1, StateTypes, HeadersKept
<1>2. ASSUME HandleInvalid(n)
      PROVE  HeaderInv'
  <2>1. Release(n) /\ headers' = headers /\ blockTip' = blockTip
    BY <1>2 DEF HandleInvalid
  <2>2. TypeInv
    BY DEF SyncInv
  <2>3. /\ hTracker'.last = hTracker.last /\ hTracker'.active \subseteq hTracker.active
        /\ hTracker'.pending = hTracker.pending
    BY <2>1, <2>2, ReleaseTypes
  <2> QED
    BY <2>1, <2>3, StateTypes, HeadersKept
<1>3. CASE HeadersAnswered(n)
  <2> DEFINE asked == Head(wire[n])
             count == asked.stop - asked.start + 1
             batch == [i \in 1 .. count |-> TRUE]
  <2>1. CASE /\ HeadersCompleted(n, batch) /\ hRange[n] # NoRange
             /\ asked.start = hRange[n].start
    <3>1. wire[n] # <<>>
      BY <1>3 DEF HeadersAnswered
    <3>2. count \in Nat /\ count >= 1 /\ asked.start + count - 1 <= blockTip
      <4>1. /\ asked.start \in 1 .. Tip /\ asked.stop \in 1 .. Tip
            /\ asked.stop \in asked.start .. blockTip
        BY <3>1, QueueHead
      <4> HIDE DEF asked
      <4> QED
        BY <4>1, StateTypes
    <3> HIDE DEF count
    <3>3. batch \in Seq(BOOLEAN) /\ Len(batch) = count
      BY <3>2
    <3> HIDE DEF batch, asked
    <3> QED
      BY <2>1, <3>2, <3>3, HeadersCompletedKeeps
  <2> QED
    BY <1>1, <1>2, <1>3, <2>1 DEF HeadersAnswered, sharedVars
<1>4. CASE HeadersInvented(n)
  <2>1. CASE \E count \in 1 .. blockTip - hRange[n].start + 1 :
               \E batch \in [1 .. count -> BOOLEAN] : HeadersCompleted(n, batch)
    <3>1. PICK count \in 1 .. blockTip - hRange[n].start + 1 :
                 \E batch \in [1 .. count -> BOOLEAN] : HeadersCompleted(n, batch)
      BY <2>1
    <3>2. PICK batch \in [1 .. count -> BOOLEAN] : HeadersCompleted(n, batch)
      BY <3>1
    <3>3. hRange[n] # NoRange
      BY <1>4 DEF HeadersInvented
    <3>4. hRange[n].start \in 1 .. Tip
      BY <3>3, StateTypes DEF NodeRangesOK, RangeWithin
    <3>5. batch \in Seq(BOOLEAN) /\ Len(batch) = count
      OBVIOUS
    <3>6. count >= 1 /\ hRange[n].start + count - 1 <= blockTip
      BY <3>4, StateTypes
    <3> QED
      BY <3>2, <3>3, <3>5, <3>6, HeadersCompletedKeeps
  <2> QED
    BY <1>2, <1>4, <2>1 DEF HeadersInvented
<1>5. ASSUME NEW filter, FilterReceived(n, filter)
      PROVE  HeaderInv'
  <2>1. headers' = headers /\ blockTip' = blockTip /\ hTracker' = hTracker
    BY <1>5 DEF FilterReceived, sharedVars
  <2> QED
    BY <1>1, <2>1
<1>6. CASE FilterAnswered(n)
  <2> DEFINE h == Head(wire[n]).start
  <2>1. \/ UNCHANGED sharedVars
        \/ FilterReceived(n, Filter(h, h, TRUE))
        \/ HandleInvalid(n)
    BY <1>6 DEF FilterAnswered, FilterRejected
  <2> QED
    BY <1>1, <1>2, <1>5, <2>1 DEF sharedVars
<1>7. CASE FilterInvented(n)
  <2>1. PICK filter : FilterReceived(n, filter) \/ HandleInvalid(n)
    BY <1>7 DEF FilterInvented, FilterRejected
  <2> QED
    BY <1>2, <1>5, <2>1
<1> QED
  BY <1>3, <1>4, <1>6, <1>7 DEF MessageReceived

LEMMA HeaderStep ==
  ASSUME SyncInv, [Next]_vars
  PROVE  HeaderInv'
<1>1. ASSUME headers' = headers, blockTip' = blockTip, hTracker' = hTracker
      PROVE  HeaderInv'
  BY <1>1, StateTypes, HeadersKept
<1>2. CASE Grow
  <2>1. headers' = headers /\ hTracker' = hTracker /\ blockTip' \in Nat /\ blockTip <= blockTip'
    BY <1>2, StateTypes DEF Grow
  <2> QED
    BY <2>1, HeadersKept
<1>3. ASSUME NEW n \in Nodes, Detach(n)
      PROVE  HeaderInv'
  <2>1. Release(n) /\ headers' = headers /\ blockTip' = blockTip /\ TypeInv
    BY <1>3 DEF Detach, SyncInv
  <2>2. /\ hTracker'.last = hTracker.last /\ hTracker'.active \subseteq hTracker.active
        /\ hTracker'.pending = hTracker.pending
    BY <2>1, ReleaseTypes
  <2> QED
    BY <2>1, <2>2, StateTypes, HeadersKept
<1>4. ASSUME NEW n \in Nodes, Handshake(n) \/ Lose(n)
      PROVE  HeaderInv'
  <2>1. headers' = headers /\ blockTip' = blockTip /\ hTracker' = hTracker
    BY <1>4 DEF Handshake, Lose, sharedVars
  <2> QED
    BY <1>1, <2>1
<1>5. ASSUME NEW n \in Nodes, NEW t \in Threads, TrySync(n, t)
      PROVE  HeaderInv'
  <2>1. CASE AssignHeaders(n, t)
    BY <2>1, AssignHeadersKeeps
  <2>2. CASE ~AssignHeaders(n, t)
    <3>1. headers' = headers /\ blockTip' = blockTip /\ hTracker' = hTracker
      BY <1>5, <2>2 DEF TrySync, SyncEnds, HasHeaderRange, StoreHeaders, StoreFilters,
                        AssignFilters, AssignFiltersFrom, sharedVars
    <3> QED
      BY <1>1, <3>1
  <2> QED
    BY <2>1, <2>2
<1>6. ASSUME NEW n \in Nodes, DrainHeaders(n)
      PROVE  HeaderInv'
  <2> DEFINE next == hTracker.last + 1
  <2>1. CASE next \in DOMAIN hTracker.pending
    <3>1. HeadersDrained(next) /\ blockTip' = blockTip
      BY <1>6, <2>1 DEF DrainHeaders, HeadersDrained, Drained
    <3>2. hTracker.active = {}
      BY <2>1 DEF SyncInv, HeaderInv, HeaderRangesFollowTip
    <3>3. \A s \in DOMAIN hTracker.pending :
            /\ Len(hTracker.pending[s]) >= 1 /\ s + Len(hTracker.pending[s]) - 1 <= blockTip
      BY DEF SyncInv, HeaderInv
    <3> HIDE DEF next
    <3>4. /\ hTracker'.last = Len(headers') /\ hTracker'.active = hTracker.active
          /\ DOMAIN hTracker'.pending = DOMAIN hTracker.pending \ {next}
          /\ \A s \in DOMAIN hTracker'.pending : hTracker'.pending[s] = hTracker.pending[s]
      BY <3>1, HeadersAppended
    <3> QED
      BY <3>1, <3>2, <3>3, <3>4 DEF HeaderInv, HeaderRangesFollowTip
  <2>2. CASE next \notin DOMAIN hTracker.pending
    <3>1. headers' = headers /\ blockTip' = blockTip /\ hTracker' = hTracker
      BY <1>6, <2>2 DEF DrainHeaders
    <3> QED
      BY <1>1, <3>1
  <2> QED
    BY <2>1, <2>2
<1>7. ASSUME NEW n \in Nodes, DrainFilters(n)
      PROVE  HeaderInv'
  <2>1. headers' = headers /\ blockTip' = blockTip /\ hTracker' = hTracker
    BY <1>7 DEF DrainFilters
  <2> QED
    BY <1>1, <2>1
<1>8. CASE UNCHANGED vars
  BY <1>1, <1>8 DEF vars, sharedVars
<1> QED
  BY <1>2, <1>3, <1>4, <1>5, <1>6, <1>7, <1>8, MessageKeepsHeaders DEF Next

-----------------------------------------------------------------------------
(* The filters. *)

\* What is committed stays so while the chain of filter headers is only extended.
LEMMA FiltersKept ==
  ASSUME SyncInv, delivered' = delivered, Len(headers') \in Nat, Len(headers) <= Len(headers'),
         \A h \in 1 .. Len(headers) : headers'[h] = headers[h],
         fTracker'.last = fTracker.last, fTracker'.pending = fTracker.pending
  PROVE  FilterInv'
<1>1. ASSUME NEW start \in Nat \ {0}, NEW filters \in Seq(Delivery), Committed(start, filters)
      PROVE  /\ start + Len(filters) - 1 <= Len(headers')
             /\ \A i \in 1 .. Len(filters) :
                  /\ filters[i].height = start + i - 1
                  /\ filters[i].genuine = headers'[start + i - 1]
  <2>1. Len(filters) \in Nat /\ Len(headers) \in Nat
    BY StateTypes, LenProperties
  <2>2. /\ start + Len(filters) - 1 <= Len(headers)
        /\ \A i \in 1 .. Len(filters) :
             /\ filters[i].height = start + i - 1
             /\ filters[i].genuine = headers[start + i - 1]
    BY <1>1 DEF Committed
  <2> DEFINE k == Len(filters)
  <2> HIDE DEF k
  <2>3. \A i \in 1 .. k : start + i - 1 \in 1 .. Len(headers)
    BY <2>1, <2>2 DEF k
  <2> QED
    BY <2>1, <2>2, <2>3 DEF k
<1>2. /\ Stored + 1 \in Nat \ {0} /\ delivered \in Seq(Delivery)
      /\ \A s \in DOMAIN fTracker.pending :
           s \in Nat \ {0} /\ fTracker.pending[s] \in Seq(Delivery)
  BY StateTypes DEF TrackerOK
<1>3. /\ fTracker.last = Stored + Len(delivered) /\ Committed(Stored + 1, delivered)
      /\ \A s \in DOMAIN fTracker.pending :
           Len(fTracker.pending[s]) >= 1 /\ Committed(s, fTracker.pending[s])
  BY DEF SyncInv, FilterInv
<1>4. ASSUME NEW start \in Nat \ {0}, NEW filters \in Seq(Delivery), Committed(start, filters)
      PROVE  Committed(start, filters)'
  BY <1>1, <1>4 DEF Committed
<1>5. \A s \in DOMAIN fTracker'.pending :
        Len(fTracker'.pending[s]) >= 1 /\ Committed(s, fTracker.pending[s])'
  <2> TAKE s \in DOMAIN fTracker'.pending
  <2>1. PICK filters \in Seq(Delivery) :
          filters = fTracker.pending[s] /\ filters = fTracker'.pending[s]
    BY <1>2
  <2>2. s \in Nat \ {0} /\ Len(filters) >= 1 /\ Committed(s, filters)
    BY <1>2, <1>3, <2>1
  <2>3. Committed(s, filters)'
    BY <1>4, <2>2
  <2> QED
    BY <2>1, <2>2, <2>3
<1>6. Committed(Stored + 1, delivered)'
  BY <1>2, <1>3, <1>4
<1> QED
  BY <1>3, <1>5, <1>6 DEF FilterInv

\* A range is completed only with the filters that the headers name.
LEMMA FilterReceivedKeeps ==
  ASSUME SyncInv, NEW n \in Nodes, fRange[n] # NoRange,
         NEW filter \in [block : 1 .. Tip, of : Nat, genuine : BOOLEAN],
         FilterReceived(n, filter)
  PROVE  FilterInv'
<1> DEFINE filters == Append(collected[n], filter)
           range   == fRange[n]
           last    == filter.block = range.stop \/ Len(filters) >= range.stop - range.start + 1
<1>1. CASE ~last
  <2>1. headers' = headers /\ delivered' = delivered /\ fTracker' = fTracker
    BY <1>1 DEF FilterReceived, sharedVars
  <2> QED
    BY <2>1, StateTypes, FiltersKept
<1>2. CASE last
  <2>1. /\ Validated(range.start, filters)
        /\ fTracker' = MoveActiveToPending(fTracker, range.start, Completed(range.start, filters))
        /\ headers' = headers /\ delivered' = delivered
    BY <1>2 DEF FilterReceived, Completed
  <2>2. range.start \in 1 .. Tip
    BY StateTypes DEF NodeRangesOK, RangeWithin
  <2>3. filters \in CollectedSeqs /\ filters # <<>>
    <3> DEFINE Collectable == [block : 1 .. Tip, of : Nat, genuine : BOOLEAN]
    <3>1. collected[n] \in Seq(Collectable) /\ filter \in Collectable
      BY StateTypes DEF CollectedSeqs
    <3> HIDE DEF Collectable
    <3>2. Append(collected[n], filter) \in Seq(Collectable) /\ Append(collected[n], filter) # <<>>
      BY <3>1, AppendProperties
    <3> QED
      BY <3>2 DEF CollectedSeqs, Collectable
  <2> DEFINE start    == range.start
             response == Completed(start, filters)
  <2>4. Len(response) >= 1 /\ Committed(start, response)
    BY <2>1, <2>2, <2>3, CompletedIsCommitted
  <2>5. fTracker' = MoveActiveToPending(fTracker, start, response)
    BY <2>1
  <2> HIDE DEF start, response, filters, range
  <2>6. /\ fTracker'.last = fTracker.last
        /\ DOMAIN fTracker'.pending = DOMAIN fTracker.pending \cup {start}
        /\ \A r \in DOMAIN fTracker.pending \cup {start} :
             fTracker'.pending[r] = IF r = start THEN response ELSE fTracker.pending[r]
    BY <2>5, StateTypes, MoveUpdates
  <2>7. /\ fTracker.last = Stored + Len(delivered) /\ Committed(Stored + 1, delivered)
        /\ \A s \in DOMAIN fTracker.pending :
             Len(fTracker.pending[s]) >= 1 /\ Committed(s, fTracker.pending[s])
    BY DEF SyncInv, FilterInv
  <2>8. \A s \in DOMAIN fTracker'.pending :
          Len(fTracker'.pending[s]) >= 1 /\ Committed(s, fTracker'.pending[s])
    BY <2>4, <2>6, <2>7
  <2> QED
    BY <2>1, <2>6, <2>7, <2>8 DEF FilterInv, Committed
<1> QED
  BY <1>1, <1>2

LEMMA MessageKeepsFilters ==
  ASSUME SyncInv, NEW n \in Nodes, MessageReceived(n)
  PROVE  FilterInv'
<1>1. ASSUME headers' = headers, delivered' = delivered, fTracker' = fTracker
      PROVE  FilterInv'
  BY <1>1, StateTypes, FiltersKept
<1>2. ASSUME HandleInvalid(n)
      PROVE  FilterInv'
  <2>1. Release(n) /\ headers' = headers /\ delivered' = delivered /\ TypeInv
    BY <1>2 DEF HandleInvalid, SyncInv
  <2>2. fTracker'.last = fTracker.last /\ fTracker'.pending = fTracker.pending
    BY <2>1, ReleaseTypes
  <2> QED
    BY <2>1, <2>2, StateTypes, FiltersKept
<1>3. CASE HeadersAnswered(n) \/ HeadersInvented(n)
  <2>1. \/ UNCHANGED sharedVars
        \/ \E batch : HeadersCompleted(n, batch)
        \/ HandleInvalid(n)
    BY <1>3 DEF HeadersAnswered, HeadersInvented
  <2> QED
    BY <1>1, <1>2, <2>1 DEF sharedVars, HeadersCompleted
<1>4. CASE FilterAnswered(n)
  <2> DEFINE h == Head(wire[n]).start
  <2>1. \/ UNCHANGED sharedVars
        \/ fRange[n] # NoRange /\ FilterReceived(n, Filter(h, h, TRUE))
        \/ HandleInvalid(n)
    BY <1>4 DEF FilterAnswered, FilterRejected
  <2>2. Filter(h, h, TRUE) \in [block : 1 .. Tip, of : Nat, genuine : BOOLEAN]
    <3>1. wire[n] # <<>>
      BY <1>4 DEF FilterAnswered
    <3>2. h \in 1 .. Tip
      BY <3>1, QueueHead
    <3> QED
      BY <3>2, StateTypes DEF Filter
  <2> HIDE DEF h
  <2> QED
    BY <1>1, <1>2, <2>1, <2>2, FilterReceivedKeeps DEF sharedVars
<1>5. CASE FilterInvented(n)
  <2>1. PICK block \in 1 .. Tip, genuine \in BOOLEAN :
          LET filter == Filter(block, fRange[n].start + Len(collected[n]), genuine)
          IN  \/ FilterReceived(n, filter) /\ UNCHANGED wire
              \/ FilterRejected(n, filter)
    BY <1>5 DEF FilterInvented
  <2> DEFINE filter == Filter(block, fRange[n].start + Len(collected[n]), genuine)
  <2>2. fRange[n] # NoRange
    BY <1>5 DEF FilterInvented
  <2>3. filter \in [block : 1 .. Tip, of : Nat, genuine : BOOLEAN]
    <3>1. fRange[n].start \in Nat
      BY StateTypes DEF Assignments
    <3>2. Len(collected[n]) \in Nat
      BY StateTypes, LenProperties DEF CollectedSeqs
    <3> QED
      BY <3>1, <3>2 DEF Filter
  <2>4. FilterReceived(n, filter) \/ HandleInvalid(n)
    BY <2>1 DEF FilterRejected
  <2> HIDE DEF filter
  <2> QED
    BY <1>2, <2>2, <2>3, <2>4, FilterReceivedKeeps
<1> QED
  BY <1>3, <1>4, <1>5 DEF MessageReceived

LEMMA FilterStep ==
  ASSUME SyncInv, [Next]_vars
  PROVE  FilterInv'
<1>1. ASSUME headers' = headers, delivered' = delivered,
             fTracker'.last = fTracker.last, fTracker'.pending = fTracker.pending
      PROVE  FilterInv'
  BY <1>1, StateTypes, FiltersKept
<1>2. ASSUME NEW n \in Nodes, Detach(n)
      PROVE  FilterInv'
  <2>1. Release(n) /\ headers' = headers /\ delivered' = delivered /\ TypeInv
    BY <1>2 DEF Detach, SyncInv
  <2>2. fTracker'.last = fTracker.last /\ fTracker'.pending = fTracker.pending
    BY <2>1, ReleaseTypes
  <2> QED
    BY <1>1, <2>1, <2>2
<1>3. ASSUME NEW n \in Nodes, Handshake(n) \/ Lose(n)
      PROVE  FilterInv'
  <2>1. headers' = headers /\ delivered' = delivered /\ fTracker' = fTracker
    BY <1>3 DEF Handshake, Lose, sharedVars
  <2> QED
    BY <1>1, <2>1
<1>4. ASSUME NEW n \in Nodes, NEW t \in Threads, TrySync(n, t)
      PROVE  FilterInv'
  <2>1. CASE AssignFilters(n, t)
    <3>1. PICK tr \in {fTracker} \cup ReleaseStale(fTracker) : AssignFiltersFrom(n, t, tr)
      BY <2>1 DEF AssignFilters
    <3>2. IsTracker(tr) /\ tr.last = fTracker.last /\ tr.pending = fTracker.pending
      BY <3>1, StateTypes, RemoveUpdates DEF ReleaseStale
    <3>3. headers' = headers /\ delivered' = delivered
      BY <3>1 DEF AssignFiltersFrom
    <3>4. fTracker' = tr \/ fTracker' = AddActive(tr, NextStart(tr, FiltersPerRequest))
      BY <3>1 DEF AssignFiltersFrom
    <3>5. fTracker'.last = tr.last /\ fTracker'.pending = tr.pending
      BY <3>2, <3>4, AddUpdates
    <3> QED
      BY <1>1, <3>2, <3>3, <3>5
  <2>2. CASE ~AssignFilters(n, t)
    <3>1. headers' = headers /\ delivered' = delivered /\ fTracker' = fTracker
      BY <1>4, <2>2 DEF TrySync, SyncEnds, HasHeaderRange, StoreHeaders, StoreFilters,
                        AssignHeaders, AssignHeadersFrom, sharedVars
    <3> QED
      BY <1>1, <3>1
  <2> QED
    BY <2>1, <2>2
<1>5. ASSUME NEW n \in Nodes, DrainHeaders(n)
      PROVE  FilterInv'
  <2> DEFINE next == hTracker.last + 1
  <2>1. fTracker' = fTracker /\ delivered' = delivered /\ blockTip' = blockTip
    BY <1>5 DEF DrainHeaders
  <2>2. CASE next \in DOMAIN hTracker.pending
    <3>1. HeadersDrained(next)
      BY <1>5, <2>1, <2>2 DEF DrainHeaders, HeadersDrained, Drained
    <3> HIDE DEF next
    <3>2. /\ Len(headers') \in Nat /\ Len(headers) <= Len(headers')
          /\ \A h \in 1 .. Len(headers) : headers'[h] = headers[h]
      BY <3>1, HeadersAppended
    <3> QED
      BY <2>1, <3>2, FiltersKept
  <2>3. CASE next \notin DOMAIN hTracker.pending
    <3>1. headers' = headers
      BY <1>5, <2>3 DEF DrainHeaders
    <3> QED
      BY <1>1, <2>1, <3>1
  <2> QED
    BY <2>2, <2>3
<1>6. ASSUME NEW n \in Nodes, DrainFilters(n)
      PROVE  FilterInv'
  <2> DEFINE next == fTracker.last + 1
  <2>1. headers' = headers
    BY <1>6 DEF DrainFilters
  <2>2. CASE next \in DOMAIN fTracker.pending
    <3>1. FiltersDrained(next)
      BY <1>6, <2>1, <2>2 DEF DrainFilters, FiltersDrained, Drained
    <3>2. \A s \in DOMAIN fTracker.pending :
            Len(fTracker.pending[s]) >= 1 /\ Committed(s, fTracker.pending[s])
      BY DEF SyncInv, FilterInv
    <3> HIDE DEF next
    <3>3. /\ fTracker'.last = Stored + Len(delivered')
          /\ DOMAIN fTracker'.pending = DOMAIN fTracker.pending \ {next}
          /\ \A s \in DOMAIN fTracker'.pending : fTracker'.pending[s] = fTracker.pending[s]
          /\ Committed(Stored + 1, delivered')
      BY <3>1, FiltersAppended
    <3> QED
      BY <2>1, <3>2, <3>3 DEF FilterInv, Committed
  <2>3. CASE next \notin DOMAIN fTracker.pending
    <3>1. delivered' = delivered /\ fTracker' = fTracker
      BY <1>6, <2>3 DEF DrainFilters
    <3> QED
      BY <1>1, <2>1, <3>1
  <2> QED
    BY <2>2, <2>3
<1>7. CASE Grow \/ UNCHANGED vars
  <2>1. headers' = headers /\ delivered' = delivered /\ fTracker' = fTracker
    BY <1>7 DEF Grow, vars, sharedVars
  <2> QED
    BY <1>1, <2>1
<1> QED
  BY <1>2, <1>3, <1>4, <1>5, <1>6, <1>7, MessageKeepsFilters DEF Next

-----------------------------------------------------------------------------
(* The theorems. *)

LEMMA SyncInductive == SyncInv /\ [Next]_vars => SyncInv'
BY TypeStep, HeaderStep, FilterStep DEF SyncInv

\* Whatever the nodes send and whichever thread runs: ranges stay below the tips
\* they were cut at, completed ranges hold what the chain of headers commits to,
\* and the channel has the filters of Stored + 1 and on without a gap.
THEOREM SyncInvariance == Spec => []SyncInv
<1>1. SyncInv /\ [Next]_vars => SyncInv'
  BY SyncInductive
<1> QED
  BY InitTypes, <1>1, PTL DEF Spec

\* The trackers, the behaviors and the channel hold what the code declares, and
\* heights stay within the chain.
THEOREM FilterSyncTypes == Spec => []FilterSyncTypeOK
<1>1. SyncInv => FilterSyncTypeOK
  BY DEF SyncInv, TypeInv
<1> QED
  BY <1>1, SyncInvariance, PTL

\* Only the header range above the tip of the filter headers is ever fetched: it
\* may be handed out again and again, by any number of nodes, and no other is.
THEOREM HeadersFollowTip == Spec => []HeaderRangesFollowTip
<1>1. SyncInv => HeaderRangesFollowTip
  BY DEF SyncInv, HeaderInv
<1> QED
  BY <1>1, SyncInvariance, PTL

\* What the store has seen of a filter.
FedItem(item) == [height |-> item.height, genuine |-> item.genuine]

Fed == [i \in DOMAIN delivered |-> FedItem(delivered[i])]

LEMMA FunctionIsSeq ==
  ASSUME NEW S, NEW n \in Nat, NEW f \in [1 .. n -> S]
  PROVE  f \in Seq(S) /\ Len(f) = n
OBVIOUS

\* A turn of the loop of DrainFilters is a step of the feed.
LEMMA DrainIsFeed ==
  ASSUME SyncInv, SyncInv', NEW next, FiltersDrained(next)
  PROVE  Feed!Feed
<1> DEFINE batch == fTracker.pending[next]
           k     == Len(batch)
           d     == Len(delivered)
           Item  == [height : Int, genuine : BOOLEAN]
           more  == [i \in 1 .. k |-> [height  |-> Stored + d + i,
                                       genuine |-> headers[Stored + d + i]]]
<1>1. /\ delivered \in Seq(Delivery) /\ headers \in Seq(BOOLEAN)
      /\ batch \in Seq(Delivery) /\ delivered' = delivered \o batch
      /\ delivered' \in Seq(Delivery)
  BY StateTypes, FiltersAppended DEF TrackerOK, FiltersDrained
<1>2. d \in Nat /\ k \in Nat /\ k >= 1 /\ Stored \in Nat /\ Len(headers) \in Nat
  BY <1>1, StateTypes, LenProperties DEF SyncInv, FilterInv, FiltersDrained
<1>3. Len(delivered') = d + k
  BY <1>1, ConcatProperties
<1> HIDE DEF k, d, batch
<1>4. /\ Stored + 1 + (d + k) - 1 <= Len(headers)
      /\ \A i \in 1 .. d + k : /\ delivered'[i].height = Stored + 1 + i - 1
                               /\ delivered'[i].genuine = headers[Stored + 1 + i - 1]
  <2>1. Committed(Stored + 1, delivered')
    BY FiltersAppended
  <2> QED
    BY <1>3, <2>1 DEF Committed
<1>5. \A i \in 1 .. d + k : Stored + i \in 1 .. Len(headers) /\ Stored + 1 + i - 1 = Stored + i
  BY <1>2, <1>4
<1>6. \A i \in 1 .. d + k :
        FedItem(delivered'[i]) = [height |-> Stored + i, genuine |-> headers[Stored + i]]
  BY <1>4, <1>5 DEF FedItem
<1>7. \A i \in 1 .. d : i \in 1 .. d + k /\ delivered'[i] = delivered[i]
  BY <1>1, <1>2, ConcatProperties DEF d
<1>8. \A h \in 1 .. Len(headers) : headers[h] \in BOOLEAN
  BY <1>1
<1>9. /\ Fed = [i \in 1 .. d |-> [height |-> Stored + i, genuine |-> headers[Stored + i]]]
      /\ Fed' = [i \in 1 .. d + k |-> [height |-> Stored + i, genuine |-> headers[Stored + i]]]
  <2>1. DOMAIN delivered = 1 .. d /\ DOMAIN delivered' = 1 .. d + k
    BY <1>1, <1>3, LenProperties DEF d
  <2> QED
    BY <1>6, <1>7, <2>1 DEF Fed, FedItem
<1>10. \A i \in 1 .. d + k :
         [height |-> Stored + i, genuine |-> headers[Stored + i]] \in Item
  BY <1>2, <1>5, <1>8
<1>11. Fed \in Seq(Item) /\ Len(Fed) = d /\ Fed' \in Seq(Item) /\ Len(Fed') = d + k
  <2> HIDE DEF Item
  <2>1. Fed \in [1 .. d -> Item] /\ Fed' \in [1 .. d + k -> Item]
    BY <1>7, <1>9, <1>10
  <2>2. d + k \in Nat
    BY <1>2
  <2> QED
    BY <1>2, <2>1, <2>2, FunctionIsSeq
<1>12. more \in Seq(Item) /\ Len(more) = k
  <2>1. \A i \in 1 .. k : d + i \in 1 .. d + k /\ Stored + d + i = Stored + (d + i)
    BY <1>2
  <2> HIDE DEF Item
  <2>2. more \in [1 .. k -> Item]
    BY <1>10, <2>1
  <2> HIDE DEF more
  <2> QED
    BY <1>2, <2>2, FunctionIsSeq
<1>13. \A i \in 1 .. d + k : Fed'[i] = IF i <= d THEN Fed[i] ELSE more[i - d]
  <2> TAKE i \in 1 .. d + k
  <2>1. CASE i <= d
    BY <1>2, <1>9, <2>1
  <2>2. CASE ~(i <= d)
    <3>1. i - d \in 1 .. k /\ Stored + d + (i - d) = Stored + i
      BY <1>2, <2>2
    <3> QED
      BY <1>9, <2>2, <3>1
  <2> QED
    BY <2>1, <2>2
<1> HIDE DEF more, Item
<1>14. Fed' = Fed \o more
  <2>1. /\ Fed \o more \in Seq(Item) /\ Len(Fed \o more) = d + k
        /\ \A i \in 1 .. d + k : (Fed \o more)[i] = IF i <= d THEN Fed[i] ELSE more[i - d]
    BY <1>11, <1>12, ConcatProperties
  <2> QED
    BY <1>11, <1>13, <2>1, SeqEqual
<1>15. k \in 1 .. Len(headers) - (Stored + d)
  BY <1>2, <1>4
<1>16. headers' = headers
  BY DEF FiltersDrained
<1> QED
  BY <1>11, <1>14, <1>15, <1>16 DEF Feed!Feed, Feed!NextFilters, Fed, FedItem, more

\* The synchronization implements FilterFeed: the chain of filter headers is only
\* ever extended, and the channel gets the committed filters block after block.
THEOREM SyncFeedsInOrder == Spec => FeedsInOrder
<1>1. Init => Feed!Init
  <2> SUFFICES ASSUME Init PROVE Feed!Init
    OBVIOUS
  <2>1. headers = [h \in 1 .. Stored |-> TRUE] /\ delivered = <<>>
    BY DEF Init
  <2> QED
    BY <2>1 DEF Feed!Init
<1>2. SyncInv /\ SyncInv' /\ [Next]_vars => [Feed!Next]_<<headers, Fed>>
  <2> SUFFICES ASSUME SyncInv, SyncInv', [Next]_vars
               PROVE  Feed!Next \/ (headers' = headers /\ Fed' = Fed)
    OBVIOUS
  <2>1. ASSUME NEW n \in Nodes, DrainHeaders(n)
        PROVE  Feed!Next \/ (headers' = headers /\ Fed' = Fed)
    <3> DEFINE next == hTracker.last + 1
    <3>1. delivered' = delivered /\ blockTip' = blockTip
      BY <2>1 DEF DrainHeaders
    <3>2. CASE next \in DOMAIN hTracker.pending
      <4>1. HeadersDrained(next)
        BY <2>1, <3>1, <3>2 DEF DrainHeaders, HeadersDrained, Drained
      <4> HIDE DEF next
      <4>2. /\ headers' \in Seq(BOOLEAN) /\ Len(headers) <= Len(headers')
            /\ \A h \in 1 .. Len(headers) : headers'[h] = headers[h]
        BY <4>1, HeadersAppended
      <4> QED
        BY <3>1, <4>2 DEF Feed!Next, Feed!Commit
    <3>3. CASE next \notin DOMAIN hTracker.pending
      BY <2>1, <3>1, <3>3 DEF DrainHeaders, Fed
    <3> QED
      BY <3>2, <3>3
  <2>2. ASSUME NEW n \in Nodes, DrainFilters(n)
        PROVE  Feed!Next \/ (headers' = headers /\ Fed' = Fed)
    <3> DEFINE next == fTracker.last + 1
    <3>1. headers' = headers
      BY <2>2 DEF DrainFilters
    <3>2. CASE next \in DOMAIN fTracker.pending
      <4>1. FiltersDrained(next)
        BY <2>2, <3>1, <3>2 DEF DrainFilters, FiltersDrained, Drained
      <4> QED
        BY <4>1, DrainIsFeed DEF Feed!Next
    <3>3. CASE next \notin DOMAIN fTracker.pending
      BY <2>2, <3>1, <3>3 DEF DrainFilters, Fed
    <3> QED
      BY <3>2, <3>3
  <2>3. ASSUME headers' = headers, delivered' = delivered
        PROVE  Feed!Next \/ (headers' = headers /\ Fed' = Fed)
    BY <2>3 DEF Fed
  <2>4. ASSUME NEW n \in Nodes, Handshake(n) \/ Lose(n) \/ Detach(n) \/ MessageReceived(n)
        PROVE  headers' = headers /\ delivered' = delivered
    <3>1. Handshake(n) \/ Lose(n) \/ Detach(n) => headers' = headers /\ delivered' = delivered
      BY DEF Handshake, Lose, Detach, sharedVars
    <3>2. \A filter : FilterReceived(n, filter) => headers' = headers /\ delivered' = delivered
      BY DEF FilterReceived, sharedVars
    <3>3. \A batch : HeadersCompleted(n, batch) => headers' = headers /\ delivered' = delivered
      BY DEF HeadersCompleted
    <3>4. HandleInvalid(n) => headers' = headers /\ delivered' = delivered
      BY DEF HandleInvalid
    <3>5. \A filter : FilterRejected(n, filter) => HandleInvalid(n)
      BY DEF FilterRejected
    <3>6. HeadersAnswered(n) \/ HeadersInvented(n) => headers' = headers /\ delivered' = delivered
      BY <3>3, <3>4 DEF HeadersAnswered, HeadersInvented, sharedVars
    <3>7. FilterAnswered(n) \/ FilterInvented(n) => headers' = headers /\ delivered' = delivered
      BY <3>2, <3>4, <3>5 DEF FilterAnswered, FilterInvented, sharedVars
    <3> QED
      BY <2>4, <3>1, <3>6, <3>7 DEF MessageReceived
  <2>5. ASSUME NEW n \in Nodes, NEW t \in Threads, TrySync(n, t)
        PROVE  headers' = headers /\ delivered' = delivered
    BY <2>5 DEF TrySync, SyncEnds, HasHeaderRange, AssignHeaders, AssignHeadersFrom, StoreHeaders,
                AssignFilters, AssignFiltersFrom, StoreFilters, sharedVars
  <2>6. CASE Grow \/ UNCHANGED vars
    BY <2>3, <2>6 DEF Grow, vars, sharedVars
  <2> QED
    BY <2>1, <2>2, <2>3, <2>4, <2>5, <2>6 DEF Next
<1>3. SyncInv /\ SyncInv' /\ [Next]_vars => [Feed!Next]_<<headers, [i \in DOMAIN delivered |->
        [height |-> delivered[i].height, genuine |-> delivered[i].genuine]]>>
  BY <1>2 DEF Fed, FedItem
<1> QED
  BY <1>1, <1>3, SyncInvariance, PTL DEF Spec, FeedsInOrder, Feed!Spec
=============================================================================
