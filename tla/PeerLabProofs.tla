--------------------------- MODULE PeerLabProofs ---------------------------
(***************************************************************************)
(* The safety of the simulated peers for every number of peers, of their   *)
(* connections and of requests, every behavior and every length of chain:  *)
(* the transcript holds whatever reached a client, and a delay for one     *)
(* reply delays the first.                                                 *)
(***************************************************************************)
EXTENDS PeerLab, FiniteSetTheorems, SequenceTheorems, TLAPS

(***************************************************************************)
(* The replies of a peer.                                                  *)
(***************************************************************************)

\* The commands whose replies behavior b may alter.
FaultCommands(b) ==
  {cmd \in ReplyCommands :
     \/ cmd = "headers" /\ b.headers # {}
     \/ cmd = "cfheaders" /\ (b.cfHeaders # {} \/ b.prevHeader # {} \/ b.emptyCF # {})
     \/ cmd = "cfilter" /\ (b.cFilters # {} \/ b.blockHash # {})
     \/ cmd = "cfcheckpt" /\ b.cfCheckpts # {}
     \/ cmd = "block" /\ b.blocks # {}
     \/ cmd \in b.wrongType}

\* What peer s may reply: an altered reply answers with a command it has a fault for.
ReplyOf(s) ==
  {r \in [cmd : ReplyCommands, alt : BOOLEAN] : r.alt => r.cmd \in FaultCommands(behavior[s])}

(***************************************************************************)
(* The inductive invariant.                                                *)
(***************************************************************************)

\* The replies recorded for connection c that have not been written yet.
Unwritten(s, c) == IF phase[s][c] = "send" THEN 1 ELSE 0

\* Reply r was recorded for connection c, and no other reply after it.
RecordedLast(s, c, r) ==
  \E i \in OutAt(s, c) :
    /\ \A j \in OutAt(s, c) : j <= i
    /\ transcript[s][i].cmd = r.cmd
    /\ transcript[s][i].alt = r.alt

\* The k-th reply delivered over connection c is the k-th recorded for it.
Delivered(s, c) ==
  \A k \in DOMAIN got[s][c] : \E i \in OutAt(s, c) :
    /\ Cardinality({j \in OutAt(s, c) : j <= i}) = k
    /\ transcript[s][i].cmd = got[s][c][k].cmd
    /\ transcript[s][i].alt = got[s][c][k].alt

\* As long as a connection is open its client has received every reply that was
\* recorded for it, but the one its handler is about to write.
ConnInv(s, c) ==
  /\ todo[s][c] \in Seq(ReplyOf(s)) /\ got[s][c] \in Seq(ReplyOf(s))
  /\ link[s][c] \in {"none", "queued"} =>
       phase[s][c] = "none" /\ got[s][c] = <<>> /\ OutAt(s, c) = {}
  /\ link[s][c] = "open" => Cardinality(OutAt(s, c)) = Len(got[s][c]) + Unwritten(s, c)
  /\ phase[s][c] = "send" => RecordedLast(s, c, Head(todo[s][c]))
  /\ Delivered(s, c)

\* No reply was recorded whose one-shot delay is still due, and none is past the
\* point where the delay is taken.
DelayInv(s) ==
  /\ slept[s] \subseteq [conn : Conns, cmd : ReplyCommands, after : 0 .. Len(transcript[s])]
  /\ \A d \in slept[s] : d.cmd \notin onceLeft[s]
  /\ \A c \in Conns : phase[s][c] \in {"asleep", "record", "send"} =>
       Head(todo[s][c]).cmd \notin onceLeft[s]
  /\ \A i \in 1 .. Len(transcript[s]) :
       transcript[s][i].dir = "out" /\ transcript[s][i].cmd # "error" =>
         transcript[s][i].cmd \notin onceLeft[s]

\* An altered reply is of a command the behavior has a fault for.
AlteredInv(s) ==
  \A i \in 1 .. Len(transcript[s]) : transcript[s][i].alt =>
    transcript[s][i].dir = "out" /\ transcript[s][i].cmd \in FaultCommands(behavior[s])

HistoryTypeOK ==
  /\ got \in [Servers -> [Conns -> Seq([cmd : ReplyCommands, alt : BOOLEAN])]]
  /\ DOMAIN onceLeft = Servers
  /\ DOMAIN slept = Servers

PeerInv ==
  /\ PeerTypeOK
  /\ HistoryTypeOK
  /\ OneShotDelaysFirstReply
  /\ \A s \in Servers : DelayInv(s) /\ AlteredInv(s)
  /\ \A s \in Servers, c \in Conns : ConnInv(s, c)

-----------------------------------------------------------------------------
(* Lemmas about the replies. *)

LEMMA FunctionIsSeq ==
  ASSUME NEW S, NEW n \in Nat, NEW f \in [1 .. n -> S]
  PROVE  f \in Seq(S) /\ Len(f) = n /\ DOMAIN f = 1 .. n
OBVIOUS

LEMMA SpanDomain ==
  ASSUME NEW lo \in Int, NEW hi \in Int
  PROVE  \E n \in Nat : DOMAIN Span(lo, hi) = 1 .. n
<1>1. CASE lo > hi
  BY <1>1 DEF Span
<1>2. CASE ~(lo > hi)
  <2>1. hi - lo + 1 \in Nat /\ DOMAIN Span(lo, hi) = 1 .. hi - lo + 1
    BY <1>2 DEF Span
  <2> QED
    BY <2>1
<1> QED
  BY <1>1, <1>2

LEMMA BlocksDomain ==
  ASSUME NEW b, NEW req, req.invs \in Seq(Int)
  PROVE  \E n \in Nat : DOMAIN BlocksResponse(b, req) = 1 .. n
<1> DEFINE known == {i \in DOMAIN req.invs : Known(req.invs[i])}
<1>1. IsFiniteSet(1 .. Len(req.invs))
  BY FS_Interval
<1>2. known \subseteq 1 .. Len(req.invs)
  OBVIOUS
<1>3. Cardinality(known) \in Nat
  BY <1>1, <1>2, FS_Subset, FS_CardinalityType
<1>4. DOMAIN BlocksResponse(b, req) = 1 .. Cardinality(known)
  BY DEF BlocksResponse
<1> QED
  BY <1>3, <1>4

\* The shape of every reply, and which faults can alter it.
RepliesShape(b, req) ==
  \E n \in Nat :
    /\ DOMAIN Replies(b, req) = 1 .. n
    /\ \A i \in 1 .. n : Replies(b, req)[i].cmd \in ReplyCommands
    /\ \A i \in 1 .. n : Replies(b, req)[i] # Replies(HonestBehavior, req)[i] =>
         Replies(b, req)[i].cmd \in FaultCommands(b)

LEMMA OneReplyShape ==
  ASSUME NEW b, NEW req, NEW r, NEW r0,
         Replies(b, req) = <<r>>, Replies(HonestBehavior, req) = <<r0>>,
         r.cmd \in ReplyCommands, r # r0 => r.cmd \in FaultCommands(b)
  PROVE  RepliesShape(b, req)
<1>1. DOMAIN Replies(b, req) = 1 .. 1 /\ Replies(b, req)[1] = r
  OBVIOUS
<1>2. Replies(HonestBehavior, req)[1] = r0
  OBVIOUS
<1>3. \A i \in 1 .. 1 : i = 1
  OBVIOUS
<1> QED
  BY <1>1, <1>2, <1>3 DEF RepliesShape

LEMMA HonestFaults ==
  /\ HonestBehavior.headers = {} /\ HonestBehavior.cfHeaders = {}
  /\ HonestBehavior.cfCheckpts = {} /\ HonestBehavior.cFilters = {}
  /\ HonestBehavior.prevHeader = {} /\ HonestBehavior.emptyCF = {}
  /\ HonestBehavior.blockHash = {} /\ HonestBehavior.blocks = {}
  /\ HonestBehavior.wrongType = {}
BY DEF HonestBehavior

LEMMA HeadersShape ==
  ASSUME NEW b, NEW req, req.cmd = "getheaders"
  PROVE  RepliesShape(b, req)
<1>1. \A bb : Replies(bb, req) = <<HeadersResponse(bb, req)>>
  BY DEF Replies
<1>2. HeadersResponse(b, req).cmd = "headers"
  BY DEF HeadersResponse
<1>3. b.headers = {} => HeadersResponse(b, req) = HeadersResponse(HonestBehavior, req)
  BY HonestFaults DEF HeadersResponse
<1>4. b.headers # {} => "headers" \in FaultCommands(b)
  BY DEF FaultCommands, ReplyCommands
<1>5. "headers" \in ReplyCommands
  BY DEF ReplyCommands
<1> QED
  BY <1>1, <1>2, <1>3, <1>4, <1>5, OneReplyShape

LEMMA CFHeadersShape ==
  ASSUME NEW b, NEW req, req.cmd = "getcfheaders"
  PROVE  RepliesShape(b, req)
<1>1. \A bb : Replies(bb, req) = <<CFHeadersResponse(bb, req)>>
  BY DEF Replies
<1>2. CFHeadersResponse(b, req).cmd = "cfheaders"
  BY DEF CFHeadersResponse
<1>3. b.cfHeaders = {} /\ b.prevHeader = {} /\ b.emptyCF = {} /\ "cfheaders" \notin b.wrongType
        => CFHeadersResponse(b, req) = CFHeadersResponse(HonestBehavior, req)
  BY HonestFaults DEF CFHeadersResponse, FilterType
<1>4. b.cfHeaders # {} \/ b.prevHeader # {} \/ b.emptyCF # {} \/ "cfheaders" \in b.wrongType
        => "cfheaders" \in FaultCommands(b)
  BY DEF FaultCommands, ReplyCommands
<1>5. "cfheaders" \in ReplyCommands
  BY DEF ReplyCommands
<1> QED
  BY <1>1, <1>2, <1>3, <1>4, <1>5, OneReplyShape

LEMMA CFCheckptShape ==
  ASSUME NEW b, NEW req, req.cmd = "getcfcheckpt"
  PROVE  RepliesShape(b, req)
<1>1. \A bb : Replies(bb, req) = <<CFCheckptResponse(bb, req)>>
  BY DEF Replies
<1>2. CFCheckptResponse(b, req).cmd = "cfcheckpt"
  BY DEF CFCheckptResponse
<1>3. b.cfCheckpts = {} /\ "cfcheckpt" \notin b.wrongType
        => CFCheckptResponse(b, req) = CFCheckptResponse(HonestBehavior, req)
  BY HonestFaults DEF CFCheckptResponse, FilterType
<1>4. b.cfCheckpts # {} \/ "cfcheckpt" \in b.wrongType => "cfcheckpt" \in FaultCommands(b)
  BY DEF FaultCommands, ReplyCommands
<1>5. "cfcheckpt" \in ReplyCommands
  BY DEF ReplyCommands
<1> QED
  BY <1>1, <1>2, <1>3, <1>4, <1>5, OneReplyShape

LEMMA CFiltersShape ==
  ASSUME NEW b, NEW req, req.cmd = "getcfilters", req.start \in Int, req.stop \in Int
  PROVE  RepliesShape(b, req)
<1>1. \A bb : Replies(bb, req) = CFiltersResponse(bb, req)
  BY DEF Replies
<1>2. PICK n \in Nat : DOMAIN Span(req.start, req.stop) = 1 .. n
  BY SpanDomain
<1>3. DOMAIN CFiltersResponse(b, req) = 1 .. n
  BY <1>2 DEF CFiltersResponse
<1>4. \A i \in 1 .. n : CFiltersResponse(b, req)[i].cmd = "cfilter"
  BY <1>2 DEF CFiltersResponse
<1>5. b.cFilters = {} /\ b.blockHash = {} /\ "cfilter" \notin b.wrongType
        => CFiltersResponse(b, req) = CFiltersResponse(HonestBehavior, req)
  BY HonestFaults DEF CFiltersResponse, FilterType
<1>6. b.cFilters # {} \/ b.blockHash # {} \/ "cfilter" \in b.wrongType
        => "cfilter" \in FaultCommands(b)
  BY DEF FaultCommands, ReplyCommands
<1>7. "cfilter" \in ReplyCommands
  BY DEF ReplyCommands
<1> QED
  BY <1>1, <1>3, <1>4, <1>5, <1>6, <1>7 DEF RepliesShape

LEMMA BlocksShape ==
  ASSUME NEW b, NEW req, req.cmd = "getdata", req.invs \in Seq(Int)
  PROVE  RepliesShape(b, req)
<1>1. \A bb : Replies(bb, req) = BlocksResponse(bb, req)
  BY DEF Replies
<1>2. PICK n \in Nat : DOMAIN BlocksResponse(b, req) = 1 .. n
  BY BlocksDomain
<1>4. \A i \in 1 .. n : BlocksResponse(b, req)[i].cmd = "block"
  BY <1>2 DEF BlocksResponse
<1>5. b.blocks = {} => BlocksResponse(b, req) = BlocksResponse(HonestBehavior, req)
  BY HonestFaults DEF BlocksResponse
<1>6. b.blocks # {} => "block" \in FaultCommands(b)
  BY DEF FaultCommands, ReplyCommands
<1>7. "block" \in ReplyCommands
  BY DEF ReplyCommands
<1> QED
  BY <1>1, <1>2, <1>4, <1>5, <1>6, <1>7 DEF RepliesShape

LEMMA OtherShape ==
  ASSUME NEW b, NEW req,
         req.cmd \notin {"getheaders", "getcfheaders", "getcfilters", "getcfcheckpt", "getdata"}
  PROVE  RepliesShape(b, req)
<1>1. Replies(b, req) = Replies(HonestBehavior, req)
  BY DEF Replies
<1>2. CASE req.cmd = "version"
  BY <1>1, <1>2 DEF RepliesShape, Replies, ReplyCommands
<1>3. CASE req.cmd = "ping"
  BY <1>1, <1>3 DEF RepliesShape, Replies, ReplyCommands
<1>4. CASE req.cmd \notin {"version", "ping"}
  <2>1. Replies(b, req) = <<>>
    BY <1>4 DEF Replies
  <2> QED
    BY <2>1 DEF RepliesShape
<1> QED
  BY <1>2, <1>3, <1>4

\* Whatever is asked, the replies of a peer are among those of ReplyOf.
LEMMA AbstractedReplies ==
  ASSUME NEW s \in Servers, NEW req \in Requests
  PROVE  Abstracted(s, req) \in Seq(ReplyOf(s))
<1> DEFINE b == behavior[s]
<1>1. req \in Request
  BY PeerLabAssumption
<1>3. RepliesShape(b, req)
  <2>1. req.cmd = "getcfilters" => req.start \in Int /\ req.stop \in Int
    BY <1>1 DEF Request
  <2>2. req.cmd = "getdata" => req.invs \in Seq(Int)
    BY <1>1 DEF Request
  <2> QED
    BY <2>1, <2>2, HeadersShape, CFHeadersShape, CFCheckptShape, CFiltersShape, BlocksShape, OtherShape
<1>4. PICK n \in Nat :
        /\ DOMAIN Replies(b, req) = 1 .. n
        /\ \A i \in 1 .. n : Replies(b, req)[i].cmd \in ReplyCommands
        /\ \A i \in 1 .. n : Replies(b, req)[i] # Replies(HonestBehavior, req)[i] =>
             Replies(b, req)[i].cmd \in FaultCommands(b)
  BY <1>3 DEF RepliesShape
<1>5. Abstracted(s, req) = [i \in 1 .. n |->
        [cmd |-> Replies(b, req)[i].cmd, alt |-> Altered(b, req, i)]]
  BY <1>4 DEF Abstracted
<1>6. \A i \in 1 .. n :
        [cmd |-> Replies(b, req)[i].cmd, alt |-> Altered(b, req, i)] \in ReplyOf(s)
  BY <1>4 DEF ReplyOf, Altered
<1>7. Abstracted(s, req) \in [1 .. n -> ReplyOf(s)]
  BY <1>5, <1>6
<1> QED
  BY <1>7, FunctionIsSeq

-----------------------------------------------------------------------------
(* Lemmas about the transcript, which only grows. *)

\* What is in the transcript stays in its place.
Grows ==
  /\ transcript' \in [Servers -> Seq(EntryType)]
  /\ \A s \in Servers :
       /\ Len(transcript[s]) <= Len(transcript'[s])
       /\ \A i \in 1 .. Len(transcript[s]) : transcript'[s][i] = transcript[s][i]

\* An entry that is no reply.
IsQuiet(e) == (e.dir = "in" \/ e.cmd = "error") /\ ~e.alt

\* The transcript grows by entries that are no replies.
Quiet ==
  /\ Grows
  /\ \A s \in Servers : \A i \in 1 .. Len(transcript'[s]) :
       i \in 1 .. Len(transcript[s]) \/ IsQuiet(transcript'[s][i])

LEMMA AppendOne ==
  ASSUME transcript \in [Servers -> Seq(EntryType)], NEW s \in Servers, NEW e \in EntryType,
         transcript' = [transcript EXCEPT ![s] = Append(@, e)]
  PROVE  /\ Grows
         /\ Len(transcript[s]) \in Nat
         /\ Len(transcript'[s]) = Len(transcript[s]) + 1
         /\ transcript'[s][Len(transcript[s]) + 1] = e
         /\ \A r \in Servers \ {s} : transcript'[r] = transcript[r]
<1> DEFINE T == EntryType
<1>0. \A r \in Servers : transcript[r] \in Seq(T)
  OBVIOUS
<1> HIDE DEF T
<1>1. /\ Append(transcript[s], e) \in Seq(T)
      /\ Len(Append(transcript[s], e)) = Len(transcript[s]) + 1
      /\ \A i \in 1 .. Len(transcript[s]) : Append(transcript[s], e)[i] = transcript[s][i]
      /\ Append(transcript[s], e)[Len(transcript[s]) + 1] = e
  <2>1. e \in T
    BY DEF T
  <2> QED
    BY <1>0, <2>1, AppendProperties
<1>2. /\ transcript'[s] = Append(transcript[s], e)
      /\ \A r \in Servers \ {s} : transcript'[r] = transcript[r]
      /\ \A r \in Servers : Len(transcript[r]) \in Nat
  BY <1>0
<1>3. transcript' \in [Servers -> Seq(T)]
  BY <1>0, <1>1 DEF T
<1>4. \A r \in Servers :
        /\ Len(transcript[r]) <= Len(transcript'[r])
        /\ \A i \in 1 .. Len(transcript[r]) : transcript'[r][i] = transcript[r][i]
  BY <1>1, <1>2
<1> QED
  BY <1>1, <1>2, <1>3, <1>4 DEF Grows, T

LEMMA QuietOne ==
  ASSUME transcript \in [Servers -> Seq(EntryType)], NEW s \in Servers,
         NEW e \in EntryType, IsQuiet(e),
         transcript' = [transcript EXCEPT ![s] = Append(@, e)]
  PROVE  Quiet
<1>1. /\ Grows
      /\ Len(transcript[s]) \in Nat
      /\ Len(transcript'[s]) = Len(transcript[s]) + 1
      /\ transcript'[s][Len(transcript[s]) + 1] = e
      /\ \A r \in Servers \ {s} : transcript'[r] = transcript[r]
  BY AppendOne
<1>2. \A r \in Servers : \A i \in 1 .. Len(transcript'[r]) :
        i \in 1 .. Len(transcript[r]) \/ IsQuiet(transcript'[r][i])
  BY <1>1
<1> QED
  BY <1>1, <1>2 DEF Quiet

LEMMA QuietTwo ==
  ASSUME transcript \in [Servers -> Seq(EntryType)], NEW s \in Servers,
         NEW d \in EntryType, NEW e \in EntryType, IsQuiet(d), IsQuiet(e),
         transcript' = [transcript EXCEPT ![s] = @ \o <<d, e>>]
  PROVE  Quiet
<1> DEFINE T == EntryType
           new == <<d, e>>
<1>0. /\ \A r \in Servers : transcript[r] \in Seq(T)
      /\ new \in Seq(T) /\ Len(new) = 2 /\ new[1] = d /\ new[2] = e
  OBVIOUS
<1>1. transcript' = [transcript EXCEPT ![s] = @ \o new]
  OBVIOUS
<1> HIDE DEF T, new
<1>2. /\ transcript[s] \o new \in Seq(T)
      /\ Len(transcript[s] \o new) = Len(transcript[s]) + 2
      /\ \A i \in 1 .. Len(transcript[s]) + 2 : (transcript[s] \o new)[i] =
           IF i <= Len(transcript[s]) THEN transcript[s][i] ELSE new[i - Len(transcript[s])]
  <2> DEFINE old == transcript[s]
  <2>1. old \in Seq(T)
    BY <1>0
  <2> HIDE DEF old
  <2>2. /\ old \o new \in Seq(T)
        /\ Len(old \o new) = Len(old) + Len(new)
        /\ \A i \in 1 .. Len(old) + Len(new) :
             (old \o new)[i] = IF i <= Len(old) THEN old[i] ELSE new[i - Len(old)]
    BY <1>0, <2>1, ConcatProperties, Zenon
  <2> QED
    BY <1>0, <2>2, Zenon DEF old
<1>3. /\ transcript'[s] = transcript[s] \o new
      /\ \A r \in Servers \ {s} : transcript'[r] = transcript[r]
      /\ \A r \in Servers : Len(transcript[r]) \in Nat
  BY <1>0, <1>1
<1>4. transcript' \in [Servers -> Seq(T)]
  BY <1>0, <1>1, <1>2 DEF T
<1>5. \A r \in Servers :
        /\ Len(transcript[r]) <= Len(transcript'[r])
        /\ \A i \in 1 .. Len(transcript[r]) : transcript'[r][i] = transcript[r][i]
  BY <1>2, <1>3
<1>6. \A r \in Servers : \A i \in 1 .. Len(transcript'[r]) :
        i \in 1 .. Len(transcript[r]) \/ transcript'[r][i] = d \/ transcript'[r][i] = e
  <2> SUFFICES ASSUME NEW i \in 1 .. Len(transcript'[s]), i \notin 1 .. Len(transcript[s])
               PROVE  transcript'[s][i] = d \/ transcript'[s][i] = e
    BY <1>3
  <2>1. i - Len(transcript[s]) \in {1, 2}
    BY <1>2, <1>3
  <2>2. transcript'[s][i] = new[i - Len(transcript[s])]
    BY <1>2, <1>3
  <2> QED
    BY <1>0, <2>1, <2>2
<1> QED
  BY <1>4, <1>5, <1>6 DEF Quiet, Grows, T

LEMMA QuietUnchanged ==
  ASSUME transcript \in [Servers -> Seq(EntryType)], transcript' = transcript
  PROVE  Quiet
BY DEF Quiet, Grows

\* A quiet step records no reply.
LEMMA QuietKeepsOut ==
  ASSUME transcript \in [Servers -> Seq(EntryType)], Quiet,
         NEW s \in Servers, NEW c \in Conns
  PROVE  /\ OutAt(s, c)' = OutAt(s, c)
         /\ OutAt(s, c) \subseteq 1 .. Len(transcript[s])
         /\ \A i \in OutAt(s, c) : transcript'[s][i] = transcript[s][i]
<1>1. DOMAIN transcript[s] = 1 .. Len(transcript[s]) /\ DOMAIN transcript'[s] = 1 .. Len(transcript'[s])
  BY DEF Quiet, Grows
<1>2. Len(transcript[s]) \in Nat /\ Len(transcript'[s]) \in Nat
  BY DEF Quiet, Grows
<1>3. OutAt(s, c) \subseteq 1 .. Len(transcript[s])
  BY <1>1 DEF OutAt
<1>4. \A i \in 1 .. Len(transcript[s]) :
        i \in 1 .. Len(transcript'[s]) /\ transcript'[s][i] = transcript[s][i]
  BY <1>2 DEF Quiet, Grows
<1>5. \A i \in 1 .. Len(transcript'[s]) :
        i \in 1 .. Len(transcript[s]) \/ transcript'[s][i].dir = "in" \/ transcript'[s][i].cmd = "error"
  BY DEF Quiet, IsQuiet
<1>6. OutAt(s, c)' = OutAt(s, c)
  BY <1>1, <1>4, <1>5 DEF OutAt
<1> QED
  BY <1>3, <1>4, <1>6

LEMMA OutAtFinite ==
  ASSUME transcript \in [Servers -> Seq(EntryType)], NEW s \in Servers, NEW c \in Conns
  PROVE  /\ IsFiniteSet(OutAt(s, c))
         /\ Cardinality(OutAt(s, c)) \in Nat
         /\ OutAt(s, c) \subseteq 1 .. Len(transcript[s])
<1>1. OutAt(s, c) \subseteq 1 .. Len(transcript[s])
  BY DEF OutAt
<1>2. IsFiniteSet(1 .. Len(transcript[s]))
  BY FS_Interval
<1>3. IsFiniteSet(OutAt(s, c))
  BY <1>1, <1>2, FS_Subset
<1> QED
  BY <1>1, <1>3, FS_CardinalityType

-----------------------------------------------------------------------------
(* Lemmas about one connection. *)

\* A handler that has taken the delay of the reply it is about to write.
Late == {"asleep", "record", "send"}

\* No reply over connection c is recorded.
OutKept(s, c) ==
  /\ OutAt(s, c)' = OutAt(s, c)
  /\ \A i \in OutAt(s, c) : transcript'[s][i] = transcript[s][i]

\* Nothing is delivered over connection c.  It is not opened but by Accept, and
\* while it is open its handler neither gets to send nor leaves it.
Steady(s, c) ==
  /\ got'[s][c] = got[s][c]
  /\ todo'[s][c] \in Seq(ReplyOf(s))
  /\ link'[s][c] \in {"none", "queued"} =>
       link[s][c] \in {"none", "queued"} /\ phase'[s][c] = phase[s][c]
  /\ link'[s][c] = "open" =>
       link[s][c] \in {"queued", "open"} /\ (phase'[s][c] = "send" <=> phase[s][c] = "send")
  /\ phase'[s][c] = "send" => phase[s][c] = "send" /\ todo'[s][c] = todo[s][c]

\* No handler gets past a delay that it has not taken.
LateKept(s, c) ==
  phase'[s][c] \in Late => phase[s][c] \in Late /\ Head(todo'[s][c]) = Head(todo[s][c])

LEMMA ConnKept ==
  ASSUME NEW s \in Servers, NEW c \in Conns, ConnInv(s, c), behavior' = behavior,
         OutKept(s, c), Steady(s, c)
  PROVE  ConnInv(s, c)'
<1>1. /\ OutAt(s, c)' = OutAt(s, c)
      /\ \A i \in OutAt(s, c) : transcript'[s][i] = transcript[s][i]
  BY DEF OutKept
<1>2. ReplyOf(s)' = ReplyOf(s)
  BY DEF ReplyOf
<1>3. todo'[s][c] \in Seq(ReplyOf(s))' /\ got'[s][c] \in Seq(ReplyOf(s))'
  BY <1>2 DEF ConnInv, Steady
<1>4. link'[s][c] \in {"none", "queued"} =>
        phase'[s][c] = "none" /\ got'[s][c] = <<>> /\ OutAt(s, c)' = {}
  BY <1>1 DEF ConnInv, Steady
<1>5. link'[s][c] = "open" => Cardinality(OutAt(s, c)') = Len(got'[s][c]) + Unwritten(s, c)'
  <2>1. CASE link[s][c] = "open"
    BY <1>1, <2>1 DEF ConnInv, Unwritten, Steady
  <2>2. CASE link[s][c] = "queued"
    <3>1. OutAt(s, c) = {} /\ got[s][c] = <<>> /\ phase[s][c] = "none"
      BY <2>2 DEF ConnInv
    <3>2. Cardinality(OutAt(s, c)) = 0
      BY <3>1, FS_EmptySet
    <3>3. link'[s][c] = "open" => Unwritten(s, c)' = 0
      BY <3>1 DEF Unwritten, Steady
    <3>4. got'[s][c] = <<>>
      BY <3>1 DEF Steady
    <3> QED
      BY <1>1, <3>2, <3>3, <3>4
  <2> QED
    BY <2>1, <2>2 DEF Steady
<1>6. phase'[s][c] = "send" => RecordedLast(s, c, Head(todo[s][c]))'
  <2>1. phase'[s][c] = "send" =>
          RecordedLast(s, c, Head(todo[s][c])) /\ todo'[s][c] = todo[s][c]
    BY DEF ConnInv, Steady
  <2> QED
    BY <1>1, <2>1 DEF RecordedLast
<1>7. Delivered(s, c)'
  <2>1. \A i : {j \in OutAt(s, c)' : j <= i} = {j \in OutAt(s, c) : j <= i}
    BY <1>1
  <2>2. got'[s][c] = got[s][c]
    BY DEF Steady
  <2>3. ASSUME NEW k \in DOMAIN got[s][c]
        PROVE  \E i \in OutAt(s, c)' :
                 /\ Cardinality({j \in OutAt(s, c)' : j <= i}) = k
                 /\ transcript'[s][i].cmd = got[s][c][k].cmd
                 /\ transcript'[s][i].alt = got[s][c][k].alt
    <3>1. PICK i \in OutAt(s, c) :
            /\ Cardinality({j \in OutAt(s, c) : j <= i}) = k
            /\ transcript[s][i].cmd = got[s][c][k].cmd
            /\ transcript[s][i].alt = got[s][c][k].alt
      BY <2>3 DEF ConnInv, Delivered
    <3>2. Cardinality({j \in OutAt(s, c)' : j <= i}) = k
      BY <2>1, <3>1
    <3> QED
      BY <1>1, <3>1, <3>2
  <2> QED
    BY <2>2, <2>3 DEF Delivered
<1> QED
  BY <1>3, <1>4, <1>5, <1>6, <1>7 DEF ConnInv

-----------------------------------------------------------------------------
(* Lemmas about one peer. *)

\* The entries of peer s that are new: no replies, or replies past their delay.
NewEntries(s) ==
  \A i \in 1 .. Len(transcript'[s]) :
    LET e == transcript'[s][i]
    IN  \/ i \in 1 .. Len(transcript[s])
        \/ IsQuiet(e)
        \/ /\ e.dir = "out" /\ e.cmd \notin onceLeft[s]
           /\ e.alt => e.cmd \in FaultCommands(behavior[s])

LEMMA PeerKept ==
  ASSUME NEW s \in Servers, DelayInv(s), AlteredInv(s), transcript \in [Servers -> Seq(EntryType)],
         Grows, NewEntries(s), behavior' = behavior, onceLeft' = onceLeft, slept' = slept,
         \A c \in Conns : LateKept(s, c)
  PROVE  DelayInv(s)' /\ AlteredInv(s)'
<1>1. Len(transcript[s]) \in Nat /\ Len(transcript'[s]) \in Nat /\ Len(transcript[s]) <= Len(transcript'[s])
  BY DEF Grows
<1>2. slept[s] \subseteq [conn : Conns, cmd : ReplyCommands, after : 0 .. Len(transcript'[s])]
  BY <1>1 DEF DelayInv
<1>3. \A c \in Conns : phase'[s][c] \in Late => Head(todo'[s][c]).cmd \notin onceLeft[s]
  BY DEF DelayInv, LateKept, Late
<1>4. \A i \in 1 .. Len(transcript'[s]) :
        transcript'[s][i].dir = "out" /\ transcript'[s][i].cmd # "error" =>
          transcript'[s][i].cmd \notin onceLeft[s]
  BY <1>1 DEF DelayInv, NewEntries, IsQuiet, Grows
<1>5. DelayInv(s)'
  BY <1>2, <1>3, <1>4 DEF DelayInv, Late
<1>6. AlteredInv(s)'
  BY <1>1 DEF AlteredInv, NewEntries, IsQuiet, Grows
<1> QED
  BY <1>5, <1>6

LEMMA OneShotKept ==
  ASSUME OneShotDelaysFirstReply, Grows, transcript \in [Servers -> Seq(EntryType)], slept' = slept,
         \A s \in Servers : DelayInv(s)
  PROVE  OneShotDelaysFirstReply'
<1> SUFFICES ASSUME NEW s \in Servers, NEW d \in slept[s], NEW e \in slept[s]
             PROVE  /\ d.cmd = e.cmd => d = e
                    /\ \A i \in 1 .. d.after :
                         ~(transcript'[s][i].dir = "out" /\ transcript'[s][i].cmd = d.cmd)
  BY DEF OneShotDelaysFirstReply
<1>1. d.after \in 0 .. Len(transcript[s]) /\ Len(transcript[s]) \in Nat
  BY DEF DelayInv
<1>2. \A i \in 1 .. d.after : transcript'[s][i] = transcript[s][i]
  BY <1>1 DEF Grows
<1> QED
  BY <1>2 DEF OneShotDelaysFirstReply

\* A step that records no reply, delivers none and takes no delay.
LEMMA QuietStep ==
  ASSUME PeerInv, Quiet, behavior' = behavior, onceLeft' = onceLeft, slept' = slept,
         PeerTypeOK', HistoryTypeOK',
         \A s \in Servers, c \in Conns : Steady(s, c) /\ LateKept(s, c)
  PROVE  PeerInv'
<1>1. transcript \in [Servers -> Seq(EntryType)] /\ Grows
  BY DEF PeerInv, PeerTypeOK, Quiet
<1>2. ASSUME NEW s \in Servers
      PROVE  DelayInv(s)' /\ AlteredInv(s)'
  <2>1. NewEntries(s)
    BY DEF Quiet, NewEntries
  <2> QED
    BY <1>1, <2>1, PeerKept DEF PeerInv
<1>3. OneShotDelaysFirstReply'
  BY <1>1, OneShotKept DEF PeerInv
<1>4. ASSUME NEW s \in Servers, NEW c \in Conns
      PROVE  ConnInv(s, c)'
  <2>1. OutKept(s, c)
    BY <1>1, QuietKeepsOut DEF OutKept
  <2> QED
    BY <2>1, ConnKept DEF PeerInv
<1> QED
  BY <1>2, <1>3, <1>4 DEF PeerInv

-----------------------------------------------------------------------------
(* The steps that record no reply and deliver none. *)

LEMMA StartServerKeeps ==
  ASSUME PeerInv, NEW s \in Servers, StartServer(s)
  PROVE  PeerInv'
<1>1. Quiet
  BY QuietUnchanged DEF StartServer, PeerInv, PeerTypeOK, serverVars
<1>2. PeerTypeOK'
  BY DEF StartServer, PeerInv, PeerTypeOK, serverVars, connVars
<1>3. HistoryTypeOK'
  BY DEF StartServer, PeerInv, HistoryTypeOK, serverVars, connVars
<1>4. ASSUME NEW r \in Servers, NEW d \in Conns
      PROVE  Steady(r, d) /\ LateKept(r, d)
  <2>1. ConnInv(r, d) /\ PeerTypeOK
    BY DEF PeerInv
  <2> QED
    BY <2>1 DEF StartServer, PeerTypeOK, ConnInv, Steady, LateKept, Late, serverVars, connVars
<1> QED
  BY <1>1, <1>2, <1>3, <1>4, QuietStep DEF StartServer, serverVars

LEMMA StopServerKeeps ==
  ASSUME PeerInv, NEW s \in Servers, StopServer(s)
  PROVE  PeerInv'
<1>1. Quiet
  BY QuietUnchanged DEF StopServer, PeerInv, PeerTypeOK, serverVars
<1>2. PeerTypeOK'
  <2> DEFINE State == {"none", "queued", "open", "hungup", "closed"}
  <2>1. link \in [Servers -> [Conns -> State]]
    BY DEF PeerInv, PeerTypeOK
  <2>2. [c \in Conns |-> IF link[s][c] = "queued" THEN "closed" ELSE link[s][c]] \in [Conns -> State]
    BY <2>1
  <2>3. link' \in [Servers -> [Conns -> State]]
    BY <2>1, <2>2, Zenon DEF StopServer
  <2>4. \A r \in Servers, d \in Conns : link[r][d] = "closed" => link'[r][d] = "closed"
    BY <2>1 DEF StopServer
  <2>5. listener' \in [Servers -> {"new", "open", "closed"}]
    BY DEF StopServer, PeerInv, PeerTypeOK
  <2> QED
    BY <2>3, <2>4, <2>5 DEF StopServer, PeerInv, PeerTypeOK
<1>3. HistoryTypeOK'
  BY DEF StopServer, PeerInv, HistoryTypeOK, serverVars, connVars
<1>4. ASSUME NEW r \in Servers, NEW d \in Conns
      PROVE  Steady(r, d) /\ LateKept(r, d)
  <2>1. ConnInv(r, d) /\ PeerTypeOK
    BY DEF PeerInv
  <2> QED
    BY <2>1 DEF StopServer, PeerTypeOK, ConnInv, Steady, LateKept, Late, serverVars, connVars
<1> QED
  BY <1>1, <1>2, <1>3, <1>4, QuietStep DEF StopServer, serverVars

LEMMA DialKeeps ==
  ASSUME PeerInv, NEW s \in Servers, NEW c \in Conns, Dial(s, c)
  PROVE  PeerInv'
<1>1. Quiet
  BY QuietUnchanged DEF Dial, PeerInv, PeerTypeOK, serverVars
<1>2. PeerTypeOK'
  BY DEF Dial, PeerInv, PeerTypeOK, serverVars, connVars
<1>3. HistoryTypeOK'
  BY DEF Dial, PeerInv, HistoryTypeOK, serverVars, connVars
<1>4. ASSUME NEW r \in Servers, NEW d \in Conns
      PROVE  Steady(r, d) /\ LateKept(r, d)
  <2>1. ConnInv(r, d) /\ PeerTypeOK
    BY DEF PeerInv
  <2> QED
    BY <2>1 DEF Dial, PeerTypeOK, ConnInv, Steady, LateKept, Late, serverVars, connVars
<1> QED
  BY <1>1, <1>2, <1>3, <1>4, QuietStep DEF Dial, serverVars

LEMMA HangupKeeps ==
  ASSUME PeerInv, NEW s \in Servers, NEW c \in Conns, Hangup(s, c)
  PROVE  PeerInv'
<1>1. Quiet
  BY QuietUnchanged DEF Hangup, PeerInv, PeerTypeOK, serverVars
<1>2. PeerTypeOK'
  BY DEF Hangup, PeerInv, PeerTypeOK, serverVars, connVars
<1>3. HistoryTypeOK'
  BY DEF Hangup, PeerInv, HistoryTypeOK, serverVars, connVars
<1>4. ASSUME NEW r \in Servers, NEW d \in Conns
      PROVE  Steady(r, d) /\ LateKept(r, d)
  <2>1. ConnInv(r, d) /\ PeerTypeOK
    BY DEF PeerInv
  <2> QED
    BY <2>1 DEF Hangup, PeerTypeOK, ConnInv, Steady, LateKept, Late, serverVars, connVars
<1> QED
  BY <1>1, <1>2, <1>3, <1>4, QuietStep DEF Hangup, serverVars

LEMMA AcceptKeeps ==
  ASSUME PeerInv, NEW s \in Servers, NEW c \in Conns, Accept(s, c)
  PROVE  PeerInv'
<1>1. Quiet
  BY QuietUnchanged DEF Accept, PeerInv, PeerTypeOK, serverVars
<1>2. PeerTypeOK'
  <2>1. link' \in [Servers -> [Conns -> {"none", "queued", "open", "hungup", "closed"}]]
    BY DEF Accept, PeerInv, PeerTypeOK
  <2>2. phase' \in [Servers -> [Conns -> {"none", "read", "write", "asleep", "record", "send", "gone"}]]
    BY DEF Accept, PeerInv, PeerTypeOK
  <2>3. ConnInv(s, c) /\ PeerTypeOK
    BY DEF PeerInv
  <2>4. phase[s][c] = "none" /\ link[s][c] = "queued"
    BY <2>3 DEF ConnInv, Accept
  <2>5. ASSUME NEW r \in Servers, NEW d \in Conns
        PROVE  \/ phase'[r][d] = phase[r][d] /\ link'[r][d] = link[r][d]
               \/ phase[r][d] = "none" /\ phase'[r][d] = "read"
    <3>1. CASE r = s /\ d = c
      BY <2>3, <2>4, <3>1 DEF Accept, PeerTypeOK
    <3>2. CASE ~(r = s /\ d = c)
      BY <2>3, <3>2 DEF Accept, PeerTypeOK
    <3> QED
      BY <3>1, <3>2
  <2>6. todo' = todo /\ inbox' = inbox /\ listener' = listener /\ transcript' = transcript
        /\ onceLeft' = onceLeft /\ behavior' = behavior
    BY DEF Accept, serverVars
  <2>7. ASSUME NEW r \in Servers, NEW d \in Conns
        PROVE  /\ phase'[r][d] \in {"write", "asleep", "record", "send"} => todo[r][d] # <<>>
               /\ phase'[r][d] \in {"none", "read"} => todo[r][d] = <<>>
               /\ phase'[r][d] = "gone" => link'[r][d] = "closed"
    BY <2>3, <2>5 DEF PeerTypeOK
  <2> QED
    BY <2>1, <2>2, <2>3, <2>6, <2>7 DEF PeerTypeOK
<1>3. HistoryTypeOK'
  BY DEF Accept, PeerInv, HistoryTypeOK, serverVars, connVars
<1>4. ASSUME NEW r \in Servers, NEW d \in Conns
      PROVE  Steady(r, d) /\ LateKept(r, d)
  <2>1. ConnInv(r, d) /\ PeerTypeOK
    BY DEF PeerInv
  <2> QED
    BY <2>1 DEF Accept, PeerTypeOK, ConnInv, Steady, LateKept, Late, serverVars, connVars
<1> QED
  BY <1>1, <1>2, <1>3, <1>4, QuietStep DEF Accept, serverVars

LEMMA WakeKeeps ==
  ASSUME PeerInv, NEW s \in Servers, NEW c \in Conns, Wake(s, c)
  PROVE  PeerInv'
<1>1. Quiet
  BY QuietUnchanged DEF Wake, PeerInv, PeerTypeOK, serverVars
<1>2. PeerTypeOK'
  BY DEF Wake, PeerInv, PeerTypeOK, serverVars, connVars
<1>3. HistoryTypeOK'
  BY DEF Wake, PeerInv, HistoryTypeOK, serverVars, connVars
<1>4. ASSUME NEW r \in Servers, NEW d \in Conns
      PROVE  Steady(r, d) /\ LateKept(r, d)
  <2>1. ConnInv(r, d) /\ PeerTypeOK
    BY DEF PeerInv
  <2> QED
    BY <2>1 DEF Wake, PeerTypeOK, ConnInv, Steady, LateKept, Late, serverVars, connVars
<1> QED
  BY <1>1, <1>2, <1>3, <1>4, QuietStep DEF Wake, serverVars

LEMMA SeqSubset ==
  ASSUME NEW A, NEW B, A \subseteq B, NEW q \in Seq(A)
  PROVE  q \in Seq(B)
OBVIOUS

LEMMA RepliesAreTyped ==
  ASSUME NEW s, NEW q \in Seq(ReplyOf(s))
  PROVE  q \in Seq([cmd : ReplyCommands, alt : BOOLEAN])
<1>1. ReplyOf(s) \subseteq [cmd : ReplyCommands, alt : BOOLEAN]
  BY DEF ReplyOf
<1> QED
  BY <1>1, SeqSubset

LEMMA SendKeeps ==
  ASSUME PeerInv, NEW s \in Servers, NEW c \in Conns, NEW req \in Requests, Send(s, c, req)
  PROVE  PeerInv'
<1>1. /\ inbox' = [inbox EXCEPT ![s][c] = Append(@, req)]
      /\ link[s][c] \in {"queued", "open"}
      /\ UNCHANGED <<behavior, serverVars, link, phase, todo, got, slept>>
  BY DEF Send
<1>2. /\ behavior' = behavior /\ listener' = listener /\ onceLeft' = onceLeft
      /\ transcript' = transcript /\ link' = link /\ phase' = phase /\ todo' = todo
      /\ got' = got /\ slept' = slept
  BY <1>1 DEF serverVars
<1>3. PeerTypeOK'
  <2>1. inbox \in [Servers -> [Conns -> Seq(Requests)]]
    BY DEF PeerInv, PeerTypeOK
  <2>2. inbox' \in [Servers -> [Conns -> Seq(Requests)]]
    BY <1>1, <2>1
  <2> QED
    BY <1>2, <2>2 DEF PeerInv, PeerTypeOK
<1>4. HistoryTypeOK'
  BY <1>2 DEF PeerInv, HistoryTypeOK
<1>5. Quiet
  BY <1>2, QuietUnchanged DEF PeerInv, PeerTypeOK
<1>6. \A r \in Servers, d \in Conns : Steady(r, d) /\ LateKept(r, d)
  BY <1>2 DEF PeerInv, ConnInv, Steady, LateKept
<1> QED
  BY <1>2, <1>3, <1>4, <1>5, <1>6, QuietStep

\* What the handler of connection c does to the states of its connection.
OnlyConn(s, c) ==
  \A r \in Servers, d \in Conns : ~(r = s /\ d = c) =>
    /\ link'[r][d] = link[r][d] /\ phase'[r][d] = phase[r][d]
    /\ todo'[r][d] = todo[r][d] /\ got'[r][d] = got[r][d]

\* A connection that no action of the step is about.
LEMMA OthersSteady ==
  ASSUME PeerInv, NEW s \in Servers, NEW c \in Conns, OnlyConn(s, c),
         NEW r \in Servers, NEW d \in Conns, ~(r = s /\ d = c)
  PROVE  Steady(r, d) /\ LateKept(r, d)
BY DEF OnlyConn, PeerInv, ConnInv, Steady, LateKept

\* The part of PeerTypeOK about one connection.
HandlerTypeOK(s, c) ==
  /\ phase[s][c] \in {"write", "asleep", "record", "send"} => todo[s][c] # <<>>
  /\ phase[s][c] \in {"none", "read"} => todo[s][c] = <<>>
  /\ phase[s][c] = "gone" => link[s][c] = "closed"

LEMMA OthersTyped ==
  ASSUME PeerTypeOK, NEW s \in Servers, NEW c \in Conns, OnlyConn(s, c), HandlerTypeOK(s, c)'
  PROVE  \A r \in Servers, d \in Conns : HandlerTypeOK(r, d)'
<1> SUFFICES ASSUME NEW r \in Servers, NEW d \in Conns, ~(r = s /\ d = c)
             PROVE  HandlerTypeOK(r, d)'
  OBVIOUS
<1>1. HandlerTypeOK(r, d)
  BY DEF PeerTypeOK, HandlerTypeOK
<1> QED
  BY <1>1 DEF OnlyConn, HandlerTypeOK

LEMMA ReadQuiet ==
  ASSUME PeerInv, NEW s \in Servers, NEW c \in Conns, Read(s, c)
  PROVE  Quiet
<1> DEFINE in  == Entry(c, "in", Head(inbox[s][c]).cmd, FALSE)
           err == Entry(c, "out", "error", FALSE)
<1>1. Head(inbox[s][c]) \in Requests
  BY DEF PeerInv, PeerTypeOK, Read
<1>2. in \in EntryType /\ err \in EntryType /\ IsQuiet(in) /\ IsQuiet(err)
  BY <1>1 DEF EntryType, Entry, IsQuiet
<1>3. \/ transcript' = [transcript EXCEPT ![s] = @ \o <<in, err>>]
      \/ transcript' = [transcript EXCEPT ![s] = Append(@, in)]
  BY DEF Read
<1>4. transcript \in [Servers -> Seq(EntryType)]
  BY DEF PeerInv, PeerTypeOK
<1> HIDE DEF in, err
<1> QED
  BY <1>2, <1>3, <1>4, QuietOne, QuietTwo

LEMMA ReadKeeps ==
  ASSUME PeerInv, NEW s \in Servers, NEW c \in Conns, Read(s, c)
  PROVE  PeerInv'
<1> DEFINE req     == Head(inbox[s][c])
           replies == Abstracted(s, req)
           Reply   == [cmd : ReplyCommands, alt : BOOLEAN]
<1>0. PeerTypeOK /\ HistoryTypeOK /\ ConnInv(s, c)
  BY DEF PeerInv
<1>1. /\ behavior' = behavior /\ listener' = listener /\ onceLeft' = onceLeft
      /\ got' = got /\ slept' = slept
      /\ phase[s][c] = "read" /\ inbox[s][c] # <<>>
      /\ inbox' = [inbox EXCEPT ![s][c] = Tail(@)]
  BY DEF Read
<1>2. req \in Requests
  BY <1>0, <1>1 DEF PeerTypeOK
<1>3. replies \in Seq(ReplyOf(s)) /\ replies \in Seq(Reply)
  BY <1>2, AbstractedReplies, RepliesAreTyped
<1>5. \/ /\ phase' = [phase EXCEPT ![s][c] = "gone"]
         /\ link'  = [link EXCEPT ![s][c] = "closed"]
         /\ todo' = todo
      \/ /\ todo'  = [todo EXCEPT ![s][c] = replies]
         /\ phase' = [phase EXCEPT ![s][c] = IF replies = <<>> THEN "read" ELSE "write"]
         /\ link' = link
  BY DEF Read
<1> HIDE DEF req, replies
<1>6. Quiet
  BY ReadQuiet
<1>7. OnlyConn(s, c)
  BY <1>0, <1>1, <1>5 DEF OnlyConn, PeerTypeOK
<1>8. /\ phase'[s][c] = "gone" /\ link'[s][c] = "closed" /\ todo'[s][c] = todo[s][c]
      \/ /\ phase'[s][c] = IF replies = <<>> THEN "read" ELSE "write"
         /\ link'[s][c] = link[s][c] /\ todo'[s][c] = replies
  BY <1>0, <1>1, <1>5 DEF PeerTypeOK
<1>9. PeerTypeOK'
  <2>1. /\ link' \in [Servers -> [Conns -> {"none", "queued", "open", "hungup", "closed"}]]
        /\ phase' \in [Servers -> [Conns ->
             {"none", "read", "write", "asleep", "record", "send", "gone"}]]
    <3> DEFINE P  == {"none", "read", "write", "asleep", "record", "send", "gone"}
               new == IF replies = <<>> THEN "read" ELSE "write"
    <3>1. phase \in [Servers -> [Conns -> P]] /\ "gone" \in P /\ new \in P
      BY <1>0 DEF PeerTypeOK
    <3>2. phase' = [phase EXCEPT ![s][c] = "gone"] \/ phase' = [phase EXCEPT ![s][c] = new]
      BY <1>5
    <3>3. link' \in [Servers -> [Conns -> {"none", "queued", "open", "hungup", "closed"}]]
      <4> DEFINE L == {"none", "queued", "open", "hungup", "closed"}
      <4>1. link \in [Servers -> [Conns -> L]] /\ "closed" \in L
        BY <1>0 DEF PeerTypeOK
      <4>2. link' = link \/ link' = [link EXCEPT ![s][c] = "closed"]
        BY <1>5
      <4> HIDE DEF L
      <4>3. link' \in [Servers -> [Conns -> L]]
        BY <4>1, <4>2
      <4> QED
        BY <4>3 DEF L
    <3> HIDE DEF P, new
    <3>4. phase' \in [Servers -> [Conns -> P]]
      BY <3>1, <3>2
    <3> QED
      BY <3>3, <3>4 DEF P
  <2>2. inbox' \in [Servers -> [Conns -> Seq(Requests)]]
    BY <1>0, <1>1 DEF PeerTypeOK
  <2>3. todo' \in [Servers -> [Conns -> Seq(Reply)]]
    <3> DEFINE V == Seq(Reply)
    <3>1. todo \in [Servers -> [Conns -> V]] /\ replies \in V
      BY <1>0, <1>3 DEF PeerTypeOK
    <3>2. todo' = todo \/ todo' = [todo EXCEPT ![s][c] = replies]
      BY <1>5
    <3> HIDE DEF V
    <3>3. todo' \in [Servers -> [Conns -> V]]
      BY <3>1, <3>2
    <3> QED
      BY <3>3 DEF V
  <2>4. transcript' \in [Servers -> Seq(EntryType)]
    BY <1>6 DEF Quiet, Grows
  <2>5. HandlerTypeOK(s, c)'
    BY <1>8 DEF HandlerTypeOK
  <2>6. \A r \in Servers, d \in Conns : HandlerTypeOK(r, d)'
    BY <1>0, <1>7, <2>5, OthersTyped
  <2> QED
    BY <1>0, <1>1, <2>1, <2>2, <2>3, <2>4, <2>6 DEF PeerTypeOK, HandlerTypeOK
<1>10. HistoryTypeOK'
  BY <1>0, <1>1 DEF HistoryTypeOK
<1>11. Steady(s, c) /\ LateKept(s, c)
  BY <1>0, <1>1, <1>3, <1>8 DEF ConnInv, Steady, LateKept, Late
<1>12. \A r \in Servers, d \in Conns : Steady(r, d) /\ LateKept(r, d)
  BY <1>7, <1>11, OthersSteady
<1> QED
  BY <1>1, <1>6, <1>9, <1>10, <1>12, QuietStep

\* A handler that returns closes its connection, whatever it recorded last.
LEMMA HandlerEnds ==
  ASSUME PeerInv, NEW s \in Servers, NEW c \in Conns, NEW e \in EntryType, IsQuiet(e),
         transcript' = [transcript EXCEPT ![s] = Append(@, e)],
         phase' = [phase EXCEPT ![s][c] = "gone"],
         link' = [link EXCEPT ![s][c] = "closed"],
         UNCHANGED <<behavior, listener, onceLeft, inbox, todo, got, slept>>
  PROVE  PeerInv'
<1>1. PeerTypeOK /\ HistoryTypeOK /\ ConnInv(s, c)
  BY DEF PeerInv
<1>2. Quiet
  <2>1. transcript \in [Servers -> Seq(EntryType)]
    BY <1>1 DEF PeerTypeOK
  <2> QED
    BY <2>1, QuietOne
<1>3. OnlyConn(s, c) /\ phase'[s][c] = "gone" /\ link'[s][c] = "closed" /\ todo'[s][c] = todo[s][c]
  BY <1>1 DEF OnlyConn, PeerTypeOK
<1>4. PeerTypeOK'
  <2>1. link' \in [Servers -> [Conns -> {"none", "queued", "open", "hungup", "closed"}]]
    BY <1>1 DEF PeerTypeOK
  <2>2. phase' \in [Servers -> [Conns ->
          {"none", "read", "write", "asleep", "record", "send", "gone"}]]
    BY <1>1 DEF PeerTypeOK
  <2>3. transcript' \in [Servers -> Seq(EntryType)]
    BY <1>2 DEF Quiet, Grows
  <2>4. HandlerTypeOK(s, c)'
    BY <1>3 DEF HandlerTypeOK
  <2>5. \A r \in Servers, d \in Conns : HandlerTypeOK(r, d)'
    BY <1>1, <1>3, <2>4, OthersTyped
  <2> QED
    BY <1>1, <2>1, <2>2, <2>3, <2>5 DEF PeerTypeOK, HandlerTypeOK
<1>5. HistoryTypeOK'
  BY <1>1 DEF HistoryTypeOK
<1>6. Steady(s, c) /\ LateKept(s, c)
  BY <1>1, <1>3 DEF ConnInv, Steady, LateKept, Late
<1>7. \A r \in Servers, d \in Conns : Steady(r, d) /\ LateKept(r, d)
  BY <1>3, <1>6, OthersSteady
<1> QED
  BY <1>2, <1>4, <1>5, <1>7, QuietStep

LEMMA ReadEOFKeeps ==
  ASSUME PeerInv, NEW s \in Servers, NEW c \in Conns, ReadEOF(s, c)
  PROVE  PeerInv'
<1> DEFINE e == Entry(c, "in", "disconnect", FALSE)
<1>1. e \in EntryType /\ IsQuiet(e)
  BY DEF EntryType, Entry, IsQuiet
<1>2. /\ transcript' = [transcript EXCEPT ![s] = Append(@, e)]
      /\ phase' = [phase EXCEPT ![s][c] = "gone"]
      /\ link' = [link EXCEPT ![s][c] = "closed"]
      /\ UNCHANGED <<behavior, listener, onceLeft, inbox, todo, got, slept>>
  BY DEF ReadEOF
<1> HIDE DEF e
<1> QED
  BY <1>1, <1>2, HandlerEnds

LEMMA WriteFailsKeeps ==
  ASSUME PeerInv, NEW s \in Servers, NEW c \in Conns, WriteFails(s, c)
  PROVE  PeerInv'
<1> DEFINE e == Entry(c, "out", "error", FALSE)
<1>1. e \in EntryType /\ IsQuiet(e)
  BY DEF EntryType, Entry, IsQuiet
<1>2. /\ transcript' = [transcript EXCEPT ![s] = Append(@, e)]
      /\ phase' = [phase EXCEPT ![s][c] = "gone"]
      /\ link' = [link EXCEPT ![s][c] = "closed"]
      /\ UNCHANGED <<behavior, listener, onceLeft, inbox, todo, got, slept>>
  BY DEF WriteFails
<1> HIDE DEF e
<1> QED
  BY <1>1, <1>2, HandlerEnds

-----------------------------------------------------------------------------
(* The steps that write a reply. *)

\* The reply a handler is working on.
LEMMA HeadIsReply ==
  ASSUME PeerInv, NEW s \in Servers, NEW c \in Conns,
         phase[s][c] \in {"write", "asleep", "record", "send"}
  PROVE  /\ todo[s][c] # <<>>
         /\ Head(todo[s][c]) \in ReplyOf(s)
         /\ Tail(todo[s][c]) \in Seq(ReplyOf(s))
<1>1. todo[s][c] # <<>>
  BY DEF PeerInv, PeerTypeOK
<1>2. todo[s][c] \in Seq(ReplyOf(s))
  BY DEF PeerInv, ConnInv
<1> QED
  BY <1>1, <1>2

LEMMA TakeDelayKeeps ==
  ASSUME PeerInv, NEW s \in Servers, NEW c \in Conns, TakeDelay(s, c)
  PROVE  PeerInv'
<1> DEFINE cmd   == Head(todo[s][c]).cmd
           taken == [conn |-> c, cmd |-> cmd, after |-> Len(transcript[s])]
           next  == IF cmd \in onceLeft[s] \cup behavior[s].delay THEN "asleep" ELSE "record"
<1>0. PeerTypeOK /\ HistoryTypeOK /\ ConnInv(s, c) /\ transcript \in [Servers -> Seq(EntryType)]
  BY DEF PeerInv, PeerTypeOK
<1>1. /\ phase[s][c] = "write"
      /\ phase' = [phase EXCEPT ![s][c] = next]
      /\ behavior' = behavior /\ listener' = listener /\ transcript' = transcript
      /\ link' = link /\ inbox' = inbox /\ todo' = todo /\ got' = got
  BY DEF TakeDelay
<1>2. \/ /\ cmd \in onceLeft[s]
         /\ onceLeft' = [onceLeft EXCEPT ![s] = @ \ {cmd}]
         /\ slept' = [slept EXCEPT ![s] = @ \cup {taken}]
      \/ cmd \notin onceLeft[s] /\ onceLeft' = onceLeft /\ slept' = slept
  BY DEF TakeDelay
<1>3. cmd \in ReplyCommands
  BY <1>1, HeadIsReply DEF ReplyOf
<1>4. next \in {"asleep", "record"}
  OBVIOUS
<1> HIDE DEF cmd, taken, next
<1>5. cmd \notin onceLeft'[s]
  BY <1>0, <1>2 DEF HistoryTypeOK
<1>6. /\ \A r \in Servers : onceLeft'[r] \subseteq onceLeft[r]
      /\ \A r \in Servers \ {s} : onceLeft'[r] = onceLeft[r] /\ slept'[r] = slept[r]
      /\ slept'[s] = slept[s] \/ (cmd \in onceLeft[s] /\ slept'[s] = slept[s] \cup {taken})
  <2>1. DOMAIN onceLeft = Servers /\ DOMAIN slept = Servers
    BY <1>0 DEF HistoryTypeOK
  <2>2. CASE cmd \notin onceLeft[s]
    <3>1. onceLeft' = onceLeft /\ slept' = slept
      BY <1>2, <2>2, Zenon
    <3> QED
      BY <3>1
  <2>3. CASE cmd \in onceLeft[s]
    <3>1. onceLeft' = [onceLeft EXCEPT ![s] = @ \ {cmd}] /\ slept' = [slept EXCEPT ![s] = @ \cup {taken}]
      BY <1>2, <2>3
    <3>2. onceLeft'[s] = onceLeft[s] \ {cmd} /\ slept'[s] = slept[s] \cup {taken}
      BY <2>1, <3>1
    <3>3. \A r \in Servers \ {s} : onceLeft'[r] = onceLeft[r] /\ slept'[r] = slept[r]
      BY <2>1, <3>1
    <3> QED
      BY <2>3, <3>2, <3>3
  <2> QED
    BY <2>2, <2>3
<1>7. HistoryTypeOK'
  BY <1>0, <1>1, <1>2 DEF HistoryTypeOK
<1>8. OnlyConn(s, c) /\ phase'[s][c] = next
  BY <1>0, <1>1 DEF OnlyConn, PeerTypeOK
<1>9. PeerTypeOK'
  <2>1. phase' \in [Servers -> [Conns ->
          {"none", "read", "write", "asleep", "record", "send", "gone"}]]
    BY <1>0, <1>1, <1>4 DEF PeerTypeOK
  <2>2. HandlerTypeOK(s, c)'
    BY <1>0, <1>1, <1>4, <1>8 DEF HandlerTypeOK, PeerTypeOK
  <2>3. \A r \in Servers, d \in Conns : HandlerTypeOK(r, d)'
    BY <1>0, <1>8, <2>2, OthersTyped
  <2>4. \A r \in Servers : onceLeft'[r] \subseteq behavior[r].delayOnce
    BY <1>0, <1>6 DEF PeerTypeOK
  <2> QED
    BY <1>0, <1>1, <2>1, <2>3, <2>4 DEF PeerTypeOK, HandlerTypeOK
<1>10. Quiet
  BY <1>0, <1>1, QuietUnchanged
<1>11. ASSUME NEW r \in Servers, NEW d \in Conns
       PROVE  ConnInv(r, d)'
  <2>1. Steady(s, c)
    BY <1>0, <1>1, <1>4, <1>8 DEF ConnInv, Steady
  <2>2. Steady(r, d)
    BY <1>8, <2>1, OthersSteady
  <2>3. OutKept(r, d)
    BY <1>0, <1>10, QuietKeepsOut DEF OutKept
  <2> QED
    BY <1>1, <2>2, <2>3, ConnKept DEF PeerInv
<1>12. Len(transcript[s]) \in Nat
  BY <1>0
<1>13. ASSUME NEW r \in Servers
       PROVE  DelayInv(r)'
  <2>1. DelayInv(r)
    BY DEF PeerInv
  <2>2. /\ taken \in [conn : Conns, cmd : ReplyCommands, after : 0 .. Len(transcript[s])]
        /\ taken.cmd = cmd
    BY <1>3, <1>12 DEF taken
  <2>3. slept'[r] \subseteq [conn : Conns, cmd : ReplyCommands, after : 0 .. Len(transcript[r])]
    BY <1>6, <2>1, <2>2 DEF DelayInv
  <2>4. \A d \in slept'[r] : d.cmd \notin onceLeft'[r]
    BY <1>5, <1>6, <2>1, <2>2 DEF DelayInv
  <2>5. ASSUME NEW d \in Conns, phase'[r][d] \in {"asleep", "record", "send"}
        PROVE  Head(todo[r][d]).cmd \notin onceLeft'[r]
    <3>1. CASE r = s /\ d = c
      BY <1>5, <3>1 DEF cmd
    <3>2. CASE ~(r = s /\ d = c)
      BY <1>6, <1>8, <2>1, <2>5, <3>2 DEF DelayInv, OnlyConn
    <3> QED
      BY <3>1, <3>2
  <2>6. \A i \in 1 .. Len(transcript[r]) :
          transcript[r][i].dir = "out" /\ transcript[r][i].cmd # "error" =>
            transcript[r][i].cmd \notin onceLeft'[r]
    BY <1>6, <2>1 DEF DelayInv
  <2> QED
    BY <1>1, <2>3, <2>4, <2>5, <2>6 DEF DelayInv
<1>14. \A r \in Servers : AlteredInv(r)'
  BY <1>1 DEF PeerInv, AlteredInv
<1>15. OneShotDelaysFirstReply'
  <2> SUFFICES ASSUME NEW r \in Servers, NEW d \in slept'[r], NEW e \in slept'[r]
               PROVE  /\ d.cmd = e.cmd => d = e
                      /\ \A i \in 1 .. d.after :
                           ~(transcript[r][i].dir = "out" /\ transcript[r][i].cmd = d.cmd)
    BY <1>1 DEF OneShotDelaysFirstReply
  <2>1. OneShotDelaysFirstReply /\ DelayInv(r)
    BY DEF PeerInv
  <2>2. taken.cmd = cmd /\ taken.after = Len(transcript[s]) /\ cmd # "error"
    BY <1>3 DEF taken, ReplyCommands
  <2>3. d.cmd = e.cmd => d = e
    BY <1>6, <2>1, <2>2 DEF OneShotDelaysFirstReply, DelayInv
  <2>4. ASSUME NEW i \in 1 .. d.after, transcript[r][i].dir = "out"
        PROVE  transcript[r][i].cmd # d.cmd
    <3>1. CASE d \in slept[r]
      BY <2>1, <2>4, <3>1 DEF OneShotDelaysFirstReply
    <3>2. CASE d \notin slept[r]
      <4>1. r = s /\ d = taken /\ cmd \in onceLeft[s]
        BY <1>6, <3>2
      <4> QED
        BY <2>1, <2>2, <2>4, <4>1 DEF DelayInv
    <3> QED
      BY <3>1, <3>2
  <2> QED
    BY <2>3, <2>4
<1> QED
  BY <1>7, <1>9, <1>11, <1>13, <1>14, <1>15 DEF PeerInv

LEMMA RecordReplyKeeps ==
  ASSUME PeerInv, NEW s \in Servers, NEW c \in Conns, RecordReply(s, c)
  PROVE  PeerInv'
<1> DEFINE r == Head(todo[s][c])
           e == Entry(c, "out", r.cmd, r.alt)
           n == Len(transcript[s]) + 1
<1>0. PeerTypeOK /\ HistoryTypeOK /\ ConnInv(s, c) /\ transcript \in [Servers -> Seq(EntryType)]
  BY DEF PeerInv, PeerTypeOK
<1>1. /\ phase[s][c] = "record"
      /\ transcript' = [transcript EXCEPT ![s] = Append(@, e)]
      /\ phase' = [phase EXCEPT ![s][c] = "send"]
      /\ behavior' = behavior /\ listener' = listener /\ onceLeft' = onceLeft
      /\ link' = link /\ inbox' = inbox /\ todo' = todo /\ got' = got /\ slept' = slept
  BY DEF RecordReply
<1>2. todo[s][c] # <<>> /\ r \in ReplyOf(s)
  BY <1>1, HeadIsReply
<1>3. /\ e \in EntryType /\ e.conn = c /\ e.dir = "out" /\ e.cmd = r.cmd /\ e.alt = r.alt
      /\ r.cmd \in ReplyCommands /\ r.cmd # "error"
      /\ r.alt => r.cmd \in FaultCommands(behavior[s])
  BY <1>2 DEF EntryType, Entry, ReplyOf, ReplyCommands
<1>4. r.cmd \notin onceLeft[s]
  BY <1>1 DEF PeerInv, DelayInv
<1> HIDE DEF r, e
<1>5. /\ Grows
      /\ n \in Nat \ {0}
      /\ Len(transcript'[s]) = n
      /\ transcript'[s][n] = e
      /\ \A q \in Servers \ {s} : transcript'[q] = transcript[q]
  <2>1. /\ Grows
        /\ Len(transcript[s]) \in Nat
        /\ Len(transcript'[s]) = Len(transcript[s]) + 1
        /\ transcript'[s][Len(transcript[s]) + 1] = e
        /\ \A q \in Servers \ {s} : transcript'[q] = transcript[q]
    BY <1>0, <1>1, <1>3, AppendOne
  <2> QED
    BY <2>1
<1>6. OnlyConn(s, c) /\ phase'[s][c] = "send"
  BY <1>0, <1>1 DEF OnlyConn, PeerTypeOK
<1>7. PeerTypeOK'
  <2>1. phase' \in [Servers -> [Conns ->
          {"none", "read", "write", "asleep", "record", "send", "gone"}]]
    BY <1>0, <1>1 DEF PeerTypeOK
  <2>2. transcript' \in [Servers -> Seq(EntryType)]
    BY <1>5 DEF Grows
  <2>3. HandlerTypeOK(s, c)'
    BY <1>1, <1>2, <1>6 DEF HandlerTypeOK
  <2>4. \A q \in Servers, d \in Conns : HandlerTypeOK(q, d)'
    BY <1>0, <1>6, <2>3, OthersTyped
  <2> QED
    BY <1>0, <1>1, <2>1, <2>2, <2>4 DEF PeerTypeOK, HandlerTypeOK
<1>8. HistoryTypeOK'
  BY <1>0, <1>1 DEF HistoryTypeOK
<1>9. OneShotDelaysFirstReply'
  BY <1>0, <1>1, <1>5, OneShotKept DEF PeerInv
<1>10. ASSUME NEW q \in Servers
       PROVE  DelayInv(q)' /\ AlteredInv(q)'
  <2>1. NewEntries(q)
    <3>1. CASE q = s
      <4>1. \A i \in 1 .. Len(transcript'[s]) : i \in 1 .. Len(transcript[s]) \/ i = n
        BY <1>5
      <4> QED
        BY <1>3, <1>4, <1>5, <3>1, <4>1 DEF NewEntries
    <3>2. CASE q # s
      BY <1>5, <3>2 DEF NewEntries
    <3> QED
      BY <3>1, <3>2
  <2>2. ASSUME NEW d \in Conns
        PROVE  LateKept(q, d)
    <3>1. CASE q = s /\ d = c
      BY <1>1, <3>1 DEF LateKept, Late
    <3>2. CASE ~(q = s /\ d = c)
      BY <1>6, <3>2 DEF LateKept, OnlyConn
    <3> QED
      BY <3>1, <3>2
  <2> QED
    BY <1>0, <1>1, <1>5, <2>1, <2>2, PeerKept DEF PeerInv
<1>11. ASSUME NEW q \in Servers, NEW d \in Conns, ~(q = s /\ d = c)
       PROVE  ConnInv(q, d)'
  <2>1. Steady(q, d)
    BY <1>6, <1>11, OthersSteady
  <2>2. OutKept(q, d)
    <3>1. CASE q = s
      <4>1. DOMAIN transcript[s] = 1 .. n - 1 /\ DOMAIN transcript'[s] = 1 .. n
        BY <1>0, <1>5 DEF Grows
      <4>2. \A i \in 1 .. n - 1 : transcript'[s][i] = transcript[s][i]
        BY <1>5 DEF Grows
      <4>3. transcript'[s][n].conn # d
        BY <1>3, <1>5, <1>11, <3>1
      <4>4. OutAt(s, d)' = OutAt(s, d)
        BY <1>5, <4>1, <4>2, <4>3 DEF OutAt
      <4> QED
        BY <3>1, <4>1, <4>2, <4>4 DEF OutKept, OutAt
    <3>2. CASE q # s
      BY <1>5, <3>2 DEF OutKept, OutAt
    <3> QED
      BY <3>1, <3>2
  <2> QED
    BY <1>1, <2>1, <2>2, ConnKept DEF PeerInv
<1>12. ConnInv(s, c)'
  <2>1. DOMAIN transcript[s] = 1 .. n - 1 /\ DOMAIN transcript'[s] = 1 .. n
    BY <1>0, <1>5 DEF Grows
  <2>2. \A i \in 1 .. n - 1 : transcript'[s][i] = transcript[s][i]
    BY <1>5 DEF Grows
  <2>3. OutAt(s, c)' = OutAt(s, c) \cup {n}
    BY <1>3, <1>5, <2>1, <2>2 DEF OutAt
  <2>4. /\ IsFiniteSet(OutAt(s, c)) /\ Cardinality(OutAt(s, c)) \in Nat
        /\ \A i \in OutAt(s, c) : i \in 1 .. n - 1
    BY <1>0, OutAtFinite
  <2>5. n \notin OutAt(s, c)
    BY <1>5, <2>4
  <2>6. Cardinality(OutAt(s, c)') = Cardinality(OutAt(s, c)) + 1
    BY <2>3, <2>4, <2>5, FS_AddElement
  <2>7. ReplyOf(s)' = ReplyOf(s)
    BY <1>1 DEF ReplyOf
  <2>8. todo'[s][c] \in Seq(ReplyOf(s))' /\ got'[s][c] \in Seq(ReplyOf(s))'
    BY <1>0, <1>1, <2>7 DEF ConnInv
  <2>9. link'[s][c] \notin {"none", "queued"}
    BY <1>0, <1>1 DEF ConnInv
  <2>10. link'[s][c] = "open" => Cardinality(OutAt(s, c)') = Len(got'[s][c]) + Unwritten(s, c)'
    <3>1. Len(got[s][c]) \in Nat
      BY <1>0 DEF ConnInv
    <3>2. Unwritten(s, c)' = 1 /\ Unwritten(s, c) = 0
      BY <1>1, <1>6 DEF Unwritten
    <3>3. link[s][c] = "open" => Cardinality(OutAt(s, c)) = Len(got[s][c])
      BY <1>0, <3>1, <3>2 DEF ConnInv
    <3> QED
      BY <1>1, <2>6, <3>1, <3>2, <3>3
  <2>11. RecordedLast(s, c, Head(todo[s][c]))'
    <3>1. n \in OutAt(s, c)' /\ \A j \in OutAt(s, c)' : j <= n
      BY <1>5, <2>3, <2>4
    <3>2. transcript'[s][n].cmd = Head(todo[s][c]).cmd /\ transcript'[s][n].alt = Head(todo[s][c]).alt
      BY <1>3, <1>5 DEF r
    <3> QED
      BY <1>1, <3>1, <3>2 DEF RecordedLast
  <2>12. Delivered(s, c)'
    <3>1. ASSUME NEW k \in DOMAIN got[s][c]
          PROVE  \E i \in OutAt(s, c)' :
                   /\ Cardinality({j \in OutAt(s, c)' : j <= i}) = k
                   /\ transcript'[s][i].cmd = got[s][c][k].cmd
                   /\ transcript'[s][i].alt = got[s][c][k].alt
      <4>1. PICK i \in OutAt(s, c) :
              /\ Cardinality({j \in OutAt(s, c) : j <= i}) = k
              /\ transcript[s][i].cmd = got[s][c][k].cmd
              /\ transcript[s][i].alt = got[s][c][k].alt
        BY <1>0, <3>1 DEF ConnInv, Delivered
      <4>2. {j \in OutAt(s, c)' : j <= i} = {j \in OutAt(s, c) : j <= i}
        BY <1>5, <2>3, <2>4
      <4>3. Cardinality({j \in OutAt(s, c)' : j <= i}) = k
        BY <4>1, <4>2
      <4>4. i \in OutAt(s, c)' /\ transcript'[s][i] = transcript[s][i]
        BY <2>2, <2>3, <2>4
      <4> QED
        BY <4>1, <4>3, <4>4, Zenon
    <3>2. got'[s][c] = got[s][c]
      BY <1>1
    <3> QED
      BY <3>1, <3>2 DEF Delivered
  <2> QED
    BY <1>1, <2>8, <2>9, <2>10, <2>11, <2>12 DEF ConnInv
<1> QED
  BY <1>7, <1>8, <1>9, <1>10, <1>11, <1>12 DEF PeerInv

LEMMA WriteReplyKeeps ==
  ASSUME PeerInv, NEW s \in Servers, NEW c \in Conns, WriteReply(s, c)
  PROVE  PeerInv'
<1> DEFINE r    == Head(todo[s][c])
           rest == Tail(todo[s][c])
           next == IF rest = <<>> THEN "read" ELSE "write"
           T    == Seq([cmd : ReplyCommands, alt : BOOLEAN])
<1>0. PeerTypeOK /\ HistoryTypeOK /\ ConnInv(s, c) /\ transcript \in [Servers -> Seq(EntryType)]
  BY DEF PeerInv, PeerTypeOK
<1>1. /\ phase[s][c] = "send"
      /\ got' = IF link[s][c] = "open" THEN [got EXCEPT ![s][c] = Append(@, r)] ELSE got
      /\ todo' = [todo EXCEPT ![s][c] = rest]
      /\ phase' = [phase EXCEPT ![s][c] = next]
      /\ behavior' = behavior /\ listener' = listener /\ onceLeft' = onceLeft
      /\ transcript' = transcript /\ link' = link /\ inbox' = inbox /\ slept' = slept
  BY DEF WriteReply, serverVars
<1>2. r \in ReplyOf(s) /\ rest \in Seq(ReplyOf(s))
  BY <1>1, HeadIsReply
<1>3. /\ got \in [Servers -> [Conns -> T]] /\ got[s][c] \in Seq(ReplyOf(s))
      /\ todo \in [Servers -> [Conns -> T]]
      /\ RecordedLast(s, c, r) /\ link[s][c] \notin {"none", "queued"}
  BY <1>0, <1>1 DEF HistoryTypeOK, PeerTypeOK, ConnInv
<1>4. rest \in T /\ Append(got[s][c], r) \in Seq(ReplyOf(s)) /\ Append(got[s][c], r) \in T
  <2>1. Append(got[s][c], r) \in Seq(ReplyOf(s))
    BY <1>2, <1>3
  <2> QED
    BY <1>2, <2>1, RepliesAreTyped
<1>5. next \in {"read", "write"} /\ (next = "read" <=> rest = <<>>)
  OBVIOUS
<1> HIDE DEF T, r, rest, next
<1>6. got' \in [Servers -> [Conns -> T]] /\ todo' \in [Servers -> [Conns -> T]]
  <2>1. got' = got \/ got' = [got EXCEPT ![s][c] = Append(got[s][c], r)]
    <3>1. CASE link[s][c] = "open"
      BY <1>1, <3>1
    <3>2. CASE link[s][c] # "open"
      BY <1>1, <3>2
    <3> QED
      BY <3>1, <3>2
  <2>2. got' \in [Servers -> [Conns -> T]]
    <3> DEFINE more == Append(got[s][c], r)
    <3>1. more \in T /\ (got' = got \/ got' = [got EXCEPT ![s][c] = more])
      BY <1>4, <2>1
    <3>2. got \in [Servers -> [Conns -> T]]
      BY <1>3
    <3> HIDE DEF more
    <3>3. [got EXCEPT ![s][c] = more] \in [Servers -> [Conns -> T]]
      BY <3>1, <3>2
    <3> QED
      BY <3>1, <3>2, <3>3, Zenon
  <2> QED
    BY <1>1, <1>3, <1>4, <2>2
<1>7. /\ OnlyConn(s, c) /\ phase'[s][c] = next /\ todo'[s][c] = rest
      /\ got'[s][c] = IF link[s][c] = "open" THEN Append(got[s][c], r) ELSE got[s][c]
  BY <1>0, <1>1, <1>3 DEF OnlyConn, PeerTypeOK
<1>8. PeerTypeOK' /\ HistoryTypeOK'
  <2>1. phase' \in [Servers -> [Conns ->
          {"none", "read", "write", "asleep", "record", "send", "gone"}]]
    BY <1>0, <1>1, <1>5 DEF PeerTypeOK
  <2>2. HandlerTypeOK(s, c)'
    BY <1>5, <1>7 DEF HandlerTypeOK
  <2>3. \A q \in Servers, d \in Conns : HandlerTypeOK(q, d)'
    BY <1>0, <1>7, <2>2, OthersTyped
  <2> QED
    BY <1>0, <1>1, <1>6, <2>1, <2>3 DEF PeerTypeOK, HandlerTypeOK, HistoryTypeOK, T
<1>9. Quiet /\ Grows
  BY <1>0, <1>1, QuietUnchanged DEF Quiet
<1>10. OneShotDelaysFirstReply'
  BY <1>0, <1>1, <1>9, OneShotKept DEF PeerInv
<1>11. ASSUME NEW q \in Servers
       PROVE  DelayInv(q)' /\ AlteredInv(q)'
  <2>1. NewEntries(q)
    BY <1>9 DEF Quiet, NewEntries
  <2>2. ASSUME NEW d \in Conns
        PROVE  LateKept(q, d)
    <3>1. CASE q = s /\ d = c
      BY <1>5, <1>7, <3>1 DEF LateKept, Late
    <3>2. CASE ~(q = s /\ d = c)
      BY <1>7, <3>2 DEF LateKept, OnlyConn
    <3> QED
      BY <3>1, <3>2
  <2> QED
    BY <1>0, <1>1, <1>9, <2>1, <2>2, PeerKept DEF PeerInv
<1>12. ASSUME NEW q \in Servers, NEW d \in Conns, ~(q = s /\ d = c)
       PROVE  ConnInv(q, d)'
  <2>1. Steady(q, d)
    BY <1>7, <1>12, OthersSteady
  <2>2. OutKept(q, d)
    BY <1>0, <1>9, QuietKeepsOut DEF OutKept
  <2> QED
    BY <1>1, <2>1, <2>2, ConnKept DEF PeerInv
<1>13. ConnInv(s, c)'
  <2>1. OutAt(s, c)' = OutAt(s, c)
    BY <1>1 DEF OutAt
  <2>2. ReplyOf(s)' = ReplyOf(s)
    BY <1>1 DEF ReplyOf
  <2>3. todo'[s][c] \in Seq(ReplyOf(s))' /\ got'[s][c] \in Seq(ReplyOf(s))'
    BY <1>2, <1>3, <1>4, <1>7, <2>2
  <2>4. link'[s][c] \notin {"none", "queued"} /\ phase'[s][c] # "send"
    BY <1>1, <1>3, <1>5, <1>7
  <2>5. Unwritten(s, c) = 1 /\ Unwritten(s, c)' = 0
    BY <1>1, <2>4 DEF Unwritten
  <2>6. Len(got[s][c]) \in Nat /\ Len(Append(got[s][c], r)) = Len(got[s][c]) + 1
    BY <1>2, <1>3
  <2>7. link[s][c] = "open" => Cardinality(OutAt(s, c)) = Len(got[s][c]) + 1
    BY <1>0, <2>5 DEF ConnInv
  <2>8. link'[s][c] = "open" => Cardinality(OutAt(s, c)') = Len(got'[s][c]) + Unwritten(s, c)'
    BY <1>1, <1>7, <2>1, <2>5, <2>6, <2>7
  <2>9. Delivered(s, c)
    BY <1>0 DEF ConnInv
  <2>10. Delivered(s, c)'
    <3>1. CASE link[s][c] # "open"
      <4>1. got'[s][c] = got[s][c]
        BY <1>7, <3>1
      <4>2. transcript' = transcript
        BY <1>1
      <4> QED
        BY <2>1, <2>9, <4>1, <4>2 DEF Delivered
    <3>2. CASE link[s][c] = "open"
      <4>1. got'[s][c] = Append(got[s][c], r)
        BY <1>7, <3>2
      <4>2. ASSUME NEW k \in DOMAIN got'[s][c]
            PROVE  \E i \in OutAt(s, c) :
                     /\ Cardinality({j \in OutAt(s, c) : j <= i}) = k
                     /\ transcript[s][i].cmd = got'[s][c][k].cmd
                     /\ transcript[s][i].alt = got'[s][c][k].alt
        <5>1. CASE k \in DOMAIN got[s][c]
          <6>1. got'[s][c][k] = got[s][c][k]
            BY <1>2, <1>3, <4>1, <5>1
          <6> QED
            BY <2>9, <5>1, <6>1 DEF Delivered
        <5>2. CASE k \notin DOMAIN got[s][c]
          <6>1. k = Len(got[s][c]) + 1 /\ got'[s][c][k] = r
            BY <1>2, <1>3, <2>6, <4>1, <4>2, <5>2
          <6>2. PICK i \in OutAt(s, c) :
                  /\ \A j \in OutAt(s, c) : j <= i
                  /\ transcript[s][i].cmd = r.cmd
                  /\ transcript[s][i].alt = r.alt
            BY <1>3 DEF RecordedLast
          <6>3. {j \in OutAt(s, c) : j <= i} = OutAt(s, c)
            BY <6>2
          <6>4. Cardinality({j \in OutAt(s, c) : j <= i}) = k
            BY <2>7, <3>2, <6>1, <6>3
          <6> QED
            BY <6>1, <6>2, <6>4
        <5> QED
          BY <5>1, <5>2
      <4>3. \A i : {j \in OutAt(s, c)' : j <= i} = {j \in OutAt(s, c) : j <= i}
        BY <2>1
      <4>4. ASSUME NEW k \in DOMAIN got'[s][c]
            PROVE  \E i \in OutAt(s, c)' :
                     /\ Cardinality({j \in OutAt(s, c)' : j <= i}) = k
                     /\ transcript'[s][i].cmd = got'[s][c][k].cmd
                     /\ transcript'[s][i].alt = got'[s][c][k].alt
        <5>1. PICK i \in OutAt(s, c) :
                /\ Cardinality({j \in OutAt(s, c) : j <= i}) = k
                /\ transcript[s][i].cmd = got'[s][c][k].cmd
                /\ transcript[s][i].alt = got'[s][c][k].alt
          BY <4>2
        <5>2. Cardinality({j \in OutAt(s, c)' : j <= i}) = k
          BY <4>3, <5>1
        <5> QED
          BY <1>1, <2>1, <5>1, <5>2
      <4> QED
        BY <4>4 DEF Delivered
    <3> QED
      BY <3>1, <3>2
  <2> QED
    BY <2>3, <2>4, <2>8, <2>10 DEF ConnInv
<1> QED
  BY <1>8, <1>10, <1>11, <1>12, <1>13 DEF PeerInv

-----------------------------------------------------------------------------
(* The invariant, and what it says. *)

LEMMA PeerInitInv == PeerInit => PeerInv
<1> SUFFICES ASSUME PeerInit PROVE PeerInv
  OBVIOUS
<1>1. PeerTypeOK
  BY DEF PeerInit, PeerTypeOK
<1>2. HistoryTypeOK
  BY DEF PeerInit, HistoryTypeOK
<1>3. \A s \in Servers : Len(transcript[s]) = 0 /\ transcript[s] = <<>> /\ slept[s] = {}
  BY DEF PeerInit
<1>4. OneShotDelaysFirstReply
  BY <1>3 DEF OneShotDelaysFirstReply
<1>5. ASSUME NEW s \in Servers
      PROVE  DelayInv(s) /\ AlteredInv(s)
  BY <1>3 DEF PeerInit, DelayInv, AlteredInv
<1>6. ASSUME NEW s \in Servers, NEW c \in Conns
      PROVE  ConnInv(s, c)
  <2>1. OutAt(s, c) = {}
    BY <1>3 DEF OutAt
  <2> QED
    BY <2>1 DEF PeerInit, ConnInv, Delivered
<1> QED
  BY <1>1, <1>2, <1>4, <1>5, <1>6 DEF PeerInv

\* Nothing is ever taken out of a transcript, or changed in it.
LEMMA PeerGrows == PeerInv /\ [PeerNext]_peerVars => Grows
<1> SUFFICES ASSUME PeerInv, [PeerNext]_peerVars PROVE Grows
  OBVIOUS
<1>0. transcript \in [Servers -> Seq(EntryType)]
  BY DEF PeerInv, PeerTypeOK
<1>1. transcript' = transcript => Grows
  BY <1>0, QuietUnchanged DEF Quiet
<1>2. ASSUME NEW s \in Servers, StartServer(s) \/ StopServer(s)
      PROVE  Grows
  BY <1>1, <1>2 DEF StartServer, StopServer
<1>3. ASSUME NEW s \in Servers, NEW c \in Conns, ClientStep(s, c)
      PROVE  Grows
  BY <1>1, <1>3 DEF ClientStep, Dial, Send, Hangup, serverVars
<1>4. ASSUME NEW s \in Servers, NEW c \in Conns, HandlerStep(s, c)
      PROVE  Grows
  <2>1. Accept(s, c) \/ TakeDelay(s, c) \/ Wake(s, c) \/ WriteReply(s, c) => transcript' = transcript
    BY DEF Accept, TakeDelay, Wake, WriteReply, serverVars
  <2>2. CASE Read(s, c)
    BY <2>2, ReadQuiet DEF Quiet
  <2>3. CASE ReadEOF(s, c) \/ WriteFails(s, c)
    <3>1. PICK e \in EntryType : transcript' = [transcript EXCEPT ![s] = Append(@, e)]
      <4>1. /\ Entry(c, "in", "disconnect", FALSE) \in EntryType
            /\ Entry(c, "out", "error", FALSE) \in EntryType
        BY DEF Entry, EntryType
      <4> QED
        BY <2>3, <4>1 DEF ReadEOF, WriteFails
    <3> QED
      BY <1>0, <3>1, AppendOne
  <2>4. CASE RecordReply(s, c)
    <3> DEFINE e == Entry(c, "out", Head(todo[s][c]).cmd, Head(todo[s][c]).alt)
    <3>1. Head(todo[s][c]) \in ReplyOf(s)
      BY <2>4, HeadIsReply DEF RecordReply
    <3>2. e \in EntryType
      BY <3>1 DEF Entry, EntryType, ReplyOf
    <3>3. transcript' = [transcript EXCEPT ![s] = Append(@, e)]
      BY <2>4 DEF RecordReply
    <3> HIDE DEF e
    <3> QED
      BY <1>0, <3>2, <3>3, AppendOne
  <2> QED
    BY <1>1, <1>4, <2>1, <2>2, <2>3, <2>4 DEF HandlerStep
<1>5. CASE UNCHANGED peerVars
  BY <1>1, <1>5 DEF peerVars, serverVars
<1> QED
  BY <1>2, <1>3, <1>4, <1>5 DEF PeerNext

LEMMA PeerStep == PeerInv /\ [PeerNext]_peerVars => PeerInv'
<1> SUFFICES ASSUME PeerInv, [PeerNext]_peerVars PROVE PeerInv'
  OBVIOUS
<1>1. ASSUME NEW s \in Servers, StartServer(s) \/ StopServer(s)
      PROVE  PeerInv'
  BY <1>1, StartServerKeeps, StopServerKeeps
<1>2. ASSUME NEW s \in Servers, NEW c \in Conns, ClientStep(s, c)
      PROVE  PeerInv'
  BY <1>2, DialKeeps, SendKeeps, HangupKeeps DEF ClientStep
<1>3. ASSUME NEW s \in Servers, NEW c \in Conns, HandlerStep(s, c)
      PROVE  PeerInv'
  BY <1>3, AcceptKeeps, ReadKeeps, ReadEOFKeeps, TakeDelayKeeps, WakeKeeps, RecordReplyKeeps,
     WriteReplyKeeps, WriteFailsKeeps DEF HandlerStep
<1>4. CASE UNCHANGED peerVars
  <2>1. /\ behavior' = behavior /\ listener' = listener /\ onceLeft' = onceLeft
        /\ transcript' = transcript /\ link' = link /\ inbox' = inbox /\ phase' = phase
        /\ todo' = todo /\ got' = got /\ slept' = slept
    BY <1>4 DEF peerVars, serverVars, connVars
  <2>2. PeerTypeOK' /\ HistoryTypeOK'
    BY <2>1 DEF PeerInv, PeerTypeOK, HistoryTypeOK
  <2>3. Quiet
    BY <2>1, QuietUnchanged DEF PeerInv, PeerTypeOK
  <2>4. \A s \in Servers, c \in Conns : Steady(s, c) /\ LateKept(s, c)
    BY <2>1 DEF PeerInv, ConnInv, Steady, LateKept
  <2> QED
    BY <2>1, <2>2, <2>3, <2>4, QuietStep
<1> QED
  BY <1>1, <1>2, <1>3, <1>4 DEF PeerNext

\* The inductive invariant holds in every reachable state.
THEOREM PeerInvariance == PeerSpec => []PeerInv
BY PeerInitInv, PeerStep, PTL DEF PeerSpec

\* Types, and what the state of a handler says of its replies and its connection.
THEOREM PeerTypes == PeerSpec => []PeerTypeOK
<1>1. PeerInv => PeerTypeOK
  BY DEF PeerInv
<1> QED
  BY <1>1, PeerInvariance, PTL

LEMMA InvDelivers == PeerInv => DeliveredIsRecorded
BY DEF PeerInv, ConnInv, Delivered, DeliveredIsRecorded

\* Whatever reached a client was recorded before, in the same order: write calls
\* record before it calls WriteMessage, and one goroutine serves a connection.
THEOREM DeliveredIsAlwaysRecorded == PeerSpec => []DeliveredIsRecorded
BY InvDelivers, PeerInvariance, PTL

\* The one-shot delay of a command is taken once, and by its first reply: delayFor
\* deletes the entry under the mutex.
THEOREM OneShotDelays == PeerSpec => []OneShotDelaysFirstReply
<1>1. PeerInv => OneShotDelaysFirstReply
  BY DEF PeerInv
<1> QED
  BY <1>1, PeerInvariance, PTL
=============================================================================
