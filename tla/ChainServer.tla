---------------------------- MODULE ChainServer ----------------------------
(***************************************************************************)
(* What one simulated peer answers (peerlab/server.go): the reply to each  *)
(* request, as a function of the fixture chain, of the request and of the  *)
(* faults the scenario configured.                                         *)
(*                                                                         *)
(* The fixture is the chain of blocks 0..Tip.  A height stands for the     *)
(* hash of the block at that height, and a height outside 0..Tip for a     *)
(* hash the fixture does not contain.  What the peer can corrupt is a      *)
(* record [h, ok]: the datum of height h, with ok = FALSE once it was      *)
(* altered, and every such alteration is visible in the bytes sent.        *)
(***************************************************************************)
EXTENDS Integers, Sequences, FiniteSets

CONSTANTS
  Tip,              \* height of the last fixture block
  MaxHeaders,       \* wire.MaxBlockHeadersPerMsg
  MaxCFHashes,      \* wire.MaxCFHeadersPerMsg
  CheckptInterval   \* wire.CFCheckptInterval

ASSUME ChainAssumption ==
  /\ Tip \in Nat
  /\ MaxHeaders \in Nat \ {0}
  /\ MaxCFHashes \in Nat \ {0}
  /\ CheckptInterval \in Nat \ {0}

Heights == 0 .. Tip

\* heightOf(hash) >= 0
Known(hash) == hash \in Heights

Datum(h, ok) == [h |-> h, ok |-> ok]

(***************************************************************************)
(* The faults of a Behavior: one set of heights for each height map, and   *)
(* the sets of commands that are delayed once, delayed always, or answered *)
(* with another filter type.                                               *)
(***************************************************************************)
HonestBehavior ==
  [headers    |-> {}, cfHeaders |-> {}, cfCheckpts |-> {}, cFilters  |-> {},
   prevHeader |-> {}, emptyCF   |-> {}, blockHash  |-> {}, blocks    |-> {},
   delay      |-> {}, delayOnce |-> {}, wrongType  |-> {}]

\* The value of responseFilterType: "asked" is the requested filter type.
FilterType(b, cmd) == IF cmd \in b.wrongType THEN "other" ELSE "asked"

\* The consecutive integers lo..hi as a sequence, empty when lo > hi.
Span(lo, hi) == [i \in 1 .. IF lo > hi THEN 0 ELSE hi - lo + 1 |-> lo + i - 1]

\* At most n elements of the sequence s, from its head.
FirstN(s, n) == IF Len(s) <= n THEN s ELSE SubSeq(s, 1, n)

-----------------------------------------------------------------------------

\* Seeded fault for WalkCoversChain: the page starts at the located header.
LocatorStartAt(locators) ==
  LET known == {i \in DOMAIN locators : Known(locators[i])}
  IN  IF known = {} THEN 0
      ELSE locators[CHOOSE i \in known : \A j \in known : i <= j]

\* The first locator hash the fixture knows decides; with none, the start is 0.
LocatorStart(locators) ==
  LET known == {i \in DOMAIN locators : Known(locators[i])}
  IN  IF known = {} THEN 0
      ELSE locators[CHOOSE i \in known : \A j \in known : i <= j] + 1

\* The loop ends at the stop hash, at the message limit or at the tip; a stop
\* hash below the start, or unknown, never ends it.
HeadersResponse(b, req) ==
  LET start == LocatorStart(req.locators)
      end   == IF req.stop \in start .. Tip THEN req.stop ELSE Tip
      page  == FirstN(Span(start, end), MaxHeaders)
  IN  [cmd |-> "headers",
       hdrs |-> [i \in DOMAIN page |-> Datum(page[i], page[i] \notin b.headers)]]

\* An unknown stop hash or a start past the stop is an error; the stop hash of
\* the reply is the requested one even when the page was cut at the limit.
CFHeadersFails(req) == ~Known(req.stop) \/ req.start > req.stop

\* Seeded fault for FaultShowsWhereConfigured: CorruptPrevFilterHeader is looked
\* up under the height of the previous filter header.
CFHeadersResponseShifted(b, req) ==
  LET page == IF req.start \in b.emptyCF THEN <<>>
              ELSE FirstN(Span(req.start, req.stop), MaxCFHashes)
  IN  [cmd    |-> "cfheaders",
       type   |-> FilterType(b, "cfheaders"),
       stop   |-> req.stop,
       prev   |-> Datum(req.start - 1, req.start - 1 \notin b.prevHeader),
       hashes |-> [i \in DOMAIN page |-> Datum(page[i], page[i] \notin b.cfHeaders)]]

CFHeadersResponse(b, req) ==
  LET page == IF req.start \in b.emptyCF THEN <<>>
              ELSE FirstN(Span(req.start, req.stop), MaxCFHashes)
  IN  [cmd    |-> "cfheaders",
       type   |-> FilterType(b, "cfheaders"),
       stop   |-> req.stop,
       prev   |-> Datum(req.start - 1, req.start \notin b.prevHeader),
       hashes |-> [i \in DOMAIN page |-> Datum(page[i], page[i] \notin b.cfHeaders)]]

\* One cfilter for each height; none when the start is past the stop.
CFiltersResponse(b, req) ==
  LET span == Span(req.start, req.stop)
  IN  [i \in DOMAIN span |->
         [cmd   |-> "cfilter",
          type  |-> FilterType(b, "cfilter"),
          block |-> Datum(span[i], span[i] \notin b.blockHash),
          data  |-> Datum(span[i], span[i] \notin b.cFilters)]]

\* An unknown stop hash gives no checkpoint, and is not an error.
CFCheckptResponse(b, req) ==
  LET count == IF Known(req.stop) THEN req.stop \div CheckptInterval ELSE 0
  IN  [cmd  |-> "cfcheckpt",
       type |-> FilterType(b, "cfcheckpt"),
       stop |-> req.stop,
       hdrs |-> [i \in 1 .. count |->
                   Datum(i * CheckptInterval, i * CheckptInterval \notin b.cfCheckpts)]]

\* Blocks the fixture does not have are passed over without a notfound: the
\* k-th block sent is that of the k-th known hash.
BlocksResponse(b, req) ==
  LET known    == {i \in DOMAIN req.invs : Known(req.invs[i])}
      found(k) == req.invs[CHOOSE i \in known : Cardinality({j \in known : j <= i}) = k]
  IN  [k \in 1 .. Cardinality(known) |->
         [cmd |-> "block", block |-> Datum(found(k), found(k) \notin b.blocks)]]

\* The messages of a light client: those with fields that handleMessage reads,
\* and any other command.
Request ==
  [cmd : {"getheaders"}, locators : Seq(Int), stop : Int]
  \cup [cmd : {"getcfheaders", "getcfilters"}, start : Nat, stop : Int]
  \cup [cmd : {"getcfcheckpt"}, stop : Int]
  \cup [cmd : {"getdata"}, invs : Seq(Int)]
  \cup {r \in [cmd : STRING] : r.cmd \notin
          {"getheaders", "getcfheaders", "getcfilters", "getcfcheckpt", "getdata"}}

(***************************************************************************)
(* handleMessage.  A request fails when handleMessage returns an error     *)
(* before it writes anything; otherwise Replies are written in order.      *)
(***************************************************************************)
Fails(req) ==
  \/ req.cmd = "getcfheaders" /\ CFHeadersFails(req)
  \/ req.cmd = "getcfilters" /\ ~Known(req.stop)

ReplyCommands ==
  {"version", "verack", "pong", "headers", "cfheaders", "cfilter", "cfcheckpt", "block"}

Replies(b, req) ==
  CASE req.cmd = "version"      -> <<[cmd |-> "version"], [cmd |-> "verack"]>>
    [] req.cmd = "ping"         -> <<[cmd |-> "pong"]>>
    [] req.cmd = "getheaders"   -> <<HeadersResponse(b, req)>>
    [] req.cmd = "getcfheaders" -> <<CFHeadersResponse(b, req)>>
    [] req.cmd = "getcfilters"  -> CFiltersResponse(b, req)
    [] req.cmd = "getcfcheckpt" -> <<CFCheckptResponse(b, req)>>
    [] req.cmd = "getdata"      -> BlocksResponse(b, req)
    [] OTHER                    -> <<>>

\* The i-th reply to req differs from what an honest peer would send.
Altered(b, req, i) == Replies(b, req)[i] # Replies(HonestBehavior, req)[i]
=============================================================================
