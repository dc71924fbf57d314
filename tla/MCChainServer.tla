--------------------------- MODULE MCChainServer ---------------------------
(***************************************************************************)
(* Every request that a small chain allows, and every behavior with up to   *)
(* two height faults and one wrong filter type.                             *)
(***************************************************************************)
EXTENDS ChainClient

NoHash == Tip + 1     \* a hash the fixture does not contain

HeightFaults == {"headers", "cfHeaders", "cfCheckpts", "cFilters",
                 "prevHeader", "emptyCF", "blockHash", "blocks"}

OneFault(k, h) == [HonestBehavior EXCEPT ![k] = {h}]

MCBehaviors ==
  {HonestBehavior}
  \cup {OneFault(k, h) : k \in HeightFaults, h \in Heights}
  \cup {[OneFault("cfHeaders", h) EXCEPT !.prevHeader = {g}, !.emptyCF = {g + 1}] :
           h, g \in Heights}
  \cup {[HonestBehavior EXCEPT !.wrongType = {cmd}] :
           cmd \in {"cfheaders", "cfilter", "cfcheckpt"}}

Hashes == Heights \cup {NoHash}

MCQuestions ==
  [cmd : {"getheaders"}, locators : SeqOf(Hashes, 2), stop : Hashes]
  \cup [cmd : {"getcfheaders", "getcfilters"}, start : 0 .. Tip + 1, stop : Hashes]
  \cup [cmd : {"getcfcheckpt"}, stop : Hashes]
  \cup [cmd : {"getdata"}, invs : SeqOf(Hashes, 2)]
  \cup [cmd : {"version", "ping", "sendheaders"}]
=============================================================================
