----------------------------- MODULE ChainClient -----------------------------
(***************************************************************************)
(* A light client that asks one simulated peer a question and, when the     *)
(* answer is a page of headers or of filter hashes, for the pages after it: *)
(* each time from the last header it has got, as the clients under test do. *)
(* The answers are compared with statements of what they should be that do  *)
(* not use the definitions of ChainServer.                                  *)
(***************************************************************************)
EXTENDS ChainServer, SequencesExt

CONSTANTS
  Behaviors,    \* the behaviors of the peer
  Questions     \* the requests that a client may begin with

ASSUME ChainClientAssumption == Questions \subseteq Request

VARIABLES
  b,         \* the behavior of the peer
  origin,    \* the first request
  req,       \* the latest request
  answered,  \* it was answered
  answer,    \* the replies to it
  walk       \* the headers or filter hashes of all pages, one after the other

clientVars == <<b, origin, req, answered, answer, walk>>

Answer(beh, r) == IF Fails(r) THEN <<[cmd |-> "error"]>> ELSE Replies(beh, r)

\* The data of the page that answers r.
Page(r, a) ==
  CASE r.cmd = "getheaders"                -> a[1].hdrs
    [] r.cmd = "getcfheaders" /\ ~Fails(r) -> a[1].hashes
    [] OTHER                               -> <<>>

Init ==
  /\ b \in Behaviors
  /\ req \in Questions /\ origin = req
  /\ answered = FALSE /\ answer = <<>> /\ walk = <<>>

Serve ==
  /\ ~answered
  /\ answered' = TRUE
  /\ answer' = Answer(b, req)
  /\ walk' = walk \o Page(req, answer')
  /\ UNCHANGED <<b, origin, req>>

\* The request for the page after one that ends at height h.
Following(r, h) ==
  IF r.cmd = "getheaders" THEN [r EXCEPT !.locators = <<h>>] ELSE [r EXCEPT !.start = h + 1]

\* The client has reached its stop hash, or gets nothing more.
Finished ==
  answered /\ (Page(req, answer) = <<>> \/ Last(Page(req, answer)).h = req.stop)

AskOn ==
  /\ answered /\ ~Finished
  /\ req' = Following(req, Last(Page(req, answer)).h)
  /\ answered' = FALSE /\ answer' = <<>>
  /\ UNCHANGED <<b, origin, walk>>

Next == Serve \/ AskOn

Spec == Init /\ [][Next]_clientVars

-----------------------------------------------------------------------------

\* A first locator that the peer knows.
Located(r) == r.cmd = "getheaders" /\ r.locators # <<>> /\ Known(r.locators[1])

\* However a client's requests fall on the message limits, the pages of
\* headersResponse and cfHeadersResponse give it every block up to its stop hash
\* or the tip once, in order, with nothing repeated at a page boundary; an empty
\* cfheaders page can only be met where EmptyCFHeaders names the start of a page.
WalkCoversChain ==
  /\ Located(origin) =>
       LET from == origin.locators[1] + 1
           end  == IF origin.stop \in from .. Tip THEN origin.stop ELSE Tip
       IN  /\ \A i \in DOMAIN walk : walk[i].h = from + i - 1
           /\ Finished => Len(walk) = end - from + 1
  /\ origin.cmd = "getcfheaders" /\ ~Fails(origin) =>
       LET last == origin.start + Len(walk) - 1
       IN  /\ \A i \in DOMAIN walk : walk[i].h = origin.start + i - 1
           /\ Finished => last = origin.stop \/ last + 1 \in b.emptyCF

\* The headers after the first locator that the peer knows, or from 0.
StartsAt(locators, n) ==
  \/ n = 0 /\ \A i \in DOMAIN locators : ~Known(locators[i])
  \/ \E i \in DOMAIN locators : /\ Known(locators[i]) /\ n = locators[i] + 1
                                /\ \A j \in 1 .. i - 1 : ~Known(locators[j])

\* The heights whose data the reply to r carries, when nothing is emptied.
Reach(r) ==
  CASE r.cmd = "getheaders" ->
         {h \in Heights : \E n \in 0 .. Tip + 1 :
            StartsAt(r.locators, n) /\ h \in n .. n + MaxHeaders - 1 /\ (r.stop < n \/ h <= r.stop)}
    [] r.cmd = "getcfheaders" -> {h \in r.start .. r.stop : h < r.start + MaxCFHashes}
    [] r.cmd = "getcfilters"  -> r.start .. r.stop
    [] r.cmd = "getcfcheckpt" -> {h \in 1 .. r.stop : r.stop <= Tip /\ h % CheckptInterval = 0}
    [] r.cmd = "getdata"      -> {h \in Heights : \E i \in DOMAIN r.invs : r.invs[i] = h}
    [] OTHER                  -> {}

\* The configured faults that lie where the answer to r shows them.
FaultReached(beh, r) ==
  CASE r.cmd = "getheaders"   -> beh.headers \cap Reach(r) # {}
    [] r.cmd = "getcfheaders" ->
         \/ r.start \in beh.prevHeader \cup beh.emptyCF
         \/ beh.cfHeaders \cap Reach(r) # {}
         \/ "cfheaders" \in beh.wrongType
    [] r.cmd = "getcfilters"  ->
         \/ (beh.cFilters \cup beh.blockHash) \cap Reach(r) # {}
         \/ "cfilter" \in beh.wrongType /\ Reach(r) # {}
    [] r.cmd = "getcfcheckpt" ->
         beh.cfCheckpts \cap Reach(r) # {} \/ "cfcheckpt" \in beh.wrongType
    [] r.cmd = "getdata"      -> beh.blocks \cap Reach(r) # {}
    [] OTHER                  -> FALSE

\* "Height maps use block heights from the fixture, not p2p message indexes"
\* (Behavior): a client is answered honestly unless a configured fault lies on a
\* height its request reaches, or, for the two faults that act on a whole
\* cfheaders message, on the start height of the request.
FaultShowsWhereConfigured ==
  answered /\ ~Fails(req) =>
    (answer # Replies(HonestBehavior, req) <=> FaultReached(b, req))
=============================================================================
