--------------------------- MODULE MCScenarioRun ---------------------------
(***************************************************************************)
(* The scenarios of the harness on a chain with two checkpoints, each with *)
(* one connection to each of its peers.                                    *)
(***************************************************************************)
EXTENDS ScenarioRun

\* One scenario of each function with one peer, at the heights it uses.
OnePeerScenarios ==
  { HonestAdapter, IPv6PeerHandshake, ClientMethods, LongChain, CFHeadersBoundary, LargeBatchProgress,
    FilterHeaderOutage, BlockDownloadOutage, ScrambledHeaders, EmptyCFHeaders,
    WrongFilterType, WrongCFilterBlockHash, InvalidDownloadedBlock, UnresponsivePeer,
    BadCFCheckptWithCorruption({CheckptInterval}),
    BadPrevFilterHeaderWithSpecs({0, 1, CheckptInterval}),
    BadCFilterAtHeight(2) }

\* The scenarios with two peers.
TwoPeerScenarios ==
  { MultiPeerInitialSync, FilterHeaderConflictAtHeight(2) }

AllScenarios == OnePeerScenarios \cup TwoPeerScenarios

BadCFilter == { BadCFilterAtHeight(2) }

\* What a light client asks for, at heights that meet the faults and miss them.
MCRequests ==
  { [cmd |-> "version"], [cmd |-> "verack"],
    [cmd |-> "getheaders", locators |-> <<0>>, stop |-> Tip],
    [cmd |-> "getcfheaders", start |-> 1, stop |-> 2],
    [cmd |-> "getcfcheckpt", stop |-> Tip],
    [cmd |-> "getcfilters", start |-> 1, stop |-> 2],
    [cmd |-> "getdata", invs |-> <<1>>] }

\* The command that answers each request that is answered by one kind only.
ReplyTo ==
  [version |-> "version", verack |-> "version", getheaders |-> "headers",
   getcfheaders |-> "cfheaders", getcfcheckpt |-> "cfcheckpt", getcfilters |-> "cfilter",
   getdata |-> "block"]

\* A scenario is run with the requests its evidence, its delays and its filter
\* types are about, and one other; what a peer answers to the rest does not
\* reach it.
Relevant(sc, req) ==
  \/ ReplyTo[req.cmd] \in sc.commands
  \/ \E i \in DOMAIN sc.peers :
       LET b == sc.peers[i] IN ReplyTo[req.cmd] \in b.delayOnce \cup b.delay \cup b.wrongType
  \/ sc.wait = "handshake" /\ ReplyTo[req.cmd] = "version"
  \/ sc.wait # "handshake" /\ (Len(sc.peers) = 1 \/ sc.commands = {}) /\ req.cmd = "getheaders"

\* The requests of all clients; peers that come in pairs get one each.
RelevantRequests ==
  \A s \in Servers, c \in Conns :
    /\ \A i \in DOMAIN sent[s][c] : Relevant(scenario, sent[s][c][i])
    /\ Len(scenario.peers) > 1 => Len(sent[s][c]) <= 1

RelevantSpec ==
  /\ Init
  /\ [][Next /\ RelevantRequests']_scenarioVars
  /\ WF_scenarioVars(HarnessStep)
=============================================================================
