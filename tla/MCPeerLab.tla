----------------------------- MODULE MCPeerLab -----------------------------
(***************************************************************************)
(* One simulated peer with two connections, for TLC.  The peer delays its  *)
(* first cfheaders reply and every block, and corrupts one filter hash.    *)
(***************************************************************************)
EXTENDS PeerLab

\* The one-shot delay of the outage scenarios with a fault of another kind.
MCBehavior == [HonestBehavior EXCEPT !.delayOnce = {"cfheaders"},
                                     !.delay     = {"block"},
                                     !.cfHeaders = {1}]

\* An answered request of each shape: one reply, several, none, an error.
MCRequests ==
  { [cmd |-> "getcfheaders", start |-> 1, stop |-> 1],
    [cmd |-> "version"],
    [cmd |-> "getdata", invs |-> <<1>>],
    [cmd |-> "getcfilters", start |-> 1, stop |-> -1] }

MCInit == behavior = [s \in Servers |-> MCBehavior] /\ PeerInit

MCSpec == MCInit /\ [][PeerNext]_peerVars

MCFairSpec == MCSpec /\ PeerFairness
=============================================================================
