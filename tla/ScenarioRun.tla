---------------------------- MODULE ScenarioRun ----------------------------
(***************************************************************************)
(* One adapter scenario of harness/runner.go, from the simulated peers it  *)
(* starts to the status it reports, with the adapter as a black box.       *)
(*                                                                         *)
(* The run...Adapter functions share one skeleton and differ in data: the  *)
(* faults of their peers, the waits they insist on, the evidence they ask  *)
(* for.  A scenario is that data, and the actions below are the skeleton.  *)
(* The peers are those of PeerLab, with all their goroutines.              *)
(*                                                                         *)
(* An HTTP call to the adapter succeeds, fails, or fails although the      *)
(* adapter carried it out (the client gives up after its timeout).  What   *)
(* the adapter does with its peers, and what it reports as its tip and its *)
(* matches, is not constrained.                                            *)
(***************************************************************************)
EXTENDS PeerLab

CONSTANT Scenarios     \* the scenarios to choose from

VARIABLES
  scenario,      \* the scenario that runs
  pc,            \* the statement the scenario function has reached
  startAcked,    \* /start was answered with success
  stopSent,      \* the deferred /stop has been posted
  running,       \* the adapter runs its light client (external)
  banned,        \* banned[s]: the light client has banned peer s (external)
  waitErr,       \* waitForAdapterTip returned an error
  report,        \* report[s]: what /list-peers said of s, "none" before it
  verdict,       \* "none", or the status and evidence of the scenario
  faultSeen      \* history: an altered reply had reached the client when
                 \* /list-peers was answered

harnessVars  == <<scenario, pc, startAcked, stopSent, waitErr, report, verdict, faultSeen>>
adapterVars  == <<running, banned>>
scenarioVars == <<harnessVars, adapterVars, peerVars>>

-----------------------------------------------------------------------------
(* The scenarios. *)

Faults(kind, hs) == [HonestBehavior EXCEPT ![kind] = hs]

\* A scenario whose peers follow the protocol: it passes when the adapter gets
\* there and errs when it does not.
SyncScenario(peers, watch, wait, check) ==
  [peers |-> peers, subject |-> 0, watch |-> watch, wait |-> wait, tipErr |-> "error",
   check |-> check, listErr |-> "fail", commands |-> {}, needsTranscript |-> FALSE,
   unpunished |-> "fail"]

\* A scenario that passes when the adapter punishes the last of its peers, and
\* that counts a reply to one of the commands as the bad response being served.
PunishScenario(peers, watch, commands) ==
  [SyncScenario(peers, watch, "tip", "list") EXCEPT
     !.subject = Len(peers), !.tipErr = "kept",
     !.commands = commands, !.needsTranscript = TRUE]

HonestAdapter        == SyncScenario(<<HonestBehavior>>, TRUE, "tip", "matches")
IPv6PeerHandshake    == SyncScenario(<<HonestBehavior>>, FALSE, "handshake", "none")
ClientMethods        == SyncScenario(<<HonestBehavior>>, FALSE, "tip", "methods")
MultiPeerInitialSync == SyncScenario(<<HonestBehavior, HonestBehavior>>, FALSE, "tip", "none")
LongChain            == SyncScenario(<<HonestBehavior>>, FALSE, "tip", "none")
CFHeadersBoundary    == SyncScenario(<<HonestBehavior>>, FALSE, "tip", "none")

LargeBatchProgress ==
  SyncScenario(<<Faults("delayOnce", {"cfheaders"})>>, FALSE, "tip", "none")

FilterHeaderOutage ==
  SyncScenario(<<Faults("delayOnce", {"cfheaders"})>>, FALSE, "tip", "none")

BlockDownloadOutage ==
  SyncScenario(<<Faults("delayOnce", {"block"})>>, TRUE, "tip", "matches")

ScrambledHeaders ==
  PunishScenario(<<Faults("headers", {2})>>, FALSE, {"headers"})

FilterHeaderConflictAtHeight(height) ==
  PunishScenario(<<HonestBehavior, Faults("cfHeaders", {height})>>, FALSE, {"cfheaders"})

BadCFCheckptWithCorruption(corrupt) ==
  PunishScenario(<<Faults("cfCheckpts", corrupt)>>, FALSE, {"cfcheckpt"})

BadPrevFilterHeaderWithSpecs(corrupt) ==
  PunishScenario(<<Faults("prevHeader", corrupt)>>, FALSE, {"cfheaders"})

EmptyCFHeaders ==
  PunishScenario(<<Faults("emptyCF", {0, 1, CheckptInterval})>>, FALSE, {"cfheaders"})

\* Seeded fault for PunishedAfterFaultPasses: one of the two commands whose
\* filter type is changed is missing from the evidence.
WrongFilterTypeHalf ==
  [PunishScenario(<<Faults("wrongType", {"cfilter", "cfheaders"})>>, TRUE, {"cfheaders"})
     EXCEPT !.unpunished = "error"]

WrongFilterType ==
  [PunishScenario(<<Faults("wrongType", {"cfilter", "cfheaders"})>>, TRUE,
                  {"cfheaders", "cfilter"})
     EXCEPT !.unpunished = "error"]

BadCFilterAtHeight(height) ==
  PunishScenario(<<Faults("cFilters", {height})>>, TRUE, {"cfilter"})

WrongCFilterBlockHash ==
  [PunishScenario(<<Faults("blockHash", {2})>>, TRUE, {"cfilter"})
     EXCEPT !.listErr = "error"]

InvalidDownloadedBlock ==
  [PunishScenario(<<Faults("blocks", {1})>>, TRUE, {"block"})
     EXCEPT !.check = "noMatches", !.listErr = "error"]

UnresponsivePeer ==
  [PunishScenario(<<Faults("delay", {"headers"})>>, FALSE, {})
     EXCEPT !.listErr = "error", !.needsTranscript = FALSE]

\* The scenarios of the harness.  Those that are run at several heights of the
\* fixture, or with several of them, are here for all.
HarnessScenarios ==
  { HonestAdapter, IPv6PeerHandshake, ClientMethods, MultiPeerInitialSync, LongChain,
    CFHeadersBoundary, LargeBatchProgress, FilterHeaderOutage, BlockDownloadOutage,
    ScrambledHeaders, EmptyCFHeaders, WrongFilterType, WrongCFilterBlockHash,
    InvalidDownloadedBlock, UnresponsivePeer }
  \cup {FilterHeaderConflictAtHeight(height) : height \in Heights}
  \cup {BadCFCheckptWithCorruption(corrupt) : corrupt \in SUBSET Heights}
  \cup {BadPrevFilterHeaderWithSpecs(corrupt) : corrupt \in SUBSET Heights}
  \cup {BadCFilterAtHeight(height) : height \in Heights}

ASSUME ScenarioAssumption ==
  /\ Servers = {1, 2}
  /\ 2 * CheckptInterval <= Tip
  /\ Scenarios \subseteq HarnessScenarios

-----------------------------------------------------------------------------
(* The scenario function. *)

NoVerdict == [status |-> "none", evidence |-> "none"]

PeersOf(sc) == 1 .. Len(sc.peers)

\* Seeded fault for ReleasedInOrder: the deferred /stop is missing.
ReturnWithoutStop(status, evidence) ==
  /\ verdict' = [status |-> status, evidence |-> evidence]
  /\ pc' = "stopPeers"

\* Return: the deferred calls run, latest first.  Before configureAndStart has
\* succeeded the deferred /stop is not registered.
Return(status, evidence) ==
  /\ verdict' = [status |-> status, evidence |-> evidence]
  /\ pc' = IF startAcked' THEN "stopAdapter" ELSE "stopPeers"

\* startInSelectedEnvironment for the next peer: its listener opens, or the
\* scenario returns the error.
StartPeer ==
  /\ pc = "startPeers"
  /\ \E s \in PeersOf(scenario) :
       /\ listener[s] = "new"
       /\ \A t \in PeersOf(scenario) : t < s => listener[t] = "open"
       /\ StartServer(s)
       /\ pc' = IF s = Len(scenario.peers) THEN "configure" ELSE "startPeers"
  /\ UNCHANGED <<scenario, startAcked, stopSent, waitErr, report, verdict, faultSeen, adapterVars>>

\* The error of the listener, of the Tor lab or of Expose, which LabRun tells apart.
StartPeerFails ==
  /\ pc = "startPeers"
  /\ UNCHANGED startAcked
  /\ Return("error", "peer")
  /\ UNCHANGED <<scenario, stopSent, waitErr, report, faultSeen, adapterVars, peerVars>>

\* The two calls of configureAndStart.
Configure ==
  /\ pc = "configure"
  /\ UNCHANGED startAcked
  /\ \/ pc' = "startAdapter" /\ UNCHANGED verdict
     \/ Return("error", "configure")
  /\ UNCHANGED <<scenario, stopSent, waitErr, report, faultSeen, adapterVars, peerVars>>

\* Seeded fault for ScenarioTypeOK: the error of /start is not returned.
StartAdapterUnreported ==
  /\ pc = "startAdapter"
  /\ startAcked' \in BOOLEAN
  /\ running' = TRUE
  /\ pc' = IF ~startAcked' THEN "stopPeers" ELSE IF scenario.watch THEN "watch" ELSE "wait"
  /\ UNCHANGED verdict
  /\ UNCHANGED <<scenario, stopSent, waitErr, report, faultSeen, banned, peerVars>>

StartAdapter ==
  /\ pc = "startAdapter"
  /\ \/ /\ startAcked' = TRUE
        /\ running' = TRUE
        /\ pc' = IF scenario.watch THEN "watch" ELSE "wait"
        /\ UNCHANGED verdict
     \/ /\ UNCHANGED startAcked
        /\ running' \in BOOLEAN
        /\ Return("error", "start")
  /\ UNCHANGED <<scenario, stopSent, waitErr, report, faultSeen, banned, peerVars>>

WatchScript ==
  /\ pc = "watch"
  /\ UNCHANGED startAcked
  /\ \/ pc' = "wait" /\ UNCHANGED verdict
     \/ Return("error", "watch")
  /\ UNCHANGED <<scenario, stopSent, waitErr, report, faultSeen, adapterVars, peerVars>>

\* Where the scenario goes when it has waited long enough.
AfterWait ==
  IF scenario.check = "none" THEN Return("pass", "tip")
  ELSE pc' = scenario.check /\ UNCHANGED verdict

\* waitForAdapterTip sees the fixture tip in /best-block.
TipReported ==
  /\ pc = "wait" /\ scenario.wait = "tip"
  /\ UNCHANGED startAcked
  /\ AfterWait
  /\ UNCHANGED <<scenario, stopSent, waitErr, report, faultSeen, adapterVars, peerVars>>

\* waitForPeerHandshake reads the handshake in the transcript.
HandshakeSeen ==
  /\ pc = "wait" /\ scenario.wait = "handshake"
  /\ \A cmd \in {"version", "verack"} : \E i \in DOMAIN transcript[1] :
       transcript[1][i].dir = "in" /\ transcript[1][i].cmd = cmd
  /\ UNCHANGED startAcked
  /\ AfterWait
  /\ UNCHANGED <<scenario, stopSent, waitErr, report, faultSeen, adapterVars, peerVars>>

\* Seeded fault for ScenarioEnds: the deadline is looked at only once the
\* adapter has stopped answering /best-block.
WaitExpiresOnError ==
  /\ pc = "wait"
  /\ ~running
  /\ UNCHANGED startAcked
  /\ Return("error", "tip")
  /\ UNCHANGED <<scenario, stopSent, waitErr, report, faultSeen, adapterVars, peerVars>>

WaitExpires ==
  /\ pc = "wait"
  /\ UNCHANGED startAcked
  /\ IF scenario.tipErr = "error"
     THEN Return("error", "tip") /\ UNCHANGED waitErr
     ELSE /\ waitErr' = TRUE
          /\ pc' = scenario.check
          /\ UNCHANGED verdict
  /\ UNCHANGED <<scenario, stopSent, report, faultSeen, adapterVars, peerVars>>

\* waitForMatches.
Matches ==
  /\ pc = "matches"
  /\ UNCHANGED startAcked
  /\ Return("pass", "matches") \/ Return("error", "matches")
  /\ UNCHANGED <<scenario, stopSent, waitErr, report, faultSeen, adapterVars, peerVars>>

\* waitForNoMatches: nothing was matched until the deadline.  Calls that failed
\* count as no match.
NoMatches ==
  /\ pc = "noMatches"
  /\ UNCHANGED startAcked
  /\ \/ pc' = "list" /\ UNCHANGED verdict
     \/ Return("fail", "matches")
  /\ UNCHANGED <<scenario, stopSent, waitErr, report, faultSeen, adapterVars, peerVars>>

\* requireKnownBlockHashes and requireUnknownHeightRejected.
BlockHashes ==
  /\ pc = "methods"
  /\ UNCHANGED startAcked
  /\ \/ pc' = "list" /\ UNCHANGED verdict
     \/ Return("fail", "methods")
  /\ UNCHANGED <<scenario, stopSent, waitErr, report, faultSeen, adapterVars, peerVars>>

\* What the adapter knows of peer s.  Its connection to s is down before it
\* dials, after it hung up and after s closed it; "down" stands for every report
\* that peerPunished takes for a punishment besides a ban: !Connected, or an
\* error, with which a link that is up may be reported as well.  The adapter
\* reports each of its peers.
PeerState(s) ==
  IF banned[s] THEN "banned"
  ELSE IF \E c \in Conns : link[s][c] \in {"queued", "open"} THEN "connected"
  ELSE "down"

ListPeers ==
  /\ pc = "list"
  /\ UNCHANGED startAcked
  /\ \/ /\ report' = [s \in Servers |-> PeerState(s)]
        /\ faultSeen' = (scenario.subject # 0 /\
             \E c \in Conns : \E i \in DOMAIN got[scenario.subject][c] :
               got[scenario.subject][c][i].alt)
        /\ pc' = "judge"
        /\ UNCHANGED verdict
     \/ /\ Return(scenario.listErr, "list")
        /\ UNCHANGED <<report, faultSeen>>
  /\ UNCHANGED <<scenario, stopSent, waitErr, adapterVars, peerVars>>

TranscriptHasOutbound(s, commands) ==
  \E i \in DOMAIN transcript[s] :
    transcript[s][i].dir = "out" /\ transcript[s][i].cmd \in commands

\* Seeded fault for PunishedAfterFaultPasses: the transcript of another peer.
PeerPunishedByFirst ==
  \/ report[scenario.subject] = "banned"
  \/ /\ report[scenario.subject] = "down"
     /\ scenario.needsTranscript => TranscriptHasOutbound(1, scenario.commands)

\* peerPunished and peerPunishedAfter: the transcript is read after /list-peers
\* was answered, while the peers still run.
PeerPunished ==
  \/ report[scenario.subject] = "banned"
  \/ /\ report[scenario.subject] = "down"
     /\ scenario.needsTranscript =>
          TranscriptHasOutbound(scenario.subject, scenario.commands)

\* With an honest peer alone the report decides, of which the client methods look
\* at Connected only.  The IPv6 handshake in another environment, which returns as
\* skipped before it starts a peer, is left out.
Judge ==
  /\ pc = "judge"
  /\ UNCHANGED startAcked
  /\ IF scenario.subject = 0
     THEN IF report[1] = "connected" THEN Return("pass", "peers") ELSE Return("fail", "peers")
     ELSE IF PeerPunished THEN Return("pass", "punished")
     ELSE IF waitErr THEN Return(scenario.unpunished, "tip")
     ELSE Return(scenario.unpunished, "served but not punished")
  /\ UNCHANGED <<scenario, stopSent, waitErr, report, faultSeen, adapterVars, peerVars>>

\* The deferred /stop, whose error is ignored.
StopAdapter ==
  /\ pc = "stopAdapter"
  /\ stopSent' = TRUE
  /\ running' \in {FALSE, running}
  /\ pc' = "stopPeers"
  /\ UNCHANGED <<scenario, startAcked, waitErr, report, verdict, faultSeen, banned, peerVars>>

\* The deferred Stop of every peer that was started, latest first.
StopPeer ==
  /\ pc = "stopPeers"
  /\ \E s \in PeersOf(scenario) :
       /\ \A t \in PeersOf(scenario) : t > s => listener[t] # "open"
       /\ StopServer(s)
  /\ UNCHANGED <<harnessVars, adapterVars>>

Finish ==
  /\ pc = "stopPeers"
  /\ \A s \in Servers : listener[s] # "open"
  /\ pc' = "done"
  /\ UNCHANGED <<scenario, startAcked, stopSent, waitErr, report, verdict, faultSeen,
                 adapterVars, peerVars>>

-----------------------------------------------------------------------------
(* The adapter and its peers. *)

\* A light client dials and talks while the adapter runs it, and may drop a
\* connection at any time; when it is stopped it only drops them.
LightClient(s, c) ==
  /\ running \/ link[s][c] \in {"queued", "open"}
  /\ IF running THEN ClientStep(s, c) ELSE Hangup(s, c)
  /\ UNCHANGED <<harnessVars, adapterVars>>

Ban(s) ==
  /\ running
  /\ ~banned[s]
  /\ \E c \in Conns : link[s][c] # "none"
  /\ banned' = [banned EXCEPT ![s] = TRUE]
  /\ UNCHANGED <<harnessVars, running, peerVars>>

PeerHandler(s, c) == HandlerStep(s, c) /\ UNCHANGED <<harnessVars, adapterVars>>

-----------------------------------------------------------------------------

Init ==
  /\ scenario \in Scenarios
  /\ behavior = [s \in Servers |->
                   IF s \in PeersOf(scenario) THEN scenario.peers[s] ELSE HonestBehavior]
  /\ PeerInit
  /\ pc = "startPeers"
  /\ startAcked = FALSE /\ stopSent = FALSE /\ running = FALSE
  /\ banned = [s \in Servers |-> FALSE]
  /\ waitErr = FALSE
  /\ report = [s \in Servers |-> "none"]
  /\ verdict = NoVerdict
  /\ faultSeen = FALSE

\* What the scenario function does by itself: every call and every wait has a
\* deadline, and ends with an error if with nothing else.
HarnessStep ==
  \/ StartPeer \/ StartPeerFails
  \/ Configure \/ StartAdapter \/ WatchScript
  \/ WaitExpires
  \/ Matches \/ NoMatches \/ BlockHashes
  \/ ListPeers \/ Judge
  \/ StopAdapter \/ StopPeer \/ Finish

Next ==
  \/ HarnessStep
  \/ TipReported \/ HandshakeSeen
  \/ \E s \in Servers : Ban(s)
  \/ \E s \in Servers, c \in Conns : LightClient(s, c) \/ PeerHandler(s, c)

Spec == Init /\ [][Next]_scenarioVars

\* Nothing is assumed of the adapter: it may never report its tip.
FairSpec == Spec /\ WF_scenarioVars(HarnessStep)

-----------------------------------------------------------------------------
(* Properties. *)

ScenarioTypeOK ==
  /\ pc \in {"startPeers", "configure", "startAdapter", "watch", "wait", "matches", "noMatches",
             "methods", "list", "judge", "stopAdapter", "stopPeers", "done"}
  /\ {startAcked, stopSent, running, waitErr, faultSeen} \subseteq BOOLEAN
  /\ report \in [Servers -> {"none", "connected", "down", "banned"}]
  /\ verdict.status \in {"none", "pass", "fail", "error"}
  /\ verdict = NoVerdict <=> pc \notin {"stopAdapter", "stopPeers", "done"}

\* A client that was served an altered response and that the adapter already
\* reported as banned or disconnected passes, in every scenario, however the
\* handlers of the peers interleave: the commands a scenario takes as evidence
\* cover every fault its peer injects, and the transcript cannot lag behind
\* what the client received (record comes before WriteMessage in write).
PunishedAfterFaultPasses ==
  faultSeen /\ report[scenario.subject] \in {"banned", "down"} /\ verdict # NoVerdict
    => verdict.status = "pass"

\* The peers outlive the adapter's run against them: whatever step failed, no
\* peer is stopped while an adapter whose /start succeeded has not been told to
\* stop, and no listener is left open when the scenario returns.
ReleasedInOrder ==
  /\ startAcked /\ (\E s \in Servers : listener[s] = "closed") => stopSent
  /\ pc = "done" => \A s \in Servers : listener[s] # "open"

\* Whatever the adapter does, every scenario function returns.
ScenarioEnds == <>(pc = "done")

\* "The harness treats that as enough evidence for SHOULD-level 'reject or
\* punish' cases only when the peerlab transcript proves the bad BIP157 response
\* was actually served" (docs/adapters.md): a disconnected peer counts as
\* punished only if its transcript holds an altered response.
PassOnlyIfFaultServed ==
  verdict.evidence = "punished" /\ report[scenario.subject] = "down" =>
    \E i \in DOMAIN transcript[scenario.subject] : transcript[scenario.subject][i].alt

=============================================================================
