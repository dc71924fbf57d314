------------------------- MODULE ScenarioRunProofs -------------------------
(***************************************************************************)
(* The safety of every scenario of the harness, whatever its heights are,  *)
(* for every number of connections and requests, and whatever the light    *)
(* client does: a bad response that the client got and that the adapter    *)
(* punished lets the scenario pass, and the peers outlive the adapter.     *)
(***************************************************************************)
EXTENDS ScenarioRun, PeerAnswersProofs

-----------------------------------------------------------------------------
(* What the proofs use of a scenario. *)

Checks == {"none", "list", "matches", "noMatches", "methods"}

\* Its evidence counts every command that its faulty peer may alter.
ScenarioShape(sc) ==
  /\ Len(sc.peers) \in {1, 2}
  /\ sc.subject \in {0, Len(sc.peers)}
  /\ sc.check \in Checks
  /\ sc.tipErr # "error" => sc.check # "none"
  /\ sc.listErr \in {"fail", "error"} /\ sc.unpunished \in {"fail", "error"}
  /\ sc.subject # 0 => FaultCommands(sc.peers[sc.subject]) \subseteq sc.commands

LEMMA SyncShape ==
  ASSUME NEW watch, NEW wait, NEW check \in Checks, NEW b1, NEW b2
  PROVE  /\ ScenarioShape(SyncScenario(<<b1>>, watch, wait, check))
         /\ ScenarioShape(SyncScenario(<<b1, b2>>, watch, wait, check))
BY DEF ScenarioShape, SyncScenario

LEMMA PunishOneShape ==
  ASSUME NEW watch, NEW commands, NEW b, FaultCommands(b) \subseteq commands
  PROVE  LET sc == PunishScenario(<<b>>, watch, commands)
         IN  /\ ScenarioShape(sc)
             /\ ScenarioShape([sc EXCEPT !.unpunished = "error"])
             /\ ScenarioShape([sc EXCEPT !.listErr = "error"])
             /\ ScenarioShape([sc EXCEPT !.check = "noMatches", !.listErr = "error"])
             /\ ScenarioShape([sc EXCEPT !.listErr = "error", !.needsTranscript = FALSE])
BY DEF ScenarioShape, PunishScenario, SyncScenario, Checks

LEMMA PunishSecondShape ==
  ASSUME NEW watch, NEW commands, NEW b1, NEW b2, FaultCommands(b2) \subseteq commands
  PROVE  ScenarioShape(PunishScenario(<<b1, b2>>, watch, commands))
BY DEF ScenarioShape, PunishScenario, SyncScenario, Checks

\* The faults of a peer with one kind of fault.
LEMMA FaultsAlter ==
  ASSUME NEW hs
  PROVE  /\ FaultCommands(Faults("delay", hs)) = {}
         /\ FaultCommands(Faults("headers", hs)) \subseteq {"headers"}
         /\ FaultCommands(Faults("cfHeaders", hs)) \subseteq {"cfheaders"}
         /\ FaultCommands(Faults("prevHeader", hs)) \subseteq {"cfheaders"}
         /\ FaultCommands(Faults("emptyCF", hs)) \subseteq {"cfheaders"}
         /\ FaultCommands(Faults("cfCheckpts", hs)) \subseteq {"cfcheckpt"}
         /\ FaultCommands(Faults("cFilters", hs)) \subseteq {"cfilter"}
         /\ FaultCommands(Faults("blockHash", hs)) \subseteq {"cfilter"}
         /\ FaultCommands(Faults("blocks", hs)) \subseteq {"block"}
         /\ FaultCommands(Faults("wrongType", hs)) \subseteq hs
<1>1. FaultCommands(Faults("delay", hs)) = {}
  BY DEF Faults, FaultCommands, HonestBehavior
<1>2. FaultCommands(Faults("headers", hs)) \subseteq {"headers"}
  BY DEF Faults, FaultCommands, HonestBehavior
<1>3. FaultCommands(Faults("cfHeaders", hs)) \subseteq {"cfheaders"}
  BY DEF Faults, FaultCommands, HonestBehavior
<1>4. FaultCommands(Faults("prevHeader", hs)) \subseteq {"cfheaders"}
  BY DEF Faults, FaultCommands, HonestBehavior
<1>5. FaultCommands(Faults("emptyCF", hs)) \subseteq {"cfheaders"}
  BY DEF Faults, FaultCommands, HonestBehavior
<1>6. FaultCommands(Faults("cfCheckpts", hs)) \subseteq {"cfcheckpt"}
  BY DEF Faults, FaultCommands, HonestBehavior
<1>7. FaultCommands(Faults("cFilters", hs)) \subseteq {"cfilter"}
  BY DEF Faults, FaultCommands, HonestBehavior
<1>8. FaultCommands(Faults("blockHash", hs)) \subseteq {"cfilter"}
  BY DEF Faults, FaultCommands, HonestBehavior
<1>9. FaultCommands(Faults("blocks", hs)) \subseteq {"block"}
  BY DEF Faults, FaultCommands, HonestBehavior
<1>10. FaultCommands(Faults("wrongType", hs)) \subseteq hs
  BY DEF Faults, FaultCommands, HonestBehavior
<1> QED
  BY <1>1, <1>2, <1>3, <1>4, <1>5, <1>6, <1>7, <1>8, <1>9, <1>10

\* Every scenario of the harness has this shape.
LEMMA HarnessShape ==
  ASSUME NEW sc \in HarnessScenarios
  PROVE  ScenarioShape(sc)
<1> DEFINE
  AtCheckpts == {BadCFCheckptWithCorruption(corrupt) : corrupt \in SUBSET Heights}
  AtPrev     == {BadPrevFilterHeaderWithSpecs(corrupt) : corrupt \in SUBSET Heights}
  InConflict == {FilterHeaderConflictAtHeight(height) : height \in Heights}
  AtCFilter  == {BadCFilterAtHeight(height) : height \in Heights}
<1>1. Checks = {"none", "list", "matches", "noMatches", "methods"}
  BY DEF Checks
<1>2. CASE sc \in {HonestAdapter, IPv6PeerHandshake, ClientMethods, MultiPeerInitialSync, LongChain}
  BY <1>1, <1>2, SyncShape
     DEF HonestAdapter, IPv6PeerHandshake, ClientMethods, MultiPeerInitialSync, LongChain
<1>3. CASE sc \in {CFHeadersBoundary, LargeBatchProgress, FilterHeaderOutage, BlockDownloadOutage}
  BY <1>1, <1>3, SyncShape
     DEF CFHeadersBoundary, LargeBatchProgress, FilterHeaderOutage, BlockDownloadOutage
<1>4. CASE sc = ScrambledHeaders
  BY <1>4, PunishOneShape, FaultsAlter DEF ScrambledHeaders
<1>5. CASE sc = EmptyCFHeaders
  BY <1>5, PunishOneShape, FaultsAlter DEF EmptyCFHeaders
<1>6. CASE sc = WrongFilterType
  <2> DEFINE b == Faults("wrongType", {"cfilter", "cfheaders"})
  <2>1. FaultCommands(b) \subseteq {"cfheaders", "cfilter"}
    BY FaultsAlter
  <2> HIDE DEF b
  <2>2. ScenarioShape([PunishScenario(<<b>>, TRUE, {"cfheaders", "cfilter"}) EXCEPT !.unpunished = "error"])
    BY <2>1, PunishOneShape
  <2> QED
    BY <1>6, <2>2 DEF WrongFilterType, b
<1>7. CASE sc = WrongCFilterBlockHash
  <2> DEFINE b == Faults("blockHash", {2})
  <2>1. FaultCommands(b) \subseteq {"cfilter"}
    BY FaultsAlter
  <2> HIDE DEF b
  <2>2. ScenarioShape([PunishScenario(<<b>>, TRUE, {"cfilter"}) EXCEPT !.listErr = "error"])
    BY <2>1, PunishOneShape
  <2> QED
    BY <1>7, <2>2 DEF WrongCFilterBlockHash, b
<1>8. CASE sc = InvalidDownloadedBlock
  <2> DEFINE b == Faults("blocks", {1})
  <2>1. FaultCommands(b) \subseteq {"block"}
    BY FaultsAlter
  <2> HIDE DEF b
  <2>2. ScenarioShape([PunishScenario(<<b>>, TRUE, {"block"})
                         EXCEPT !.check = "noMatches", !.listErr = "error"])
    BY <2>1, PunishOneShape
  <2> QED
    BY <1>8, <2>2 DEF InvalidDownloadedBlock, b
<1>9. CASE sc = UnresponsivePeer
  <2> DEFINE b == Faults("delay", {"headers"})
  <2>1. FaultCommands(b) \subseteq {}
    BY FaultsAlter
  <2> HIDE DEF b
  <2>2. ScenarioShape([PunishScenario(<<b>>, FALSE, {})
                         EXCEPT !.listErr = "error", !.needsTranscript = FALSE])
    BY <2>1, PunishOneShape
  <2> QED
    BY <1>9, <2>2 DEF UnresponsivePeer, b
<1>10. ASSUME NEW height \in Heights, sc = FilterHeaderConflictAtHeight(height)
       PROVE  ScenarioShape(sc)
  BY <1>10, PunishSecondShape, FaultsAlter DEF FilterHeaderConflictAtHeight
<1>11. ASSUME NEW height \in Heights, sc = BadCFilterAtHeight(height)
       PROVE  ScenarioShape(sc)
  BY <1>11, PunishOneShape, FaultsAlter DEF BadCFilterAtHeight
<1>12. ASSUME NEW corrupt \in SUBSET Heights, sc = BadCFCheckptWithCorruption(corrupt)
       PROVE  ScenarioShape(sc)
  BY <1>12, PunishOneShape, FaultsAlter DEF BadCFCheckptWithCorruption
<1>13. ASSUME NEW corrupt \in SUBSET Heights, sc = BadPrevFilterHeaderWithSpecs(corrupt)
       PROVE  ScenarioShape(sc)
  BY <1>13, PunishOneShape, FaultsAlter DEF BadPrevFilterHeaderWithSpecs
<1>14. CASE sc \in AtCheckpts
  BY <1>12, <1>14, Zenon
<1>15. CASE sc \in AtPrev
  BY <1>13, <1>15, Zenon
<1>16. CASE sc \in InConflict
  BY <1>10, <1>16, Zenon
<1>17. CASE sc \in AtCFilter
  BY <1>11, <1>17, Zenon
<1>18. CASE sc \notin AtCheckpts \cup AtPrev \cup InConflict \cup AtCFilter
  <2>1. sc \in { HonestAdapter, IPv6PeerHandshake, ClientMethods, MultiPeerInitialSync, LongChain,
                 CFHeadersBoundary, LargeBatchProgress, FilterHeaderOutage, BlockDownloadOutage,
                 ScrambledHeaders, EmptyCFHeaders, WrongFilterType, WrongCFilterBlockHash,
                 InvalidDownloadedBlock, UnresponsivePeer }
    BY <1>18 DEF HarnessScenarios
  <2>2. \/ sc \in {HonestAdapter, IPv6PeerHandshake, ClientMethods, MultiPeerInitialSync, LongChain}
        \/ sc \in {CFHeadersBoundary, LargeBatchProgress, FilterHeaderOutage, BlockDownloadOutage}
        \/ sc = ScrambledHeaders \/ sc = EmptyCFHeaders \/ sc = WrongFilterType
        \/ sc = WrongCFilterBlockHash \/ sc = InvalidDownloadedBlock \/ sc = UnresponsivePeer
    BY <2>1
  <2> QED
    BY <2>2, <1>2, <1>3, <1>4, <1>5, <1>6, <1>7, <1>8, <1>9
<1> HIDE DEF AtCheckpts, AtPrev, InConflict, AtCFilter
<1> QED
  BY <1>14, <1>15, <1>16, <1>17, <1>18

-----------------------------------------------------------------------------
(* The inductive invariant. *)

Returned == pc \in {"stopAdapter", "stopPeers", "done"}

\* Listeners close last, and only after the /stop of an adapter that was started.
ReleaseInv ==
  /\ startAcked => pc \notin {"startPeers", "configure", "startAdapter"}
  /\ (\E s \in Servers : listener[s] = "closed") => pc \in {"stopPeers", "done"}
  /\ pc \in {"stopPeers", "done"} /\ startAcked => stopSent
  /\ pc = "done" => \A s \in Servers : listener[s] # "open"

\* A bad response that the client had when /list-peers was answered is in the
\* transcript, under a command that the scenario takes as evidence.
FaultInv ==
  faultSeen =>
    /\ pc = "judge" \/ Returned
    /\ scenario.subject # 0
    /\ TranscriptHasOutbound(scenario.subject, scenario.commands)

\* The peers run with the behavior of the scenario.
SubjectInv ==
  /\ scenario \in Scenarios
  /\ scenario.subject # 0 => behavior[scenario.subject] = scenario.peers[scenario.subject]

ScenarioInv ==
  /\ PeerInv
  /\ ScenarioTypeOK
  /\ SubjectInv
  /\ ReleaseInv
  /\ FaultInv
  /\ PunishedAfterFaultPasses

LEMMA ShapeOfScenario ==
  ASSUME SubjectInv
  PROVE  ScenarioShape(scenario)
BY HarnessShape, ScenarioAssumption DEF SubjectInv

LEMMA PeersAreServers ==
  ASSUME SubjectInv
  PROVE  /\ PeersOf(scenario) \subseteq Servers
         /\ scenario.subject # 0 => scenario.subject \in Servers
<1>1. /\ Len(scenario.peers) \in {1, 2}
      /\ scenario.subject \in {0, Len(scenario.peers)}
  BY ShapeOfScenario DEF ScenarioShape
<1>2. Servers = {1, 2}
  BY ScenarioAssumption
<1>3. PeersOf(scenario) = 1 .. 1 \/ PeersOf(scenario) = 1 .. 2
  BY <1>1 DEF PeersOf
<1>4. scenario.subject \in {0, 1, 2}
  BY <1>1
<1> QED
  BY <1>2, <1>3, <1>4

-----------------------------------------------------------------------------
(* How a step of the scenario is one of the peers. *)

\* The harness and the light client reach the peers through their operations only.
LEMMA StepsOfPeers ==
  ASSUME ScenarioInv, [Next]_scenarioVars
  PROVE  [PeerNext]_peerVars /\ behavior' = behavior
<1>1. PeersOf(scenario) \subseteq Servers
  BY PeersAreServers DEF ScenarioInv
<1>2. UNCHANGED peerVars => [PeerNext]_peerVars /\ behavior' = behavior
  BY DEF peerVars
<1>3. ASSUME NEW s \in Servers, StartServer(s) \/ StopServer(s)
      PROVE  [PeerNext]_peerVars /\ behavior' = behavior
  <2>1. PeerNext
    BY <1>3 DEF PeerNext
  <2> QED
    BY <1>3, <2>1 DEF StartServer, StopServer
<1>4. ASSUME NEW s \in Servers, NEW c \in Conns, ClientStep(s, c) \/ HandlerStep(s, c)
      PROVE  [PeerNext]_peerVars /\ behavior' = behavior
  <2>1. PeerNext
    BY <1>4 DEF PeerNext
  <2>2. ClientStep(s, c) => behavior' = behavior
    BY DEF ClientStep, Dial, Send, Hangup
  <2>3. HandlerStep(s, c) => behavior' = behavior
    BY DEF HandlerStep, Accept, Read, ReadEOF, TakeDelay, Wake, RecordReply, WriteReply, WriteFails
  <2> QED
    BY <1>4, <2>1, <2>2, <2>3
<1>5. CASE StartPeer \/ StopPeer
  BY <1>1, <1>3, <1>5 DEF StartPeer, StopPeer
<1>6. CASE StartPeerFails \/ Configure \/ StartAdapter \/ WatchScript \/ WaitExpires \/ Matches
  BY <1>2, <1>6 DEF StartPeerFails, Configure, StartAdapter, WatchScript, WaitExpires, Matches
<1>7. CASE NoMatches \/ BlockHashes \/ ListPeers \/ Judge \/ StopAdapter \/ Finish
  BY <1>2, <1>7 DEF NoMatches, BlockHashes, ListPeers, Judge, StopAdapter, Finish
<1>8. CASE TipReported \/ HandshakeSeen \/ \E s \in Servers : Ban(s)
  BY <1>2, <1>8 DEF TipReported, HandshakeSeen, Ban
<1>9. ASSUME NEW s \in Servers, NEW c \in Conns, LightClient(s, c) \/ PeerHandler(s, c)
      PROVE  [PeerNext]_peerVars /\ behavior' = behavior
  BY <1>4, <1>9 DEF LightClient, PeerHandler, ClientStep
<1>10. CASE UNCHANGED scenarioVars
  BY <1>2, <1>10 DEF scenarioVars
<1> QED
  BY <1>5, <1>6, <1>7, <1>8, <1>9, <1>10 DEF Next, HarnessStep

\* What only the harness changes stays as it is when the peers or the light
\* client take a step, and so does what the invariant says of it.
LEMMA ListenersHeld ==
  ASSUME NEW s \in Servers, NEW c \in Conns, LightClient(s, c) \/ PeerHandler(s, c)
  PROVE  listener' = listener
BY DEF LightClient, PeerHandler, ClientStep, HandlerStep, Dial, Send, Hangup, Accept, Read, ReadEOF,
       TakeDelay, Wake, RecordReply, WriteReply, WriteFails, serverVars

\* The evidence of a scenario stays in the transcript.
LEMMA EvidenceStays ==
  ASSUME ScenarioInv, Grows, scenario' = scenario, scenario.subject # 0,
         TranscriptHasOutbound(scenario.subject, scenario.commands)
  PROVE  TranscriptHasOutbound(scenario.subject, scenario.commands)'
<1> DEFINE s == scenario.subject
<1>0. s \in Servers
  BY PeersAreServers DEF ScenarioInv
<1>1. transcript[s] \in Seq(EntryType) /\ transcript'[s] \in Seq(EntryType)
  BY <1>0 DEF ScenarioInv, PeerInv, PeerTypeOK, Grows
<1>2. PICK i \in DOMAIN transcript[s] :
        transcript[s][i].dir = "out" /\ transcript[s][i].cmd \in scenario.commands
  BY DEF TranscriptHasOutbound
<1>3. i \in 1 .. Len(transcript[s])
  BY <1>1, <1>2
<1>4. transcript'[s][i] = transcript[s][i]
  BY <1>0, <1>3 DEF Grows
<1>5. i \in DOMAIN transcript'[s]
  <2>1. Len(transcript[s]) <= Len(transcript'[s])
    BY <1>0 DEF Grows
  <2>2. Len(transcript[s]) \in Nat /\ Len(transcript'[s]) \in Nat
    BY <1>1
  <2> QED
    BY <1>1, <1>3, <2>1, <2>2
<1> QED
  BY <1>2, <1>4, <1>5 DEF TranscriptHasOutbound

\* A bad response that reached the client is in the transcript of its peer.
LEMMA FaultIsRecorded ==
  ASSUME ScenarioInv, scenario.subject # 0,
         NEW c \in Conns, NEW k \in DOMAIN got[scenario.subject][c],
         got[scenario.subject][c][k].alt
  PROVE  TranscriptHasOutbound(scenario.subject, scenario.commands)
<1> DEFINE s == scenario.subject
<1>1. s \in Servers
  BY PeersAreServers DEF ScenarioInv
<1>2. PICK i \in OutAt(s, c) : transcript[s][i].alt = got[s][c][k].alt
  BY <1>1, InvDelivers DEF ScenarioInv, DeliveredIsRecorded
<1>3. i \in DOMAIN transcript[s] /\ transcript[s][i].alt
  BY <1>2 DEF OutAt
<1>4. i \in 1 .. Len(transcript[s])
  <2>1. transcript[s] \in Seq(EntryType)
    BY <1>1 DEF ScenarioInv, PeerInv, PeerTypeOK
  <2> QED
    BY <1>3, <2>1
<1>5. transcript[s][i].dir = "out" /\ transcript[s][i].cmd \in FaultCommands(behavior[s])
  BY <1>1, <1>3, <1>4 DEF ScenarioInv, PeerInv, AlteredInv
<1>6. FaultCommands(behavior[s]) \subseteq scenario.commands
  <2>1. behavior[s] = scenario.peers[s]
    BY DEF ScenarioInv, SubjectInv
  <2>2. FaultCommands(scenario.peers[s]) \subseteq scenario.commands
    BY ShapeOfScenario DEF ScenarioInv, ScenarioShape
  <2> QED
    BY <2>1, <2>2
<1> QED
  BY <1>3, <1>5, <1>6 DEF TranscriptHasOutbound

-----------------------------------------------------------------------------
(* The steps keep the control of the scenario. *)

\* The scenario function has not judged the peers yet: no fault is recorded.
LEMMA NothingSeen ==
  ASSUME ScenarioInv, pc # "judge", ~ Returned
  PROVE  ~ faultSeen
BY DEF ScenarioInv, FaultInv

\* A step that ends the scenario, or goes on to a later statement, with the
\* peers as they were.
Advances ==
  /\ UNCHANGED <<scenario, listener>>
  /\ {startAcked', stopSent', running', waitErr', faultSeen'} \subseteq BOOLEAN
  /\ report' \in [Servers -> {"none", "connected", "down", "banned"}]
  /\ stopSent => stopSent'
  /\ \/ /\ verdict' = verdict
        /\ pc' \in {"configure", "startAdapter", "watch", "wait", "judge"} \cup (Checks \ {"none"})
        /\ pc' \in {"configure", "startAdapter"} => ~ startAcked'
     \/ /\ verdict'.status \in {"pass", "fail", "error"}
        /\ pc' = IF startAcked' THEN "stopAdapter" ELSE "stopPeers"

LEMMA AdvanceKeeps ==
  ASSUME ScenarioInv, ~ Returned, Advances
  PROVE  ScenarioTypeOK' /\ ReleaseInv'
<1>1. ScenarioTypeOK'
  BY DEF ScenarioInv, ScenarioTypeOK, Returned, Advances, Checks, NoVerdict
<1>2. ReleaseInv'
  BY DEF ScenarioInv, ReleaseInv, Returned, Advances, Checks
<1> QED
  BY <1>1, <1>2

\* Where the scenario has got to before it returns, an error included.
LEMMA CallsAdvance ==
  ASSUME ScenarioInv,
         \/ StartPeerFails \/ Configure \/ StartAdapter \/ WatchScript
         \/ Matches \/ NoMatches \/ BlockHashes
  PROVE  ~ Returned /\ Advances /\ faultSeen' = faultSeen /\ pc # "judge"
<1>1. ScenarioTypeOK /\ ReleaseInv
  BY DEF ScenarioInv
<1>2. CASE StartPeerFails
  BY <1>1, <1>2 DEF StartPeerFails, Return, Advances, Returned, ScenarioTypeOK, ReleaseInv,
                    adapterVars, peerVars, serverVars
<1>3. CASE Configure
  BY <1>1, <1>3 DEF Configure, Return, Advances, Returned, ScenarioTypeOK, ReleaseInv,
                    adapterVars, peerVars, serverVars
<1>4. CASE StartAdapter
  <2>1. UNCHANGED <<scenario, listener, stopSent, waitErr, report, faultSeen>> /\ pc = "startAdapter"
    BY <1>4 DEF StartAdapter, peerVars, serverVars
  <2>2. startAcked' \in BOOLEAN /\ running' \in BOOLEAN
    BY <1>1, <1>4 DEF StartAdapter, ScenarioTypeOK
  <2>3. \/ verdict' = verdict /\ pc' \in {"watch", "wait"}
        \/ /\ verdict'.status = "error"
           /\ pc' = IF startAcked' THEN "stopAdapter" ELSE "stopPeers"
    BY <1>4 DEF StartAdapter, Return
  <2> QED
    BY <1>1, <2>1, <2>2, <2>3 DEF Advances, Returned, ScenarioTypeOK
<1>5. CASE WatchScript
  BY <1>1, <1>5 DEF WatchScript, Return, Advances, Returned, ScenarioTypeOK, ReleaseInv,
                    adapterVars, peerVars, serverVars
<1>6. CASE Matches
  BY <1>1, <1>6 DEF Matches, Return, Advances, Returned, ScenarioTypeOK, ReleaseInv,
                    adapterVars, peerVars, serverVars
<1>7. CASE NoMatches
  BY <1>1, <1>7 DEF NoMatches, Return, Advances, Returned, ScenarioTypeOK, ReleaseInv, Checks,
                    adapterVars, peerVars, serverVars
<1>8. CASE BlockHashes
  BY <1>1, <1>8 DEF BlockHashes, Return, Advances, Returned, ScenarioTypeOK, ReleaseInv, Checks,
                    adapterVars, peerVars, serverVars
<1> QED
  BY <1>2, <1>3, <1>4, <1>5, <1>6, <1>7, <1>8

LEMMA WaitsAdvance ==
  ASSUME ScenarioInv, TipReported \/ HandshakeSeen \/ WaitExpires
  PROVE  ~ Returned /\ Advances /\ faultSeen' = faultSeen /\ pc # "judge"
<1>1. ScenarioTypeOK /\ ReleaseInv
  BY DEF ScenarioInv
<1>2. scenario.check \in Checks /\ (scenario.tipErr # "error" => scenario.check # "none")
  BY ShapeOfScenario DEF ScenarioInv, ScenarioShape
<1>3. CASE TipReported
  <2>1. UNCHANGED <<scenario, listener, startAcked, stopSent, running, waitErr, report, faultSeen>>
        /\ pc = "wait"
    BY <1>3 DEF TipReported, adapterVars, peerVars, serverVars
  <2>2. \/ verdict' = verdict /\ pc' \in Checks \ {"none"}
        \/ /\ verdict'.status = "pass"
           /\ pc' = IF startAcked' THEN "stopAdapter" ELSE "stopPeers"
    BY <1>2, <1>3 DEF TipReported, AfterWait, Return
  <2> QED
    BY <1>1, <2>1, <2>2 DEF Advances, Returned, ScenarioTypeOK, Checks
<1>4. CASE HandshakeSeen
  <2>1. UNCHANGED <<scenario, listener, startAcked, stopSent, running, waitErr, report, faultSeen>>
        /\ pc = "wait"
    BY <1>4 DEF HandshakeSeen, adapterVars, peerVars, serverVars
  <2>2. \/ verdict' = verdict /\ pc' \in Checks \ {"none"}
        \/ /\ verdict'.status = "pass"
           /\ pc' = IF startAcked' THEN "stopAdapter" ELSE "stopPeers"
    BY <1>2, <1>4 DEF HandshakeSeen, AfterWait, Return
  <2> QED
    BY <1>1, <2>1, <2>2 DEF Advances, Returned, ScenarioTypeOK, Checks
<1>5. CASE WaitExpires
  <2>1. UNCHANGED <<scenario, listener, startAcked, stopSent, running, report, faultSeen>>
        /\ pc = "wait" /\ waitErr' \in BOOLEAN
    BY <1>1, <1>5 DEF WaitExpires, ScenarioTypeOK, adapterVars, peerVars, serverVars
  <2>2. \/ verdict' = verdict /\ pc' \in Checks \ {"none"}
        \/ /\ verdict'.status = "error"
           /\ pc' = IF startAcked' THEN "stopAdapter" ELSE "stopPeers"
    BY <1>2, <1>5 DEF WaitExpires, Return
  <2> QED
    BY <1>1, <2>1, <2>2 DEF Advances, Returned, ScenarioTypeOK, Checks
<1> QED
  BY <1>3, <1>4, <1>5

LEMMA JudgeAdvances ==
  ASSUME ScenarioInv, Judge
  PROVE  ~ Returned /\ Advances /\ faultSeen' = faultSeen
<1>1. ScenarioTypeOK /\ ReleaseInv
  BY DEF ScenarioInv
<1>2. scenario.unpunished \in {"fail", "error"}
  BY ShapeOfScenario DEF ScenarioInv, ScenarioShape
<1>3. UNCHANGED <<scenario, listener, startAcked, stopSent, running, waitErr, report, faultSeen>>
      /\ pc = "judge"
  BY DEF Judge, adapterVars, peerVars, serverVars
<1>4. /\ verdict'.status \in {"pass", "fail", "error"}
      /\ pc' = IF startAcked' THEN "stopAdapter" ELSE "stopPeers"
  <2>1. PICK status \in {"pass", "fail", "error"},
             evidence \in {"peers", "punished", "tip", "served but not punished"} :
          Return(status, evidence)
    BY <1>2 DEF Judge
  <2> QED
    BY <2>1 DEF Return
<1> QED
  BY <1>1, <1>3, <1>4 DEF Advances, Returned, ScenarioTypeOK

LEMMA ListAdvances ==
  ASSUME ScenarioInv, ListPeers
  PROVE  ~ Returned /\ Advances
<1>1. ScenarioTypeOK /\ ReleaseInv
  BY DEF ScenarioInv
<1>2. scenario.listErr \in {"fail", "error"}
  BY ShapeOfScenario DEF ScenarioInv, ScenarioShape
<1>3. report' \in [Servers -> {"none", "connected", "down", "banned"}]
  BY <1>1 DEF ListPeers, PeerState, ScenarioTypeOK
<1>4. faultSeen' \in BOOLEAN
  BY <1>1 DEF ListPeers, ScenarioTypeOK
<1> QED
  BY <1>1, <1>2, <1>3, <1>4 DEF ListPeers, Return, Advances, Returned, ScenarioTypeOK,
                    adapterVars, peerVars, serverVars

\* What the scenario remembers of the fault and of the punishment.
FaultKept == FaultInv' /\ PunishedAfterFaultPasses'

\* Nothing was seen before, and nothing is seen now.
LEMMA NoFaultKept ==
  ASSUME ~ faultSeen'
  PROVE  FaultKept
BY DEF FaultKept, FaultInv, PunishedAfterFaultPasses

\* The reports and the verdict stand, and the scenario does not go back.
LEMMA FaultStands ==
  ASSUME ScenarioInv, Grows, UNCHANGED <<scenario, report, verdict, faultSeen>>,
         pc' = pc \/ Returned'
  PROVE  FaultKept
<1>1. CASE ~ faultSeen'
  BY <1>1, NoFaultKept
<1>2. CASE faultSeen'
  <2>1. /\ pc = "judge" \/ Returned
        /\ scenario.subject # 0
        /\ TranscriptHasOutbound(scenario.subject, scenario.commands)
    BY <1>2 DEF ScenarioInv, FaultInv
  <2>2. TranscriptHasOutbound(scenario.subject, scenario.commands)'
    BY <2>1, EvidenceStays
  <2>3. FaultInv'
    BY <2>1, <2>2 DEF FaultInv, Returned
  <2>4. PunishedAfterFaultPasses'
    BY DEF ScenarioInv, PunishedAfterFaultPasses, NoVerdict
  <2> QED
    BY <2>3, <2>4 DEF FaultKept
<1> QED
  BY <1>1, <1>2

\* The adapter's report is taken together with what its client had got.
LEMMA ListFaults ==
  ASSUME ScenarioInv, ListPeers
  PROVE  FaultKept
<1>1. pc = "list" /\ verdict = NoVerdict /\ ~ faultSeen
  BY NothingSeen DEF ListPeers, Returned, ScenarioInv, ScenarioTypeOK
<1>2. CASE ~ faultSeen'
  BY <1>2, NoFaultKept
<1>3. CASE faultSeen'
  <2>1. /\ scenario.subject # 0
        /\ \E c \in Conns : \E i \in DOMAIN got[scenario.subject][c] :
             got[scenario.subject][c][i].alt
        /\ pc' = "judge" /\ verdict' = verdict
    BY <1>1, <1>3 DEF ListPeers
  <2>2. TranscriptHasOutbound(scenario.subject, scenario.commands)
    BY <2>1, FaultIsRecorded
  <2>3. TranscriptHasOutbound(scenario.subject, scenario.commands)'
    BY <2>2 DEF ListPeers, TranscriptHasOutbound, peerVars, serverVars
  <2>4. scenario' = scenario
    BY DEF ListPeers
  <2>5. FaultInv'
    BY <2>1, <2>3, <2>4 DEF FaultInv
  <2>6. PunishedAfterFaultPasses'
    BY <1>1, <2>1 DEF PunishedAfterFaultPasses, NoVerdict
  <2> QED
    BY <2>5, <2>6 DEF FaultKept
<1> QED
  BY <1>2, <1>3

\* A fault in the transcript and a punished peer are a pass.
LEMMA JudgeFaults ==
  ASSUME ScenarioInv, Judge
  PROVE  FaultKept
<1>1. CASE ~ faultSeen'
  BY <1>1, NoFaultKept
<1>2. CASE faultSeen'
  <2>1. /\ UNCHANGED <<scenario, report, faultSeen>>
        /\ transcript' = transcript
    BY DEF Judge, peerVars, serverVars
  <2>2. /\ scenario.subject # 0
        /\ TranscriptHasOutbound(scenario.subject, scenario.commands)
    BY <1>2, <2>1 DEF ScenarioInv, FaultInv
  <2>3. Returned'
    BY DEF Judge, Return, Returned
  <2>4. FaultInv'
    BY <2>1, <2>2, <2>3 DEF FaultInv, TranscriptHasOutbound
  <2>5. ASSUME report[scenario.subject] \in {"banned", "down"}
        PROVE  verdict'.status = "pass"
    <3>1. PeerPunished
      BY <2>2, <2>5 DEF PeerPunished
    <3>2. Return("pass", "punished")
      BY <2>2, <3>1 DEF Judge
    <3> QED
      BY <3>2 DEF Return
  <2>6. PunishedAfterFaultPasses'
    BY <2>1, <2>5 DEF PunishedAfterFaultPasses
  <2> QED
    BY <2>4, <2>6 DEF FaultKept
<1> QED
  BY <1>1, <1>2

-----------------------------------------------------------------------------
(* The steps that touch listeners, and those of the light client. *)

LEMMA StartPeerKeeps ==
  ASSUME ScenarioInv, StartPeer
  PROVE  ScenarioTypeOK' /\ ReleaseInv' /\ FaultKept
<1>1. ScenarioTypeOK /\ ReleaseInv /\ pc = "startPeers"
  BY DEF ScenarioInv, StartPeer
<1>2. PICK s \in Servers : StartServer(s) /\ pc' \in {"startPeers", "configure"}
  BY PeersAreServers DEF ScenarioInv, StartPeer
<1>3. UNCHANGED <<scenario, startAcked, stopSent, waitErr, report, verdict, faultSeen, running, banned>>
  BY DEF StartPeer, adapterVars
<1>4. ScenarioTypeOK'
  BY <1>1, <1>2, <1>3 DEF ScenarioTypeOK
<1>5. \A t \in Servers : listener'[t] = "closed" => listener[t] = "closed"
  BY <1>2 DEF StartServer, ScenarioInv, PeerInv, PeerTypeOK
<1>6. ReleaseInv'
  BY <1>1, <1>2, <1>3, <1>5 DEF ReleaseInv
<1>7. FaultKept
  BY <1>1, <1>3, NothingSeen, NoFaultKept DEF Returned
<1> QED
  BY <1>4, <1>6, <1>7

LEMMA StoppingKeeps ==
  ASSUME ScenarioInv, Grows, StopAdapter \/ StopPeer \/ Finish
  PROVE  ScenarioTypeOK' /\ ReleaseInv' /\ FaultKept
<1>1. ScenarioTypeOK /\ ReleaseInv
  BY DEF ScenarioInv
<1>2. CASE StopAdapter
  <2>1. ScenarioTypeOK'
    BY <1>1, <1>2 DEF StopAdapter, ScenarioTypeOK
  <2>2. ReleaseInv'
    BY <1>1, <1>2 DEF StopAdapter, ReleaseInv, peerVars, serverVars
  <2>3. FaultKept
    BY <1>2, FaultStands DEF StopAdapter, Returned
  <2> QED
    BY <2>1, <2>2, <2>3
<1>3. CASE StopPeer
  <2>1. PICK s \in Servers : StopServer(s) /\ pc = "stopPeers"
    BY <1>3, PeersAreServers DEF ScenarioInv, StopPeer
  <2>2. UNCHANGED <<harnessVars, adapterVars>>
    BY <1>3 DEF StopPeer
  <2>3. ScenarioTypeOK'
    BY <1>1, <2>2 DEF ScenarioTypeOK, harnessVars, adapterVars
  <2>4. ReleaseInv'
    BY <1>1, <2>1, <2>2 DEF ReleaseInv, harnessVars
  <2>5. FaultKept
    BY <2>2, FaultStands DEF harnessVars
  <2> QED
    BY <2>3, <2>4, <2>5
<1>4. CASE Finish
  <2>1. ScenarioTypeOK'
    BY <1>1, <1>4 DEF Finish, ScenarioTypeOK, adapterVars
  <2>2. ReleaseInv'
    BY <1>1, <1>4 DEF Finish, ReleaseInv, peerVars, serverVars
  <2>3. FaultKept
    BY <1>4, FaultStands DEF Finish, Returned
  <2> QED
    BY <2>1, <2>2, <2>3
<1> QED
  BY <1>2, <1>3, <1>4

LEMMA OthersKeep ==
  ASSUME ScenarioInv, Grows, UNCHANGED harnessVars, UNCHANGED listener, running' \in BOOLEAN
  PROVE  ScenarioTypeOK' /\ ReleaseInv' /\ FaultKept
<1>1. ScenarioTypeOK /\ ReleaseInv
  BY DEF ScenarioInv
<1>2. ScenarioTypeOK'
  BY <1>1 DEF ScenarioTypeOK, harnessVars
<1>3. ReleaseInv'
  BY <1>1 DEF ReleaseInv, harnessVars
<1>4. FaultKept
  BY FaultStands DEF harnessVars
<1> QED
  BY <1>2, <1>3, <1>4

-----------------------------------------------------------------------------
(* The invariant, and what it says. *)

LEMMA ScenarioInitInv == Init => ScenarioInv
<1> SUFFICES ASSUME Init PROVE ScenarioInv
  OBVIOUS
<1>1. PeerInv
  BY PeerInitInv DEF Init
<1>2. ScenarioTypeOK
  BY DEF Init, ScenarioTypeOK, NoVerdict
<1>3. SubjectInv
  <2>1. scenario \in Scenarios
    BY DEF Init
  <2>2. ASSUME scenario.subject # 0
        PROVE  behavior[scenario.subject] = scenario.peers[scenario.subject]
    <3>1. ScenarioShape(scenario)
      BY <2>1, HarnessShape, ScenarioAssumption
    <3>2. Len(scenario.peers) \in {1, 2} /\ scenario.subject = Len(scenario.peers)
      BY <2>2, <3>1 DEF ScenarioShape
    <3>3. scenario.subject \in Servers
      <4>1. Servers = {1, 2}
        BY ScenarioAssumption
      <4> QED
        BY <3>2, <4>1
    <3>4. scenario.subject \in PeersOf(scenario)
      BY <3>2 DEF PeersOf
    <3>5. behavior = [s \in Servers |->
                        IF s \in PeersOf(scenario) THEN scenario.peers[s] ELSE HonestBehavior]
      BY DEF Init
    <3> QED
      BY <3>3, <3>4, <3>5
  <2> QED
    BY <2>1, <2>2 DEF SubjectInv
<1>4. ReleaseInv
  BY DEF Init, PeerInit, ReleaseInv
<1>5. FaultInv /\ PunishedAfterFaultPasses
  BY DEF Init, FaultInv, PunishedAfterFaultPasses
<1> QED
  BY <1>1, <1>2, <1>3, <1>4, <1>5 DEF ScenarioInv

LEMMA ScenarioStep == ScenarioInv /\ [Next]_scenarioVars => ScenarioInv'
<1> SUFFICES ASSUME ScenarioInv, [Next]_scenarioVars PROVE ScenarioInv'
  OBVIOUS
<1>1. PeerInv' /\ Grows /\ behavior' = behavior
  BY StepsOfPeers, PeerStep, PeerGrows DEF ScenarioInv
<1>2. scenario' = scenario
  BY DEF Next, HarnessStep, scenarioVars, harnessVars, StartPeer, StartPeerFails, Configure,
         StartAdapter, WatchScript, WaitExpires, Matches, NoMatches, BlockHashes, ListPeers, Judge,
         StopAdapter, StopPeer, Finish, TipReported, HandshakeSeen, Ban, LightClient, PeerHandler
<1>3. SubjectInv'
  BY <1>1, <1>2 DEF ScenarioInv, SubjectInv
<1>4. CASE \/ StartPeerFails \/ Configure \/ StartAdapter \/ WatchScript
           \/ Matches \/ NoMatches \/ BlockHashes
           \/ TipReported \/ HandshakeSeen \/ WaitExpires
  <2>1. ~ Returned /\ Advances /\ faultSeen' = faultSeen /\ pc # "judge"
    BY <1>4, CallsAdvance, WaitsAdvance
  <2>2. ScenarioTypeOK' /\ ReleaseInv'
    BY <2>1, AdvanceKeeps
  <2>3. FaultKept
    BY <2>1, NothingSeen, NoFaultKept
  <2> QED
    BY <1>1, <1>3, <2>2, <2>3 DEF ScenarioInv, FaultKept
<1>5. CASE ListPeers
  BY <1>1, <1>3, <1>5, ListAdvances, AdvanceKeeps, ListFaults DEF ScenarioInv, FaultKept
<1>6. CASE Judge
  BY <1>1, <1>3, <1>6, JudgeAdvances, AdvanceKeeps, JudgeFaults DEF ScenarioInv, FaultKept
<1>7. CASE StartPeer
  BY <1>1, <1>3, <1>7, StartPeerKeeps DEF ScenarioInv, FaultKept
<1>8. CASE StopAdapter \/ StopPeer \/ Finish
  BY <1>1, <1>3, <1>8, StoppingKeeps DEF ScenarioInv, FaultKept
<1>9. CASE \/ \E s \in Servers : Ban(s)
           \/ \E s \in Servers, c \in Conns : LightClient(s, c) \/ PeerHandler(s, c)
           \/ UNCHANGED scenarioVars
  <2>1. UNCHANGED harnessVars /\ running' = running
    BY <1>9 DEF Ban, LightClient, PeerHandler, adapterVars, scenarioVars
  <2>2. listener' = listener
    BY <1>9, ListenersHeld DEF Ban, scenarioVars, peerVars, serverVars
  <2>3. running' \in BOOLEAN
    BY <2>1 DEF ScenarioInv, ScenarioTypeOK
  <2> QED
    BY <1>1, <1>3, <2>1, <2>2, <2>3, OthersKeep DEF ScenarioInv, FaultKept
<1> QED
  BY <1>4, <1>5, <1>6, <1>7, <1>8, <1>9 DEF Next, HarnessStep

\* The inductive invariant holds in every reachable state of every scenario.
THEOREM ScenarioInvariance == Spec => []ScenarioInv
BY ScenarioInitInv, ScenarioStep, PTL DEF Spec

\* The peers of a scenario are those of PeerLab: whatever the harness and the
\* adapter do, what was proved of the peers holds of them.
THEOREM ScenarioRunsPeers == Spec => PeerSpec
<1>1. Init => PeerInit
  BY DEF Init
<1>2. ScenarioInv /\ [Next]_scenarioVars => [PeerNext]_peerVars
  BY StepsOfPeers
<1> QED
  BY <1>1, <1>2, ScenarioInvariance, PTL DEF Spec, PeerSpec

\* In every scenario of the harness, whatever fails and whatever the client does, a
\* client gets over a connection the replies to its requests in their order, and
\* each is in the transcript that peerPunishedAfter and the evidence are read from.
THEOREM ScenarioAnswers == Spec => [](AnswersInOrder /\ DeliveredIsRecorded)
BY ScenarioRunsPeers, AnswersStayInOrder, DeliveredIsAlwaysRecorded, PTL

\* Types: a scenario has a verdict exactly once it has returned.
THEOREM ScenarioTypes == Spec => []ScenarioTypeOK
<1>1. ScenarioInv => ScenarioTypeOK
  BY DEF ScenarioInv
<1> QED
  BY <1>1, ScenarioInvariance, PTL

\* A client that was served a bad response, and that the adapter reported as
\* banned or disconnected, passes every scenario of the harness, at all heights:
\* peerPunishedAfter finds the reply in the transcript of the peer.
THEOREM FaultIsPunished == Spec => []PunishedAfterFaultPasses
<1>1. ScenarioInv => PunishedAfterFaultPasses
  BY DEF ScenarioInv
<1> QED
  BY <1>1, ScenarioInvariance, PTL

\* Whatever call of a scenario fails, its deferred calls tell a started adapter
\* to stop before they stop a peer, and stop all of them.
THEOREM PeersReleasedInOrder == Spec => []ReleasedInOrder
<1>1. ScenarioInv => ReleasedInOrder
  BY DEF ScenarioInv, ReleaseInv, ReleasedInOrder
<1> QED
  BY <1>1, ScenarioInvariance, PTL

=============================================================================
