----------------------------- MODULE FakeAdapter -----------------------------
(***************************************************************************)
(* adaptertest/fake/server.go: the adapter of the harness's own tests has   *)
(* no light client and answers /matches from the fixture.  inst is 1 while  *)
(* it is started.                                                           *)
(***************************************************************************)
EXTENDS AdapterProtocol

\* handleConfigure replaces the environment and the peers, and nothing else.
FakeConfigure(k) ==
  /\ Called(k, "configure")
  /\ gen' = gen + 1
  /\ Respond(k, TRUE)
  /\ UNCHANGED <<impl, alive, inst, watches, outpoints, matches, cursor, rescanQuit,
                 client, scan, historyVars>>

FakeStart(k) ==
  /\ Called(k, "start")
  /\ inst' = IF gen = 0 THEN inst ELSE 1
  /\ Respond(k, gen # 0)
  /\ UNCHANGED <<impl, alive, gen, watches, outpoints, matches, cursor, rescanQuit,
                 client, scan, historyVars>>

FakeStop(k) ==
  /\ Called(k, "stop")
  /\ inst' = 0
  /\ Respond(k, TRUE)
  /\ UNCHANGED <<impl, alive, gen, watches, outpoints, matches, cursor, rescanQuit,
                 client, scan, historyVars>>

FakeWatch(k) ==
  /\ Called(k, "watch")
  /\ watches' = Put(watches, call[k].script, call[k].start)
  /\ Respond(k, TRUE)
  /\ UNCHANGED <<impl, alive, gen, inst, outpoints, matches, cursor, rescanQuit,
                 client, scan, historyVars>>

\* handleMatches: the matches of the fixture from the start height of the
\* watch, and none when a peer of the configuration is called "bad-block".
FakeMatches(s) ==
  IF s \notin DOMAIN watches \/ gen \in BadBlockRuns THEN {}
  ELSE {m \in {<<h, h>> : h \in Pays[s]} \cup Spends[s] : m[1] >= watches[s]}

FakeHandler(k) ==
  Refuse(k) \/ FakeConfigure(k) \/ FakeStart(k) \/ FakeStop(k) \/ FakeWatch(k)
=============================================================================
