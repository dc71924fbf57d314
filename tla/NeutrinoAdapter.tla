--------------------------- MODULE NeutrinoAdapter ---------------------------
(***************************************************************************)
(* adapters/neutrino/main.go.  A client is a ChainService, made by         *)
(* /configure and run by /start.  A scan is a rescan: it is on while its   *)
(* quit channel is open, and "held" while it is inside its callback with a *)
(* block, which nobody waits for.                                          *)
(***************************************************************************)
EXTENDS AdapterProtocol

\* The rescan with the channel quit ends, unless it is in its callback.
Close(quit) ==
  [r \in Scanners |-> IF r = quit /\ scan[r].st = "on" THEN NoScan ELSE scan[r]]

\* Seeded fault for OneClientOfThisRun: the service is dropped unstopped.
DropService(cs) == cs

StopService(cs) == IF inst = 0 THEN cs ELSE [cs EXCEPT ![inst].st = "stopped"]

\* handleConfigure, all of it under a.mu.  The service is stopped first; when
\* the directory, the database or the new service fails, that is all.
NeutrinoConfigure(k) ==
  /\ Called(k, "configure")
  /\ scan' = Close(rescanQuit)
  /\ rescanQuit' = 0
  /\ \/ LET c == NewClient
        IN  /\ inst' = c
            /\ client' = [StopService(client) EXCEPT ![c] = [gen |-> gen + 1, st |-> "built"]]
            /\ Clear
            /\ Respond(k, TRUE)
     \/ /\ inst' = 0
        /\ client' = StopService(client)
        /\ Respond(k, FALSE)
        /\ UNCHANGED <<gen, watches, outpoints, matches, cursor, missed>>
  /\ UNCHANGED <<impl, alive, straggler>>

\* handleStart: the service is read under the lock and started without it.
NeutrinoStart(k) ==
  /\ Called(k, "start")
  /\ IF inst = 0 THEN Respond(k, FALSE) ELSE Proceed(k, "start", inst)
  /\ UNCHANGED <<impl, alive, stateVars, client, scan, historyVars>>

NeutrinoStarted(k) ==
  /\ At(k, "start", "start")
  /\ LET c == call[k].client
     IN  \/ /\ client' = IF client[c].st = "built" THEN [client EXCEPT ![c].st = "running"]
                                                   ELSE client
            /\ Respond(k, TRUE)
         \/ UNCHANGED client /\ Respond(k, FALSE)
  /\ UNCHANGED <<impl, alive, stateVars, scan, historyVars>>

\* handleStop, stopLocked.
NeutrinoStop(k) ==
  /\ Called(k, "stop")
  /\ scan' = Close(rescanQuit)
  /\ rescanQuit' = 0
  /\ client' = StopService(client)
  /\ inst' = 0
  /\ \E ok \in BOOLEAN : Respond(k, ok)
  /\ UNCHANGED <<impl, alive, gen, watches, outpoints, matches, cursor, historyVars>>

\* handleWatchScript: the watch is kept even when there is no service.
NeutrinoWatch(k) ==
  /\ Called(k, "watch")
  /\ LET s == call[k].script
     IN  /\ watches' = Put(watches, s, call[k].start)
         /\ outpoints' = IF s \in DOMAIN outpoints THEN outpoints ELSE Put(outpoints, s, {})
  /\ IF inst = 0 THEN Respond(k, FALSE) ELSE Proceed(k, "rescan", inst)
  /\ UNCHANGED <<impl, alive, gen, client, inst, matches, cursor, rescanQuit, scan, historyVars>>

\* Seeded fault for MatchesFound: the rescan starts above the start height.
NeutrinoRescanAbove(k) ==
  /\ At(k, "watch", "rescan")
  /\ \E r \in Scanners :
       /\ scan[r] = NoScan
       /\ \A q \in 1 .. r - 1 : scan[q] # NoScan
       /\ rescanQuit' = r
       /\ scan' = [Close(rescanQuit) EXCEPT
                     ![r] = [NoScan EXCEPT !.client = call[k].client, !.script = call[k].script,
                                           !.at = call[k].start + 1, !.st = "on"]]
  /\ Respond(k, TRUE)
  /\ UNCHANGED <<impl, alive, gen, inst, watches, outpoints, matches, cursor, client, historyVars>>

\* Then, under the lock again, the rescan before it is closed and the new one
\* takes its place, for the service that was read before.
NeutrinoRescan(k) ==
  /\ At(k, "watch", "rescan")
  /\ \E r \in Scanners :
       /\ scan[r] = NoScan
       /\ \A q \in 1 .. r - 1 : scan[q] # NoScan
       /\ rescanQuit' = r
       /\ scan' = [Close(rescanQuit) EXCEPT
                     ![r] = [NoScan EXCEPT !.client = call[k].client, !.script = call[k].script,
                                           !.at = call[k].start, !.st = "on"]]
  /\ Respond(k, TRUE)
  /\ UNCHANGED <<impl, alive, gen, inst, watches, outpoints, matches, cursor, client, historyVars>>

\* The rescan comes to a block and calls OnFilteredBlockConnected.
NeutrinoBlock(r) ==
  /\ alive
  /\ scan[r].st = "on" /\ Running(scan[r].client) /\ scan[r].at <= Tip
  /\ scan' = [scan EXCEPT ![r].at = @ + 1, ![r].blk = scan[r].at, ![r].st = "held"]
  /\ UNCHANGED <<impl, alive, stateVars, client, harnessVars, historyVars>>

\* recordFilteredBlock, for the script of its rescan.  When the outpoints have no
\* entry for it, an output to it is assigned to a nil map and the process ends.
NeutrinoRecord(r) ==
  /\ alive
  /\ scan[r].st = "held"
  /\ LET s == scan[r].script
         h == scan[r].blk
     IN  IF s \in DOMAIN outpoints
         THEN Record({s}, h) /\ UNCHANGED alive
         ELSE alive' = (h \notin Pays[s]) /\ UNCHANGED <<outpoints, matches>>
  /\ scan' = [scan EXCEPT ![r] = IF r = rescanQuit THEN [@ EXCEPT !.blk = 0, !.st = "on"] ELSE NoScan]
  /\ UNCHANGED <<impl, gen, inst, watches, cursor, rescanQuit, client, harnessVars, historyVars>>

NeutrinoHandler(k) ==
  \/ Refuse(k) \/ NeutrinoConfigure(k) \/ NeutrinoStart(k) \/ NeutrinoStarted(k) \/ NeutrinoStop(k)
  \/ NeutrinoWatch(k) \/ NeutrinoRescan(k)

NeutrinoScan(r) == NeutrinoBlock(r) \/ NeutrinoRecord(r)
=============================================================================
