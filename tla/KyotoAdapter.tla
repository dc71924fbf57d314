---------------------------- MODULE KyotoAdapter ----------------------------
(***************************************************************************)
(* adapters/kyoto/src/main.rs.  A client is the node that /configure builds *)
(* and /start spawns; scan[c] is the event loop of client c.  An event is   *)
(* the filter of the next block, and a rescan makes the node go back and    *)
(* send the events again from its start height.                             *)
(***************************************************************************)
EXTENDS AdapterProtocol

\* stop_locked aborts the event loop, which ends where it awaits something.
\* One that has its block may be past its last await: it records the block.
Aborted(sc) ==
  IF inst = 0 THEN {sc}
  ELSE {[sc EXCEPT ![inst] = NoScan]} \cup IF sc[inst].st = "held" THEN {sc} ELSE {}

StopNode(cs) == IF inst = 0 THEN cs ELSE [cs EXCEPT ![inst].st = "stopped"]

KyotoConfigure(k) ==
  /\ Called(k, "configure")
  /\ LET c == NewClient
     IN  /\ inst' = c
         /\ client' = [StopNode(client) EXCEPT ![c] = [gen |-> gen + 1, st |-> "built"]]
  /\ scan' \in Aborted(scan)
  /\ Clear
  /\ Respond(k, TRUE)
  /\ UNCHANGED <<impl, alive, rescanQuit, straggler>>

\* start: the node is taken, so that a second /start is a conflict.
KyotoStart(k) ==
  /\ Called(k, "start")
  /\ IF inst # 0 /\ client[inst].st = "built"
     THEN /\ client' = [client EXCEPT ![inst].st = "running"]
          /\ scan' = [scan EXCEPT ![inst] = [NoScan EXCEPT !.client = inst, !.at = 1, !.st = "on"]]
          /\ Respond(k, TRUE)
     ELSE Respond(k, FALSE) /\ UNCHANGED <<client, scan>>
  /\ UNCHANGED <<impl, alive, stateVars, historyVars>>

KyotoStop(k) ==
  /\ Called(k, "stop")
  /\ inst' = 0
  /\ client' = StopNode(client)
  /\ scan' \in Aborted(scan)
  /\ Respond(k, TRUE)
  /\ UNCHANGED <<impl, alive, gen, watches, outpoints, matches, cursor, rescanQuit, historyVars>>

\* watch_script: the watch is kept whether or not there is a requester, and
\* without one that is all.
KyotoWatch(k) ==
  /\ Called(k, "watch")
  /\ LET s == call[k].script
     IN  /\ watches' = Put(watches, s, call[k].start)
         /\ outpoints' = IF s \in DOMAIN outpoints THEN outpoints ELSE Put(outpoints, s, {})
  /\ IF Running(inst) THEN Proceed(k, "rescan", inst) ELSE Respond(k, TRUE)
  /\ UNCHANGED <<impl, alive, gen, inst, matches, cursor, rescanQuit, client, scan, historyVars>>

\* Seeded fault for ScannedIsReported: the node does not go back.
KyotoNoRescan(k) ==
  /\ At(k, "watch", "rescan")
  /\ Respond(k, Running(call[k].client))
  /\ UNCHANGED <<impl, alive, stateVars, client, scan, historyVars>>

\* Then the requester sends the rescan, which fails when the node has stopped.
KyotoRescan(k) ==
  /\ At(k, "watch", "rescan")
  /\ LET c == call[k].client
     IN  IF Running(c)
         THEN /\ scan' = [scan EXCEPT ![c].at = Least(@, call[k].start)]
              /\ Respond(k, TRUE)
         ELSE Respond(k, FALSE) /\ UNCHANGED scan
  /\ UNCHANGED <<impl, alive, stateVars, client, historyVars>>

\* event_loop: the block is asked for when its filter has a watched script.
KyotoFilter(r) ==
  /\ alive
  /\ scan[r].st = "on" /\ Running(scan[r].client) /\ scan[r].at <= Tip
  /\ LET h == scan[r].at
     IN  scan' = [scan EXCEPT ![r] =
                    IF \E s \in DOMAIN watches : Concerns(h, s)
                    THEN [@ EXCEPT !.at = h + 1, !.blk = h, !.st = "fetch"]
                    ELSE [@ EXCEPT !.at = h + 1]]
  /\ UNCHANGED <<impl, alive, stateVars, client, harnessVars, historyVars>>

\* get_block: a block that is not found is passed over.
KyotoBlock(r) ==
  /\ alive
  /\ scan[r].st = "fetch"
  /\ \/ scan' = [scan EXCEPT ![r].st = "held"] /\ UNCHANGED missed
     \/ /\ scan' = [scan EXCEPT ![r].blk = 0, ![r].st = "on"]
        /\ missed' = missed \cup {scan[r].blk}
  /\ UNCHANGED <<impl, alive, stateVars, client, harnessVars, straggler>>

\* record_block, for all the scripts that are watched by now.
KyotoRecord(r) ==
  /\ alive
  /\ scan[r].st = "held"
  /\ Record(DOMAIN watches, scan[r].blk)
  /\ scan' = [scan EXCEPT ![r] = IF Running(@.client) THEN [@ EXCEPT !.blk = 0, !.st = "on"]
                                                      ELSE NoScan]
  /\ UNCHANGED <<impl, alive, gen, inst, watches, cursor, rescanQuit, client, harnessVars,
                 historyVars>>

KyotoHandler(k) ==
  \/ Refuse(k) \/ KyotoConfigure(k) \/ KyotoStart(k) \/ KyotoStop(k)
  \/ KyotoWatch(k) \/ KyotoRescan(k)

KyotoScan(r) == KyotoFilter(r) \/ KyotoBlock(r) \/ KyotoRecord(r)
=============================================================================
