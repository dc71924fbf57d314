--------------------------- MODULE NakamotoAdapter ---------------------------
(***************************************************************************)
(* adapters/nakamoto/src/main.rs.  A client is the thread that /start makes *)
(* for the configuration it has read; scan[c] is the rescan of client c and *)
(* the block loop behind it, with the channel between them bounded to one   *)
(* block.  A new rescan of a client takes the place of the one before.      *)
(***************************************************************************)
EXTENDS AdapterProtocol

\* Seeded fault for OneClientOfThisRun: the handle is dropped, and no more.
DropHandle(cs) == cs

\* stop_locked: the handle is dropped and its client shut down.  The block
\* loop still gets the block that is in the channel.
Shutdown(cs) == IF inst = 0 THEN cs ELSE [cs EXCEPT ![inst].st = "stopped"]
Drained(sc)  == IF inst = 0 \/ sc[inst].blk # 0 THEN sc ELSE [sc EXCEPT ![inst] = NoScan]

NakamotoConfigure(k) ==
  /\ Called(k, "configure")
  /\ client' = Shutdown(client) /\ scan' = Drained(scan) /\ inst' = 0
  /\ Clear
  /\ Respond(k, TRUE)
  /\ UNCHANGED <<impl, alive, rescanQuit, straggler>>

\* start: the configuration is read under the lock.
NakamotoStart(k) ==
  /\ Called(k, "start")
  /\ IF gen = 0
     THEN Respond(k, FALSE) /\ UNCHANGED client
     ELSE LET c == NewClient
          IN  /\ client' = [client EXCEPT ![c] = [gen |-> gen, st |-> "built"]]
              /\ Proceed(k, "load", c)
  /\ UNCHANGED <<impl, alive, stateVars, scan, historyVars>>

\* The handler waits 10 s for the client to load.  A client that has loaded
\* later finds the channel closed and ends, unless it sent its handle between
\* the timeout and the close: then it is an orphan, which runs without a handle
\* and whose blocks nobody gets.
NakamotoLoad(k) ==
  /\ At(k, "start", "load")
  /\ LET c == call[k].client
     IN  \/ /\ client' = [client EXCEPT ![c].st = "running"]
            /\ scan' = [scan EXCEPT ![c] = [NoScan EXCEPT !.client = c, !.st = "on"]]
            /\ Proceed(k, "install", c)
         \/ /\ \E st \in {"stopped", "orphan"} : client' = [client EXCEPT ![c].st = st]
            /\ Respond(k, FALSE)
            /\ UNCHANGED scan
  /\ UNCHANGED <<impl, alive, stateVars, historyVars>>

\* The handle is installed in the place of another one, whatever has been
\* configured since.
NakamotoInstall(k) ==
  /\ At(k, "start", "install")
  /\ client' = Shutdown(client) /\ scan' = Drained(scan)
  /\ inst' = call[k].client
  /\ Respond(k, TRUE)
  /\ UNCHANGED <<impl, alive, gen, watches, outpoints, matches, cursor, rescanQuit, historyVars>>

NakamotoStop(k) ==
  /\ Called(k, "stop")
  /\ client' = Shutdown(client) /\ scan' = Drained(scan) /\ inst' = 0
  /\ Respond(k, TRUE)
  /\ UNCHANGED <<impl, alive, gen, watches, outpoints, matches, cursor, rescanQuit, historyVars>>

\* watch_script: without a handle the watch is kept and the answer a conflict.
NakamotoWatch(k) ==
  /\ Called(k, "watch")
  /\ LET s == call[k].script
     IN  /\ watches' = Put(watches, s, call[k].start)
         /\ outpoints' = IF s \in DOMAIN outpoints THEN outpoints ELSE Put(outpoints, s, {})
  /\ IF inst = 0 THEN Respond(k, FALSE) ELSE Proceed(k, "rescan", inst)
  /\ UNCHANGED <<impl, alive, gen, inst, matches, cursor, rescanQuit, client, scan, historyVars>>

NakamotoRescan(k) ==
  /\ At(k, "watch", "rescan")
  /\ LET c == call[k].client
     IN  IF Running(c)
         THEN /\ scan' = [scan EXCEPT ![c].script = call[k].script, ![c].at = call[k].start]
              /\ Respond(k, TRUE)
         ELSE Respond(k, FALSE) /\ UNCHANGED scan
  /\ UNCHANGED <<impl, alive, stateVars, client, historyVars>>

\* The client downloads the blocks whose filters have the script.  It asks
\* again for a block that it does not get.
NakamotoBlock(r) ==
  /\ alive
  /\ scan[r].st = "on" /\ Running(scan[r].client)
  /\ scan[r].script # NoScript /\ scan[r].at <= Tip /\ scan[r].blk = 0
  /\ LET h == scan[r].at
     IN  scan' = [scan EXCEPT ![r].at = h + 1,
                              ![r].blk = IF Concerns(h, scan[r].script) THEN h ELSE 0]
  /\ UNCHANGED <<impl, alive, stateVars, client, harnessVars, historyVars>>

\* block_loop, record_block: for all the scripts that are watched by now.
NakamotoRecord(r) ==
  /\ alive
  /\ scan[r].blk # 0
  /\ Record(DOMAIN watches, scan[r].blk)
  /\ scan' = [scan EXCEPT ![r] = IF Running(@.client) THEN [@ EXCEPT !.blk = 0] ELSE NoScan]
  /\ UNCHANGED <<impl, alive, gen, inst, watches, cursor, rescanQuit, client, harnessVars,
                 historyVars>>

NakamotoHandler(k) ==
  \/ Refuse(k) \/ NakamotoConfigure(k) \/ NakamotoStart(k) \/ NakamotoLoad(k)
  \/ NakamotoInstall(k) \/ NakamotoStop(k) \/ NakamotoWatch(k) \/ NakamotoRescan(k)

NakamotoScan(r) == NakamotoBlock(r) \/ NakamotoRecord(r)
=============================================================================
