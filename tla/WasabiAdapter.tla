---------------------------- MODULE WasabiAdapter ----------------------------
(***************************************************************************)
(* adapters/wasabi: Program.cs, AdapterState.cs and WasabiP2pClient.cs.  A  *)
(* client is made by /start; scan[c] is its watch scanner, which looks at   *)
(* one watch after the other.  The filters up to Tip are in the store of    *)
(* the client and are one batch.                                            *)
(***************************************************************************)
EXTENDS AdapterProtocol

\* Seeded fault for OneClientOfThisRun: the client is taken out of the state, and
\* nobody disposes of it.
ForgetClient(k) == inst' = 0 /\ Respond(k, TRUE)

\* A handler that has taken a client out of the state disposes of it next.
TakeClient(k) ==
  /\ inst' = 0
  /\ IF inst = 0 THEN Respond(k, TRUE) ELSE Proceed(k, "dispose", inst)

\* ConfigureAsync: everything is cleared first, and then the client disposed of.
WasabiConfigure(k) ==
  /\ Called(k, "configure")
  /\ Clear
  /\ TakeClient(k)
  /\ UNCHANGED <<impl, alive, rescanQuit, client, scan, straggler>>

\* StopAsync.
WasabiStop(k) ==
  /\ Called(k, "stop")
  /\ TakeClient(k)
  /\ UNCHANGED <<impl, alive, gen, watches, outpoints, matches, cursor, rescanQuit,
                 client, scan, historyVars>>

\* DisposeAsync cancels the loops of the client ...
WasabiCancel(k) ==
  /\ alive
  /\ call[k].pc = "dispose"
  /\ client' = [client EXCEPT ![call[k].client].st = "stopped"]
  /\ Proceed(k, "disposing", call[k].client)
  /\ UNCHANGED <<impl, alive, stateVars, scan, historyVars>>

\* ... and waits for them, but no more than 5 s.
WasabiDisposed(k) ==
  /\ alive
  /\ call[k].pc = "disposing"
  /\ straggler' = (straggler \/ scan[call[k].client].st # "off")
  /\ Respond(k, TRUE)
  /\ UNCHANGED <<impl, alive, stateVars, client, scan, missed>>

\* /start: the client is looked for and made without a lock.
WasabiStart(k) ==
  /\ Called(k, "start")
  /\ IF gen = 0 \/ inst # 0
     THEN Respond(k, gen # 0) /\ UNCHANGED client
     ELSE LET c == NewClient
          IN  /\ client' = [client EXCEPT ![c] = [gen |-> gen, st |-> "built"]]
              /\ Proceed(k, "create", c)
  /\ UNCHANGED <<impl, alive, stateVars, scan, historyVars>>

\* CreateAsync may fail or be cancelled; else SetClient installs the client in
\* the place of another one, which goes on.
WasabiCreate(k) ==
  /\ At(k, "start", "create")
  /\ LET c == call[k].client
     IN  \/ /\ client' = [client EXCEPT ![c].st = "running"]
            /\ scan' = [scan EXCEPT ![c] = [NoScan EXCEPT !.client = c, !.st = "on"]]
            /\ inst' = c
            /\ Respond(k, TRUE)
         \/ /\ client' = [client EXCEPT ![c].st = "stopped"]
            /\ Respond(k, FALSE)
            /\ UNCHANGED <<scan, inst>>
  /\ UNCHANGED <<impl, alive, gen, watches, outpoints, matches, cursor, rescanQuit, historyVars>>

\* AddWatch; the watch is kept when nothing has been started.
WasabiWatch(k) ==
  /\ Called(k, "watch")
  /\ LET s == call[k].script
     IN  /\ watches' = Put(watches, s, call[k].start)
         /\ cursor' = Put(cursor, s, call[k].start)
         /\ outpoints' = IF s \in DOMAIN outpoints THEN outpoints ELSE Put(outpoints, s, {})
  /\ Respond(k, TRUE)
  /\ UNCHANGED <<impl, alive, gen, inst, matches, rescanQuit, client, scan, historyVars>>

-----------------------------------------------------------------------------
(* The scanner.  Its states are "on" between two watches, "scan" while it    *)
(* looks at the filters of one, "fetch" while it waits for a block and       *)
(* "held" when it has got it.                                                *)

\* SnapshotWatches and FetchBatchAsync, for one of the watches that have filters
\* to look at.  Nothing but this scan moves the cursor of a watch of its
\* configuration, so that the copies of the snapshot are not kept.
WasabiBatch(r) ==
  /\ alive
  /\ scan[r].st = "on" /\ Running(scan[r].client)
  /\ \E s \in DOMAIN cursor :
       /\ cursor[s] <= Tip
       /\ scan' = [scan EXCEPT ![r] = [@ EXCEPT !.script = s, !.at = cursor[s], !.st = "scan"]]
  /\ UNCHANGED <<impl, alive, stateVars, client, harnessVars, historyVars>>

\* The filters of the batch that have the script, from scan[r].at on.
Hits(r) == {h \in scan[r].at .. Tip : Concerns(h, scan[r].script)}

\* The next one, whose block is asked for.
WasabiFilter(r) ==
  /\ alive
  /\ scan[r].st = "scan"
  /\ \E h \in Hits(r) :
       /\ \A i \in Hits(r) : h <= i
       /\ scan' = [scan EXCEPT ![r] = [@ EXCEPT !.at = h + 1, !.blk = h, !.st = "fetch"]]
  /\ UNCHANGED <<impl, alive, stateVars, client, harnessVars, historyVars>>

\* blockProvider: the block, or nothing, after which the scan goes on without it.
WasabiBlock(r) ==
  /\ alive
  /\ scan[r].st = "fetch" /\ Running(scan[r].client)
  /\ \/ scan' = [scan EXCEPT ![r].st = "held"] /\ UNCHANGED missed
     \/ /\ scan' = [scan EXCEPT ![r].blk = 0, ![r].st = "scan"]
        /\ missed' = missed \cup {h \in {scan[r].blk} : client[scan[r].client].gen = gen}
  /\ UNCHANGED <<impl, alive, stateVars, client, harnessVars, straggler>>

\* RecordBlock: the cancellation is not looked at once the block is there.
WasabiRecord(r) ==
  /\ alive
  /\ scan[r].st = "held"
  /\ Record({scan[r].script}, scan[r].blk)
  /\ scan' = [scan EXCEPT ![r].blk = 0, ![r].st = "scan"]
  /\ UNCHANGED <<impl, alive, gen, inst, watches, cursor, rescanQuit, client, harnessVars,
                 historyVars>>

\* MarkScanned, for the watch that has this script by now.
WasabiMark(r) ==
  /\ alive
  /\ scan[r].st = "scan" /\ Hits(r) = {}
  /\ cursor' = [s \in DOMAIN cursor |-> IF s = scan[r].script THEN Most(cursor[s], Tip + 1)
                                                            ELSE cursor[s]]
  /\ scan' = [scan EXCEPT ![r] = [@ EXCEPT !.script = NoScript, !.at = 0, !.st = "on"]]
  /\ UNCHANGED <<impl, alive, gen, inst, watches, outpoints, matches, rescanQuit, client,
                 harnessVars, historyVars>>

\* A cancelled scanner ends at its next wait.
WasabiEnd(r) ==
  /\ alive
  /\ scan[r].st \in {"on", "fetch"} /\ ~ Running(scan[r].client)
  /\ scan' = [scan EXCEPT ![r] = NoScan]
  /\ UNCHANGED <<impl, alive, stateVars, client, harnessVars, historyVars>>

WasabiHandler(k) ==
  \/ Refuse(k) \/ WasabiConfigure(k) \/ WasabiStop(k) \/ WasabiCancel(k) \/ WasabiDisposed(k)
  \/ WasabiStart(k) \/ WasabiCreate(k) \/ WasabiWatch(k)

WasabiScan(r) ==
  \/ WasabiBatch(r) \/ WasabiFilter(r) \/ WasabiBlock(r)
  \/ WasabiRecord(r) \/ WasabiMark(r) \/ WasabiEnd(r)
=============================================================================
