--------------------------- MODULE AdapterProtocol ---------------------------
(***************************************************************************)
(* What the adapters of the harness have in common: the calls that the     *)
(* harness makes of them, the state that their handlers keep, and the way  *)
(* they find the transactions of a watched script in a block.  The modules *)
(* NeutrinoAdapter, KyotoAdapter, NakamotoAdapter, WasabiAdapter and       *)
(* FakeAdapter have the handlers of one adapter each, and Adapters         *)
(* composes them with the harness.                                         *)
(*                                                                         *)
(* The harness makes one call after the other, but it gives a call up      *)
(* after the timeout of its HTTP client (GiveUp) and goes on while the     *)
(* handler still runs.  A handler that takes a lock several times is as    *)
(* many steps.  Light clients are external: one that runs has synced the   *)
(* chain 1..Tip, and the adapters' own loops get its blocks one by one.    *)
(***************************************************************************)
EXTENDS Integers, Sequences, FiniteSets

CONSTANTS
  Impls,           \* the adapters that are checked
  Scripts, NoScript,
  Tip,             \* height of the last block
  Pays,            \* Pays[s]: the heights of the blocks with an output to s
  Spends,          \* Spends[s]: the pairs <<h, o>> of a block h that spends
                   \* the output of block o to s
  StartHeights,    \* StartHeights[s]: the start heights of its /watch-script
  BadBlockRuns,    \* configurations with a peer that is called "bad-block"
  MaxConfigures,   \* bound on the /configure calls
  MaxWatches,      \* bound on the /watch-script calls of one configuration,
                   \* together with the calls given up before
  MaxGivenUp       \* bound on the calls that the harness gives up

ASSUME AdapterAssumption ==
  /\ Impls \subseteq {"neutrino", "kyoto", "nakamoto", "wasabi", "fake"}
  /\ NoScript \notin Scripts
  /\ Tip \in Nat \ {0}
  /\ \A s \in Scripts :
       /\ StartHeights[s] \subseteq 1 .. Tip
       /\ Pays[s] \subseteq 1 .. Tip
       /\ Spends[s] \subseteq (1 .. Tip) \X (1 .. Tip)
       /\ \A p \in Spends[s] : p[2] \in Pays[s] /\ p[1] \in p[2] + 1 .. Tip
  /\ MaxConfigures \in Nat /\ MaxWatches \in Nat /\ MaxGivenUp \in Nat

VARIABLES
  impl,        \* the adapter
  alive,       \* its process has not ended
  gen,         \* the configuration: how many /configure were accepted
  client,      \* client[c]: the configuration and the state of a light client
  inst,        \* the client the handlers refer to, 0 for none
  watches,     \* the watched scripts with their start heights
  outpoints,   \* for each script the blocks of its outputs that were found
  matches,     \* the transactions found
  cursor,      \* NextScanHeight of each watch (Wasabi)
  rescanQuit,  \* the rescan whose quit channel is a.rescanQuit (Neutrino)
  scan,        \* scan[r]: the loops that look at blocks, see each adapter
  turn,        \* the call the harness makes next
  waiting,     \* the call whose response it waits for, 0 for none
  call,        \* call[k]: a call and how far its handler is
  acked,       \* the scripts whose /watch-script succeeded, in this order
  givenUp,     \* how many calls the harness gave up
  missed,      \* history: blocks whose download failed in this configuration
  straggler    \* history: a scan outlived the disposal of its client (Wasabi)

stateVars   == <<gen, inst, watches, outpoints, matches, cursor, rescanQuit>>
harnessVars == <<turn, waiting, call, acked, givenUp>>
historyVars == <<missed, straggler>>
adapterVars == <<impl, alive, stateVars, client, scan, harnessVars, historyVars>>

Clients  == 1 .. MaxConfigures
Scanners == 1 .. MaxConfigures + 1
Calls    == 1 .. MaxGivenUp + 1
Heights  == 1 .. Tip

Nothing == [s \in {} |-> 0]

Put(f, s, v) == [x \in DOMAIN f \cup {s} |-> IF x = s THEN v ELSE f[x]]

Least(a, b) == IF a < b THEN a ELSE b
Most(a, b)  == IF a < b THEN b ELSE a

NoClient == [gen |-> 0, st |-> "none"]

Idle == [op |-> "none", pc |-> "none", script |-> NoScript, start |-> 0, client |-> 0]

NoScan == [client |-> 0, script |-> NoScript, at |-> 0, blk |-> 0, st |-> "off"]

NewClient == CHOOSE c \in Clients : /\ client[c] = NoClient
                                    /\ \A d \in Clients : client[d] = NoClient => c <= d

Running(c) == c # 0 /\ client[c].st = "running"

\* A client that runs, with the adapter's knowledge or without.
Networking(c) == client[c].st \in {"running", "orphan"}

-----------------------------------------------------------------------------
(* Matches.  An output of block h is [height |-> h, of |-> h], a spend in   *)
(* block h of the output of block o is [height |-> h, of |-> o].            *)

Match(s, h, o) == [script |-> s, height |-> h, of |-> o]

\* The compact filter of block h has the scripts of its outputs and of the
\* outputs that it spends.
Concerns(h, s) == h \in Pays[s] \/ \E p \in Spends[s] : p[1] = h

\* The outpoints of S after block h, and the matches in it: first the outputs,
\* then the spends of outputs that are known by then.
Found(S, h) ==
  [s \in DOMAIN outpoints \cup S |->
     (IF s \in DOMAIN outpoints THEN outpoints[s] ELSE {})
       \cup (IF s \in S THEN Pays[s] \cap {h} ELSE {})]

\* Seeded fault for SpendsHaveOutputs: every spend is taken for one's own.
RecordAllSpends(S, h) ==
  /\ outpoints' = Found(S, h)
  /\ matches' = matches
       \cup {Match(s, h, h) : s \in {t \in S : h \in Pays[t]}}
       \cup UNION {{Match(s, h, p[2]) : p \in {q \in Spends[s] : q[1] = h}} : s \in S}

\* record_block, recordFilteredBlock, RecordBlock.  The set of seen keys makes
\* the list of matches a set.
Record(S, h) ==
  /\ outpoints' = Found(S, h)
  /\ matches' = matches
       \cup {Match(s, h, h) : s \in {t \in S : h \in Pays[t]}}
       \cup UNION {{Match(s, h, p[2]) :
                      p \in {q \in Spends[s] : q[1] = h /\ q[2] \in outpoints'[s]}} : s \in S}

\* Seeded fault for AdaptersTypeOK: the cursors of the scanner are kept.
ClearButCursor ==
  /\ gen' = gen + 1
  /\ watches' = Nothing
  /\ outpoints' = Nothing
  /\ matches' = {}
  /\ cursor' = cursor
  /\ missed' = {}

\* What /configure forgets.
Clear ==
  /\ gen' = gen + 1
  /\ watches' = Nothing
  /\ outpoints' = Nothing
  /\ matches' = {}
  /\ cursor' = Nothing
  /\ missed' = {}

-----------------------------------------------------------------------------
(* The harness. *)

\* The next call after op was answered, or given up (ok = FALSE).
After(op, ok) ==
  CASE op = "configure" -> IF ok THEN "start" ELSE "configure"
    [] op = "start"     -> IF ok THEN "running" ELSE "configure"
    [] op = "watch"     -> IF ok THEN "running" ELSE "stop"
    [] op = "stop"      -> "configure"

Post(op, s, start) ==
  /\ alive
  /\ waiting = 0
  /\ \E k \in Calls :
       /\ call[k] = Idle
       /\ \A j \in 1 .. k - 1 : call[j] # Idle
       /\ call' = [call EXCEPT ![k] = [op |-> op, pc |-> "called", script |-> s,
                                       start |-> start, client |-> 0]]
       /\ waiting' = k
  /\ UNCHANGED <<impl, alive, stateVars, client, scan, turn, givenUp, historyVars>>

\* configureAndStart.
PostConfigure ==
  /\ turn = "configure"
  /\ gen + Cardinality({k \in Calls : call[k].op = "configure"}) < MaxConfigures
  /\ acked' = <<>>
  /\ Post("configure", NoScript, 0)

PostStart == turn = "start" /\ Post("start", NoScript, 0) /\ UNCHANGED acked

PostWatch ==
  /\ turn = "running"
  /\ Len(acked) + givenUp < MaxWatches
  /\ \E s \in Scripts : /\ \A i \in DOMAIN acked : acked[i] # s
                        /\ \E h \in StartHeights[s] : Post("watch", s, h)
  /\ UNCHANGED acked

\* The deferred /stop, whatever its answer.
PostStop == turn \in {"running", "stop"} /\ Post("stop", NoScript, 0) /\ UNCHANGED acked

\* The HTTP client of the harness has a timeout of 30 s.
GiveUp ==
  /\ alive
  /\ waiting # 0 /\ givenUp < MaxGivenUp
  /\ turn' = After(call[waiting].op, FALSE)
  /\ waiting' = 0
  /\ givenUp' = givenUp + 1
  /\ UNCHANGED <<impl, alive, stateVars, client, scan, call, acked, historyVars>>

\* A handler goes on to its next step, for client c.
Proceed(k, pc, c) ==
  /\ call' = [call EXCEPT ![k].pc = pc, ![k].client = c]
  /\ UNCHANGED <<turn, waiting, acked, givenUp>>

\* A handler returns; nobody reads the response of a call that was given up.
Respond(k, ok) ==
  /\ call' = [call EXCEPT ![k] = Idle]
  /\ IF waiting = k
     THEN /\ waiting' = 0
          /\ turn' = After(call[k].op, ok)
          /\ acked' = IF call[k].op = "watch" /\ ok THEN Append(acked, call[k].script) ELSE acked
     ELSE UNCHANGED <<waiting, turn, acked>>
  /\ UNCHANGED givenUp

Called(k, op) == alive /\ call[k].op = op /\ call[k].pc = "called"

At(k, op, pc) == alive /\ call[k].op = op /\ call[k].pc = pc

\* A request that is refused before it changes anything: another network, a
\* bad address, a method that is not POST.
Refuse(k) ==
  /\ Called(k, "configure")
  /\ Respond(k, FALSE)
  /\ UNCHANGED <<impl, alive, stateVars, client, scan, historyVars>>

-----------------------------------------------------------------------------

ProtocolInit ==
  /\ impl \in Impls
  /\ alive = TRUE
  /\ gen = 0
  /\ client = [c \in Clients |-> NoClient]
  /\ inst = 0
  /\ watches = Nothing /\ outpoints = Nothing /\ matches = {} /\ cursor = Nothing
  /\ rescanQuit = 0
  /\ scan = [r \in Scanners |-> NoScan]
  /\ turn = "configure" /\ waiting = 0
  /\ call = [k \in Calls |-> Idle]
  /\ acked = <<>> /\ givenUp = 0
  /\ missed = {} /\ straggler = FALSE

Harness == PostConfigure \/ PostStart \/ PostWatch \/ PostStop \/ GiveUp
=============================================================================
