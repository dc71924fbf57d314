------------------------------- MODULE Adapters -------------------------------
(***************************************************************************)
(* One adapter process and the harness that drives it through one           *)
(* configuration after the other.                                           *)
(***************************************************************************)
EXTENDS NeutrinoAdapter, KyotoAdapter, NakamotoAdapter, WasabiAdapter, FakeAdapter

\* A handler that goes on, or fails, after a call has come in.
Handler(k) ==
  \/ impl = "neutrino" /\ NeutrinoHandler(k)
  \/ impl = "kyoto"    /\ KyotoHandler(k)
  \/ impl = "nakamoto" /\ NakamotoHandler(k)
  \/ impl = "wasabi"   /\ WasabiHandler(k)
  \/ impl = "fake"     /\ FakeHandler(k)

\* A light client or a loop of the adapter that goes on.
Scan(r) ==
  \/ impl = "neutrino" /\ NeutrinoScan(r)
  \/ impl = "kyoto"    /\ KyotoScan(r)
  \/ impl = "nakamoto" /\ NakamotoScan(r)
  \/ impl = "wasabi"   /\ WasabiScan(r)

Next == Harness \/ (\E k \in Calls : Handler(k)) \/ (\E r \in Scanners : Scan(r))

Spec == ProtocolInit /\ [][Next]_adapterVars

\* Handlers and loops go on.  The harness need not make another call.
FairSpec ==
  /\ Spec
  /\ \A k \in Calls : WF_adapterVars(Handler(k))
  /\ \A r \in Scanners : WF_adapterVars(Scan(r))

-----------------------------------------------------------------------------
(* What /matches answers for s, as pairs <<h, o>>. *)
Reported(s) ==
  IF impl = "fake" THEN FakeMatches(s)
  ELSE {<<m.height, m.of>> : m \in {x \in matches : x.script = s}}

\* The outputs to s in the blocks H, and the spends in H of outputs in H.
Expected(s, H) ==
  {<<h, h>> : h \in Pays[s] \cap H} \cup {p \in Spends[s] : p[1] \in H /\ p[2] \in H}

\* The scripts whose watch is served: a rescan of Neutrino or Nakamoto takes
\* the place of the one of the script before.
Served ==
  IF acked = <<>> \/ ~ alive THEN {}
  ELSE IF impl \in {"neutrino", "nakamoto"} THEN {acked[Len(acked)]}
  ELSE {acked[i] : i \in DOMAIN acked}

\* The scan that serves the scripts of the configuration.
Scanner == IF impl = "neutrino" THEN rescanQuit ELSE inst

\* The blocks that the adapter is done with, for s.
Scanned(s) ==
  LET below(n) == {h \in Heights : watches[s] <= h /\ h < n}
  IN  CASE impl = "fake"   -> IF gen \in BadBlockRuns THEN {} ELSE below(Tip + 1)
        [] impl = "wasabi" -> below(cursor[s]) \ missed
        [] OTHER -> IF Scanner = 0 THEN {}
                    ELSE below(scan[Scanner].at) \ ({scan[Scanner].blk} \cup missed)

\* The harness waits for matches, nothing was given up before, and no scan has
\* outlived its client.
Undisturbed == turn = "running" /\ waiting = 0 /\ alive /\ givenUp = 0 /\ ~ straggler

-----------------------------------------------------------------------------

AdaptersTypeOK ==
  /\ impl \in Impls /\ alive \in BOOLEAN /\ straggler \in BOOLEAN
  /\ gen \in 0 .. MaxConfigures
  /\ client \in [Clients -> [gen : 0 .. MaxConfigures, st : {"none", "built", "running", "stopped", "orphan"}]]
  /\ inst \in {0} \cup Clients /\ rescanQuit \in {0} \cup Scanners
  /\ DOMAIN watches \subseteq Scripts /\ \A s \in DOMAIN watches : watches[s] \in StartHeights[s]
  /\ DOMAIN cursor \subseteq DOMAIN watches
  /\ DOMAIN outpoints \subseteq Scripts
  /\ \A s \in DOMAIN outpoints : outpoints[s] \subseteq Pays[s]
  /\ \A m \in matches : /\ m.script \in Scripts
                        /\ <<m.height, m.of>> \in Expected(m.script, Heights)
  /\ \A r \in Scanners : /\ scan[r].st \in {"off", "on", "scan", "fetch", "held"}
                         /\ scan[r].at \in 0 .. Tip + 1 /\ scan[r].blk \in 0 .. Tip
  /\ turn \in {"configure", "start", "running", "stop"}
  /\ waiting \in {0} \cup Calls
  /\ waiting # 0 => call[waiting] # Idle
  /\ missed \subseteq Heights

\* "A spend match means a transaction spends a previously watched output"
\* (docs/adapters.md:47-48): whoever finds a spend, however late, the match of
\* the output is there as well.
SpendsHaveOutputs ==
  \A m \in matches : \E o \in matches : o.script = m.script /\ o.height = m.of /\ o.of = m.of

\* "Adds or replaces one watched script and resets its scan cursor"
\* (adapters/wasabi/AdapterState.cs:72), and AddWatch of the others likewise: the
\* heights that an adapter is done with hold no match that it has not reported.
NothingPassedOver ==
  \A s \in Served : s \in DOMAIN watches => Expected(s, Scanned(s)) \subseteq Reported(s)

\* Neither a watch that comes while the client scans, nor a second one, nor a
\* block that arrives late makes an adapter pass over a match.  A call that was
\* given up may, and a scan of Wasabi that has outlived its client.
ScannedIsReported == givenUp = 0 /\ ~ straggler => NothingPassedOver

\* The clients that run and that nothing in the adapter refers to any more: no
\* call can stop them.
Lost == {c \in Clients : Networking(c) /\ c # inst /\ \A k \in Calls : call[k].client # c}

\* "Reset the adapter for one isolated regtest run" (docs/adapters.md:19): no
\* handler serves a run from the client of an earlier one.
ClientIsOfThisRun == impl # "fake" /\ inst # 0 => client[inst].gen = gen

\* "Stop networking and release resources" (docs/adapters.md:22): /stop and
\* /configure get hold of every client, and every run is served from a client of
\* its own, wherever other handlers are and whatever was given up, but for what
\* two adapters do outside of their locks.  Nakamoto loses the client that loads
\* just after its own /start has timed out, and no other one.  Each call that
\* the harness gives up costs Wasabi one client at most, which SetClient drops
\* for a later one.  After a given-up call both may install the client of an
\* earlier run.
OneClientOfThisRun ==
  /\ \A c \in Lost : client[c].st = "orphan" \/ impl = "wasabi"
  /\ impl = "wasabi" => Cardinality(Lost) <= givenUp
  /\ ClientIsOfThisRun \/ (impl \in {"nakamoto", "wasabi"} /\ givenUp # 0)

\* The harness is not left to wait for a match: while it makes no other call,
\* every match of a served script from its start height on is reported, unless
\* a block cannot be had.
MatchesFound ==
  \A s \in Scripts :
    (Undisturbed /\ s \in Served)
      ~> (\/ ~ (Undisturbed /\ s \in Served) \/ missed # {} \/ gen \in BadBlockRuns
          \/ Expected(s, watches[s] .. Tip) \subseteq Reported(s))

\* "The harness will reuse the same adapter process across scenarios and call
\* /configure between them" (docs/adapters.md:53-54): no call ends the process.
ProcessIsReused == alive
=============================================================================
