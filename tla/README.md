# TLA+ models of the BIP157/BIP158 conformance harness

The repository runs compact-filter light clients (Neutrino, Kyoto, Nakamoto, Wasabi) against simulated
Bitcoin peers that follow BIP157 or break it on purpose, and scores what the clients do. These modules model
the simulated peers, the scenarios and their verdicts, the report, the adapters, the labs that give peers their
addresses, and the compact-filter synchronization that `nix/patches/wasabi` adds to the Wasabi client. TLC checks them on
small instances; the theorems of the eight `...Proofs` modules are proved with TLAPS for every value of the constants.

## The system

| Part | State it keeps | Operations | What makes it correct |
| --- | --- | --- | --- |
| `peerlab/server.go` | listener, `Behavior`, one-shot delays left, transcript, one handler goroutine per connection | Start, Stop, accept, handle a message, delay, record, write | replies are those of an honest peer but for the configured faults; the transcript is never behind the client |
| `harness/runner.go`, scenarios | peers started, adapter started, waits, `/list-peers` report | configure and start, watch, wait for the tip, probe, judge, deferred stops | a verdict rests on what really happened; everything started is stopped |
| `harness/runner.go` `Run`, `score` | result rows, upsert's index, color | report, upsert, summarize | each cataloged row appears once, with its latest outcome; failures decide the color |
| `nix/patches/wasabi` | range trackers, filter-header chain, per-node assignments, output channel | assign, complete, release, process pending | filters reach the store in order and as committed, whatever the nodes do |
| adapters (`neutrino`, `kyoto`, `nakamoto`, `wasabi`, `adaptertest/fake`) | configuration, client, watches, outpoints, matches, scans under way | `/configure`, `/start`, `/stop`, `/watch-script`, `/matches`, callbacks and loops | no match is passed over; one client, of the last configuration; the process lasts |
| `addresslab`, `torlab` | addresses added to the interface, Tor network and services | allocate, expose, close | addresses last through a run, what was set up is taken down, identities are distinct |
| `overlaylab`, `chainlab`, `environment`, `scenario`, `matrix`, `api`, `cmd` | none that lasts | build fixtures, tables, reports | pure |

How they interact: `Run` starts peers, posts JSON to the adapter over HTTP, polls it until a deadline and reads
the peers' transcripts. The adapter's light client talks to the peers over TCP. The hard parts are the
concurrency of the peers' handlers (delays, one-shot delays, Stop) with the clients and with the scenario that reads
the transcript; the evidence a scenario takes from three observers that do not agree in time; early returns with
deferred clean-up; and the Wasabi synchronization, where three threads per node and all nodes share the work.
PROJECT.json lists the hazards one by one with the properties aimed at them.

## Modules

* **ChainServer** is the reply function of `handleMessage`: `Replies(b, req)` for a `Behavior` `b`, on a chain
  `0..Tip` whose data are "the genuine datum of height h" or an altered one. Hashes and encodings are left out; limits
  of messages, locators, the checkpoint interval and heights are as in the code. `Fails` is the error return.
  `Request` is the set of messages it is asked.
* **ChainClient** is a client that asks one such peer page by page (`Serve`, `AskOn`), each time from the last header it has got; its properties
  compare what it gets with statements that do not use the definitions of ChainServer. **ChainClientProofs** has the theorems.
* **PeerLab** extends it with the server: `StartServer`, `StopServer`, `Accept`, and a handler in steps `Read`,
  `TakeDelay`, `Wake`, `RecordReply`, `WriteReply` (and their failures), in the order of `handleConn` and `write`. The client
  (`Dial`, `Send`, `Hangup`) does what it likes. `sent`, `got` and `slept` are history. **PeerLabProofs** and **PeerAnswersProofs** have
  its theorems, the second those about the order of answers.
* **ScenarioRun** composes PeerLab with one scenario. The scenario functions differ in their peers' faults, the wait,
  the check after it and the evidence they accept, so each is a record (`HonestAdapter`, `EmptyCFHeaders`, ...), and the
  actions are their common statements: `StartPeer`, `Configure`, `StartAdapter`, `WatchScript`, the waits, `ListPeers`, `Judge`,
  and the deferred `StopAdapter`, `StopPeer` on every return. The light client is external and arbitrary: it may
  ban, hang up, report any tip. `report = "down"` stands for `!Connected` or a `LastError` (which a report may have of a link that is up), and every peer is reported. The failures
  of a peer's start are one (`StartPeerFails`); LabRun has them apart. `HarnessScenarios` are the scenarios of the code at every height
  of a chain. **ScenarioRunProofs** has the theorems.
* **HarnessRun** is `Run`: the catalog as skipped rows, internal checks, identity, environment, the scenarios
  one by one, `upsert` row by row with the index it built when it was called, `Summarize` row by row and its stable sort.
* **HarnessRunProofs** has the theorems about HarnessRun.
* **AdapterProtocol** is what the adapters share: the harness, which makes one call after the other and gives a call up after
  its HTTP time limit while the handler still runs (`GiveUp`); the state that handlers keep; and `Record`, the
  way all of them find outputs to a script and spends of those outputs in a block. A chain is
  which blocks pay a script (`Pays`) and which spend such an output (`Spends`).
* **NeutrinoAdapter**, **KyotoAdapter**, **NakamotoAdapter**, **WasabiAdapter** and **FakeAdapter** have the handlers of one adapter
  each, one step for each time that the lock is held, and its loops: Neutrino's rescans with their callback, Kyoto's event loop, Nakamoto's
  client thread and block loop, Wasabi's watch scanner and the disposal of its client. The light-client libraries are external: a client that runs has the
  chain, and the loops get its blocks one by one. Assumed of the libraries: Neutrino's rescan notifies its start block too (its documentation excludes it; the harness
  only watches from height 0, and the genesis block pays no watched script), and its service does not start again once stopped. A client is `built`, `running`, `stopped`, or an `orphan`, which runs and whose handle is lost.
* **Adapters** composes an adapter with the harness; `Reported` is `/matches` for one script. **AdaptersProofs** has the theorems.
* **AddressLab** and **TorLab** have the operations of the two labs, **LabRun** the runs of the harness over them: `Begin`, the start of
  the Tor lab with its ways out, the phases of a run (identity check and scenarios: `Allocate`, `Listen`, `Expose`, `Advertise`, `StopPeer`), the
  deferred closes, and `Kill`, after which another run finds the addresses of the killed one on the interface.
* **LabRunProofs** has the theorems about LabRun.
* **FilterFeed** is the abstract specification of the Wasabi synchronization: a chain of committed headers that only
  grows, and a channel that is fed filter after filter, each as its committed header says.
* **FilterSync** is the code: `CompactFilterBehavior` (one per node) and `FilterSynchronizationState`. A thread's place in
  `TrySync` is `pc[n][t]`; the test of `_assignedFilterRange` and its assignment are two steps (`AssignFilters`, `StoreFilters`),
  because nothing keeps other threads out between them. The lock of the shared state makes one
  step of each of its methods; the loops that process pending ranges take several, and hold it (`LockFree`). `Feed == INSTANCE FilterFeed`
  maps the header chain and the channel. **FilterSyncProofs** has the theorems, this refinement among them.
* **MC...** modules give the constants of each run.

`map` in PROJECT.json names the lines behind each definition. Definitions marked "Seeded fault" are not part of a model:
each is an error the code could have, used in the place of the definition after it to show that a property notices.

## Runs

| Run | Instance | What it shows |
| --- | --- | --- |
| `chain_server` | a client that begins with any request, against each single fault and a few combined ones, on a chain longer than the message limits (165 000 states) | the pages of a peer cover the chain, once and in order; a fault shows in exactly the replies it is configured for |
| `peer_lab` | one peer, two connections, two requests in all, of four shapes (one reply, several, none, an error) with a delay, a one-shot delay and a fault (87 000 states) | the transcript is never behind the client, replies keep their order, a one-shot delay is taken once and by the first reply, every request is served |
| `scenario_run` | every scenario, chain with two checkpoints, the requests that matter to it: up to two with one peer, one for each of two peers (620 000 states) | a client that was served the fault and is reported banned or down passes, also when the liar stands beside an honest peer; peers are not stopped under a running adapter and none is left; every scenario ends |
| `harness_run` | a catalog of ten rows with scenarios that report several rows of several levels (12 000 states) | one row per id, none lost, the latest report stands, the error of a scenario is in its row, the color is that of the rows |
| `filter_sync` | two honest nodes, on which the timer does not tick, or one node that invents headers and filters, never both; two blocks, ranges of one, one kind of range at a time (3 M states) | FilterFeed is implemented when ranges complete out of order, twice, never or with lies; header ranges are assigned one at a time |
| `filter_sync_live` | an honest node and a liar, one block, message and timer threads (67 000 states) | everything is delivered as long as the honest node stays |
| `adapters` | each of five adapters, two scripts (an output and its spend; an output), two blocks, two configurations, two watches, one call given up (450 000 states) | a height that an adapter is done with has its matches reported; the harness does not wait for a match in vain, both while no call was given up and no scan outlived its client; spends come with their outputs; `/stop` and `/configure` get hold of every client, but for a late one of Nakamoto and one of Wasabi per call given up; runs are served by a client of their own, but for these two after a call was given up |
| `labs` | two runs of two phases, up to three peers, every environment and allocator (165 000 states) | addresses last, a run that returns leaves nothing but what could not be removed, claimed identities are distinct, a run ends unless it waits for another program forever |
| `adapters_reused` | the instance of `adapters` with Neutrino alone and no call given up | a violation, see below |
| `scenario_served_fault`, `filter_sync_accused`, `filter_sync_block_hash` | the instances of `scenario_run` and smaller ones of `filter_sync` | violations, see below |

Why the bounds are enough: the servers' data are per height and their limits are reached at a chain of two pages; interference between
handlers needs two connections and two messages; a scenario's verdict depends on one faulty reply and one
genuine reply of the same command. In FilterSync two ranges of each kind are needed for anything to be out of order, and two
threads for the races. Larger instances tried once: one honest node with three blocks and all threads (1.9 M states), two honest nodes
with one block and all threads (3.3 M), one liar with two blocks and all threads (2 M), all with the same results. An honest node and a liar
with two blocks and both kinds of ranges in flight at once is too large for TLC: `OneKindSpec` (MCFilterSync) takes the runs in which header and filter ranges do not
overlap in time.

An adapter's hazards need an old and a new configuration, a script that is watched while another is scanned, and
an output whose spend is in a later block; more blocks only lengthen the scans. The labs need three peers for an order among those that
remain, and a second run for what a first one left. `LabRunProofs` does away with those bounds.

Bounds by name: `Tip` (chain), `MaxRequests` (messages per peer), `MaxConfigures`, `MaxWatches`, `MaxGivenUp` (calls of
the harness), `MaxPeers`, `MaxPhases`, `MaxRuns` (labs), `Threads` (which of a behavior's threads a run
has; the timer is the only one that repeats). The constants of the code (2000 headers, 1000 filters, 25 lookahead ranges, ...) become
constants small enough to be reached.

`CHECK_DEADLOCK FALSE` everywhere: scenarios, runs and clients end, and a peer nobody writes to waits.

### Fairness

`PeerFairness`: handler goroutines run. `FairSpec` of ScenarioRun: the scenario's own steps are taken; each wait has a deadline
(`context.WithTimeout`) and each HTTP call a client timeout of 30 s, so `WaitExpires` is one of them. Nothing is assumed of the light client. `FairSpec` of FilterSync: threads run, the timer
(`TickSyncInterval`) fires, a connected honest node answers, a lost node is detached, and of the assignments that
stay one grows older than its timeout (25 and 50 s) and is released. The last is strong fairness because the release happens inside
`TryAssign...`, which is called again and again and not continuously. Nothing is assumed of liars, and no node is ever connected again. `FairSpec` of Adapters: each handler and each loop goes on (threads, goroutines and tasks
are scheduled, and a rescan of a running client gets its next block), the harness need not make another call. `FairSpec` of LabRun: a run goes on by itself, unless it is `Awaiting` another program; nobody has to begin
or to kill one. The code bounds none of these waits: `torlab/control.go` reads the replies of Tor's control port without a deadline (the context bounds the
dial), chutney starts under `context.Background()` (cmd/bip157-harness/main.go:39), `chutney stop` is killed after 30 s but its children may hold the output that `CombinedOutput` waits for, and
the `ip` commands have no context. `RunsEnd` therefore says that a run ends, is killed, or waits for such a call for good: nothing else that fails keeps it from its end.

## What is proved

`HarnessRunProofs`, from `HarnessAssumption` only (catalog ids and scenario ids distinct, rows of one report distinct):
`TypeCorrect`, `UniqueRows`, `VisibleCatalog`, `LatestReport`, `DeclaredColor`, all from `Invariance`.

The argument: none of the five is inductive by itself. `upsert` builds an index of the rows it is called with and does
not add the rows it appends, so uniqueness needs `UpsertInv` (the index points at rows of its id; a pending id that
is not in the index is in no row; pending ids are distinct). That the latest report stands needs to know which rows have still
to be replaced (`LatestInv`), and the color what `Summarize` has seen (`ColorInv`), with the sort shown to be a
permutation (`SortMovesRows`, from `RankIsOnto`), so that no row is lost or doubled and the color of a permutation of the rows is that of the rows.

`LabRunProofs`, from `MaxPeersAssumption` only (there may be a peer): `LabTypesHold`, `LeasesLastAlways`, `CleanAfterEveryRun`,
`TorIsStoppedAlways` and `DistinctIdentitiesAlways`, all from `LabInvariance`. Each is strengthened by what it lacks to be inductive:
types by the fact that a service that is being advertised has a number (`TypeInv`); leases by the one that was allocated for the peer about to listen (`LeaseInv`);
the clean end by where each leased address still is on the way there, to be deleted or stuck (`CleanInv`); the stopped network by the places of a run in which it may be
up (`TorInv`); distinct identities by what an identity of peer i can be, its own addresses or a service number that was given out before (`IdInv`).
There is one lemma per invariant (`TypeStep`, `LeaseStep`, ...), with one case per action. Kills and partial failures are in all of them.

`ErrorsAreShown` (`ShownErrors`) rests on the same `Invariance` with `ErrorsInv`: a scenario that failed has its row among the rows or the pending results, with "fail" as its latest report, or a later scenario reported under its id.

`ChainClientProofs`, from `ChainAssumption` (a chain and positive limits) and `ChainClientAssumption` (the questions are requests):
`FaultsShowWhereConfigured` is, for a peer with any behavior, one lemma per command (`HeadersFaults`, `CFHeadersFaults`, ...): the reply differs from the
honest one exactly when a configured height is in `Reach`. `WalksCoverChain` needs `ClientInv`: the pages so far run without a gap from
the first height asked, do not pass the end, and the next request begins where they end. The lemmas about a page (`HeadersPageIs`, `CFHeadersPageIs`)
and about the first known locator (`LocatorStartIs`, by the least counterexample) say what ChainServer's definitions return.

`PeerLabProofs`, from `PeerLabAssumption` (`Requests` are requests, the bound on messages is a number): `PeerTypes`, `DeliveredIsAlwaysRecorded` and `OneShotDelays`
from `PeerInvariance`. `ConnInv` ties what a connection delivered to the transcript by rank (`OutAt`: the k-th reply recorded for a connection), with the
one reply that a handler has recorded and not yet written; `DelayInv` says that while a one-shot delay is left, no reply of its command was recorded or is past the point where delays are taken.
`PeerAnswersProofs` adds `AnswersStayInOrder`, from `AnswerInv`: what was answered, what a handler still has to send and what waits in the inbox are
together, in this order, the answers to all that the client sent over a connection (`FlattenSeq` lemmas, by the least counterexample).

`ScenarioRunProofs`, from `ScenarioAssumption` (two places for peers, a chain with two checkpoints, `Scenarios` among `HarnessScenarios`, which are the code's) and those of PeerLab: `ScenarioRunsPeers` is `Spec => PeerSpec`, so that
the theorems about the peers hold in a scenario (`ScenarioAnswers`: the transcript the harness judges by has, in their order, the replies that the client got). `FaultIsPunished` needs that a bad response the client had when it was reported is in the transcript, under a command the scenario takes as evidence (`FaultInv`). That rests on `AlteredInv` of the peers (a reply is altered only for a command its peer has a fault for), on the peers'
behaviors being those of the scenario (`SubjectInv`), and on a lemma about all scenarios of the code, that each accepts the commands of its faults (`ScenarioShape`). `PeersReleasedInOrder` needs where a run may be when a listener is closed (`ReleaseInv`).

`FilterSyncProofs`, from `FilterSyncAssumption`: `FilterSyncTypes`, `HeadersFollowTip`, and `SyncFeedsInOrder`, that FilterSync implements FilterFeed, each step of it a step
of the feed or a stutter. The inductive invariant `SyncInv` is `TypeInv` (with the ranges that are assigned, asked for or answered lying in the chain), `HeaderInv` (a completed header range is not empty, does not pass the tip and
is no longer being fetched) and `FilterInv` (the tracker of filter ranges is where the channel ends; delivered and pending filters are those of the committed headers). The hypotheses put no bound on what liars send.

`AdaptersProofs`, from `AdapterAssumption` (five known adapters, a chain whose spends come after their outputs): `AdapterTypes`, `ClientsAreReached`, `SpendsKeepOutputs` and `ScannedAlwaysReported`.
Types rest on `AdapterInv`. Its core is that a handler that makes a client finds an unused one (`NewClient` is a CHOOSE), which takes counting (`CountInv`): the configurations
that were accepted and those asked for are no more than `MaxConfigures`; Neutrino and Kyoto have made no more clients than configurations, and for Nakamoto and Wasabi, whose `/start` makes the client,
the clients made, the `/start` calls that have come in and the one that is due are no more than configurations. `ClientsAreReached` is `OneClientOfThisRun`: no client is `Lost` (it runs, is not installed and no handler holds it), and the installed one is of this run. It holds without exception for Neutrino and Kyoto, which make their client
under the lock (`NodeInv`: one that was built or runs is the installed one). For Nakamoto no client is lost, also after calls were given up, but the orphan of a late load: whoever takes a client's place shuts it down (`HeldInv`). Wasabi, whose `SetClient` drops the client it replaces, loses no more clients than
calls were given up: to find the place taken, a `/start` must overlap another handler, and one of the two has been given up. The invariant is a balance (`CostInv`): the clients lost, the handlers that go on after their call was given up (`Late`), and the client that the `/start` the harness waits for
is about to drop (`Owed`) are together no more than the calls given up; it needs to know where the client of each handler is (`PlaceInv`). That the installed client of Nakamoto and Wasabi is of this run holds while nothing was given up: then there is one
handler at a time, and it has found the place empty (`SlotInv`). What is excepted does happen, see below; no assumption on `straggler` is made. For `SpendsKeepOutputs` each step of the five adapters leaves matches and outpoints alone, forgets both, adds an
empty entry, or records a block (`NextFinds`); the outpoints are matches themselves (`OutpointsAreMatches`), which makes the property inductive.

`ScannedAlwaysReported` is about runs that are `Smooth`: nothing was given up, no scan outlived its client, the process runs. Every step into such a run comes from one. It needs `ServeInv`: the blocks a scan has passed, but for the one
in hand and the ones it did not get (`Passed`), are `Done` for the script it serves, their outputs among the outpoints and the spends of these among the matches. `AckInv` says what the handlers have kept for the calls answered and the one under way, so that an acknowledged
script is never watched twice with another start height. What a scan is at differs: Neutrino's rescan serves the last script only and records a block before the next (`NeutrinoScanInv`); Kyoto's loop serves all of them and a rescan only moves it back, so that the block in hand
may lie past the place it goes on from (`KyotoServeInv`); a block that Nakamoto has in hand may be one of the scan before, which then stands at the start height or below (`NakamotoScanInv`); Wasabi's scanner copies the cursor of one watch and marks it when it is through, and a scanner that is being
disposed of may go on with an old script, but then the watches are forgotten or still those of its configuration (`WasabiScanInv`). The lemmas are one per adapter and side (`KyotoHandlerServes`, `KyotoScanServes`, ...), on `DoneRecord` (recording the block next to those done with) and `DoneSkip` (a block whose filter lacks the script).

Only model-checked: liveness (`RequestsAreServed`, `ScenarioEnds`, `AllDelivered`, `MatchesFound`, `RunsEnd`), which is out of the prover's reach.

## Disagreements found

* A scenario may pass a disconnected client on a transcript that has no altered reply (`scenario_served_fault`): `transcriptHasOutbound`
  looks for a command, docs/adapters.md:119-122 asks for proof that the bad response was served.
* Threads of one Wasabi behavior overwrite its assignment, and an honest node is disconnected for invalid filters (`filter_sync_accused`).
* A genuine filter under another block's hash is delivered under that hash (`filter_sync_block_hash`; scenario/catalog.go:168).
* Neutrino's `/configure` closes the rescan of the old configuration and does not wait for it: a callback that is under way writes to the map of a
  script that is no longer there, and the adapter process ends (`adapters_reused`; main.go:401, docs/adapters.md:53-54). Only an output in the block does it.

Seen in the adapters' models, with no run kept for them:

* Nakamoto's `/start` times out, its client sends its handle before the channel is dropped, and runs where no `/stop` gets at it (main.rs:315-322, docs/adapters.md:22): the exception of `OneClientOfThisRun` without a given-up call.
* Two `/start` of Wasabi that overlap each install a client, and the first is never disposed of; a `/start` of Wasabi or Nakamoto that was given up installs a client of the old configuration after
  `/configure` (Program.cs:52-59, main.rs:320; docs/adapters.md:19,22): the exceptions with one.
* Nakamoto's block loop records the last block of a stopped client in the next configuration, where it is reported if its script is watched again (main.rs:498, docs/adapters.md:19). Kyoto and Wasabi may do so as well.
* A scan of Wasabi that is not done 5 s after its client was told to stop moves the cursor of the script in the next configuration, which is then not scanned below it (AdapterState.cs:72,92): `ScannedIsReported` fails without its condition on `straggler`.
* A `/watch-script` of Neutrino that was given up closes the rescan of the next run when it goes on (main.go:231-258). Nakamoto's may replace it as well. `MatchesFound` fails without its condition on `givenUp`.

And elsewhere: a SHOULD scenario that decides a MUST row and returns an error leaves the report without red (PROJECT_PLAN.md:394
says that MUST failures are red; `ErrorsAreShown` has what does hold); the outage scenario passes on the tip of the block headers, which may come before the
delayed reply (runner.go:1693); the evidence "was not punished after serving ..." is written when nothing altered was served (runner.go:1300);
a row that a scenario decides besides its own stays "not executed" when the scenario fails before it (runner.go:422);
a range completed by two nodes stays among the pending responses for good (0001 patch, PendingCount);
the fake adapter's `/configure` keeps its watches (server.go:92); Neutrino, Kyoto and Wasabi answer `/matches` without regard to the script (docs/adapters.md:24);
Kyoto's `/list-peers` reports all peers connected when one is (main.rs:405).
AddOnion does not ask Tor to detach the service and closes the control connection (torlab/control.go:40-47): Tor removes such a service with its connection, so that the onion a peer advertises
(docs/environments.md:38) is not there. The tests replace Tor, and the fake adapter does not dial onions; what Tor does is outside of the source and TorLab leaves it open.

## Not modelled, and why

* The light-client libraries of the adapters: arbitrary in ScenarioRun, a synced chain in Adapters, where peers do not lie. Exceptions in the Wasabi client, its connections and its
  filter store; the queries `/best-block`, `/block-hash`, `/list-peers` (the last is in ScenarioRun, as a report); the handshakes of the fake adapter.
* Two harnesses on one host, which would take over and delete each other's addresses.
* Reorganizations in FilterSync (`IsReorg`, `ClearPendingState`) and the store that reads the channel: planned. Torn writes to the
  unsynchronized `_collectedFilters` list; each access is one step.
* `HandleInvalid` and the release of assignments are one step; a disconnected node's messages are dropped at once.
* Peers: a client that keeps its connection open reads what it is sent (`WriteReply` is never blocked by a full buffer), messages that cannot be decoded are not sent, and of a connection that is
  not accepted yet a hangup shows afterwards. The scenario of the IPv6 handshake is left out in the other environments, where it returns at once.
* Old headers and reorganizations in `AppendTip`; the filter ranges' lookahead has no property of its own, and one block (`filter_sync_live`) does not reach it.
* What an adapter finds after a call was given up, or a scan has outlived its client: `ScannedIsReported` and `MatchesFound` say nothing of such runs; the list above has what may go wrong in them.
* The Tor network of a killed run, which nobody stops: `Begin` forgets it. Services of Tor whose reply was lost.
* Time: a delay or timeout may elapse whenever the code could see it elapse.
* Block and filter encoding (`chainlab`), reports, matrix, commands, Nix files: pure or input and output only.

## Plan

1. Done: ChainServer, PeerLab, ScenarioRun, HarnessRun with its proofs, FilterFeed, FilterSync.
2. Done: AdapterProtocol and the five adapters; AddressLab, TorLab and LabRun with its proofs.
   Left: reorganizations and the consuming store in FilterSync; connections of the Wasabi client; the fake's handshakes.
3. Done: the safety properties of ChainClient, PeerLab, ScenarioRun, HarnessRun, FilterSync, LabRun and Adapters.
