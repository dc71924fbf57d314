----------------------------- MODULE HarnessRun -----------------------------
(***************************************************************************)
(* The report of one harness run: Run and upsert of harness/runner.go and  *)
(* Summarize of score/score.go.  Run starts from the catalog with every    *)
(* row skipped, replaces rows by the results of its internal checks and of *)
(* the adapter scenarios, and summarizes the rows as a color.              *)
(*                                                                         *)
(* What a scenario does is the subject of ScenarioRun; here it reports all *)
(* its rows with one status, or returns an error.  Row identifiers are     *)
(* numbers, in the order of their names.                                   *)
(***************************************************************************)
EXTENDS Integers, Sequences, FiniteSets

CONSTANTS
  Catalog,     \* scenario.Catalog() and the honest scenario: <<[id, level], ...>>
  Internal,    \* rows of runBIP158Internal
  Identity,    \* the row of peerIdentityResults
  EnvRow,      \* the row of environmentResult
  Scenarios    \* adapterScenarios: <<[id, level, reports: <<[id, level], ...>>], ...>>

Levels   == {"must", "should", "info"}
Statuses == {"pass", "fail", "unsupported", "skipped"}
Def      == [id : Nat, level : Levels]
Row      == [id : Nat, level : Levels, status : Statuses]

IdsOf(rs) == {rs[k].id : k \in DOMAIN rs}

DistinctIds(rs) == \A j, k \in DOMAIN rs : rs[j].id = rs[k].id => j = k

ASSUME HarnessAssumption ==
  /\ Catalog \in Seq(Def) /\ DistinctIds(Catalog)
  /\ Internal \in Seq(Def) /\ DistinctIds(Internal)
  /\ Identity \in Def
  /\ EnvRow \in Def
  /\ Scenarios \in Seq([id : Nat, level : Levels, reports : Seq(Def)])
  /\ \A n \in DOMAIN Scenarios : DistinctIds(Scenarios[n].reports)
  /\ DistinctIds(Scenarios)

VARIABLES
  stage,     \* the statement Run has reached
  rows,      \* results
  pending,   \* the replacements upsert has still to go through
  index,     \* the index upsert built from the rows it was called with
  scen,      \* the next adapter scenario
  color,     \* the color Summarize has come to
  pos,       \* the next row Summarize looks at
  latest,    \* history: the last status reported for each row, by id
  erred      \* history: the scenarios that returned an error

vars == <<stage, rows, pending, index, scen, color, pos, latest, erred>>

-----------------------------------------------------------------------------

Result(def, status) == [id |-> def.id, level |-> def.level, status |-> status]

\* resultsFromSpecs: all the rows of a scenario with the same status.
Results(defs, status) == [k \in DOMAIN defs |-> Result(defs[k], status)]

\* The last row of an identifier.
LastOf(rs, id) ==
  CHOOSE k \in DOMAIN rs : rs[k].id = id /\ \A j \in DOMAIN rs : rs[j].id = id => j <= k

\* Seeded fault for CatalogStaysVisible: the index points at the last row.
IndexOfEnd(rs) == [id \in IdsOf(rs) |-> Len(rs)]

\* The index of upsert: the last row of each identifier.
IndexOf(rs) == [id \in IdsOf(rs) |-> LastOf(rs, id)]

\* upsert(&results, new...) is called: it builds its index, goes through the
\* replacements one by one, and Run carries on at stage next.
Report(new, next) ==
  /\ pending' = new
  /\ index' = IndexOf(rows)
  /\ stage' = next
  /\ latest' = [id \in DOMAIN latest \cup IdsOf(new) |->
                  IF id \in IdsOf(new) THEN new[LastOf(new, id)].status ELSE latest[id]]

\* Seeded fault for RowsAreUnique: a replacement is always appended.
UpsertAppends ==
  /\ pending # <<>>
  /\ rows' = Append(rows, Head(pending))
  /\ pending' = Tail(pending)
  /\ UNCHANGED <<stage, index, scen, color, pos, latest, erred>>

\* Seeded fault for LatestReportStands: an unsupported row stays skipped.
UpsertIgnoresUnsupported ==
  /\ pending # <<>>
  /\ LET new == Head(pending)
     IN  rows' = IF new.id \notin DOMAIN index THEN Append(rows, new)
                 ELSE IF new.status = "unsupported" THEN rows
                 ELSE [rows EXCEPT ![index[new.id]] = new]
  /\ pending' = Tail(pending)
  /\ UNCHANGED <<stage, index, scen, color, pos, latest, erred>>

\* One turn of the loop of upsert.
UpsertOne ==
  /\ pending # <<>>
  /\ LET new == Head(pending)
     IN  rows' = IF new.id \in DOMAIN index
                 THEN [rows EXCEPT ![index[new.id]] = new]
                 ELSE Append(rows, new)
  /\ pending' = Tail(pending)
  /\ UNCHANGED <<stage, index, scen, color, pos, latest, erred>>

\* Run has reached statement s and no upsert is under way.
At(s) == stage = s /\ pending = <<>>

\* The internal checks: each passes or fails.
BIP158Internal ==
  /\ At("internal")
  /\ \E failed \in SUBSET DOMAIN Internal :
       Report([k \in DOMAIN Internal |->
                 Result(Internal[k], IF k \in failed THEN "fail" ELSE "pass")], "identity")
  /\ UNCHANGED <<rows, scen, color, pos, erred>>

PeerIdentity ==
  /\ At("identity")
  /\ \E status \in {"pass", "fail", "unsupported"} :
       Report(<<Result(Identity, status)>>, "adapter")
  /\ UNCHANGED <<rows, scen, color, pos, erred>>

\* No --adapter-url was given: only the internal results are summarized.
NoAdapter ==
  /\ At("adapter")
  /\ stage' = "summarize"
  /\ UNCHANGED <<rows, pending, index, scen, color, pos, latest, erred>>

\* The adapter does not support the environment, or its overlay lab is not
\* active: two upserts, then Summarize.
Unsupported ==
  /\ At("adapter")
  /\ Report(<<Result(EnvRow, "unsupported")>>, "skip")
  /\ UNCHANGED <<rows, scen, color, pos, erred>>

\* skippedAdapterScenarios: the rows the scenarios are named after.
SkipScenarios ==
  /\ At("skip")
  /\ Report(Results(Scenarios, "skipped"), "summarize")
  /\ UNCHANGED <<rows, scen, color, pos, erred>>

SupportedEnvironment ==
  /\ At("adapter")
  /\ Report(<<Result(EnvRow, "pass")>>, "scenarios")
  /\ UNCHANGED <<rows, scen, color, pos, erred>>

\* A scenario that came to a verdict reports its rows.
ScenarioReports ==
  /\ At("scenarios")
  /\ scen <= Len(Scenarios)
  /\ \E status \in {"pass", "fail", "skipped"} :
       Report(Results(Scenarios[scen].reports, status), "scenarios")
  /\ scen' = scen + 1
  /\ UNCHANGED <<rows, color, pos, erred>>

\* Seeded fault for TypeOK: the error is booked after the scenario is left.
ScenarioErrsLate ==
  /\ At("scenarios")
  /\ scen <= Len(Scenarios)
  /\ Report(<<Result(Scenarios[scen], "fail")>>, "scenarios")
  /\ scen' = scen + 1
  /\ erred' = erred \cup {scen'}
  /\ UNCHANGED <<rows, color, pos>>

\* Seeded fault for ErrorsAreShown: an error leaves the row as it was.
ScenarioErrsUnseen ==
  /\ At("scenarios")
  /\ scen <= Len(Scenarios)
  /\ erred' = erred \cup {scen}
  /\ scen' = scen + 1
  /\ UNCHANGED <<stage, rows, pending, index, color, pos, latest>>

\* A scenario that returned an error fails under its own name.
ScenarioErrs ==
  /\ At("scenarios")
  /\ scen <= Len(Scenarios)
  /\ Report(<<Result(Scenarios[scen], "fail")>>, "scenarios")
  /\ erred' = erred \cup {scen}
  /\ scen' = scen + 1
  /\ UNCHANGED <<rows, color, pos>>

ScenariosDone ==
  /\ At("scenarios")
  /\ scen > Len(Scenarios)
  /\ stage' = "summarize"
  /\ UNCHANGED <<rows, pending, index, scen, color, pos, latest, erred>>

-----------------------------------------------------------------------------
(* Summarize. *)

Bad(row) == row.status \notin {"pass", "skipped"}

\* Seeded fault for ColorIsDeclared: orange does not ask for green.
SummarizeRowAnew ==
  /\ At("summarize")
  /\ pos <= Len(rows)
  /\ color' = IF rows[pos].level = "must" /\ Bad(rows[pos]) THEN "red"
              ELSE IF rows[pos].level = "should" /\ Bad(rows[pos]) THEN "orange" ELSE color
  /\ pos' = pos + 1
  /\ UNCHANGED <<stage, rows, pending, index, scen, latest, erred>>

\* One turn of the loop over the results.
SummarizeRow ==
  /\ At("summarize")
  /\ pos <= Len(rows)
  /\ color' = IF rows[pos].level = "must" /\ Bad(rows[pos]) THEN "red"
              ELSE IF color = "green" /\ rows[pos].level = "should" /\ Bad(rows[pos])
              THEN "orange" ELSE color
  /\ pos' = pos + 1
  /\ UNCHANGED <<stage, rows, pending, index, scen, latest, erred>>

\* sort.SliceStable by ID: row k of the result has k - 1 rows before it.
Before(rs, j, k) ==
  \/ rs[j].id < rs[k].id
  \/ rs[j].id = rs[k].id /\ j < k

SortById(rs) ==
  [k \in DOMAIN rs |->
     rs[CHOOSE i \in DOMAIN rs :
          Cardinality({j \in DOMAIN rs : Before(rs, j, i)}) = k - 1]]

SortRows ==
  /\ At("summarize")
  /\ pos > Len(rows)
  /\ rows' = SortById(rows)
  /\ stage' = "done"
  /\ UNCHANGED <<pending, index, scen, color, pos, latest, erred>>

-----------------------------------------------------------------------------

\* catalogAsSkipped.
Init ==
  /\ stage = "internal"
  /\ rows = Results(Catalog, "skipped")
  /\ pending = <<>>
  /\ index = IndexOf(<<>>)
  /\ scen = 1
  /\ color = "green"
  /\ pos = 1
  /\ latest = [id \in IdsOf(Catalog) |-> "skipped"]
  /\ erred = {}

Next ==
  \/ UpsertOne
  \/ BIP158Internal \/ PeerIdentity
  \/ NoAdapter \/ Unsupported \/ SkipScenarios \/ SupportedEnvironment
  \/ ScenarioReports \/ ScenarioErrs \/ ScenariosDone
  \/ SummarizeRow \/ SortRows

Spec == Init /\ [][Next]_vars

-----------------------------------------------------------------------------
(* Properties. *)

TypeOK ==
  /\ stage \in {"internal", "identity", "adapter", "skip", "scenarios", "summarize", "done"}
  /\ rows \in Seq(Row)
  /\ pending \in Seq(Row)
  /\ DOMAIN index \subseteq Nat
  /\ \A id \in DOMAIN index : index[id] \in DOMAIN rows
  /\ scen \in 1 .. Len(Scenarios) + 1
  /\ color \in {"green", "orange", "red"}
  /\ pos \in 1 .. Len(rows) + 1
  /\ erred \subseteq DOMAIN Scenarios

\* The color the suite's policy gives to the first n rows.
Declared(rs, n) ==
  IF \E k \in 1 .. n : rs[k].level = "must" /\ Bad(rs[k]) THEN "red"
  ELSE IF \E k \in 1 .. n : rs[k].level = "should" /\ Bad(rs[k]) THEN "orange"
  ELSE "green"

\* Red if and only if a MUST row is neither passed nor skipped, orange if and
\* only if that is so of a SHOULD row and of no MUST row (Summarize): whatever
\* the order of the rows, a later row never lightens the color.
ColorIsDeclared == stage = "done" => color = Declared(rows, Len(rows))

\* No scenario is reported twice: upsert replaces the row it reported before,
\* although it does not add the rows it appends to its index.
RowsAreUnique == DistinctIds(rows)

\* "Missing scenarios are visible in every report" (Run): no cataloged row ever
\* disappears.
CatalogStaysVisible == IdsOf(Catalog) \subseteq IdsOf(rows)

\* Between two upserts each row shows the last status reported for it, and
\* "skipped" if none was: early rows are not overwritten by stale ones.
LatestReportStands ==
  pending = <<>> => \A k \in DOMAIN rows : rows[k].status = latest[rows[k].id]

\* runner.go:121-131: the error of a scenario is not lost.  In the report its own
\* row is failed, whatever came before and after, unless a later scenario reports
\* under the same id.
ErrorsAreShown ==
  stage = "done" =>
    \A n \in erred :
      \/ \E k \in DOMAIN rows : rows[k].id = Scenarios[n].id /\ rows[k].status = "fail"
      \/ \E m \in n + 1 .. Len(Scenarios) :
           Scenarios[n].id \in {Scenarios[m].id} \cup IdsOf(Scenarios[m].reports)

=============================================================================
