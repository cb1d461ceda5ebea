------------------------------ MODULE RunExport ------------------------------
(***************************************************************************)
(* The export of a run to a portable bundle, while the run goes on: the    *)
(* statements of exportRunBundle each see the database of their moment,    *)
(* and an importer checks what they give together.                         *)
(*                                                                         *)
(* The run is kept to what it commits: rows, and the events that name      *)
(* them.  A row is a number of its kind, an artifact the number of the     *)
(* attempt that produced it.  MaxEvents and MaxSnapshots bound what a run  *)
(* commits; grants come with the run and are left out.                     *)
(***************************************************************************)
EXTENDS Naturals, Sequences, FiniteSets

CONSTANTS
  MaxEvents,       \* events of the run
  MaxSnapshots     \* revisions of its workspace

ASSUME RunExportAssumption == MaxEvents \in Nat /\ MaxSnapshots \in Nat

VARIABLES
  source,     \* the run: its status, events and rows
  bundle,     \* what the export has read of it
  exporter    \* the export: the statement it runs next, and its outcome

exportVars == <<source, bundle, exporter>>

Kinds == {"attempts", "receipts", "approvals", "revisions", "artifacts"}
NoRows == [kind \in Kinds |-> {}]

\* A queued run, whose first event says that it was created.
NewSource ==
  [status |-> "QUEUED", events |-> <<[kind |-> "none", id |-> 0]>>, rows |-> NoRows]

RunExportInit ==
  /\ source = NewSource
  /\ bundle = [run |-> [status |-> "none", seq |-> 0], events |-> <<>>,
               rows |-> NoRows]
  /\ exporter = [at |-> 1, outcome |-> "reading"]
-----------------------------------------------------------------------------
(* The run goes on *)

\* An appended event takes the next seq; it names a row of a kind, or none.
Appended(kind, id) == [source EXCEPT !.events = Append(@, [kind |-> kind, id |-> id])]

\* The row is inserted in the transaction of the event that names it.
Insert(kind) ==
  LET id == Cardinality(source.rows[kind]) + 1 IN
  [Appended(kind, id) EXCEPT !.rows[kind] = @ \cup {id}]

Commits(after) ==
  /\ Len(source.events) < MaxEvents
  /\ source' = after
  /\ UNCHANGED <<bundle, exporter>>

AttemptStarts ==
  /\ source.status = "QUEUED"
  /\ Commits([Insert("attempts") EXCEPT !.status = "RUNNING"])

\* The attempt may be a stale one: its receipt is not fenced.
ToolStarts ==
  /\ source.rows["attempts"] # {}
  /\ Commits(Insert("receipts"))

ApprovalIsAsked ==
  /\ source.status = "RUNNING"
  /\ Commits([Insert("approvals") EXCEPT !.status = "WAITING_APPROVAL"])

\* A decision, or the reaper.
SourceRequeued ==
  /\ source.status \in {"RUNNING", "WAITING_APPROVAL"}
  /\ Commits([Appended("none", 0) EXCEPT !.status = "QUEUED"])

\* A snapshot of the workspace; a stale attempt may still take one.
SnapshotIsSaved ==
  /\ source.rows["attempts"] # {} /\ Cardinality(source.rows["revisions"]) < MaxSnapshots
  /\ Commits(Insert("revisions"))

\* The artifacts of a completion are inserted with it.
SourceCompletes ==
  LET a == Cardinality(source.rows["attempts"]) IN
  /\ source.status = "RUNNING"
  /\ Commits([Appended("artifacts", a) EXCEPT !.rows["artifacts"] = @ \cup {a},
                                             !.status = "COMPLETED"])
-----------------------------------------------------------------------------
(* exportRunBundle *)

\* Faulty variant: the attempts are read with the run.
AttemptsFirst ==
  <<"run", "attempts", "events", "revisions", "artifacts", "receipts", "approvals">>

\* The order of its statements.
Order ==
  <<"run", "events", "revisions", "artifacts", "attempts", "receipts", "approvals">>

Statement(part) ==
  /\ exporter.outcome = "reading" /\ Order[exporter.at] = part
  /\ exporter' = [at |-> exporter.at + 1,
                  outcome |-> IF exporter.at = Len(Order) THEN "exported" ELSE "reading"]
  /\ UNCHANGED source

Ends(outcome) ==
  /\ exporter' = [exporter EXCEPT !.outcome = outcome]
  /\ UNCHANGED <<source, bundle>>

ReadRun ==
  /\ Statement("run")
  /\ bundle' = [bundle EXCEPT !.run =
       [status |-> source.status, seq |-> Len(source.events)]]

\* A run of another tenant, or none.
RunNotFound ==
  /\ exporter = [at |-> 1, outcome |-> "reading"]
  /\ Ends("not_found")

\* They are gapless, or there is no export.
ReadEvents ==
  /\ Statement("events")
  /\ bundle' = [bundle EXCEPT !.events = source.events]

\* The revisions of its workspace, and the object of the last.
ReadRevisions ==
  /\ Statement("revisions")
  /\ bundle' = [bundle EXCEPT !.rows["revisions"] = source.rows["revisions"]]

\* listArtifactsForRun.
ReadArtifacts ==
  /\ Statement("artifacts")
  /\ bundle' = [bundle EXCEPT !.rows["artifacts"] = source.rows["artifacts"]]

\* A snapshot or an artifact is not in the object store, or is not what its row
\* says (artifactToBundleRecord).
ContentIsRefused ==
  /\ exporter.outcome = "reading"
  /\ \/ Order[exporter.at] = "revisions" /\ source.rows["revisions"] # {}
     \/ Order[exporter.at] = "artifacts" /\ source.rows["artifacts"] # {}
  /\ Ends("failed")

ReadRows(kind) ==
  /\ Statement(kind)
  /\ bundle' = [bundle EXCEPT !.rows[kind] = source.rows[kind]]

\* validateRunBundleForImport: every artifact is of an attempt of the bundle.
Importable == bundle.rows["artifacts"] \subseteq bundle.rows["attempts"]

RunExportNext ==
  \/ AttemptStarts \/ ToolStarts \/ ApprovalIsAsked \/ SourceRequeued
  \/ SnapshotIsSaved \/ SourceCompletes
  \/ ReadRun \/ RunNotFound \/ ReadEvents \/ ReadRevisions \/ ReadArtifacts \/ ContentIsRefused
  \/ \E kind \in {"attempts", "receipts", "approvals"} : ReadRows(kind)

RunExportSpec == RunExportInit /\ [][RunExportNext]_exportVars
-----------------------------------------------------------------------------
(* Properties *)

\* The type of the state.
RunExportTypeOK ==
  /\ source.status \in {"QUEUED", "RUNNING", "WAITING_APPROVAL", "COMPLETED"}
  /\ Len(source.events) \in 1..MaxEvents
  /\ source.rows \in [Kinds -> SUBSET Nat] /\ bundle.rows \in [Kinds -> SUBSET Nat]
  /\ exporter.outcome \in {"reading", "exported", "not_found", "failed"}

\* However the run goes on between the statements of an export, what they give
\* holds together: it passes the importer's check, the events reach the seq of
\* its run row, what an event names is there, and so are the artifacts of a run
\* that had ended ("Everything a customer needs to audit, replay, or move the run
\* to another deployment", runBundle.ts:10-11).
ExportsHoldTogether ==
  exporter.outcome = "exported" =>
    /\ Importable
    /\ Len(bundle.events) >= bundle.run.seq
    /\ bundle.run.status = "COMPLETED" => bundle.rows["artifacts"] # {}
    /\ \A i \in DOMAIN bundle.events :
         LET e == bundle.events[i] IN
         e.kind # "none" => e.id \in bundle.rows[e.kind]
=============================================================================
