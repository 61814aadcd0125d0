--------------------------- MODULE VulnEvaluation ---------------------------
(***************************************************************************)
(* Evaluate of src/internal/vulndb/evaluation.go: the vulnerability records  *)
(* of a loaded release against the modules, toolchain and imports of one     *)
(* project, by the compact index or by a scan of all records.                *)
(*                                                                         *)
(* The nested loops of Evaluate, evaluateRecord and evaluateRanges are one   *)
(* machine whose innermost loop is VulnRange; a step is a turn of one of     *)
(* them.  A task is an argument list: the release, the input, the time and   *)
(* whether the index is used.  A record is its review status and its affected *)
(* entries; its other fields are copied to the finding unread.  An id is its  *)
(* place in the order of strings.                                          *)
(***************************************************************************)
EXTENDS VulnRange, FiniteSets, SequencesExt

CONSTANT Tasks    \* the calls of Evaluate, as sets of calls of one kind

IsList(list) == Len(list) \in Nat /\ DOMAIN list = 1 .. Len(list)

\* What the release, the input and the clock can be.
ASSUME TasksAssumption ==
  \A kind \in Tasks : \A t \in kind :
    /\ t.input.toolchain \in Toolchain \cup {Invalid, None}
    /\ \A name \in DOMAIN t.input.modules : t.input.modules[name] \in Version \cup {Invalid}
    /\ t.now \in Nat \cup {None} /\ t.release.fetchedAt \in Nat /\ t.release.maxAge \in Nat
    /\ DOMAIN t.release.records \subseteq Nat /\ IsFiniteSet(DOMAIN t.release.records)
    /\ \A id \in DOMAIN t.release.records :
         LET list == t.release.records[id].affected
         IN  /\ IsList(list)
             /\ \A i \in DOMAIN list :
                  /\ IsList(list[i].ranges)
                  /\ \A k \in DOMAIN list[i].ranges : list[i].ranges[k].events \in Seq(Event)

\* A report without a diagnostic is told from one with.
ASSUME CodesAssumption == None \notin {"vulndb-unavailable", "vulndb-input-invalid"}

VARIABLES
  task,       \* the call
  loop,       \* the loop that is running
  todo,       \* ids of the candidates not evaluated yet, in order
  entry,      \* the affected entry and the range the loops have come to
  unknown,    \* evaluateRecord: an entry that applies could not be decided
  rangeFlags, \* evaluateRanges: outcomes of the ranges so far
  findings,   \* id and status, in order
  report      \* what Evaluate returned, or None

vars == <<task, loop, todo, entry, unknown, rangeFlags, findings, report, rangeVars>>

----------------------------------------------------------------------------
\* Package names of the Go distribution: their version is the toolchain's.
Distribution == {"stdlib", "toolchain"}

records == task.release.records
input == task.input

\* versionForPackage; None if the package is not in the project.
VersionFor(name) ==
  IF name \in Distribution
  THEN LET version == normalizeToolchainVersion(input.toolchain)
       IN  IF version = Invalid THEN None ELSE version
  ELSE IF name \in DOMAIN input.modules THEN input.modules[name] ELSE None

SelectorMatches(selectors, value) == selectors = {} \/ value \in selectors

\* matchingImports: an entry that names imports applies only with one of them.
MatchingImports(imports) ==
  imports = {} \/ \E item \in imports :
                    /\ item.path \in input.imports
                    /\ SelectorMatches(item.goos, input.goos)
                    /\ SelectorMatches(item.goarch, input.goarch)

Names(record) == {record.affected[i].name : i \in DOMAIN record.affected}
CouldApply(record) == \E name \in Names(record) : VersionFor(name) # None

\* buildIndex, restricted to one path.
Index(path) == {id \in DOMAIN records : path \in Names(records[id])}

\* candidateIDs.
Candidates ==
  IF task.indexed
  THEN UNION {Index(path) : path \in DOMAIN input.modules
                              \cup IF input.toolchain = None THEN {} ELSE Distribution}
  ELSE {id \in DOMAIN records : CouldApply(records[id])}

\* sort.Strings.
Orders(ids) ==
  {list \in [1 .. Cardinality(ids) -> ids] :
     \A i, k \in DOMAIN list : i < k => list[i] < list[k]}

\* FreshnessPolicy.Evaluate; the loader admits no release without a time and an age.
FreshnessIgnoringFuture ==    \* a broken variant: a clock behind the release is fine
  IF task.now = None THEN "unknown"
  ELSE IF task.now - task.release.fetchedAt > task.release.maxAge
       THEN "stale" ELSE "current"

Freshness ==
  IF task.now = None THEN "unknown"
  ELSE IF \/ task.release.fetchedAt > task.now
          \/ task.now - task.release.fetchedAt > task.release.maxAge
       THEN "stale" ELSE "current"

----------------------------------------------------------------------------
NoFlags == [affected |-> FALSE, unknown |-> FALSE]

Init ==
  /\ \E kind \in Tasks : task \in kind
  /\ loop = "evaluate"
  /\ todo = <<>> /\ entry = [affected |-> 1, range |-> 1]
  /\ unknown = FALSE /\ rangeFlags = NoFlags
  /\ findings = <<>>
  /\ report = None
  /\ RangeInit

Return(status_, freshness, found, code) ==
  /\ report' = [status |-> status_, freshness |-> freshness, findings |-> found,
                code |-> code]
  /\ loop' = "done"

\* EvaluateArchive: LoadArchive rejects the archive, for whatever reason (one code
\* stands for all of its).
LoadFails ==
  /\ loop = "evaluate"
  /\ Return("unknown", "unknown", <<>>, "vulndb-unavailable")
  /\ UNCHANGED <<task, todo, entry, unknown, rangeFlags, findings, rangeVars>>

\* Evaluate up to its loop: an incomplete input, data that is not current, or
\* the candidates.
Begin ==
  /\ loop = "evaluate"
  /\ \/ /\ ~input.complete
        /\ Return("unknown", "unknown", <<>>, "vulndb-input-invalid")
        /\ UNCHANGED todo
     \/ /\ input.complete /\ Freshness # "current"
        /\ \E list \in Orders(Candidates) :
             Return("unknown", Freshness,
                  [i \in DOMAIN list |-> [id |-> list[i], status |-> "unknown"]],
                  IF Freshness = "stale" THEN "vulndb-stale"
                  ELSE "vulndb-freshness-unknown")
        /\ UNCHANGED todo
     \/ /\ input.complete /\ Freshness = "current"
        /\ todo' \in Orders(Candidates)
        /\ loop' = "records"
        /\ UNCHANGED report
  /\ UNCHANGED <<task, entry, unknown, rangeFlags, findings, rangeVars>>

----------------------------------------------------------------------------
\* evaluateRecord.
record == records[Head(todo)]
affectedEntry == record.affected[entry.affected]
ranges == affectedEntry.ranges

Found(status_) ==
  /\ findings' = Append(findings, [id |-> Head(todo), status |-> status_])
  /\ todo' = Tail(todo)
  /\ loop' = "records"

OpenRecord ==
  /\ loop = "records" /\ todo # <<>>
  /\ IF record.reviewed
     THEN loop' = "affected" /\ UNCHANGED <<todo, findings>>
     ELSE Found("unknown")
  /\ entry' = [affected |-> 1, range |-> 1]
  /\ unknown' = FALSE
  /\ UNCHANGED <<task, rangeFlags, report, rangeVars>>

InEntries == loop = "affected" /\ entry.affected \in DOMAIN record.affected
AppliesTo(a) == VersionFor(a.name) # None /\ MatchingImports(a.imports)
Applies == AppliesTo(affectedEntry)

NextEntry(isUnknown) ==
  /\ entry' = [affected |-> entry.affected + 1, range |-> 1]
  /\ unknown' = isUnknown
  /\ loop' = "affected"

SkipEntry ==
  /\ InEntries /\ ~Applies
  /\ NextEntry(unknown)
  /\ UNCHANGED <<task, todo, rangeFlags, findings, report, rangeVars>>

\* evaluateRanges gives up before its loop.
Undecided ==
  /\ InEntries /\ Applies
  /\ VersionFor(affectedEntry.name) = Invalid \/ ranges = <<>>
  /\ NextEntry(TRUE)
  /\ UNCHANGED <<task, todo, rangeFlags, findings, report, rangeVars>>

EnterRanges ==
  /\ InEntries /\ Applies
  /\ VersionFor(affectedEntry.name) # Invalid /\ ranges # <<>>
  /\ loop' = "ranges"
  /\ rangeFlags' = NoFlags
  /\ UNCHANGED <<task, todo, entry, unknown, findings, report, rangeVars>>

InRanges == loop = "ranges" /\ entry.range \in DOMAIN ranges

\* evaluateRange gives up before its loop: not SEMVER, or no events.
Unsupported ==
  /\ InRanges
  /\ ~ranges[entry.range].semver \/ ranges[entry.range].events = <<>>
  /\ rangeFlags' = [rangeFlags EXCEPT !.unknown = TRUE]
  /\ entry' = [entry EXCEPT !.range = @ + 1]
  /\ UNCHANGED <<task, loop, todo, unknown, findings, report, rangeVars>>

EnterRange ==
  /\ InRanges
  /\ ranges[entry.range].semver /\ ranges[entry.range].events # <<>>
  /\ Call(ranges[entry.range].events, VersionFor(affectedEntry.name))
  /\ loop' = "events"
  /\ UNCHANGED <<task, todo, entry, unknown, rangeFlags, findings, report>>

ScanRange ==
  /\ loop = "events"
  /\ Scan
  /\ UNCHANGED <<task, loop, todo, entry, unknown, rangeFlags, findings, report>>

LeaveRange ==
  /\ loop = "events" /\ status # "evaluating"
  /\ rangeFlags' = [affected |-> rangeFlags.affected \/ status = "affected",
                    unknown |-> rangeFlags.unknown \/ status = "unknown"]
  /\ entry' = [entry EXCEPT !.range = @ + 1]
  /\ loop' = "ranges"
  /\ UNCHANGED <<task, todo, unknown, findings, report, rangeVars>>

LeaveRangesAffectedFirst ==    \* a broken variant: ignores the ranges it cannot read
  /\ loop = "ranges" /\ entry.range > Len(ranges)
  /\ \/ rangeFlags.affected /\ Found("affected") /\ UNCHANGED <<entry, unknown>>
     \/ ~rangeFlags.affected /\ NextEntry(unknown \/ rangeFlags.unknown)
                             /\ UNCHANGED <<todo, findings>>
  /\ UNCHANGED <<task, rangeFlags, report, rangeVars>>

\* One range that cannot be evaluated hides the others of its entry; an affected
\* entry ends the record.
LeaveRanges ==
  /\ loop = "ranges" /\ entry.range > Len(ranges)
  /\ \/ rangeFlags.unknown /\ NextEntry(TRUE) /\ UNCHANGED <<todo, findings>>
     \/ /\ ~rangeFlags.unknown /\ rangeFlags.affected
        /\ Found("affected") /\ UNCHANGED <<entry, unknown>>
     \/ /\ ~rangeFlags.unknown /\ ~rangeFlags.affected
        /\ NextEntry(unknown) /\ UNCHANGED <<todo, findings>>
  /\ UNCHANGED <<task, rangeFlags, report, rangeVars>>

CloseRecord ==
  /\ loop = "affected" /\ entry.affected > Len(record.affected)
  /\ Found(IF unknown THEN "unknown" ELSE "not-affected")
  /\ UNCHANGED <<task, entry, unknown, rangeFlags, report, rangeVars>>

Worst(statuses) ==
  IF "affected" \in statuses THEN "affected"
  ELSE IF "unknown" \in statuses THEN "unknown" ELSE "not-affected"

Summarize ==
  /\ loop = "records" /\ todo = <<>>
  /\ Return(Worst({findings[i].status : i \in DOMAIN findings}), Freshness, findings, None)
  /\ UNCHANGED <<task, todo, entry, unknown, rangeFlags, findings, rangeVars>>

Next ==
  \/ LoadFails \/ Begin
  \/ OpenRecord \/ SkipEntry \/ Undecided \/ EnterRanges
  \/ Unsupported \/ EnterRange \/ ScanRange \/ LeaveRange \/ LeaveRanges
  \/ CloseRecord \/ Summarize

Spec == Init /\ [][Next]_vars

----------------------------------------------------------------------------
Status == {"affected", "not-affected", "unknown"}

TypeOK ==
  /\ RangeTypeOK
  /\ loop \in {"evaluate", "records", "affected", "ranges", "events", "done"}
  /\ todo \in Seq(DOMAIN records)
  /\ entry \in [affected : Nat \ {0}, range : Nat \ {0}]
  /\ unknown \in BOOLEAN
  /\ rangeFlags \in [affected : BOOLEAN, unknown : BOOLEAN]
  /\ findings \in Seq([id : DOMAIN records, status : Status])
  /\ report \in [status : Status, freshness : {"current", "stale", "unknown"},
                 findings : Seq([id : DOMAIN records, status : Status]),
                 code : {"vulndb-unavailable", "vulndb-input-invalid", "vulndb-stale",
                         "vulndb-freshness-unknown", None}] \cup {None}

----------------------------------------------------------------------------
\* What a record says of the input, without an order of evaluation.
RangeMeaning(r, version) == IF r.semver THEN Meaning(r.events, version) ELSE "unknown"

EntryMeaning(a) ==
  LET version == VersionFor(a.name)
      outcomes == {RangeMeaning(r, version) : r \in ToSet(a.ranges)}
  IN  IF version = Invalid \/ a.ranges = <<>> \/ "unknown" \in outcomes THEN "unknown"
      ELSE Worst(outcomes)

RecordMeaning(r) ==
  IF ~r.reviewed THEN "unknown"
  ELSE Worst({EntryMeaning(a) : a \in {b \in ToSet(r.affected) : AppliesTo(b)}})

Toolchains == UNION {{t.input.toolchain : t \in kind} : kind \in Tasks}

\* No number of more than 64 bits is compared (semver.go:136).
NarrowTask ==
  \A id \in DOMAIN records : \A a \in ToSet(records[id].affected) :
    VersionFor(a.name) \in Version =>
      \A r \in ToSet(a.ranges) : AllNarrow(r.events, VersionFor(a.name))

\* The records that concern the project: those about a package it has.
Concerned == {id \in DOMAIN records : CouldApply(records[id])}

\* What the index selects besides: records of the distribution, for a toolchain whose
\* version does not parse or a module called "stdlib" or "toolchain" without one.
OnlyIndexed ==
  {id \in DOMAIN records \ Concerned :
     /\ task.indexed
     /\ \E name \in Names(records[id]) \cap Distribution :
          input.toolchain # None \/ name \in DOMAIN input.modules}

RightFindings ==
  LET found == report.findings
      current == report.freshness = "current"
      meaning(id) == IF current THEN RecordMeaning(records[id]) ELSE "unknown"
  IN  /\ ToSet(found) = {[id |-> id, status |-> meaning(id)] : id \in Concerned \cup OnlyIndexed}
      /\ \A i, k \in DOMAIN found : i < k => found[i].id < found[k].id

Evaluated ==
  report # None /\ report.code \notin {"vulndb-unavailable", "vulndb-input-invalid"}

\* A report has one finding for every record about a package of the project, in
\* order, whichever way the candidates were found, and each finding is what its
\* record says: no order of entries, ranges or events and no early return can
\* hide another.  "both paths ... produce identical reports" (evaluation.go:56), but for
\* the findings of OnlyIndexed: of a record that no entry of applies to (line 111).
FindingsMatchRecords == Evaluated /\ NarrowTask => RightFindings

\* The records of the Go distribution see a project's toolchain in the order of Go
\* releases, from the first beta to the last patch ("Support standard-library and
\* toolchain reports ... pre-releases", docs/features/03-osv-simd-vulnerability-
\* matcher.md:26).  One with a suffix of its distribution, as in "go1.22.1-custom",
\* is taken for a prerelease of what it is built on.
ToolchainsInOrder ==
  \A t \in Toolchains :
    Released(t) /\ Released(input.toolchain) =>
      LET ours == normalizeToolchainVersion(input.toolchain)
          other == normalizeToolchainVersion(t)
      IN  /\ ours # Invalid /\ other # Invalid
          /\ compareSemver(other, ours) < 0 <=> ReleasedBefore(t, input.toolchain)

\* A report clears a project only if every record that concerns it does, the input was
\* complete and the release no older than its policy at that time, and not of the
\* future.  Which records concern it is for its toolchain to say: see below.
ClearsOnlyOnEvidence ==
  report # None /\ report.status = "not-affected" =>
    /\ input.complete
    /\ task.now \in Int
    /\ task.now \in task.release.fetchedAt .. (task.release.fetchedAt + task.release.maxAge)
    /\ NarrowTask => \A id \in Concerned : RecordMeaning(records[id]) = "not-affected"

\* A project whose toolchain version does not parse is not cleared by a release with
\* records of the Go distribution ("unknown is required for malformed, unavailable,
\* incompatible, or incomplete evaluation input", docs/security-contract.md:29).  The
\* code violates it: no such record applies to the project (matcher.go:59).
MalformedInputIsUnknown ==
  /\ input.toolchain # None /\ normalizeToolchainVersion(input.toolchain) = Invalid
  /\ \E id \in DOMAIN records : Names(records[id]) \cap Distribution # {}
  /\ report # None
  => report.status # "not-affected"
=============================================================================
