------------------------------ MODULE VulnRange ------------------------------
(***************************************************************************)
(* evaluateRange of src/internal/vulndb/range.go: one pass over the events  *)
(* of one OSV range, deciding whether a version is affected, and at the same *)
(* time whether the events describe intervals at all.                       *)
(*                                                                         *)
(* One action is one turn of the loop.  An event has its version parsed.    *)
(***************************************************************************)
EXTENDS VulnSemver

CONSTANT FromZero   \* the version "0" of an introduced event

ASSUME RangeConstants == FromZero \notin Version /\ FromZero # Invalid

VARIABLES
  events,        \* the events of the range being evaluated
  candidate,     \* the version it is evaluated for
  next,          \* the event the loop has come to
  open,          \* an interval was introduced and not ended
  introduced,    \* where it starts, unless it starts from zero
  fromZero,
  previousEnd,   \* where the last interval ended, or None
  affected,      \* an ended interval holds the candidate
  status         \* "idle", "evaluating" or the result

interval == <<open, introduced, fromZero, previousEnd, affected>>
rangeVars == <<events, candidate, next, interval, status>>

Ends == {"fixed", "last_affected"}

\* An event has exactly one of its three versions, or is malformed.
Event ==
  [kind : {"introduced"}, at : Version \cup {FromZero, Invalid}]
  \cup [kind : Ends, at : Version \cup {Invalid}]
  \cup [kind : {"malformed"}]

RangeTypeOK ==
  /\ events \in Seq(Event)
  /\ candidate \in Version
  /\ next \in 1 .. (Len(events) + 1)
  /\ open \in BOOLEAN /\ fromZero \in BOOLEAN /\ affected \in BOOLEAN
  /\ introduced \in Version \cup {None}
  /\ previousEnd \in Version \cup {None}
  /\ status \in {"idle", "evaluating", "affected", "not-affected", "unknown"}

Fresh ==
  /\ next' = 1
  /\ open' = FALSE /\ fromZero' = FALSE /\ affected' = FALSE
  /\ introduced' = None /\ previousEnd' = None

RangeInit ==
  /\ events = <<>> /\ candidate = ZeroVersion /\ next = 1
  /\ open = FALSE /\ fromZero = FALSE /\ affected = FALSE
  /\ introduced = None /\ previousEnd = None
  /\ status = "idle"

----------------------------------------------------------------------------
\* The caller has looked at the type of the range and parsed the version.
Call(list, version) ==
  /\ status # "evaluating"
  /\ events' = list /\ candidate' = version
  /\ Fresh
  /\ status' = "evaluating"

AtEvent == status = "evaluating" /\ next \in DOMAIN events
event == events[next]

\* Broken variants of a definition stand before it, each named for its bug.
OpensUnordered ==    \* does not compare with the previous end
  ~open /\ event.at # Invalid /\ (event.at = FromZero => previousEnd = None)

\* The event may introduce an interval after the last one.
Opens ==
  /\ ~open
  /\ event.at # Invalid
  /\ IF event.at = FromZero THEN previousEnd = None
     ELSE previousEnd # None => compareSemver(event.at, previousEnd) >= 0

\* The event may end the open interval.
Closes ==
  /\ open /\ event.at # Invalid
  /\ ~fromZero => compareSemver(event.at, introduced) >= 0

Since == fromZero \/ compareSemver(candidate, introduced) >= 0

UntilExclusive ==    \* a last_affected version is taken for a fixed one
  compareSemver(candidate, event.at) < 0

Until ==
  IF event.kind = "fixed" THEN compareSemver(candidate, event.at) < 0
  ELSE compareSemver(candidate, event.at) <= 0

Introduce ==
  /\ AtEvent /\ event.kind = "introduced" /\ Opens
  /\ open' = TRUE
  /\ fromZero' = (event.at = FromZero)
  /\ introduced' = IF event.at = FromZero THEN introduced ELSE event.at
  /\ next' = next + 1
  /\ UNCHANGED <<events, candidate, previousEnd, affected, status>>

End ==
  /\ AtEvent /\ event.kind \in Ends /\ Closes
  /\ open' = FALSE
  /\ previousEnd' = event.at
  /\ affected' = (affected \/ (Since /\ Until))
  /\ next' = next + 1
  /\ UNCHANGED <<events, candidate, introduced, fromZero, status>>

\* Any other event makes the whole range unknown, whatever came before it.
Reject ==
  /\ AtEvent
  /\ \/ event.kind = "malformed"
     \/ event.kind = "introduced" /\ ~Opens
     \/ event.kind \in Ends /\ ~Closes
  /\ status' = "unknown"
  /\ UNCHANGED <<events, candidate, next, interval>>

\* The events are used up; an interval that is still open has no end.
Conclude ==
  /\ status = "evaluating" /\ next = Len(events) + 1
  /\ status' = IF affected \/ (open /\ Since) THEN "affected" ELSE "not-affected"
  /\ UNCHANGED <<events, candidate, next, interval>>

Scan == Introduce \/ End \/ Reject \/ Conclude

RangeNext ==
  \/ \E list \in Seq(Event) \ {<<>>}, version \in Version : Call(list, version)
  \/ Scan

RangeSpec == RangeInit /\ [][RangeNext]_rangeVars

----------------------------------------------------------------------------
\* What a list of events means, without a pass: introduced events and ends take
\* turns, and no version precedes the one it follows.
Fits(list, i) ==
  \/ /\ list[i].kind = "introduced"
     /\ list[i].at \in Version \/ (list[i].at = FromZero /\ i = 1)
     /\ i > 1 => /\ list[i - 1].kind \in Ends /\ list[i - 1].at \in Version
                 /\ ~Precedes(list[i].at, list[i - 1].at)
  \/ /\ list[i].kind \in Ends
     /\ list[i].at \in Version
     /\ i > 1 /\ list[i - 1].kind = "introduced"
     /\ \/ list[i - 1].at = FromZero
        \/ list[i - 1].at \in Version /\ ~Precedes(list[i].at, list[i - 1].at)

WellFormed(list) == \A i \in DOMAIN list : Fits(list, i)

StartsBy(e, version) ==
  e.kind = "introduced" /\ (e.at = FromZero \/ ~Precedes(version, e.at))
EndsAfter(e, version) ==
  IF e.kind = "fixed" THEN Precedes(version, e.at) ELSE ~Precedes(e.at, version)

\* The interval from event i to the next holds the version.
Holds(list, version, i) ==
  StartsBy(list[i], version) /\ (i = Len(list) \/ EndsAfter(list[i + 1], version))

Meaning(list, version) ==
  IF list = <<>> \/ ~WellFormed(list) THEN "unknown"
  ELSE IF \E i \in DOMAIN list : Holds(list, version, i) THEN "affected"
  ELSE "not-affected"

AllNarrow(list, version) ==
  /\ Narrow(version)
  /\ \A i \in DOMAIN list :
       list[i].kind # "malformed" /\ list[i].at \in Version => Narrow(list[i].at)

\* A result says what the events mean: unknown exactly if they describe no
\* intervals, affected exactly if one of the intervals holds the version - for
\* any number of intervals, touching, empty, from zero or without an end, and any
\* versions but those with numbers of more than 64 bits in a prerelease, which
\* compareSemver puts after one another (semver.go:136).
RangeMatchesReference ==
  status \notin {"idle", "evaluating"} /\ AllNarrow(events, candidate) =>
    status = Meaning(events, candidate)

\* The algorithm of the OSV schema: the last event that speaks of the version
\* decides.
OsvVulnerable ==
  LET speaks(e) == \/ StartsBy(e, candidate)
                   \/ e.kind \in Ends /\ ~EndsAfter(e, candidate)
  IN  \E i \in DOMAIN events :
        /\ StartsBy(events[i], candidate)
        /\ \A k \in (i + 1) .. Len(events) :
             speaks(events[k]) => StartsBy(events[k], candidate)

\* What that algorithm reports is never cleared; where the two differ, an
\* interval that holds the version touches an empty one.
NeverMissesOsv ==
  AllNarrow(events, candidate) =>
    /\ status = "not-affected" => ~OsvVulnerable
    /\ status = "affected" /\ ~OsvVulnerable =>
         \E i, k \in DOMAIN events :
           /\ i < k /\ events[i].kind = "last_affected" /\ events[k].kind = "fixed"
           /\ events[i].at = candidate /\ events[k].at = candidate
=============================================================================
