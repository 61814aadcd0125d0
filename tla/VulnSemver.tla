------------------------------ MODULE VulnSemver ------------------------------
(***************************************************************************)
(* The versions of src/internal/vulndb/semver.go: how compareSemver orders  *)
(* them, and how the name of a Go toolchain becomes one.                    *)
(*                                                                         *)
(* A version is what parseSemver makes of it.  A prerelease identifier that *)
(* is not numeric is its place in the order of strings.                     *)
(***************************************************************************)
EXTENDS Integers, Sequences

CONSTANTS
  MaxUint,     \* the largest number of 64 bits
  Beta, RC,    \* the places of "beta" and "rc"
  Invalid,     \* what does not parse
  None         \* nil, "" and the zero time

Identifier == [numeric : BOOLEAN, at : Nat]
Version == [core : [1 .. 3 -> 0 .. MaxUint], preRelease : Seq(Identifier)]

\* A toolchain is the numbers of its name, "rc" or "beta" and the number after it
\* if there is one after two of them, and what follows a hyphen.
Toolchain ==
  [base : Seq(Nat), marker : {Beta, RC, None}, serial : Nat, suffix : Seq(Identifier)]

ASSUME SemverConstants ==
  /\ MaxUint \in Nat /\ Beta \in Nat /\ RC \in Nat /\ Beta < RC
  /\ Invalid # None /\ {Invalid, None} \cap (Version \cup Toolchain \cup Nat) = {}

ZeroVersion == [core |-> <<0, 0, 0>>, preRelease |-> <<>>]

\* The numbers of the core are limited to 64 bits, those of a prerelease are not.
Parse(core, preRelease) ==
  IF Len(core) = 3 /\ \A i \in 1 .. 3 : core[i] <= MaxUint
  THEN [core |-> core, preRelease |-> preRelease]
  ELSE Invalid

----------------------------------------------------------------------------
\* Where two lists differ first; they do.
FirstDifference(left, right) ==
  CHOOSE i \in DOMAIN left \cap DOMAIN right :
    left[i] # right[i] /\ \A k \in 1 .. (i - 1) : left[k] = right[k]

Differ(left, right) == \E i \in DOMAIN left \cap DOMAIN right : left[i] # right[i]

\* strconv.ParseUint, whose error is ignored.
ParseUint(n) == IF n > MaxUint THEN MaxUint ELSE n

\* Of identifiers that differ.
IdentifierBelow(left, right) ==
  IF left.numeric /\ right.numeric THEN ParseUint(left.at) < ParseUint(right.at)
  ELSE IF left.numeric # right.numeric THEN left.numeric
  ELSE left.at < right.at

CompareCore(left, right) ==
  LET i == FirstDifference(left, right) IN IF left[i] < right[i] THEN -1 ELSE 1

\* A release comes after its prereleases.
ComparePreRelease(left, right) ==
  IF left = <<>> \/ right = <<>>
  THEN IF left # <<>> THEN -1 ELSE IF right # <<>> THEN 1 ELSE 0
  ELSE IF Differ(left, right)
  THEN LET i == FirstDifference(left, right)
       IN  IF IdentifierBelow(left[i], right[i]) THEN -1 ELSE 1
  ELSE IF Len(left) < Len(right) THEN -1 ELSE IF Len(left) > Len(right) THEN 1 ELSE 0

compareSemver(left, right) ==
  IF left.core # right.core THEN CompareCore(left.core, right.core)
  ELSE ComparePreRelease(left.preRelease, right.preRelease)

----------------------------------------------------------------------------
\* Broken variants of a definition stand before it, each named for its bug.
NormalizeWithoutSerial(t) ==    \* "rc1" and "rc2" become one
  IF t \in {None, Invalid} \/ Len(t.base) \notin {2, 3} THEN Invalid
  ELSE IF t.marker # None
  THEN IF Len(t.base) = 3 THEN Invalid
       ELSE Parse(Append(t.base, 0), <<[numeric |-> FALSE, at |-> t.marker]>>)
  ELSE Parse(IF Len(t.base) = 2 THEN Append(t.base, 0) ELSE t.base, t.suffix)

\* normalizeToolchainVersion.  Of a marked name the suffix is dropped.
normalizeToolchainVersion(t) ==
  IF t \in {None, Invalid} \/ Len(t.base) \notin {2, 3} THEN Invalid
  ELSE IF t.marker # None
  THEN IF Len(t.base) = 3 THEN Invalid
       ELSE Parse(Append(t.base, 0), <<[numeric |-> FALSE, at |-> t.marker],
                                       [numeric |-> TRUE, at |-> t.serial]>>)
  ELSE Parse(IF Len(t.base) = 2 THEN Append(t.base, 0) ELSE t.base, t.suffix)

----------------------------------------------------------------------------
\* The order of the Semantic Versioning specification, numbers of any length.
LowerIdentifier(x, y) == IF x.numeric = y.numeric THEN x.at < y.at ELSE x.numeric

PreReleasePrecedes(left, right) ==
  /\ left # <<>>
  /\ \/ right = <<>>
     \/ \E i \in DOMAIN right :
          /\ \A k \in 1 .. (i - 1) : k \in DOMAIN left /\ left[k] = right[k]
          /\ i \in DOMAIN left => LowerIdentifier(left[i], right[i])

Precedes(left, right) ==
  \/ \E i \in 1 .. 3 : /\ left.core[i] < right.core[i]
                       /\ \A k \in 1 .. (i - 1) : left.core[k] = right.core[k]
  \/ left.core = right.core /\ PreReleasePrecedes(left.preRelease, right.preRelease)

\* All numbers of a version have 64 bits.
Narrow(version) ==
  \A i \in DOMAIN version.preRelease :
    version.preRelease[i].numeric => version.preRelease[i].at <= MaxUint

\* The order of Go releases: betas, candidates, the release, its patches.
ReleasedBefore(s, t) ==
  LET place(u) == <<u.base[1], u.base[2],
                    IF u.marker = Beta THEN 0 ELSE IF u.marker = RC THEN 1 ELSE 2,
                    IF u.marker # None THEN u.serial
                    ELSE IF Len(u.base) = 3 THEN u.base[3] ELSE 0>>
  IN  \E i \in 1 .. 4 : /\ place(s)[i] < place(t)[i]
                       /\ \A k \in 1 .. (i - 1) : place(s)[k] = place(t)[k]

\* A toolchain of the Go project: no suffix of a distribution's own.
Released(t) ==
  /\ t \in Toolchain
  /\ Len(t.base) = 2 \/ (Len(t.base) = 3 /\ t.marker = None)
  /\ t.suffix = <<>> /\ t.serial <= MaxUint /\ \A i \in DOMAIN t.base : t.base[i] <= MaxUint
=============================================================================
