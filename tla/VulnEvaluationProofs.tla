------------------------- MODULE VulnEvaluationProofs -------------------------
(***************************************************************************)
(* What is proved of the evaluation, in three parts: comparison of versions  *)
(* is the precedence of Semantic Versioning (VulnSemver); the pass over the  *)
(* events of a range decides what the events mean, and misses nothing that   *)
(* the algorithm of the OSV schema finds (VulnRange); and the findings of a  *)
(* call are those of the records of the database, in order (VulnEvaluation). *)
(***************************************************************************)
EXTENDS VulnEvaluation, FiniteSetTheorems, WellFoundedInduction, SequenceTheorems, TLAPS

----------------------------------------------------------------------------
\* Part 1.  Versions, of any length and with numbers of any size.

\* A set of numbers has a first one.
LEMMA FirstNumber ==
  ASSUME NEW T, T \subseteq Nat, T # {}
  PROVE  \E i \in T : \A k \in T : ~(k < i)
<1> DEFINE R == OpToRel(<, Nat)
<1>1. \E i \in T : \A k \in T : ~(<<k, i>> \in R)
  <2> HIDE DEF R
  <2>1. IsWellFoundedOn(R, Nat)
    BY NatLessThanWellFounded DEF R
  <2> QED BY <2>1, WFMin
<1>2. \A i, k \in Nat : k < i => <<k, i>> \in R
  BY DEF OpToRel
<1> QED BY <1>1, <1>2

\* Lists that differ do so somewhere first.
LEMMA FirstDifferenceIs ==
  ASSUME NEW a, NEW b, NEW m \in Nat, NEW n \in Nat,
         DOMAIN a = 1 .. m, DOMAIN b = 1 .. n, Differ(a, b)
  PROVE  /\ FirstDifference(a, b) \in DOMAIN a \cap DOMAIN b
         /\ a[FirstDifference(a, b)] # b[FirstDifference(a, b)]
         /\ \A k \in 1 .. (FirstDifference(a, b) - 1) : a[k] = b[k]
<1> DEFINE T == {i \in DOMAIN a \cap DOMAIN b : a[i] # b[i]}
<1>1. T \subseteq Nat /\ T # {}
  BY DEF Differ
<1>2. PICK i \in T : \A k \in T : ~(k < i)
  <2> HIDE DEF T
  <2> QED BY <1>1, FirstNumber
<1>3. \A k \in 1 .. (i - 1) : a[k] = b[k]
  <2> SUFFICES ASSUME NEW k \in 1 .. (i - 1) PROVE a[k] = b[k]
    OBVIOUS
  <2>1. k \in DOMAIN a \cap DOMAIN b /\ k < i
    BY <1>1
  <2> QED BY <1>2, <2>1
<1>4. i \in DOMAIN a \cap DOMAIN b /\ a[i] # b[i]
  OBVIOUS
<1> HIDE DEF T
<1> QED BY <1>3, <1>4 DEF FirstDifference

LEMMA DifferenceOfSameLength ==
  ASSUME NEW a, NEW b, NEW n \in Nat, DOMAIN a = 1 .. n, DOMAIN b = 1 .. n, Differ(a, b)
  PROVE  /\ FirstDifference(a, b) \in 1 .. n
         /\ a[FirstDifference(a, b)] # b[FirstDifference(a, b)]
         /\ \A k \in 1 .. (FirstDifference(a, b) - 1) : a[k] = b[k]
BY FirstDifferenceIs

LEMMA DifferenceOfThree ==
  ASSUME NEW a, NEW b, DOMAIN a = 1 .. 3, DOMAIN b = 1 .. 3, Differ(a, b)
  PROVE  /\ FirstDifference(a, b) \in 1 .. 3
         /\ a[FirstDifference(a, b)] # b[FirstDifference(a, b)]
         /\ \A k \in 1 .. (FirstDifference(a, b) - 1) : a[k] = b[k]
<1>1. 3 \in Nat
  OBVIOUS
<1> QED BY <1>1, DifferenceOfSameLength, Zenon

\* Lists without a difference: one begins the other.
LEMMA SameLength ==
  ASSUME NEW S, NEW a \in Seq(S), NEW b \in Seq(S), ~Differ(a, b), Len(a) = Len(b)
  PROVE  a = b
BY DEF Differ

\* Identifiers of 64 bits are compared as the specification wants.
LEMMA IdentifierOrder ==
  ASSUME NEW x \in Identifier, NEW y \in Identifier, x # y,
         x.numeric => x.at <= MaxUint, y.numeric => y.at <= MaxUint
  PROVE  /\ IdentifierBelow(x, y) <=> LowerIdentifier(x, y)
         /\ LowerIdentifier(x, y) <=> ~LowerIdentifier(y, x)
<1>1. /\ x.numeric \in BOOLEAN /\ y.numeric \in BOOLEAN /\ x.at \in Nat /\ y.at \in Nat
      /\ x.numeric = y.numeric => x.at # y.at
  BY DEF Identifier
<1>2. CASE x.numeric /\ y.numeric
  BY <1>1, <1>2, SemverConstants DEF IdentifierBelow, LowerIdentifier, ParseUint
<1>3. CASE ~x.numeric /\ y.numeric
  BY <1>1, <1>3 DEF IdentifierBelow, LowerIdentifier
<1>4. CASE x.numeric /\ ~y.numeric
  BY <1>1, <1>4 DEF IdentifierBelow, LowerIdentifier
<1>5. CASE ~x.numeric /\ ~y.numeric
  BY <1>1, <1>5 DEF IdentifierBelow, LowerIdentifier
<1> QED BY <1>1, <1>2, <1>3, <1>4, <1>5

NarrowList(list) == \A i \in DOMAIN list : list[i].numeric => list[i].at <= MaxUint

LEMMA NotLowerThanItself == ASSUME NEW x \in Identifier PROVE ~LowerIdentifier(x, x)
BY DEF Identifier, LowerIdentifier

\* The first difference decides, ...
LEMMA FirstDecides ==
  ASSUME NEW a \in Seq(Identifier), NEW b \in Seq(Identifier),
         NEW i \in DOMAIN a \cap DOMAIN b, a[i] # b[i],
         \A k \in 1 .. (i - 1) : a[k] = b[k]
  PROVE  PreReleasePrecedes(a, b) <=> LowerIdentifier(a[i], b[i])
<1>1. a # <<>> /\ b # <<>> /\ \A k \in 1 .. (i - 1) : k \in DOMAIN a
  OBVIOUS
<1>2. ASSUME LowerIdentifier(a[i], b[i]) PROVE PreReleasePrecedes(a, b)
  BY <1>1, <1>2 DEF PreReleasePrecedes
<1>3. ASSUME PreReleasePrecedes(a, b) PROVE LowerIdentifier(a[i], b[i])
  <2>1. PICK j \in DOMAIN b :
          /\ \A k \in 1 .. (j - 1) : k \in DOMAIN a /\ a[k] = b[k]
          /\ j \in DOMAIN a => LowerIdentifier(a[j], b[j])
    BY <1>1, <1>3 DEF PreReleasePrecedes
  <2>2. CASE j < i
    <3>1. j \in DOMAIN a /\ a[j] = b[j]
      BY <2>2
    <3>2. b[j] \in Identifier
      OBVIOUS
    <3> QED BY <2>1, <3>1, <3>2, NotLowerThanItself
  <2>3. CASE j > i
    <3>1. i \in 1 .. (j - 1)
      BY <2>3
    <3> QED BY <2>1, <3>1
  <2>4. CASE j = i
    BY <2>1, <2>4
  <2> QED BY <2>2, <2>3, <2>4
<1> QED BY <1>2, <1>3

\* ... and if there is none, the length.
LEMMA ShorterPrecedes ==
  ASSUME NEW a \in Seq(Identifier), NEW b \in Seq(Identifier), a # <<>>, b # <<>>,
         ~Differ(a, b)
  PROVE  PreReleasePrecedes(a, b) <=> Len(a) < Len(b)
<1>1. \A k \in DOMAIN a \cap DOMAIN b : a[k] = b[k]
  BY DEF Differ
<1>2. ASSUME Len(a) < Len(b) PROVE PreReleasePrecedes(a, b)
  <2>1. /\ Len(a) + 1 \in DOMAIN b /\ Len(a) + 1 \notin DOMAIN a
        /\ \A k \in 1 .. (Len(a) + 1 - 1) : k \in DOMAIN a /\ a[k] = b[k]
    BY <1>1, <1>2
  <2> QED BY <2>1 DEF PreReleasePrecedes
<1>3. ASSUME PreReleasePrecedes(a, b) PROVE Len(a) < Len(b)
  <2>1. PICK j \in DOMAIN b : j \in DOMAIN a => LowerIdentifier(a[j], b[j])
    BY <1>3 DEF PreReleasePrecedes
  <2>2. j \notin DOMAIN a
    <3> SUFFICES ASSUME j \in DOMAIN a PROVE FALSE
      OBVIOUS
    <3>1. a[j] = b[j] /\ b[j] \in Identifier
      BY <1>1
    <3> QED BY <2>1, <3>1, NotLowerThanItself
  <2> QED BY <2>2
<1> QED BY <1>2, <1>3

LEMMA DifferIsSymmetric ==
  ASSUME NEW a, NEW b
  PROVE  Differ(a, b) <=> Differ(b, a)
BY DEF Differ

LEMMA PreReleaseOrder ==
  ASSUME NEW a \in Seq(Identifier), NEW b \in Seq(Identifier), NarrowList(a), NarrowList(b)
  PROVE  /\ ComparePreRelease(a, b) \in {-1, 0, 1}
         /\ ComparePreRelease(a, b) = -1 <=> PreReleasePrecedes(a, b)
         /\ ComparePreRelease(a, b) = 1 <=> PreReleasePrecedes(b, a)
         /\ ComparePreRelease(a, b) = 0 <=> a = b
<1>1. CASE a = <<>> \/ b = <<>>
  BY <1>1 DEF ComparePreRelease, PreReleasePrecedes
<1>2. CASE a # <<>> /\ b # <<>> /\ Differ(a, b)
  <2> DEFINE i == FirstDifference(a, b)
  <2>1. /\ i \in DOMAIN a \cap DOMAIN b /\ a[i] # b[i]
        /\ \A k \in 1 .. (i - 1) : a[k] = b[k]
    <3>1. /\ Len(a) \in Nat /\ DOMAIN a = 1 .. Len(a)
          /\ Len(b) \in Nat /\ DOMAIN b = 1 .. Len(b)
      OBVIOUS
    <3> QED BY <1>2, <3>1, FirstDifferenceIs
  <2>2. ComparePreRelease(a, b) = IF IdentifierBelow(a[i], b[i]) THEN -1 ELSE 1
    BY <1>2 DEF ComparePreRelease
  <2> HIDE DEF i
  <2>3. PreReleasePrecedes(a, b) <=> LowerIdentifier(a[i], b[i])
    BY <2>1, FirstDecides
  <2>4. PreReleasePrecedes(b, a) <=> LowerIdentifier(b[i], a[i])
    <3>1. i \in DOMAIN b \cap DOMAIN a /\ b[i] # a[i] /\ \A k \in 1 .. (i - 1) : b[k] = a[k]
      BY <2>1
    <3> QED BY <3>1, FirstDecides
  <2>5. /\ IdentifierBelow(a[i], b[i]) <=> LowerIdentifier(a[i], b[i])
        /\ LowerIdentifier(a[i], b[i]) <=> ~LowerIdentifier(b[i], a[i])
    <3>1. a[i] \in Identifier /\ b[i] \in Identifier
      BY <2>1
    <3>2. (a[i].numeric => a[i].at <= MaxUint) /\ (b[i].numeric => b[i].at <= MaxUint)
      BY <2>1 DEF NarrowList
    <3> QED BY <2>1, <3>1, <3>2, IdentifierOrder
  <2>6. a # b
    BY <2>1
  <2> QED BY <2>2, <2>3, <2>4, <2>5, <2>6
<1>3. CASE a # <<>> /\ b # <<>> /\ ~Differ(a, b)
  <2>1. /\ PreReleasePrecedes(a, b) <=> Len(a) < Len(b)
        /\ PreReleasePrecedes(b, a) <=> Len(b) < Len(a)
    BY <1>3, ShorterPrecedes, DifferIsSymmetric
  <2>2. Len(a) = Len(b) <=> a = b
    BY <1>3, SameLength
  <2>3. ComparePreRelease(a, b) =
          IF Len(a) < Len(b) THEN -1 ELSE IF Len(a) > Len(b) THEN 1 ELSE 0
    BY <1>3 DEF ComparePreRelease
  <2>4. Len(a) \in Nat /\ Len(b) \in Nat
    OBVIOUS
  <2> QED BY <2>1, <2>2, <2>3, <2>4
<1> QED BY <1>1, <1>2, <1>3

----------------------------------------------------------------------------
CorePrecedes(a, b) ==
  \E i \in 1 .. 3 : a[i] < b[i] /\ \A k \in 1 .. (i - 1) : a[k] = b[k]

LEMMA CoreOrder ==
  ASSUME NEW a \in [1 .. 3 -> 0 .. MaxUint], NEW b \in [1 .. 3 -> 0 .. MaxUint]
  PROVE  /\ ~CorePrecedes(a, a)
         /\ a # b => /\ CompareCore(a, b) \in {-1, 1}
                     /\ CompareCore(a, b) = -1 <=> CorePrecedes(a, b)
                     /\ CompareCore(a, b) = 1 <=> CorePrecedes(b, a)
<1>0. MaxUint \in Nat /\ \A i \in 1 .. 3 : a[i] \in Nat /\ b[i] \in Nat
  BY SemverConstants
<1>1. ~CorePrecedes(a, a)
  BY <1>0 DEF CorePrecedes
<1>2. ASSUME a # b
      PROVE  /\ CompareCore(a, b) \in {-1, 1}
             /\ CompareCore(a, b) = -1 <=> CorePrecedes(a, b)
             /\ CompareCore(a, b) = 1 <=> CorePrecedes(b, a)
  <2> DEFINE i == FirstDifference(a, b)
  <2>1. DOMAIN a = 1 .. 3 /\ DOMAIN b = 1 .. 3 /\ Differ(a, b)
    <3>1. \E k \in 1 .. 3 : a[k] # b[k]
      BY <1>2
    <3> QED BY <3>1 DEF Differ
  <2>2. /\ i \in 1 .. 3 /\ a[i] # b[i]
        /\ \A k \in 1 .. (i - 1) : a[k] = b[k]
    BY <2>1, DifferenceOfThree
  <2>3. CompareCore(a, b) = IF a[i] < b[i] THEN -1 ELSE 1
    BY DEF CompareCore
  <2> HIDE DEF i
  <2>4. \A j \in 1 .. 3 : (\A k \in 1 .. (j - 1) : a[k] = b[k]) /\ a[j] # b[j] => j = i
    BY <2>2
  <2>5. CorePrecedes(a, b) <=> a[i] < b[i]
    BY <1>0, <2>2, <2>4 DEF CorePrecedes
  <2>6. CorePrecedes(b, a) <=> b[i] < a[i]
    BY <1>0, <2>2, <2>4 DEF CorePrecedes
  <2> QED BY <1>0, <2>2, <2>3, <2>5, <2>6
<1> QED BY <1>1, <1>2

LEMMA PrecedesIs ==
  ASSUME NEW l, NEW r
  PROVE  Precedes(l, r) <=> \/ CorePrecedes(l.core, r.core)
                            \/ /\ l.core = r.core
                               /\ PreReleasePrecedes(l.preRelease, r.preRelease)
BY DEF Precedes, CorePrecedes

\* compareSemver orders versions as the specification says, if no number of a
\* prerelease is wider than 64 bits (compareSemver, semver.go:110).
THEOREM CompareIsPrecedence ==
  ASSUME NEW l \in Version, NEW r \in Version, Narrow(l), Narrow(r)
  PROVE  /\ compareSemver(l, r) \in {-1, 0, 1}
         /\ compareSemver(l, r) = -1 <=> Precedes(l, r)
         /\ compareSemver(l, r) = 1 <=> Precedes(r, l)
         /\ compareSemver(l, r) = 0 <=> l = r
<1>1. /\ l.core \in [1 .. 3 -> 0 .. MaxUint] /\ r.core \in [1 .. 3 -> 0 .. MaxUint]
      /\ l.preRelease \in Seq(Identifier) /\ r.preRelease \in Seq(Identifier)
      /\ l = r <=> l.core = r.core /\ l.preRelease = r.preRelease
  BY DEF Version
<1>2. NarrowList(l.preRelease) /\ NarrowList(r.preRelease)
  BY DEF Narrow, NarrowList
<1>3. CASE l.core # r.core
  BY <1>1, <1>3, CoreOrder, PrecedesIs DEF compareSemver
<1>4. CASE l.core = r.core
  BY <1>1, <1>2, <1>4, CoreOrder, PreReleaseOrder, PrecedesIs DEF compareSemver
<1> QED BY <1>3, <1>4

LEMMA LowerIsTransitive ==
  ASSUME NEW x \in Identifier, NEW y \in Identifier, NEW z \in Identifier,
         LowerIdentifier(x, y), LowerIdentifier(y, z)
  PROVE  LowerIdentifier(x, z)
<1>1. /\ x.at \in Nat /\ y.at \in Nat /\ z.at \in Nat
      /\ x.numeric \in BOOLEAN /\ y.numeric \in BOOLEAN /\ z.numeric \in BOOLEAN
  BY DEF Identifier
<1>2. CASE x.numeric /\ y.numeric
  <2>1. CASE z.numeric
    BY <1>1, <1>2, <2>1 DEF LowerIdentifier
  <2>2. CASE ~z.numeric
    BY <1>1, <1>2, <2>2 DEF LowerIdentifier
  <2> QED BY <2>1, <2>2
<1>3. CASE x.numeric /\ ~y.numeric
  BY <1>1, <1>3 DEF LowerIdentifier
<1>4. CASE ~x.numeric
  BY <1>1, <1>4 DEF LowerIdentifier
<1> QED BY <1>2, <1>3, <1>4

LEMMA PreReleaseIsTransitive ==
  ASSUME NEW a \in Seq(Identifier), NEW b \in Seq(Identifier), NEW c \in Seq(Identifier),
         PreReleasePrecedes(a, b), PreReleasePrecedes(b, c)
  PROVE  PreReleasePrecedes(a, c)
<1>1. a # <<>> /\ b # <<>>
  BY DEF PreReleasePrecedes
<1>2. CASE c = <<>>
  BY <1>1, <1>2 DEF PreReleasePrecedes
<1>3. CASE c # <<>>
  <2>1. PICK i \in DOMAIN b : /\ \A k \in 1 .. (i - 1) : k \in DOMAIN a /\ a[k] = b[k]
                              /\ i \in DOMAIN a => LowerIdentifier(a[i], b[i])
    BY <1>1 DEF PreReleasePrecedes
  <2>2. PICK j \in DOMAIN c : /\ \A k \in 1 .. (j - 1) : k \in DOMAIN b /\ b[k] = c[k]
                              /\ j \in DOMAIN b => LowerIdentifier(b[j], c[j])
    BY <1>3 DEF PreReleasePrecedes
  <2>3. i \in Nat /\ j \in Nat /\ DOMAIN c = 1 .. Len(c) /\ Len(c) \in Nat
    OBVIOUS
  <2>4. CASE i < j
    <3>1. i \in 1 .. (j - 1) /\ i \in DOMAIN c
      BY <2>3, <2>4
    <3>2. \A k \in 1 .. (i - 1) : k \in DOMAIN a /\ a[k] = c[k]
      BY <2>1, <2>2, <2>3, <2>4
    <3>3. b[i] = c[i]
      BY <2>2, <3>1
    <3> QED BY <1>1, <2>1, <3>1, <3>2, <3>3 DEF PreReleasePrecedes
  <2>5. CASE j < i
    <3>1. j \in 1 .. (i - 1)
      BY <2>3, <2>5
    <3>2. \A k \in 1 .. (j - 1) : k \in DOMAIN a /\ a[k] = c[k]
      BY <2>1, <2>2, <2>3, <2>5
    <3>3. a[j] = b[j] /\ j \in DOMAIN b
      BY <2>1, <2>3, <3>1
    <3> QED BY <1>1, <2>2, <3>2, <3>3 DEF PreReleasePrecedes
  <2>6. CASE i = j
    <3>1. \A k \in 1 .. (i - 1) : k \in DOMAIN a /\ a[k] = c[k]
      BY <2>1, <2>2, <2>6
    <3>2. ASSUME i \in DOMAIN a PROVE LowerIdentifier(a[i], c[i])
      <4>1. a[i] \in Identifier /\ b[i] \in Identifier /\ c[i] \in Identifier
        BY <2>6, <3>2
      <4> QED BY <2>1, <2>2, <2>6, <3>2, <4>1, LowerIsTransitive
    <3> QED BY <1>1, <2>6, <3>1, <3>2 DEF PreReleasePrecedes
  <2> QED BY <2>3, <2>4, <2>5, <2>6
<1> QED BY <1>2, <1>3

LEMMA CoreIsTransitive ==
  ASSUME NEW a \in [1 .. 3 -> Nat], NEW b \in [1 .. 3 -> Nat], NEW c \in [1 .. 3 -> Nat],
         CorePrecedes(a, b), CorePrecedes(b, c)
  PROVE  CorePrecedes(a, c)
<1>1. PICK i \in 1 .. 3 : a[i] < b[i] /\ \A k \in 1 .. (i - 1) : a[k] = b[k]
  BY DEF CorePrecedes
<1>2. PICK j \in 1 .. 3 : b[j] < c[j] /\ \A k \in 1 .. (j - 1) : b[k] = c[k]
  BY DEF CorePrecedes
<1>3. \A k \in 1 .. 3 : a[k] \in Nat /\ b[k] \in Nat /\ c[k] \in Nat
  OBVIOUS
<1>4. CASE i <= j
  <2>1. b[i] <= c[i]
    BY <1>2, <1>3, <1>4
  <2>2. a[i] < c[i] /\ \A k \in 1 .. (i - 1) : a[k] = c[k]
    BY <1>1, <1>2, <1>3, <1>4, <2>1
  <2> QED BY <2>2 DEF CorePrecedes
<1>5. CASE j < i
  <2>1. a[j] < c[j] /\ \A k \in 1 .. (j - 1) : a[k] = c[k]
    BY <1>1, <1>2, <1>3, <1>5
  <2> QED BY <2>1 DEF CorePrecedes
<1> QED BY <1>4, <1>5

\* That order is one: transitive, and no version precedes itself (semver.go:8).
THEOREM PrecedenceIsOrder ==
  /\ \A x \in Version : ~Precedes(x, x)
  /\ \A x, y, z \in Version : Precedes(x, y) /\ Precedes(y, z) => Precedes(x, z)
<1>0. ASSUME NEW x \in Version
      PROVE  /\ x.core \in [1 .. 3 -> 0 .. MaxUint] /\ x.core \in [1 .. 3 -> Nat]
             /\ x.preRelease \in Seq(Identifier)
  BY SemverConstants DEF Version
<1>1. ASSUME NEW x \in Version PROVE ~Precedes(x, x)
  <2>1. ~PreReleasePrecedes(x.preRelease, x.preRelease)
    <3> SUFFICES ASSUME PreReleasePrecedes(x.preRelease, x.preRelease) PROVE FALSE
      OBVIOUS
    <3>1. PICK i \in DOMAIN x.preRelease :
            LowerIdentifier(x.preRelease[i], x.preRelease[i])
      BY DEF PreReleasePrecedes
    <3>2. x.preRelease[i] \in Identifier
      BY <1>0
    <3> QED BY <3>1, <3>2, NotLowerThanItself
  <2> QED BY <1>0, <2>1, CoreOrder, PrecedesIs
<1>2. ASSUME NEW x \in Version, NEW y \in Version, NEW z \in Version,
             Precedes(x, y), Precedes(y, z)
      PROVE  Precedes(x, z)
  <2>1. CASE CorePrecedes(x.core, y.core) /\ CorePrecedes(y.core, z.core)
    BY <1>0, <2>1, CoreIsTransitive, PrecedesIs
  <2>2. CASE x.core = y.core \/ y.core = z.core
    BY <1>0, <1>2, <2>2, PreReleaseIsTransitive, CoreOrder, PrecedesIs
  <2> QED BY <1>2, <2>1, <2>2, PrecedesIs
<1> QED BY <1>1, <1>2

----------------------------------------------------------------------------
\* The two orders of toolchains, spelled out.
LEMMA CoreOf ==
  ASSUME NEW a, NEW b
  PROVE  CorePrecedes(a, b) <=> \/ a[1] < b[1]
                                \/ a[1] = b[1] /\ a[2] < b[2]
                                \/ a[1] = b[1] /\ a[2] = b[2] /\ a[3] < b[3]
<1>1. 1 .. 3 = {1, 2, 3} /\ 1 .. (1 - 1) = {} /\ 1 .. (2 - 1) = {1} /\ 1 .. (3 - 1) = {1, 2}
  OBVIOUS
<1> QED BY <1>1 DEF CorePrecedes

Stage(t) == IF t.marker = Beta THEN 0 ELSE IF t.marker = RC THEN 1 ELSE 2
Patch(t) == IF Len(t.base) = 3 THEN t.base[3] ELSE 0
Number(t) == IF t.marker # None THEN t.serial ELSE Patch(t)

LEMMA ReleasedBeforeOf ==
  ASSUME NEW s, NEW t
  PROVE  ReleasedBefore(s, t) <=>
           \/ s.base[1] < t.base[1]
           \/ /\ s.base[1] = t.base[1]
              /\ \/ s.base[2] < t.base[2]
                 \/ /\ s.base[2] = t.base[2]
                    /\ \/ Stage(s) < Stage(t)
                       \/ Stage(s) = Stage(t) /\ Number(s) < Number(t)
<1> DEFINE place(u) == <<u.base[1], u.base[2], Stage(u), Number(u)>>
<1>1. ReleasedBefore(s, t) <=>
        \E i \in 1 .. 4 : /\ place(s)[i] < place(t)[i]
                          /\ \A k \in 1 .. (i - 1) : place(s)[k] = place(t)[k]
  BY DEF ReleasedBefore, Stage, Number, Patch
<1>2. /\ 1 .. 4 = {1, 2, 3, 4} /\ 1 .. (1 - 1) = {} /\ 1 .. (2 - 1) = {1}
      /\ 1 .. (3 - 1) = {1, 2} /\ 1 .. (4 - 1) = {1, 2, 3}
  OBVIOUS
<1>3. \A u : /\ place(u)[1] = u.base[1] /\ place(u)[2] = u.base[2]
             /\ place(u)[3] = Stage(u) /\ place(u)[4] = Number(u)
  OBVIOUS
<1> HIDE DEF place
<1> QED BY <1>1, <1>2, <1>3

\* The prerelease of a marked toolchain.
Marked(t) == <<[numeric |-> FALSE, at |-> t.marker], [numeric |-> TRUE, at |-> t.serial]>>

LEMMA Appended ==
  ASSUME NEW S, NEW s \in Seq(S), NEW e \in S
  PROVE  /\ Append(s, e) \in Seq(S) /\ Len(Append(s, e)) = Len(s) + 1
         /\ Append(s, e)[Len(s) + 1] = e
         /\ \A i \in 1 .. Len(s) : Append(s, e)[i] = s[i]
<1>1. Append(s, e) \in Seq(S) /\ Len(Append(s, e)) = Len(s) + 1
  BY AppendProperties
<1>2. Append(s, e)[Len(s) + 1] = e
  BY AppendProperties
<1>3. \A i \in 1 .. Len(s) : Append(s, e)[i] = s[i]
  BY AppendProperties
<1> QED BY <1>1, <1>2, <1>3

LEMMA AppendedToTwo ==
  ASSUME NEW S, NEW s \in Seq(S), NEW e \in S, Len(s) = 2
  PROVE  Append(s, e) = <<s[1], s[2], e>>
<1> DEFINE a == Append(s, e)
<1>1. /\ a \in Seq(S) /\ Len(a) = Len(s) + 1 /\ a[Len(s) + 1] = e
      /\ \A i \in 1 .. Len(s) : a[i] = s[i]
  BY Appended
<1> HIDE DEF a
<1>2. a \in Seq(S) /\ Len(a) = 3 /\ a[1] = s[1] /\ a[2] = s[2] /\ a[3] = e
  BY <1>1
<1>3. a = <<a[1], a[2], a[3]>>
  BY <1>2
<1>4. a = <<s[1], s[2], e>>
  BY <1>2, <1>3
<1> QED BY <1>4 DEF a

LEMMA Padded ==
  ASSUME NEW s \in Seq(Nat), Len(s) = 2
  PROVE  Append(s, 0) = <<s[1], s[2], 0>>
<1>1. 0 \in Nat
  OBVIOUS
<1> QED BY <1>1, AppendedToTwo, Zenon

LEMMA Triple ==
  ASSUME NEW s \in Seq(Nat), Len(s) = 3
  PROVE  s = <<s[1], s[2], s[3]>>
OBVIOUS

LEMMA MarkedIs ==
  ASSUME NEW t, t.marker \in Nat, t.serial \in 0 .. MaxUint
  PROVE  Marked(t) \in Seq(Identifier) /\ NarrowList(Marked(t))
<1>1. /\ [numeric |-> FALSE, at |-> t.marker] \in Identifier
      /\ [numeric |-> TRUE, at |-> t.serial] \in Identifier
  BY SemverConstants DEF Identifier
<1>2. Marked(t) \in Seq(Identifier)
  BY <1>1 DEF Marked
<1>3. NarrowList(Marked(t))
  BY SemverConstants DEF Marked, NarrowList
<1> QED BY <1>2, <1>3

\* What a toolchain becomes.
LEMMA NormalizedIs ==
  ASSUME NEW t, Released(t)
  PROVE  LET v == normalizeToolchainVersion(t)
         IN  /\ v \in Version /\ Narrow(v) /\ v # Invalid
             /\ v.core = <<t.base[1], t.base[2], Patch(t)>>
             /\ v.preRelease = IF t.marker = None THEN <<>> ELSE Marked(t)
             /\ t.marker # None => Patch(t) = 0
             /\ t.marker \in {Beta, RC, None} /\ t.serial \in Nat
             /\ t.base[1] \in Nat /\ t.base[2] \in Nat /\ Patch(t) \in Nat
<1>1. /\ t.base \in Seq(Nat) /\ t.marker \in {Beta, RC, None} /\ t.serial \in 0 .. MaxUint
      /\ t.suffix = <<>> /\ t \notin {None, Invalid}
      /\ Len(t.base) = 2 \/ (Len(t.base) = 3 /\ t.marker = None)
      /\ \A i \in DOMAIN t.base : t.base[i] <= MaxUint
  BY SemverConstants DEF Released, Toolchain
<1> DEFINE core == <<t.base[1], t.base[2], Patch(t)>>
           pre == IF t.marker = None THEN <<>> ELSE Marked(t)
<1>2. /\ t.base[1] \in 0 .. MaxUint /\ t.base[2] \in 0 .. MaxUint
      /\ Patch(t) \in 0 .. MaxUint /\ (t.marker # None => Patch(t) = 0)
  <2>1. \A i \in DOMAIN t.base : t.base[i] \in 0 .. MaxUint
    BY <1>1, SemverConstants
  <2>2. 1 \in DOMAIN t.base /\ 2 \in DOMAIN t.base /\ (Len(t.base) = 3 => 3 \in DOMAIN t.base)
    BY <1>1
  <2>3. Patch(t) \in 0 .. MaxUint
    BY <2>1, <2>2, SemverConstants DEF Patch
  <2>4. t.marker # None => Patch(t) = 0
    BY <1>1 DEF Patch
  <2> QED BY <2>1, <2>2, <2>3, <2>4
<1>3. core = IF Len(t.base) = 2 THEN Append(t.base, 0) ELSE t.base
  <2>1. CASE Len(t.base) = 2
    <3>1. Append(t.base, 0) = <<t.base[1], t.base[2], 0>> /\ Patch(t) = 0
      BY <1>1, <2>1, Padded DEF Patch
    <3> QED BY <2>1, <3>1
  <2>2. CASE Len(t.base) = 3
    BY <1>1, <2>2, Triple DEF Patch
  <2> QED BY <1>1, <2>1, <2>2
<1>4. normalizeToolchainVersion(t) = [core |-> core, preRelease |-> pre]
  <2>1. Len(core) = 3 /\ \A i \in 1 .. 3 : core[i] <= MaxUint
    BY <1>2
  <2> HIDE DEF core
  <2>2. \A list : Parse(core, list) = [core |-> core, preRelease |-> list]
    BY <2>1 DEF Parse
  <2>3. CASE t.marker = None
    BY <1>1, <1>3, <2>2, <2>3 DEF normalizeToolchainVersion
  <2>4. CASE t.marker # None
    <3>1. Len(t.base) = 2
      BY <1>1, <2>4
    <3>2. normalizeToolchainVersion(t) = Parse(Append(t.base, 0), Marked(t))
      BY <1>1, <2>4, <3>1 DEF normalizeToolchainVersion, Marked
    <3> QED BY <1>3, <2>2, <2>4, <3>1, <3>2
  <2> QED BY <2>3, <2>4
<1>5. core \in [1 .. 3 -> 0 .. MaxUint]
  BY <1>2
<1>6. pre \in Seq(Identifier) /\ NarrowList(pre)
  <2>1. CASE t.marker = None
    BY <2>1 DEF NarrowList
  <2>2. CASE t.marker # None
    BY <1>1, <2>2, SemverConstants, MarkedIs
  <2> QED BY <2>1, <2>2
<1> HIDE DEF core, pre
<1>7. [core |-> core, preRelease |-> pre] \in Version
  BY <1>5, <1>6 DEF Version
<1>8. Narrow([core |-> core, preRelease |-> pre]) /\ [core |-> core, preRelease |-> pre] # Invalid
  BY <1>6, <1>7, SemverConstants DEF Narrow, NarrowList
<1> QED BY <1>1, <1>2, <1>4, <1>7, <1>8, SemverConstants DEF core, pre

LEMMA MarkedOrder ==
  ASSUME NEW s, NEW t, s.serial \in Nat, t.serial \in Nat, s.marker \in Nat, t.marker \in Nat
  PROVE  PreReleasePrecedes(Marked(s), Marked(t)) <=>
           s.marker < t.marker \/ (s.marker = t.marker /\ s.serial < t.serial)
<1>1. /\ Marked(s) # <<>> /\ Marked(t) # <<>>
      /\ DOMAIN Marked(s) = {1, 2} /\ DOMAIN Marked(t) = {1, 2}
      /\ 1 .. (1 - 1) = {} /\ 1 .. (2 - 1) = {1}
  BY DEF Marked
<1>2. /\ LowerIdentifier(Marked(s)[1], Marked(t)[1]) <=> s.marker < t.marker
      /\ LowerIdentifier(Marked(s)[2], Marked(t)[2]) <=> s.serial < t.serial
      /\ Marked(s)[1] = Marked(t)[1] <=> s.marker = t.marker
  BY DEF Marked, LowerIdentifier
<1> QED BY <1>1, <1>2 DEF PreReleasePrecedes

\* Released toolchains become versions in the order of their releases
\* (normalizeToolchainVersion, semver.go:67).
THEOREM ReleasesInOrder ==
  ASSUME NEW s, NEW t, Released(s), Released(t)
  PROVE  LET older == normalizeToolchainVersion(s)
             newer == normalizeToolchainVersion(t)
         IN  /\ older # Invalid /\ newer # Invalid
             /\ compareSemver(older, newer) < 0 <=> ReleasedBefore(s, t)
<1> DEFINE older == normalizeToolchainVersion(s)
           newer == normalizeToolchainVersion(t)
<1>1. /\ older \in Version /\ Narrow(older) /\ older # Invalid
      /\ older.core = <<s.base[1], s.base[2], Patch(s)>>
      /\ older.preRelease = IF s.marker = None THEN <<>> ELSE Marked(s)
      /\ s.marker # None => Patch(s) = 0
      /\ s.marker \in {Beta, RC, None} /\ s.serial \in Nat
      /\ s.base[1] \in Nat /\ s.base[2] \in Nat /\ Patch(s) \in Nat
  BY NormalizedIs
<1>2. /\ newer \in Version /\ Narrow(newer) /\ newer # Invalid
      /\ newer.core = <<t.base[1], t.base[2], Patch(t)>>
      /\ newer.preRelease = IF t.marker = None THEN <<>> ELSE Marked(t)
      /\ t.marker # None => Patch(t) = 0
      /\ t.marker \in {Beta, RC, None} /\ t.serial \in Nat
      /\ t.base[1] \in Nat /\ t.base[2] \in Nat /\ Patch(t) \in Nat
  BY NormalizedIs
<1> HIDE DEF older, newer
<1>3. compareSemver(older, newer) < 0 <=> Precedes(older, newer)
  BY <1>1, <1>2, CompareIsPrecedence
<1>4. CorePrecedes(older.core, newer.core) <=>
        \/ s.base[1] < t.base[1]
        \/ s.base[1] = t.base[1] /\ s.base[2] < t.base[2]
        \/ s.base[1] = t.base[1] /\ s.base[2] = t.base[2] /\ Patch(s) < Patch(t)
  BY <1>1, <1>2, CoreOf
<1>5. older.core = newer.core <=>
        s.base[1] = t.base[1] /\ s.base[2] = t.base[2] /\ Patch(s) = Patch(t)
  BY <1>1, <1>2
<1>6. PreReleasePrecedes(older.preRelease, newer.preRelease) <=>
        /\ s.marker # None
        /\ \/ t.marker = None
           \/ s.marker < t.marker
           \/ s.marker = t.marker /\ s.serial < t.serial
  <2>1. CASE s.marker = None
    BY <1>1, <2>1 DEF PreReleasePrecedes
  <2>2. CASE s.marker # None /\ t.marker = None
    <3>1. Marked(s) # <<>>
      BY DEF Marked
    <3> QED BY <1>1, <1>2, <2>2, <3>1 DEF PreReleasePrecedes
  <2>3. CASE s.marker # None /\ t.marker # None
    BY <1>1, <1>2, <2>3, MarkedOrder, SemverConstants
  <2> QED BY <2>1, <2>2, <2>3
<1>7. Precedes(older, newer) <=> ReleasedBefore(s, t)
  <2>1. None \notin Nat /\ Beta \in Nat /\ RC \in Nat /\ Beta < RC
    BY SemverConstants
  <2>2. /\ Stage(s) \in 0 .. 2 /\ Stage(t) \in 0 .. 2
        /\ Stage(s) = 2 <=> s.marker = None
        /\ Stage(t) = 2 <=> t.marker = None
    BY <1>1, <1>2, <2>1 DEF Stage
  <2>3. /\ s.marker # None => Number(s) = s.serial /\ s.marker \in Nat
        /\ t.marker # None => Number(t) = t.serial /\ t.marker \in Nat
        /\ s.marker = None => Number(s) = Patch(s)
        /\ t.marker = None => Number(t) = Patch(t)
    BY <1>1, <1>2, <2>1 DEF Number
  <2>4. s.marker # None /\ t.marker # None =>
          /\ Stage(s) < Stage(t) <=> s.marker < t.marker
          /\ Stage(s) = Stage(t) <=> s.marker = t.marker
    BY <1>1, <1>2, <2>1 DEF Stage
  <2>5. Precedes(older, newer) <=>
          \/ CorePrecedes(older.core, newer.core)
          \/ older.core = newer.core
             /\ PreReleasePrecedes(older.preRelease, newer.preRelease)
    BY PrecedesIs
  <2>6. CASE s.marker = None
    BY <1>1, <1>2, <1>4, <1>5, <1>6, <2>2, <2>3, <2>5, <2>6, ReleasedBeforeOf
  <2>7. CASE s.marker # None /\ t.marker = None
    BY <1>1, <1>2, <1>4, <1>5, <1>6, <2>2, <2>3, <2>5, <2>7, ReleasedBeforeOf
  <2>8. CASE s.marker # None /\ t.marker # None
    BY <1>1, <1>2, <1>4, <1>5, <1>6, <2>3, <2>4, <2>5, <2>8, ReleasedBeforeOf
  <2> QED BY <2>6, <2>7, <2>8
<1> QED BY <1>1, <1>2, <1>3, <1>7 DEF older, newer

----------------------------------------------------------------------------
\* Part 2.  Ranges: lists of events of any length, and versions whose numbers have 64
\* bits.

\* An interval among the first n events that holds the candidate and has ended.
EndedInterval(n) ==
  \E i \in 1 .. (n - 1) : /\ StartsBy(events[i], candidate)
                          /\ EndsAfter(events[i + 1], candidate)

\* What the loop knows when it has come to event next: the events before it fit,
\* open and introduced describe the last of them, and affected sums up the
\* intervals that have ended.
LoopInv ==
  /\ events # <<>>
  /\ \A i \in 1 .. (next - 1) : Fits(events, i)
  /\ open <=> (next > 1 /\ events[next - 1].kind = "introduced")
  /\ open => /\ fromZero <=> events[next - 1].at = FromZero
             /\ fromZero \/ introduced = events[next - 1].at
  /\ ~open => previousEnd = IF next = 1 THEN None ELSE events[next - 1].at
  /\ affected <=> EndedInterval(next - 1)

RangeInv ==
  /\ RangeTypeOK
  /\ status = "evaluating" /\ AllNarrow(events, candidate) => LoopInv
  /\ RangeMatchesReference

----------------------------------------------------------------------------
\* What a comparison with zero says.
LEMMA Compared ==
  ASSUME NEW x \in Version, NEW y \in Version, Narrow(x), Narrow(y)
  PROVE  /\ compareSemver(x, y) >= 0 <=> ~Precedes(x, y)
         /\ compareSemver(x, y) < 0 <=> Precedes(x, y)
         /\ compareSemver(x, y) <= 0 <=> ~Precedes(y, x)
<1>1. /\ compareSemver(x, y) \in {-1, 0, 1}
      /\ compareSemver(x, y) = -1 <=> Precedes(x, y)
      /\ compareSemver(x, y) = 1 <=> Precedes(y, x)
  BY CompareIsPrecedence
<1> QED BY <1>1

\* The versions of a narrow list are.
LEMMA NarrowAt ==
  ASSUME AllNarrow(events, candidate)
  PROVE  /\ Narrow(candidate)
         /\ \A i \in DOMAIN events :
              events[i].kind # "malformed" /\ events[i].at \in Version => Narrow(events[i].at)
BY DEF AllNarrow

\* Not a version are the marks that stand for none.
LEMMA MarksAreNone ==
  /\ FromZero \notin Version /\ Invalid \notin Version /\ None \notin Version
  /\ FromZero # Invalid
BY RangeConstants, SemverConstants

\* An event of the list is an event.
LEMMA EventAt ==
  ASSUME RangeTypeOK, NEW i \in DOMAIN events
  PROVE  /\ i \in 1 .. Len(events)
         /\ events[i] \in Event
         /\ events[i].kind \in {"introduced", "fixed", "last_affected", "malformed"}
         /\ events[i].kind = "introduced" => events[i].at \in Version \cup {FromZero, Invalid}
         /\ events[i].kind \in Ends => events[i].at \in Version \cup {Invalid}
  BY DEF RangeTypeOK, Event, Ends

LEMMA InitInv == RangeInit => RangeInv
<1> SUFFICES ASSUME RangeInit PROVE RangeInv
  OBVIOUS
<1>1. events \in Seq(Event) /\ next \in 1 .. (Len(events) + 1)
  BY DEF RangeInit
<1>2. open \in BOOLEAN /\ fromZero \in BOOLEAN /\ affected \in BOOLEAN
  BY DEF RangeInit
<1>3. candidate \in Version
  BY SemverConstants DEF RangeInit, ZeroVersion, Version
<1>9. introduced \in Version \cup {None} /\ previousEnd \in Version \cup {None}
  BY DEF RangeInit
<1>4. RangeTypeOK
  BY <1>1, <1>2, <1>3, <1>9 DEF RangeInit, RangeTypeOK
<1> QED BY <1>4 DEF RangeInit, RangeInv, RangeMatchesReference

LEMMA CallInv ==
  ASSUME RangeInv, NEW list \in Seq(Event) \ {<<>>}, NEW version \in Version,
         Call(list, version)
  PROVE  RangeInv'
<1>1. RangeTypeOK'
  <2>1. Len(list) \in Nat
    OBVIOUS
  <2>2. events' \in Seq(Event) /\ next' \in 1 .. (Len(events') + 1)
    BY <2>1 DEF Call, Fresh
  <2> QED BY <2>2 DEF Call, Fresh, RangeTypeOK
<1>2. LoopInv'
  BY DEF Call, Fresh, LoopInv, EndedInterval
<1>3. RangeMatchesReference'
  BY DEF Call, RangeMatchesReference
<1> QED BY <1>1, <1>2, <1>3 DEF RangeInv

\* An event opens an interval exactly if it fits as an introduced one.
LEMMA OpensFits ==
  ASSUME RangeInv, AllNarrow(events, candidate), AtEvent, event.kind = "introduced"
  PROVE  Opens <=> Fits(events, next)
<1>1. LoopInv /\ RangeTypeOK /\ next \in 1 .. Len(events) /\ next \in DOMAIN events
  BY DEF RangeInv, AtEvent, RangeTypeOK
<1>2. events[next].at \in Version \cup {FromZero, Invalid} /\ events[next].kind = "introduced"
  BY <1>1, EventAt DEF event
<1>3. CASE next = 1
  BY <1>1, <1>2, <1>3, MarksAreNone DEF LoopInv, Opens, Fits, event, Ends
<1>4. CASE next > 1
  <2>1. Fits(events, next - 1)
    BY <1>1, <1>4 DEF LoopInv
  <2>2. CASE open
    BY <1>1, <1>4, <2>2 DEF LoopInv, Opens, Fits, event, Ends
  <2>3. CASE ~open
    <3>1. events[next - 1].kind \in Ends /\ events[next - 1].at \in Version
      BY <1>1, <1>4, <2>1, <2>3 DEF LoopInv, Fits, Ends
    <3>2. previousEnd = events[next - 1].at /\ previousEnd # None
      BY <1>1, <1>4, <2>3, <3>1, MarksAreNone DEF LoopInv
    <3>3. events[next].at \in Version =>
            (compareSemver(events[next].at, previousEnd) >= 0
               <=> ~Precedes(events[next].at, events[next - 1].at))
      <4>1. next - 1 \in DOMAIN events /\ events[next - 1].kind # "malformed"
        BY <1>1, <1>4, <3>1 DEF Ends
      <4>2. Narrow(events[next - 1].at)
        BY <3>1, <4>1, NarrowAt
      <4>3. events[next].at \in Version => Narrow(events[next].at)
        BY <1>1, <1>2, NarrowAt
      <4> QED BY <3>1, <3>2, <4>2, <4>3, Compared
    <3>4. Opens <=> /\ events[next].at # Invalid /\ events[next].at # FromZero
                    /\ compareSemver(events[next].at, previousEnd) >= 0
      BY <2>3, <3>2 DEF Opens, event
    <3>5. Fits(events, next) <=> /\ events[next].at \in Version
                                 /\ ~Precedes(events[next].at, events[next - 1].at)
      BY <1>1, <1>2, <1>4, <3>1 DEF Fits, Ends
    <3> QED BY <1>2, <3>3, <3>4, <3>5, MarksAreNone
  <2> QED BY <2>2, <2>3
<1> QED BY <1>1, <1>3, <1>4

\* An event ends an interval exactly if it fits as an end.
LEMMA ClosesFits ==
  ASSUME RangeInv, AllNarrow(events, candidate), AtEvent, event.kind \in Ends
  PROVE  Closes <=> Fits(events, next)
<1>1. LoopInv /\ RangeTypeOK /\ next \in 1 .. Len(events) /\ next \in DOMAIN events
  BY DEF RangeInv, AtEvent, RangeTypeOK
<1>2. /\ events[next].at \in Version \cup {Invalid} /\ events[next].kind \in Ends
      /\ events[next].kind # "introduced" /\ events[next].kind # "malformed"
  BY <1>1, EventAt DEF event, Ends
<1>3. CASE ~open
  BY <1>1, <1>2, <1>3 DEF LoopInv, Closes, Fits, event, Ends
<1>4. CASE open
  <2>1. /\ next > 1 /\ events[next - 1].kind = "introduced"
        /\ fromZero <=> events[next - 1].at = FromZero
        /\ fromZero \/ introduced = events[next - 1].at
    BY <1>1, <1>4 DEF LoopInv
  <2>2. events[next - 1].at \in Version \cup {FromZero}
    BY <1>1, <2>1 DEF LoopInv, Fits, Ends
  <2>3. events[next].at \in Version /\ ~fromZero =>
          (compareSemver(events[next].at, introduced) >= 0
             <=> ~Precedes(events[next].at, events[next - 1].at))
    <3>1. events[next].at \in Version => Narrow(events[next].at)
      BY <1>1, <1>2, NarrowAt
    <3>2. ~fromZero => events[next - 1].at \in Version /\ Narrow(events[next - 1].at)
      <4>1. next - 1 \in DOMAIN events
        BY <1>1, <2>1
      <4> QED BY <2>1, <2>2, <4>1, NarrowAt
    <3> QED BY <2>1, <3>1, <3>2, Compared
  <2>4. Closes <=> /\ events[next].at # Invalid
                   /\ ~fromZero => compareSemver(events[next].at, introduced) >= 0
    BY <1>4 DEF Closes, event
  <2>5. Fits(events, next) <=>
          /\ events[next].at \in Version
          /\ \/ fromZero
             \/ /\ events[next - 1].at \in Version
                /\ ~Precedes(events[next].at, events[next - 1].at)
    BY <1>1, <1>2, <2>1 DEF Fits
  <2> QED BY <1>2, <2>1, <2>2, <2>3, <2>4, <2>5, MarksAreNone
<1> QED BY <1>3, <1>4

\* Where the last interval starts: the candidate is compared with its event.
LEMMA SinceIs ==
  ASSUME RangeTypeOK, LoopInv, AllNarrow(events, candidate), open
  PROVE  /\ next > 1 /\ next - 1 \in 1 .. Len(events)
         /\ Since <=> StartsBy(events[next - 1], candidate)
<1>1. /\ next > 1 /\ next - 1 \in 1 .. Len(events) /\ next - 1 \in 1 .. (next - 1)
      /\ next - 1 \in DOMAIN events
      /\ events[next - 1].kind = "introduced"
      /\ fromZero <=> events[next - 1].at = FromZero
      /\ fromZero \/ introduced = events[next - 1].at
  BY DEF LoopInv, RangeTypeOK
<1>2. events[next - 1].at \in Version \cup {FromZero}
  BY <1>1 DEF LoopInv, Fits, Ends
<1>3. ~fromZero => (compareSemver(candidate, introduced) >= 0
                      <=> ~Precedes(candidate, events[next - 1].at))
  <2>1. ~fromZero => events[next - 1].at \in Version /\ Narrow(events[next - 1].at)
    BY <1>1, <1>2, NarrowAt
  <2> QED BY <1>1, <2>1, NarrowAt, Compared DEF RangeTypeOK
<1> QED BY <1>1, <1>3 DEF Since, StartsBy

----------------------------------------------------------------------------
LEMMA IntroduceInv == ASSUME RangeInv, Introduce PROVE RangeInv'
<1>1. /\ RangeTypeOK /\ next \in 1 .. Len(events) /\ next \in DOMAIN events
      /\ next' = next + 1 /\ UNCHANGED <<events, candidate, previousEnd, affected, status>>
      /\ status = "evaluating" /\ AtEvent /\ ~open /\ Opens
      /\ events[next].kind = "introduced" /\ events[next].at # Invalid
  BY DEF RangeInv, AtEvent, RangeTypeOK, Introduce, Opens, event
<1>3. events[next].at \in Version \cup {FromZero}
  BY <1>1, EventAt
<1>4. RangeTypeOK'
  BY <1>1, <1>3, MarksAreNone DEF RangeTypeOK, Introduce, event
<1>6. ASSUME AllNarrow(events, candidate) PROVE LoopInv'
  <2>0. LoopInv
    BY <1>1, <1>6 DEF RangeInv
  <2>1. \A i \in 1 .. next : Fits(events, i)
    <3>1. Fits(events, next)
      BY <1>1, <1>6, OpensFits DEF event
    <3> QED BY <1>1, <2>0, <3>1 DEF LoopInv
  <2>2. (EndedInterval(next - 1))' <=> EndedInterval(next)
    BY <1>1 DEF EndedInterval, StartsBy, EndsAfter
  <2>3. EndedInterval(next) <=> EndedInterval(next - 1)
    <3>1. next > 1 => events[next - 1].kind # "introduced"
      BY <1>1, <2>0 DEF LoopInv
    <3>2. ~StartsBy(events[next - 1], candidate) \/ next = 1
      BY <1>1, <3>1 DEF StartsBy
    <3>3. \A i \in 1 .. (next - 1) : i \in 1 .. (next - 1 - 1) \/ (i = next - 1 /\ next # 1)
      BY <1>1
    <3>4. \A i \in 1 .. (next - 1 - 1) : i \in 1 .. (next - 1)
      BY <1>1
    <3> QED BY <3>2, <3>3, <3>4 DEF EndedInterval
  <2>4. affected' <=> (EndedInterval(next - 1))'
    BY <1>1, <2>0, <2>2, <2>3 DEF LoopInv
  <2>5. open' /\ (fromZero' <=> events[next].at = FromZero)
        /\ (fromZero' \/ introduced' = events[next].at)
    BY DEF Introduce, event
  <2>6. \A i \in 1 .. (next' - 1) : Fits(events, i)'
    BY <1>1, <2>1 DEF Fits
  <2> QED BY <1>1, <1>3, <2>0, <2>4, <2>5, <2>6 DEF LoopInv
<1>7. RangeMatchesReference'
  BY <1>1 DEF RangeMatchesReference
<1>8. AllNarrow(events, candidate)' <=> AllNarrow(events, candidate)
  BY <1>1 DEF AllNarrow, Narrow
<1> QED BY <1>4, <1>6, <1>7, <1>8 DEF RangeInv

LEMMA EndInv == ASSUME RangeInv, End PROVE RangeInv'
<1>1. /\ RangeTypeOK /\ next \in 1 .. Len(events) /\ next \in DOMAIN events
      /\ next' = next + 1 /\ UNCHANGED <<events, candidate, introduced, fromZero, status>>
      /\ status = "evaluating" /\ AtEvent /\ open /\ Closes
      /\ events[next].kind \in Ends /\ events[next].at # Invalid
  BY DEF RangeInv, AtEvent, RangeTypeOK, End, Closes, event
<1>3. /\ events[next].kind # "introduced" /\ events[next].kind # "malformed"
      /\ events[next].at \in Version
  BY <1>1, EventAt DEF Ends
<1>4. RangeTypeOK'
  <2>1. affected' \in BOOLEAN /\ open' \in BOOLEAN
    BY DEF End
  <2>2. previousEnd' \in Version /\ next' \in 1 .. (Len(events') + 1)
    BY <1>1, <1>3 DEF End, event, RangeTypeOK
  <2> QED BY <1>1, <2>1, <2>2 DEF RangeTypeOK
<1>8. ASSUME AllNarrow(events, candidate) PROVE LoopInv'
  <2>0. LoopInv
    BY <1>1, <1>8 DEF RangeInv
  <2>1. \A i \in 1 .. next : Fits(events, i)
    <3>1. Fits(events, next)
      BY <1>1, <1>8, ClosesFits DEF event
    <3> QED BY <1>1, <2>0, <3>1 DEF LoopInv
  <2>2. (EndedInterval(next - 1))' <=> EndedInterval(next)
    BY <1>1 DEF EndedInterval, StartsBy, EndsAfter
  <2>6. next > 1 /\ (Since <=> StartsBy(events[next - 1], candidate))
    BY <1>1, <1>8, <2>0, SinceIs
  <2>7. Until <=> EndsAfter(events[next], candidate)
    <3>1. Narrow(events[next].at) /\ Narrow(candidate) /\ candidate \in Version
      BY <1>1, <1>3, <1>8, NarrowAt DEF RangeTypeOK
    <3>2. /\ compareSemver(candidate, events[next].at) < 0
               <=> Precedes(candidate, events[next].at)
          /\ compareSemver(candidate, events[next].at) <= 0
               <=> ~Precedes(events[next].at, candidate)
      BY <1>3, <3>1, Compared
    <3> QED BY <3>2 DEF Until, EndsAfter, event
  <2>8. EndedInterval(next) <=> (EndedInterval(next - 1) \/ (Since /\ Until))
    BY <1>1, <2>6, <2>7 DEF EndedInterval
  <2>3. affected' <=> (EndedInterval(next - 1))'
    BY <1>1, <2>0, <2>2, <2>8 DEF LoopInv, End
  <2>4. ~open' /\ previousEnd' = events[next].at
    BY DEF End, event
  <2>5. \A i \in 1 .. (next' - 1) : Fits(events, i)'
    BY <1>1, <2>1 DEF Fits
  <2> QED BY <1>1, <1>3, <2>0, <2>3, <2>4, <2>5 DEF LoopInv
<1>9. RangeMatchesReference'
  BY <1>1 DEF RangeMatchesReference
<1>10. AllNarrow(events, candidate)' <=> AllNarrow(events, candidate)
  BY <1>1 DEF AllNarrow, Narrow
<1> QED BY <1>4, <1>8, <1>9, <1>10 DEF RangeInv

LEMMA RejectInv == ASSUME RangeInv, Reject PROVE RangeInv'
<1>1. RangeTypeOK /\ AtEvent /\ next \in DOMAIN events /\ status' = "unknown"
      /\ UNCHANGED <<events, candidate, next, interval>>
  BY DEF Reject, RangeInv, AtEvent
<1>2. ASSUME AllNarrow(events, candidate) PROVE ~Fits(events, next)
  <2>1. CASE event.kind = "malformed"
    BY <2>1 DEF Fits, event, Ends
  <2>2. CASE event.kind = "introduced" /\ ~Opens
    BY <1>1, <1>2, <2>2, OpensFits
  <2>3. CASE event.kind \in Ends /\ ~Closes
    BY <1>1, <1>2, <2>3, ClosesFits
  <2> QED BY <2>1, <2>2, <2>3 DEF Reject
<1>3. AllNarrow(events, candidate) => Meaning(events, candidate) = "unknown"
  BY <1>1, <1>2 DEF Meaning, WellFormed
<1>4. RangeMatchesReference'
  <2>1. /\ Meaning(events, candidate)' = Meaning(events, candidate)
        /\ AllNarrow(events, candidate)' <=> AllNarrow(events, candidate)
    BY <1>1 DEF Meaning, WellFormed, Fits, Holds, StartsBy, EndsAfter, AllNarrow, Narrow
  <2> QED BY <1>1, <1>3, <2>1 DEF RangeMatchesReference
<1>5. RangeTypeOK'
  BY <1>1 DEF RangeTypeOK, interval
<1> QED BY <1>1, <1>4, <1>5 DEF RangeInv

LEMMA ConcludeInv == ASSUME RangeInv, Conclude PROVE RangeInv'
<1>0. /\ RangeTypeOK /\ next = Len(events) + 1 /\ status = "evaluating"
      /\ UNCHANGED <<events, candidate, next, interval>>
  BY DEF Conclude, RangeInv
<1>9. RangeTypeOK' /\ status' # "evaluating"
  BY <1>0 DEF RangeTypeOK, interval, Conclude
<1> SUFFICES ASSUME AllNarrow(events, candidate) PROVE status' = Meaning(events, candidate)'
  <2>1. AllNarrow(events, candidate)' <=> AllNarrow(events, candidate)
    BY <1>0 DEF AllNarrow, Narrow
  <2> QED BY <1>9, <2>1 DEF RangeInv, RangeMatchesReference
<1>1. LoopInv
  BY <1>0 DEF RangeInv
<1>2. events # <<>> /\ Len(events) \in Nat /\ Len(events) > 0
      /\ DOMAIN events = 1 .. Len(events)
  BY <1>0, <1>1 DEF LoopInv, RangeTypeOK
<1>3. WellFormed(events)
  BY <1>0, <1>1, <1>2 DEF LoopInv, WellFormed
<1> DEFINE last == Len(events)
<1>4. (open /\ Since) <=> StartsBy(events[last], candidate)
  <2>1. CASE open
    BY <1>0, <1>1, <1>2, <2>1, SinceIs
  <2>2. CASE ~open
    BY <1>0, <1>1, <1>2, <2>2 DEF LoopInv, StartsBy
  <2> QED BY <2>1, <2>2
<1>5. (\E i \in 1 .. last : Holds(events, candidate, i)) <=>
        (EndedInterval(last) \/ StartsBy(events[last], candidate))
  <2>1. ASSUME NEW i \in 1 .. last, Holds(events, candidate, i)
        PROVE  EndedInterval(last) \/ StartsBy(events[last], candidate)
    <3>1. CASE i = last
      BY <2>1, <3>1 DEF Holds
    <3>2. CASE i # last
      <4>1. i \in 1 .. (Len(events) - 1)
        <5>1. \A n \in Nat : \A k \in 1 .. n : k # n => k \in 1 .. (n - 1)
          OBVIOUS
        <5> QED BY <1>2, <2>1, <3>2, <5>1
      <4> QED BY <2>1, <3>2, <4>1 DEF Holds, EndedInterval
    <3> QED BY <3>1, <3>2
  <2>2. ASSUME EndedInterval(last)
        PROVE  \E i \in 1 .. last : Holds(events, candidate, i)
    <3>1. PICK i \in 1 .. (last - 1) : /\ StartsBy(events[i], candidate)
                                     /\ EndsAfter(events[i + 1], candidate)
      BY <2>2 DEF EndedInterval
    <3>2. i \in 1 .. last
      BY <1>2
    <3> QED BY <3>1, <3>2 DEF Holds
  <2>3. ASSUME StartsBy(events[last], candidate)
        PROVE  \E i \in 1 .. last : Holds(events, candidate, i)
    <3>1. last \in 1 .. last
      BY <1>2
    <3> QED BY <2>3, <3>1 DEF Holds
  <2> QED BY <2>1, <2>2, <2>3
<1>6. affected <=> EndedInterval(last)
  BY <1>0, <1>1, <1>2 DEF LoopInv
<1>7. status' = Meaning(events, candidate)
  BY <1>2, <1>3, <1>4, <1>5, <1>6 DEF Conclude, Meaning
<1>8. Meaning(events, candidate)' = Meaning(events, candidate)
  BY <1>0 DEF Meaning, WellFormed, Fits, Holds, StartsBy, EndsAfter
<1> QED BY <1>7, <1>8

LEMMA StutterInv == ASSUME RangeInv, UNCHANGED rangeVars PROVE RangeInv'
  BY DEF RangeInv, rangeVars, interval, RangeTypeOK, LoopInv, EndedInterval,
         RangeMatchesReference, Meaning, WellFormed, Fits, Holds, StartsBy, EndsAfter,
         AllNarrow, Narrow

LEMMA ScanInv == ASSUME RangeInv, Scan PROVE RangeInv'
  BY IntroduceInv, EndInv, RejectInv, ConcludeInv DEF Scan

\* RangeInv is inductive.
THEOREM RangeInvariance == RangeSpec => []RangeInv
<1>1. RangeInv /\ [RangeNext]_rangeVars => RangeInv'
  BY CallInv, ScanInv, StutterInv DEF RangeNext
<1> QED BY InitInv, <1>1, PTL DEF RangeSpec

\* evaluateRange returns what its events mean: for every list of events, of any
\* length, and every version.
THEOREM RangeCorrect == RangeSpec => []RangeMatchesReference
  BY RangeInvariance, PTL DEF RangeInv

----------------------------------------------------------------------------
\* The other reading of a range: the algorithm of the OSV schema.

\* Of two narrow versions one comes first, or they are the same.
LEMMA OneComesFirst ==
  ASSUME NEW x \in Version, NEW y \in Version, Narrow(x), Narrow(y),
         ~Precedes(x, y), ~Precedes(y, x)
  PROVE  x = y
<1>1. /\ compareSemver(x, y) \in {-1, 0, 1}
      /\ compareSemver(x, y) = -1 <=> Precedes(x, y)
      /\ compareSemver(x, y) = 1 <=> Precedes(y, x)
      /\ compareSemver(x, y) = 0 <=> x = y
  BY CompareIsPrecedence
<1> QED BY <1>1

\* "Not before" is transitive, on narrow versions.
LEMMA NotBeforeIsTransitive ==
  ASSUME NEW x \in Version, NEW y \in Version, NEW z \in Version,
         Narrow(x), Narrow(y), ~Precedes(y, x), ~Precedes(z, y)
  PROVE  ~Precedes(z, x)
<1>1. CASE x = y
  BY <1>1
<1>2. CASE x # y
  <2>1. Precedes(x, y)
    BY <1>2, OneComesFirst
  <2> QED BY <2>1, PrecedenceIsOrder
<1> QED BY <1>1, <1>2

\* In events that describe intervals no version precedes an earlier one, wherever
\* the two stand.
LEMMA VersionsAscend ==
  ASSUME RangeTypeOK, WellFormed(events), AllNarrow(events, candidate),
         NEW i \in DOMAIN events, NEW k \in DOMAIN events, i < k,
         events[i].at \in Version
  PROVE  events[k].at \in Version /\ ~Precedes(events[k].at, events[i].at)
<1> DEFINE at(n) == events[n].at
           T == {n \in DOMAIN events : i < n /\ Precedes(at(n), at(i))}
<1>1. /\ DOMAIN events = 1 .. Len(events) /\ Len(events) \in Nat
      /\ T \subseteq Nat
  BY DEF RangeTypeOK
<1>2. ASSUME NEW n \in DOMAIN events, n > 1
      PROVE  /\ at(n) \in Version /\ Narrow(at(n))
             /\ at(n - 1) \in Version => ~Precedes(at(n), at(n - 1))
  <2>1. Fits(events, n)
    BY DEF WellFormed
  <2>2. /\ at(n) \in Version /\ events[n].kind # "malformed"
        /\ at(n - 1) \in Version => ~Precedes(at(n), at(n - 1))
    BY <1>1, <1>2, <2>1, MarksAreNone DEF Fits, Ends
  <2> QED BY <2>2, NarrowAt
<1>3. Narrow(at(i))
  <2>1. events[i].kind # "malformed"
    BY DEF WellFormed, Fits, Ends
  <2> QED BY <2>1, NarrowAt
<1>4. T = {}
  <2> SUFFICES ASSUME T # {} PROVE FALSE
    OBVIOUS
  <2>1. PICK n \in T : \A m \in T : ~(m < n)
    BY <1>1, FirstNumber
  <2>2. /\ n \in DOMAIN events /\ i < n /\ n > 1 /\ Precedes(at(n), at(i))
        /\ at(n) \in Version
    BY <1>1, <1>2
  <2>3. CASE n = i + 1
    <3>1. n - 1 = i
      BY <1>1, <2>3
    <3> QED BY <1>2, <2>2, <3>1
  <2>4. CASE n # i + 1
    <3>1. n - 1 \in DOMAIN events /\ i < n - 1 /\ n - 1 > 1 /\ n - 1 < n
      BY <1>1, <2>2, <2>4
    <3>2. n - 1 \notin T
      BY <2>1, <3>1
    <3>3. ~Precedes(at(n - 1), at(i))
      BY <3>1, <3>2
    <3>4. at(n - 1) \in Version /\ Narrow(at(n - 1))
      BY <1>2, <3>1
    <3>5. ~Precedes(at(n), at(n - 1))
      BY <1>2, <2>2, <3>4
    <3> HIDE DEF at, T
    <3>6. at(i) \in Version
      BY DEF at
    <3> QED BY <1>3, <2>2, <3>3, <3>4, <3>5, <3>6, NotBeforeIsTransitive
  <2> QED BY <2>3, <2>4
<1>5. k > 1
  BY <1>1
<1> QED BY <1>2, <1>4, <1>5

\* What the OSV algorithm reports lies in an interval: the last start before the
\* version is not followed by an end before it.
LEMMA OsvFindsInterval ==
  ASSUME RangeTypeOK, WellFormed(events), OsvVulnerable
  PROVE  \E i \in DOMAIN events : Holds(events, candidate, i)
<1> DEFINE speaks(e) == \/ StartsBy(e, candidate)
                        \/ e.kind \in Ends /\ ~EndsAfter(e, candidate)
<1>1. PICK i \in DOMAIN events :
        /\ StartsBy(events[i], candidate)
        /\ \A k \in (i + 1) .. Len(events) :
             speaks(events[k]) => StartsBy(events[k], candidate)
  BY DEF OsvVulnerable
<1>2. DOMAIN events = 1 .. Len(events) /\ Len(events) \in Nat /\ i \in 1 .. Len(events)
  BY DEF RangeTypeOK
<1>3. CASE i = Len(events)
  BY <1>1, <1>3 DEF Holds
<1>4. CASE i # Len(events)
  <2>1. i + 1 \in DOMAIN events /\ i + 1 \in (i + 1) .. Len(events) /\ (i + 1) - 1 = i
    BY <1>2, <1>4
  <2>2. events[i].kind = "introduced"
    BY <1>1 DEF StartsBy
  <2>3. events[i + 1].kind \in Ends /\ events[i + 1].kind # "introduced"
    <3>1. Fits(events, i + 1)
      BY <2>1 DEF WellFormed
    <3> QED BY <1>2, <2>1, <2>2, <3>1 DEF Fits, Ends
  <2>4. EndsAfter(events[i + 1], candidate)
    BY <1>1, <2>1, <2>3 DEF StartsBy
  <2> QED BY <1>1, <2>4 DEF Holds
<1> QED BY <1>3, <1>4

\* An interval the OSV algorithm does not report ends with the version, and a later
\* one is emptied by a fix in the same version.
LEMMA OsvMissesOnlyTouching ==
  ASSUME RangeTypeOK, WellFormed(events), AllNarrow(events, candidate), ~OsvVulnerable,
         NEW h \in DOMAIN events, Holds(events, candidate, h)
  PROVE  \E i, k \in DOMAIN events :
           /\ i < k /\ events[i].kind = "last_affected" /\ events[k].kind = "fixed"
           /\ events[i].at = candidate /\ events[k].at = candidate
<1> DEFINE speaks(e) == \/ StartsBy(e, candidate)
                        \/ e.kind \in Ends /\ ~EndsAfter(e, candidate)
<1>1. /\ DOMAIN events = 1 .. Len(events) /\ Len(events) \in Nat /\ h \in 1 .. Len(events)
      /\ candidate \in Version /\ Narrow(candidate)
  BY DEF RangeTypeOK, AllNarrow
<1>2. StartsBy(events[h], candidate)
  BY DEF Holds
<1>3. PICK k \in (h + 1) .. Len(events) :
        speaks(events[k]) /\ ~StartsBy(events[k], candidate)
  BY <1>2 DEF OsvVulnerable
<1>4. /\ k \in DOMAIN events /\ events[k].kind \in Ends /\ ~EndsAfter(events[k], candidate)
      /\ h # Len(events)
  BY <1>1, <1>3
<1>5. h + 1 \in DOMAIN events /\ EndsAfter(events[h + 1], candidate) /\ (h + 1) - 1 = h
      /\ h + 1 > 1
  BY <1>1, <1>4 DEF Holds
<1>6. h + 1 < k
  <2>1. k # h + 1
    BY <1>4, <1>5
  <2> QED BY <1>1, <1>3, <2>1
<1> DEFINE x == events[h + 1].at
           y == events[k].at
<1>7. /\ events[h + 1].kind \in Ends /\ x \in Version /\ Narrow(x)
  <2>1. Fits(events, h + 1) /\ events[h].kind = "introduced"
    BY <1>2, <1>5 DEF WellFormed, StartsBy
  <2>2. events[h + 1].kind \in Ends /\ x \in Version
    BY <1>5, <2>1 DEF Fits, Ends
  <2> QED BY <1>5, <2>2, NarrowAt DEF Ends
<1>8. /\ y \in Version /\ ~Precedes(y, x) /\ Narrow(y)
  <2>1. y \in Version /\ ~Precedes(y, x)
    BY <1>4, <1>5, <1>6, <1>7, VersionsAscend
  <2> QED BY <1>4, <2>1, NarrowAt DEF Ends
<1>9. ~Precedes(x, candidate)
  <2>1. Precedes(candidate, x) => ~Precedes(x, candidate)
    BY <1>1, <1>7, PrecedenceIsOrder
  <2> QED BY <1>5, <2>1 DEF EndsAfter
<1>10. ~Precedes(candidate, y)
  <2>1. Precedes(y, candidate) => ~Precedes(candidate, y)
    BY <1>1, <1>8, PrecedenceIsOrder
  <2> QED BY <1>4, <2>1 DEF EndsAfter
<1> HIDE DEF x, y
<1>11. x = y /\ y = candidate
  \* candidate <= x <= y <= candidate.
  <2>1. ~Precedes(y, candidate)
    BY <1>1, <1>7, <1>8, <1>9, NotBeforeIsTransitive
  <2>2. y = candidate
    BY <1>1, <1>8, <1>10, <2>1, OneComesFirst
  <2>3. x = candidate
    BY <1>1, <1>7, <1>8, <1>9, <2>2, OneComesFirst
  <2> QED BY <2>2, <2>3
<1>12. ~Precedes(candidate, candidate)
  BY <1>1, PrecedenceIsOrder
<1>13. events[h + 1].kind = "last_affected" /\ events[k].kind = "fixed"
  BY <1>4, <1>5, <1>7, <1>11, <1>12 DEF EndsAfter, Ends, x, y
<1> QED BY <1>4, <1>5, <1>6, <1>11, <1>13 DEF x, y

LEMMA RangeNeverMisses == RangeInv => NeverMissesOsv
<1> SUFFICES ASSUME RangeInv, AllNarrow(events, candidate)
             PROVE  /\ status = "not-affected" => ~OsvVulnerable
                    /\ status = "affected" /\ ~OsvVulnerable =>
                         \E i, k \in DOMAIN events :
                           /\ i < k /\ events[i].kind = "last_affected"
                           /\ events[k].kind = "fixed"
                           /\ events[i].at = candidate /\ events[k].at = candidate
  BY DEF NeverMissesOsv
<1>1. RangeTypeOK /\ (status \notin {"idle", "evaluating"} => status = Meaning(events, candidate))
  BY DEF RangeInv, RangeMatchesReference
<1>2. ASSUME status = "not-affected", OsvVulnerable PROVE FALSE
  <2>1. /\ WellFormed(events)
        /\ ~ \E i \in DOMAIN events : Holds(events, candidate, i)
    BY <1>1, <1>2 DEF Meaning
  <2> QED BY <1>1, <1>2, <2>1, OsvFindsInterval
<1>3. ASSUME status = "affected", ~OsvVulnerable
      PROVE  \E i, k \in DOMAIN events :
               /\ i < k /\ events[i].kind = "last_affected" /\ events[k].kind = "fixed"
               /\ events[i].at = candidate /\ events[k].at = candidate
  <2>1. WellFormed(events) /\ \E h \in DOMAIN events : Holds(events, candidate, h)
    BY <1>1, <1>3 DEF Meaning
  <2> QED BY <1>1, <1>3, <2>1, OsvMissesOnlyTouching
<1> QED BY <1>2, <1>3

\* Whatever events a range has, of any length, what the algorithm of the OSV schema
\* reports is reported, and more only of a version that ends one interval and fixes
\* an empty one after it.
THEOREM OsvIsNeverMissed == RangeSpec => []NeverMissesOsv
  BY RangeInvariance, RangeNeverMisses, PTL

----------------------------------------------------------------------------
\* Part 3.  Calls of Evaluate.

TaskOK == \E kind \in Tasks : task \in kind

\* Where the loops are: what each of them has found out before it was entered.
Position ==
  /\ loop \in {"affected", "ranges", "events"} =>
       /\ todo # <<>> /\ record.reviewed
       /\ entry.affected <= Len(record.affected) + 1
       /\ loop = "affected" => entry.range = 1
  /\ loop \in {"ranges", "events"} =>
       /\ entry.affected \in DOMAIN record.affected /\ Applies
       /\ VersionFor(affectedEntry.name) # Invalid /\ ranges # <<>>
       /\ entry.range <= Len(ranges) + 1
  /\ loop = "events" =>
       /\ entry.range \in DOMAIN ranges /\ ranges[entry.range].semver
       /\ events = ranges[entry.range].events
       /\ candidate = VersionFor(affectedEntry.name)
       /\ status # "idle"

\* A report clears a project if each of its findings does.
Cleared ==
  report # None /\ report.status = "not-affected" =>
    /\ input.complete
    /\ task.now \in Int
    /\ task.now \in task.release.fetchedAt .. (task.release.fetchedAt + task.release.maxAge)
    /\ report.freshness = "current" /\ report.code = None
    /\ \A i \in DOMAIN report.findings : report.findings[i].status = "not-affected"

\* Nothing is evaluated without complete and current evidence.
Evidence ==
  /\ loop \notin {"evaluate", "done"} => input.complete /\ Freshness = "current"
  /\ Cleared

EvaluationInv == TaskOK /\ TypeOK /\ RangeInv /\ Position /\ Evidence

----------------------------------------------------------------------------
LEMMA TaskFacts ==
  ASSUME TaskOK
  PROVE  /\ input.toolchain \in Toolchain \cup {Invalid, None}
         /\ \A name \in DOMAIN input.modules :
              input.modules[name] \in Version \cup {Invalid}
         /\ task.now \in Nat \cup {None}
         /\ task.release.fetchedAt \in Nat /\ task.release.maxAge \in Nat
         /\ DOMAIN records \subseteq Nat /\ IsFiniteSet(DOMAIN records)
         /\ \A id \in DOMAIN records :
              /\ IsList(records[id].affected)
              /\ \A i \in DOMAIN records[id].affected :
                   LET list == records[id].affected[i].ranges
                   IN  IsList(list) /\ \A k \in DOMAIN list : list[k].events \in Seq(Event)
<1>1. PICK kind \in Tasks : task \in kind
  BY DEF TaskOK
<1> QED BY <1>1, TasksAssumption DEF input, records

\* The name of a toolchain becomes a version or nothing.
LEMMA NormalizedType ==
  ASSUME NEW t \in Toolchain \cup {Invalid, None}
  PROVE  normalizeToolchainVersion(t) \in Version \cup {Invalid}
<1>1. ASSUME NEW core \in Seq(Nat), NEW list \in Seq(Identifier)
      PROVE  Parse(core, list) \in Version \cup {Invalid}
  <2>1. CASE Len(core) = 3 /\ \A i \in 1 .. 3 : core[i] <= MaxUint
    <3>1. core \in [1 .. 3 -> 0 .. MaxUint]
      <4>1. DOMAIN core = 1 .. 3 /\ core = [i \in DOMAIN core |-> core[i]]
        BY <2>1
      <4>2. \A i \in 1 .. 3 : core[i] \in Nat
        <5>1. \A i \in 1 .. Len(core) : core[i] \in Nat
          OBVIOUS
        <5> QED BY <2>1, <5>1
      <4>3. \A i \in 1 .. 3 : core[i] \in 0 .. MaxUint
        BY <2>1, <4>2, SemverConstants
      <4> QED BY <4>1, <4>3
    <3> QED BY <2>1, <3>1 DEF Parse, Version
  <2>2. CASE ~(Len(core) = 3 /\ \A i \in 1 .. 3 : core[i] <= MaxUint)
    BY <2>2 DEF Parse
  <2> QED BY <2>1, <2>2
<1>2. CASE t \in {None, Invalid}
  BY <1>2 DEF normalizeToolchainVersion
<1>3. CASE t \in Toolchain /\ t \notin {None, Invalid}
  <2>1. t.base \in Seq(Nat) /\ t.suffix \in Seq(Identifier) /\ t.serial \in Nat
        /\ t.marker \in {Beta, RC, None}
    BY <1>3 DEF Toolchain
  <2>2. Append(t.base, 0) \in Seq(Nat)
    BY <2>1
  <2>3. t.marker # None =>
          <<[numeric |-> FALSE, at |-> t.marker],
            [numeric |-> TRUE, at |-> t.serial]>> \in Seq(Identifier)
    <3>1. SUFFICES ASSUME t.marker # None
                   PROVE  <<[numeric |-> FALSE, at |-> t.marker],
                            [numeric |-> TRUE, at |-> t.serial]>> \in Seq(Identifier)
      OBVIOUS
    <3>2. /\ [numeric |-> FALSE, at |-> t.marker] \in Identifier
          /\ [numeric |-> TRUE, at |-> t.serial] \in Identifier
      BY <2>1, <3>1, SemverConstants DEF Identifier
    <3> QED BY <3>2
  <2> QED BY <1>1, <1>3, <2>1, <2>2, <2>3 DEF normalizeToolchainVersion
<1> QED BY <1>2, <1>3

LEMMA VersionForType ==
  ASSUME TaskOK, NEW name
  PROVE  VersionFor(name) \in Version \cup {Invalid, None}
<1>1. normalizeToolchainVersion(input.toolchain) \in Version \cup {Invalid}
  BY TaskFacts, NormalizedType
<1> QED BY <1>1, TaskFacts DEF VersionFor

LEMMA CandidatesAreRecords == Candidates \subseteq DOMAIN records
BY DEF Candidates, Index

LEMMA OrdersType ==
  ASSUME NEW ids, IsFiniteSet(ids), NEW list \in Orders(ids)
  PROVE  list \in Seq(ids) /\ Len(list) = Cardinality(ids) /\ Cardinality(ids) \in Nat
<1>1. Cardinality(ids) \in Nat
  BY FS_CardinalityType
<1>2. list \in [1 .. Cardinality(ids) -> ids]
  BY DEF Orders
<1> QED BY <1>1, <1>2

LEMMA OrderOfCandidates ==
  ASSUME TaskOK, NEW list \in Orders(Candidates)
  PROVE  list \in Seq(DOMAIN records)
<1>1. IsFiniteSet(Candidates)
  BY TaskFacts, CandidatesAreRecords, FS_Subset
<1>2. list \in Seq(Candidates)
  BY <1>1, OrdersType
<1> QED BY <1>2, CandidatesAreRecords

\* What the clock must say.
LEMMA CurrentMeans ==
  ASSUME TaskOK, Freshness = "current"
  PROVE  /\ task.now \in Int
         /\ task.now \in
              task.release.fetchedAt .. (task.release.fetchedAt + task.release.maxAge)
BY TaskFacts DEF Freshness

LEMMA FreshnessType == Freshness \in {"current", "stale", "unknown"}
BY DEF Freshness

----------------------------------------------------------------------------
\* The record, entry and range the loops have come to.
LEMMA Here ==
  ASSUME EvaluationInv
  PROVE  /\ todo # <<>> => Head(todo) \in DOMAIN records /\ Tail(todo) \in Seq(DOMAIN records)
         /\ todo # <<>> => IsList(record.affected)
         /\ todo # <<>> /\ entry.affected \in DOMAIN record.affected =>
              IsList(ranges) /\ \A k \in DOMAIN ranges : ranges[k].events \in Seq(Event)
<1>1. todo \in Seq(DOMAIN records) /\ TaskOK
  BY DEF EvaluationInv, TypeOK
<1>2. todo # <<>> => Head(todo) \in DOMAIN records /\ Tail(todo) \in Seq(DOMAIN records)
  BY <1>1
<1>3. ASSUME todo # <<>>
      PROVE  /\ IsList(record.affected)
             /\ entry.affected \in DOMAIN record.affected =>
                  IsList(ranges) /\ \A k \in DOMAIN ranges : ranges[k].events \in Seq(Event)
  <2>1. Head(todo) \in DOMAIN records
    BY <1>2, <1>3
  <2> QED BY <1>1, <2>1, TaskFacts DEF record, affectedEntry, ranges
<1> QED BY <1>2, <1>3

\* A step that leaves the task and the innermost loop alone.
LEMMA Outside ==
  ASSUME EvaluationInv, UNCHANGED <<task, rangeVars>>
  PROVE  TaskOK' /\ RangeTypeOK' /\ RangeInv'
<1>1. RangeInv'
  BY StutterInv DEF EvaluationInv
<1> QED BY <1>1 DEF EvaluationInv, TaskOK, RangeInv

LEMMA FirstEntry == [affected |-> 1, range |-> 1] \in [affected : Nat \ {0}, range : Nat \ {0}]
OBVIOUS

LEMMA EvaluationInit == Init => EvaluationInv
<1> SUFFICES ASSUME Init PROVE EvaluationInv
  OBVIOUS
<1>1. TaskOK /\ RangeInv
  BY InitInv DEF Init, TaskOK
<1>2. TypeOK
  <2>1. /\ todo \in Seq(DOMAIN records)
        /\ findings \in Seq([id : DOMAIN records, status : Status])
    BY DEF Init
  <2>2. entry \in [affected : Nat \ {0}, range : Nat \ {0}] /\ loop = "evaluate"
    BY FirstEntry DEF Init
  <2>3. unknown \in BOOLEAN /\ rangeFlags \in [affected : BOOLEAN, unknown : BOOLEAN]
        /\ report = None
    BY DEF Init, NoFlags
  <2> QED BY <1>1, <2>1, <2>2, <2>3 DEF TypeOK, RangeInv
<1>3. Position /\ Evidence
  <2>1. loop = "evaluate" /\ report = None
    BY DEF Init
  <2> QED BY <2>1 DEF Position, Evidence, Cleared
<1> QED BY <1>1, <1>2, <1>3 DEF EvaluationInv

\* Steps that return.
LEMMA ReturnKeeps ==
  ASSUME EvaluationInv, UNCHANGED <<task, rangeVars>>,
         UNCHANGED <<todo, entry, unknown, rangeFlags, findings>>,
         NEW s \in Status, NEW f \in {"current", "stale", "unknown"},
         NEW found \in Seq([id : DOMAIN records, status : Status]),
         NEW code \in {"vulndb-unavailable", "vulndb-input-invalid", "vulndb-stale",
                       "vulndb-freshness-unknown", None},
         Return(s, f, found, code),
         s = "not-affected" =>
           /\ input.complete /\ Freshness = "current" /\ f = "current" /\ code = None
           /\ \A i \in DOMAIN found : found[i].status = "not-affected"
  PROVE  EvaluationInv'
<1>1. TaskOK' /\ RangeTypeOK' /\ RangeInv' /\ records' = records /\ loop' = "done"
  BY Outside DEF records, Return
<1>2. report' = [status |-> s, freshness |-> f, findings |-> found, code |-> code]
  BY DEF Return
<1>3. TypeOK'
  BY <1>1, <1>2 DEF TypeOK, EvaluationInv
<1>4. Position'
  BY <1>1 DEF Position
<1>5. Evidence'
  <2>1. s = "not-affected" =>
          /\ task.now \in Int
          /\ task.now \in
               task.release.fetchedAt .. (task.release.fetchedAt + task.release.maxAge)
    BY CurrentMeans DEF EvaluationInv
  <2> QED BY <1>1, <1>2, <2>1 DEF Evidence, Cleared, input
<1> QED BY <1>1, <1>3, <1>4, <1>5 DEF EvaluationInv

LEMMA LoadFailsInv == ASSUME EvaluationInv, LoadFails PROVE EvaluationInv'
<1>1. <<>> \in Seq([id : DOMAIN records, status : Status])
  OBVIOUS
<1> QED BY <1>1, ReturnKeeps DEF LoadFails, Status

LEMMA BeginInv == ASSUME EvaluationInv, Begin PROVE EvaluationInv'
<1>1. CASE ~input.complete /\ Return("unknown", "unknown", <<>>, "vulndb-input-invalid")
           /\ UNCHANGED todo
  <2>1. <<>> \in Seq([id : DOMAIN records, status : Status])
    OBVIOUS
  <2> QED BY <1>1, <2>1, ReturnKeeps DEF Begin, Status
<1>2. ASSUME NEW list \in Orders(Candidates), UNCHANGED todo,
             Return("unknown", Freshness,
                    [i \in DOMAIN list |-> [id |-> list[i], status |-> "unknown"]],
                    IF Freshness = "stale" THEN "vulndb-stale"
                    ELSE "vulndb-freshness-unknown")
      PROVE  EvaluationInv'
  <2>1. list \in Seq(DOMAIN records)
    BY OrderOfCandidates DEF EvaluationInv
  <2>2. [i \in DOMAIN list |-> [id |-> list[i], status |-> "unknown"]]
          \in Seq([id : DOMAIN records, status : Status])
    <3>1. Len(list) \in Nat /\ DOMAIN list = 1 .. Len(list)
          /\ \A i \in DOMAIN list : list[i] \in DOMAIN records
      BY <2>1
    <3>2. \A i \in DOMAIN list : [id |-> list[i], status |-> "unknown"]
                                  \in [id : DOMAIN records, status : Status]
      BY <3>1 DEF Status
    <3> HIDE DEF records
    <3> QED BY <3>1, <3>2
  <2> QED BY <1>2, <2>2, FreshnessType, ReturnKeeps DEF Begin, Status
<1>3. CASE /\ input.complete /\ Freshness = "current"
           /\ todo' \in Orders(Candidates) /\ loop' = "records" /\ UNCHANGED report
  <2>1. TaskOK' /\ RangeTypeOK' /\ RangeInv' /\ UNCHANGED task
        /\ UNCHANGED <<entry, unknown, rangeFlags, findings, report>>
    BY <1>3, Outside DEF Begin
  <2>2. todo' \in Seq(DOMAIN records) /\ records' = records
    BY <1>3, <2>1, OrderOfCandidates DEF EvaluationInv, records
  <2>3. TypeOK'
    BY <1>3, <2>1, <2>2 DEF TypeOK, EvaluationInv
  <2>4. Position' /\ Evidence'
    BY <1>3, <2>1 DEF Position, Evidence, EvaluationInv, Cleared, input, Freshness
  <2> QED BY <2>1, <2>3, <2>4 DEF EvaluationInv
<1> QED BY <1>1, <1>2, <1>3 DEF Begin

----------------------------------------------------------------------------
\* A step that goes on with the record it is at.
LEMMA SameRecord ==
  ASSUME UNCHANGED <<task, todo>>
  PROVE  /\ record' = record /\ records' = records /\ input' = input
         /\ Freshness' = Freshness
         /\ \A name : VersionFor(name)' = VersionFor(name)
         /\ \A a : AppliesTo(a)' = AppliesTo(a)
BY DEF record, records, input, Freshness, VersionFor, AppliesTo, MatchingImports

\* A step that leaves task and report alone.
LEMMA SameReport ==
  ASSUME Evidence, UNCHANGED <<task, report>>, loop \notin {"evaluate", "done"}
  PROVE  Evidence'
BY DEF Evidence, Cleared, input, Freshness

\* A step to the next entry.
LEMMA NextEntryKeeps ==
  ASSUME EvaluationInv, UNCHANGED <<task, todo, findings, report, rangeVars>>,
         NEW u \in BOOLEAN, NextEntry(u), UNCHANGED rangeFlags,
         loop \in {"affected", "ranges"}, entry.affected \in DOMAIN record.affected
  PROVE  EvaluationInv'
<1>1. TaskOK' /\ RangeTypeOK' /\ RangeInv'
  BY Outside
<1>2. /\ record' = record /\ records' = records /\ loop' = "affected" /\ unknown' = u
      /\ entry' = [affected |-> entry.affected + 1, range |-> 1]
      /\ entry.affected \in Nat \ {0}
  BY SameRecord DEF NextEntry, EvaluationInv, TypeOK
<1>3. TypeOK'
  BY <1>1, <1>2 DEF EvaluationInv, TypeOK
<1>4. todo # <<>> /\ record.reviewed
  BY DEF EvaluationInv, Position
<1>5. entry'.affected <= Len(record.affected) + 1
  BY <1>2, <1>4, Here DEF IsList
<1>6. Position'
  BY <1>2, <1>4, <1>5 DEF Position
<1>7. Evidence'
  BY SameReport DEF EvaluationInv
<1> QED BY <1>1, <1>3, <1>6, <1>7 DEF EvaluationInv

\* A step that ends the record.
LEMMA FoundKeeps ==
  ASSUME EvaluationInv, UNCHANGED <<task, report, rangeFlags, rangeVars>>,
         NEW s \in Status, Found(s), todo # <<>>,
         unknown' \in BOOLEAN, entry' \in [affected : Nat \ {0}, range : Nat \ {0}],
         loop \in {"records", "affected", "ranges"}
  PROVE  EvaluationInv'
<1>1. TaskOK' /\ RangeTypeOK' /\ RangeInv' /\ records' = records
  BY Outside DEF records
<1>2. /\ loop' = "records" /\ todo' = Tail(todo)
      /\ findings' = Append(findings, [id |-> Head(todo), status |-> s])
  BY DEF Found
<1>3. Tail(todo) \in Seq(DOMAIN records)
      /\ [id |-> Head(todo), status |-> s] \in [id : DOMAIN records, status : Status]
  BY Here
<1>4. findings' \in Seq([id : DOMAIN records, status : Status])
  <2>1. findings \in Seq([id : DOMAIN records, status : Status])
    BY DEF EvaluationInv, TypeOK
  <2> HIDE DEF records
  <2> QED BY <1>2, <1>3, <2>1, Appended
<1>5. TypeOK'
  BY <1>1, <1>2, <1>3, <1>4 DEF EvaluationInv, TypeOK
<1>6. Position'
  BY <1>2 DEF Position
<1>7. Evidence'
  BY SameReport DEF EvaluationInv
<1> QED BY <1>1, <1>5, <1>6, <1>7 DEF EvaluationInv

LEMMA OpenRecordInv == ASSUME EvaluationInv, OpenRecord PROVE EvaluationInv'
<1>1. entry' \in [affected : Nat \ {0}, range : Nat \ {0}] /\ unknown' \in BOOLEAN
  BY FirstEntry DEF OpenRecord
<1>2. CASE ~record.reviewed
  BY <1>1, <1>2, FoundKeeps DEF OpenRecord, Status
<1>3. CASE record.reviewed
  <2>1. TaskOK' /\ RangeTypeOK' /\ RangeInv' /\ record' = record /\ records' = records
    BY <1>3, Outside, SameRecord DEF OpenRecord
  <2>2. TypeOK'
    BY <1>1, <1>3, <2>1 DEF OpenRecord, EvaluationInv, TypeOK
  <2>3. Len(record.affected) \in Nat
    BY Here DEF OpenRecord, IsList
  <2>4. Position'
    BY <1>3, <2>1, <2>3 DEF OpenRecord, Position
  <2>5. Evidence'
    BY <1>3, SameReport DEF OpenRecord, EvaluationInv
  <2> QED BY <2>1, <2>2, <2>4, <2>5 DEF EvaluationInv
<1> QED BY <1>2, <1>3

LEMMA SkipEntryInv == ASSUME EvaluationInv, SkipEntry PROVE EvaluationInv'
<1>1. unknown \in BOOLEAN
  BY DEF EvaluationInv, TypeOK
<1> QED BY <1>1, NextEntryKeeps DEF SkipEntry, InEntries

LEMMA UndecidedInv == ASSUME EvaluationInv, Undecided PROVE EvaluationInv'
BY NextEntryKeeps DEF Undecided, InEntries

LEMMA EnterRangesInv == ASSUME EvaluationInv, EnterRanges PROVE EvaluationInv'
<1>1. /\ TaskOK' /\ RangeTypeOK' /\ RangeInv' /\ record' = record /\ records' = records
      /\ \A name : VersionFor(name)' = VersionFor(name)
      /\ \A a : AppliesTo(a)' = AppliesTo(a)
  BY Outside, SameRecord DEF EnterRanges
<1>2. TypeOK'
  BY <1>1 DEF EnterRanges, EvaluationInv, TypeOK, NoFlags
<1>3. affectedEntry' = affectedEntry /\ ranges' = ranges /\ Applies' = Applies
  BY <1>1 DEF affectedEntry, ranges, Applies, EnterRanges
<1>4. entry'.range <= Len(ranges) + 1
  <2>1. entry.range = 1
    BY DEF EnterRanges, EvaluationInv, Position, InEntries
  <2> QED BY <2>1, Here DEF EnterRanges, InEntries, EvaluationInv, Position, IsList
<1>5. Position'
  BY <1>1, <1>3, <1>4 DEF EnterRanges, InEntries, EvaluationInv, Position
<1>6. Evidence'
  BY SameReport DEF EnterRanges, InEntries, EvaluationInv
<1> QED BY <1>1, <1>2, <1>5, <1>6 DEF EvaluationInv

\* A step among the ranges of the entry it is at.
LEMMA SameEntry ==
  ASSUME UNCHANGED <<task, todo>>, entry'.affected = entry.affected
  PROVE  /\ record' = record /\ records' = records
         /\ affectedEntry' = affectedEntry /\ ranges' = ranges /\ Applies' = Applies
         /\ \A name : VersionFor(name)' = VersionFor(name)
BY SameRecord DEF affectedEntry, ranges, Applies

LEMMA RangeStep ==
  ASSUME EvaluationInv, UNCHANGED <<task, todo, unknown, findings, report>>,
         TaskOK', RangeTypeOK', RangeInv',
         loop \in {"ranges", "events"}, loop' = "ranges", entry.range \in DOMAIN ranges,
         entry' = [entry EXCEPT !.range = @ + 1],
         rangeFlags' \in [affected : BOOLEAN, unknown : BOOLEAN]
  PROVE  EvaluationInv'
<1>0. entry \in [affected : Nat \ {0}, range : Nat \ {0}]
  BY DEF EvaluationInv, TypeOK
<1>1. /\ entry'.affected = entry.affected /\ entry'.range = entry.range + 1
      /\ entry' \in [affected : Nat \ {0}, range : Nat \ {0}]
  BY <1>0
<1>2. /\ record' = record /\ records' = records
      /\ affectedEntry' = affectedEntry /\ ranges' = ranges /\ Applies' = Applies
      /\ \A name : VersionFor(name)' = VersionFor(name)
  BY <1>1, SameEntry
<1>3. TypeOK'
  BY <1>1, <1>2 DEF EvaluationInv, TypeOK
<1>4. /\ todo # <<>> /\ record.reviewed /\ entry.affected <= Len(record.affected) + 1
      /\ entry.affected \in DOMAIN record.affected /\ Applies
      /\ VersionFor(affectedEntry.name) # Invalid /\ ranges # <<>>
  BY DEF EvaluationInv, Position
<1>5. entry'.range <= Len(ranges) + 1
  BY <1>1, <1>4, Here DEF IsList
<1>6. Position'
  BY <1>1, <1>2, <1>4, <1>5 DEF Position
<1>7. Evidence'
  BY SameReport DEF EvaluationInv
<1> QED BY <1>3, <1>6, <1>7 DEF EvaluationInv

LEMMA UnsupportedInv == ASSUME EvaluationInv, Unsupported PROVE EvaluationInv'
<1>1. TaskOK' /\ RangeTypeOK' /\ RangeInv'
  BY Outside DEF Unsupported
<1>2. rangeFlags' \in [affected : BOOLEAN, unknown : BOOLEAN]
  BY DEF Unsupported, EvaluationInv, TypeOK
<1> QED BY <1>1, <1>2, RangeStep DEF Unsupported, InRanges

LEMMA LeaveRangeInv == ASSUME EvaluationInv, LeaveRange PROVE EvaluationInv'
<1>1. TaskOK' /\ RangeTypeOK' /\ RangeInv'
  BY Outside DEF LeaveRange
<1>2. rangeFlags' \in [affected : BOOLEAN, unknown : BOOLEAN]
  BY DEF LeaveRange, EvaluationInv, TypeOK
<1>3. entry.range \in DOMAIN ranges
  BY DEF LeaveRange, EvaluationInv, Position
<1> QED BY <1>1, <1>2, <1>3, RangeStep DEF LeaveRange

LEMMA EnterRangeInv == ASSUME EvaluationInv, EnterRange PROVE EvaluationInv'
<1>1. /\ loop = "ranges" /\ entry.range \in DOMAIN ranges /\ todo # <<>>
      /\ entry.affected \in DOMAIN record.affected /\ Applies
      /\ VersionFor(affectedEntry.name) \notin {Invalid, None} /\ ranges # <<>>
      /\ ranges[entry.range].semver /\ ranges[entry.range].events # <<>>
      /\ record.reviewed /\ entry.affected <= Len(record.affected) + 1
      /\ entry.range <= Len(ranges) + 1
  BY DEF EnterRange, InRanges, EvaluationInv, Position, Applies, AppliesTo
<1>2. ranges[entry.range].events \in Seq(Event) \ {<<>>}
  BY <1>1, Here
<1>3. VersionFor(affectedEntry.name) \in Version
  BY <1>1, VersionForType DEF EvaluationInv
<1>4. RangeInv'
  BY <1>2, <1>3, CallInv DEF EnterRange, EvaluationInv
<1>5. /\ UNCHANGED <<task, todo, entry, unknown, rangeFlags, findings, report>>
      /\ loop' = "events" /\ status' = "evaluating"
      /\ events' = ranges[entry.range].events
      /\ candidate' = VersionFor(affectedEntry.name)
  BY DEF EnterRange, Call
<1>6. /\ record' = record /\ records' = records
      /\ affectedEntry' = affectedEntry /\ ranges' = ranges /\ Applies' = Applies
      /\ \A name : VersionFor(name)' = VersionFor(name)
  BY <1>5, SameEntry
<1>7. TaskOK' /\ TypeOK'
  BY <1>4, <1>5, <1>6 DEF EvaluationInv, TaskOK, TypeOK, RangeInv
<1>8. Position'
  BY <1>1, <1>5, <1>6 DEF Position
<1>9. Evidence'
  BY <1>1, <1>5, SameReport DEF EvaluationInv
<1> QED BY <1>4, <1>7, <1>8, <1>9 DEF EvaluationInv

LEMMA ScanRangeInv == ASSUME EvaluationInv, ScanRange PROVE EvaluationInv'
<1>1. /\ UNCHANGED <<task, loop, todo, entry, unknown, rangeFlags, findings, report>>
      /\ loop = "events" /\ RangeInv'
  BY ScanInv DEF ScanRange, EvaluationInv
<1>2. UNCHANGED <<events, candidate>> /\ status' # "idle"
  <2>1. status # "idle" /\ Scan
    BY DEF ScanRange, EvaluationInv, Position
  <2> QED BY <2>1 DEF Scan, Introduce, End, Reject, Conclude
<1>3. /\ record' = record /\ records' = records
      /\ affectedEntry' = affectedEntry /\ ranges' = ranges /\ Applies' = Applies
      /\ \A name : VersionFor(name)' = VersionFor(name)
  BY <1>1, SameEntry
<1>4. TaskOK' /\ TypeOK'
  BY <1>1, <1>3 DEF EvaluationInv, TaskOK, TypeOK, RangeInv
<1>5. Position'
  BY <1>1, <1>2, <1>3 DEF EvaluationInv, Position
<1>6. Evidence'
  BY <1>1, SameReport DEF EvaluationInv
<1> QED BY <1>1, <1>4, <1>5, <1>6 DEF EvaluationInv

LEMMA LeaveRangesInv == ASSUME EvaluationInv, LeaveRanges PROVE EvaluationInv'
<1>1. /\ loop = "ranges" /\ todo # <<>> /\ entry.affected \in DOMAIN record.affected
      /\ unknown \in BOOLEAN /\ entry \in [affected : Nat \ {0}, range : Nat \ {0}]
  BY DEF LeaveRanges, EvaluationInv, Position, TypeOK
<1>2. CASE NextEntry(TRUE) /\ UNCHANGED <<todo, findings>>
  BY <1>1, <1>2, NextEntryKeeps DEF LeaveRanges
<1>3. CASE NextEntry(unknown) /\ UNCHANGED <<todo, findings>>
  BY <1>1, <1>3, NextEntryKeeps DEF LeaveRanges
<1>4. CASE Found("affected") /\ UNCHANGED <<entry, unknown>>
  BY <1>1, <1>4, FoundKeeps DEF LeaveRanges, Status
<1> QED BY <1>2, <1>3, <1>4 DEF LeaveRanges

LEMMA CloseRecordInv == ASSUME EvaluationInv, CloseRecord PROVE EvaluationInv'
<1>1. /\ loop = "affected" /\ todo # <<>>
      /\ unknown \in BOOLEAN /\ entry \in [affected : Nat \ {0}, range : Nat \ {0}]
  BY DEF CloseRecord, EvaluationInv, Position, TypeOK
<1>2. (IF unknown THEN "unknown" ELSE "not-affected") \in Status
  BY DEF Status
<1> QED BY <1>1, <1>2, FoundKeeps DEF CloseRecord

LEMMA FindingType ==
  ASSUME TypeOK
  PROVE  \A i \in DOMAIN findings : /\ findings[i].id \in DOMAIN records
                                    /\ findings[i].status \in Status
<1> DEFINE S == [id : DOMAIN records, status : Status]
<1>1. findings \in Seq(S)
  BY DEF TypeOK
<1> HIDE DEF S
<1>2. \A i \in DOMAIN findings : findings[i] \in S
  BY <1>1
<1> QED BY <1>2 DEF S

LEMMA FindingIsPair ==
  ASSUME TypeOK, NEW i \in DOMAIN findings
  PROVE  findings[i] = [id |-> findings[i].id, status |-> findings[i].status]
<1> DEFINE S == [id : DOMAIN records, status : Status]
<1>1. findings \in Seq(S)
  BY DEF TypeOK
<1> HIDE DEF S
<1>2. findings[i] \in S
  BY <1>1
<1> QED BY <1>2 DEF S

LEMMA SummarizeInv == ASSUME EvaluationInv, Summarize PROVE EvaluationInv'
<1> DEFINE statuses == {findings[i].status : i \in DOMAIN findings}
<1>1. /\ findings \in Seq([id : DOMAIN records, status : Status]) /\ loop = "records"
      /\ input.complete /\ Freshness = "current"
  BY DEF Summarize, EvaluationInv, TypeOK, Evidence
<1>2. Worst(statuses) \in Status
  BY DEF Worst, Status
<1>3. Worst(statuses) = "not-affected" =>
        \A i \in DOMAIN findings : findings[i].status = "not-affected"
  <2>1. \A i \in DOMAIN findings : findings[i].status \in Status
    BY FindingType DEF EvaluationInv
  <2> QED BY <2>1 DEF Worst, Status
<1> QED BY <1>1, <1>2, <1>3, FreshnessType, ReturnKeeps DEF Summarize

LEMMA StutterKeeps == ASSUME EvaluationInv, UNCHANGED vars PROVE EvaluationInv'
<1>1. UNCHANGED <<task, loop, todo, entry, unknown, rangeFlags, findings, report>>
      /\ TaskOK' /\ RangeTypeOK' /\ RangeInv' /\ UNCHANGED <<events, candidate, status>>
  BY Outside DEF vars, rangeVars
<1>2. /\ record' = record /\ records' = records /\ input' = input /\ Freshness' = Freshness
      /\ affectedEntry' = affectedEntry /\ ranges' = ranges /\ Applies' = Applies
      /\ \A name : VersionFor(name)' = VersionFor(name)
  BY <1>1, SameRecord, SameEntry
<1>3. TypeOK'
  BY <1>1, <1>2 DEF EvaluationInv, TypeOK
<1>4. Position'
  BY <1>1, <1>2 DEF EvaluationInv, Position
<1>5. Evidence'
  BY <1>1, <1>2 DEF EvaluationInv, Evidence, Cleared
<1> QED BY <1>1, <1>3, <1>4, <1>5 DEF EvaluationInv

\* EvaluationInv is inductive.
THEOREM EvaluationInvariance == Spec => []EvaluationInv
<1>1. EvaluationInv /\ [Next]_vars => EvaluationInv'
  BY LoadFailsInv, BeginInv, OpenRecordInv, SkipEntryInv, UndecidedInv, EnterRangesInv,
     UnsupportedInv, EnterRangeInv, ScanRangeInv, LeaveRangeInv, LeaveRangesInv,
     CloseRecordInv, SummarizeInv, StutterKeeps DEF Next
<1> QED BY EvaluationInit, <1>1, PTL DEF Spec

\* The variables of Evaluate have the values their declarations name.
THEOREM TypeCorrect == Spec => []TypeOK
  BY EvaluationInvariance, PTL DEF EvaluationInv

\* Every range that Evaluate comes to is decided by what its events mean.
THEOREM RangesDecided == Spec => []RangeMatchesReference
  BY EvaluationInvariance, PTL DEF EvaluationInv, RangeInv

\* Nor does Evaluate clear what the algorithm of the OSV schema would report.
THEOREM NothingIsMissed == Spec => []NeverMissesOsv
<1>1. EvaluationInv => NeverMissesOsv
  BY RangeNeverMisses DEF EvaluationInv
<1> QED BY EvaluationInvariance, <1>1, PTL

----------------------------------------------------------------------------
\* What the loops have found out, in terms of what the record says: the findings
\* are those of the first candidates, the flags sum up what has been passed.
InOrder ==
  loop \notin {"evaluate", "done"} =>
    \E list \in Orders(Candidates) :
      /\ Len(findings) + Len(todo) = Cardinality(Candidates)
      /\ \A i \in DOMAIN findings : findings[i].id = list[i]
      /\ \A i \in DOMAIN todo : todo[i] = list[Len(findings) + i]

RecordsSoFar ==
  \A i \in DOMAIN findings : findings[i].status = RecordMeaning(records[findings[i].id])

EntriesSoFar ==
  loop \in {"affected", "ranges", "events"} =>
    /\ \A k \in 1 .. (entry.affected - 1) :
         AppliesTo(record.affected[k]) => EntryMeaning(record.affected[k]) # "affected"
    /\ unknown <=> \E k \in 1 .. (entry.affected - 1) :
                     AppliesTo(record.affected[k]) /\ EntryMeaning(record.affected[k]) = "unknown"

RangesSoFar ==
  loop \in {"ranges", "events"} =>
    LET outcome(k) == RangeMeaning(ranges[k], VersionFor(affectedEntry.name))
    IN  /\ rangeFlags.affected <=> \E k \in 1 .. (entry.range - 1) : outcome(k) = "affected"
        /\ rangeFlags.unknown <=> \E k \in 1 .. (entry.range - 1) : outcome(k) = "unknown"

MeaningInv ==
  /\ loop = "evaluate" => findings = <<>>
  /\ InOrder
  /\ NarrowTask => RecordsSoFar /\ EntriesSoFar /\ RangesSoFar
  /\ FindingsMatchRecords

\* The records that a report tells of.
Reported == Concerned \cup OnlyIndexed

\* What a record says depends on the call alone.
LEMMA SameMeaning ==
  ASSUME UNCHANGED task
  PROVE  /\ \A a : EntryMeaning(a)' = EntryMeaning(a)
         /\ \A r : RecordMeaning(r)' = RecordMeaning(r)
         /\ NarrowTask' <=> NarrowTask
         /\ Candidates' = Candidates /\ Reported' = Reported /\ Concerned' = Concerned
<1>1. /\ input' = input /\ records' = records
      /\ \A name : VersionFor(name)' = VersionFor(name)
  BY DEF input, records, VersionFor
<1>2. \A a : AppliesTo(a)' = AppliesTo(a)
  BY <1>1 DEF AppliesTo, MatchingImports
<1>3. \A a : EntryMeaning(a)' = EntryMeaning(a)
  BY <1>1 DEF EntryMeaning
<1>4. \A r : RecordMeaning(r)' = RecordMeaning(r)
  BY <1>2, <1>3 DEF RecordMeaning
<1>5. NarrowTask' <=> NarrowTask
  BY <1>1 DEF NarrowTask
<1>6. Candidates' = Candidates /\ Reported' = Reported /\ Concerned' = Concerned
  BY <1>1 DEF Candidates, Concerned, OnlyIndexed, Reported, CouldApply, Index
<1> QED BY <1>3, <1>4, <1>5, <1>6

LEMMA SameFindings ==
  ASSUME FindingsMatchRecords, UNCHANGED <<task, report>>
  PROVE  FindingsMatchRecords'
<1>1. /\ input' = input /\ records' = records
      /\ \A r : RecordMeaning(r)' = RecordMeaning(r)
      /\ NarrowTask' <=> NarrowTask /\ Reported' = Reported
  BY SameMeaning DEF input, records
<1> QED BY <1>1 DEF FindingsMatchRecords, Evaluated, RightFindings, Reported

\* The scan finds the records that concern the project; the index may find others.
LEMMA CandidatesAreReported ==
  ASSUME TaskOK
  PROVE  Candidates = Reported
<1> DEFINE paths == DOMAIN input.modules
                      \cup IF input.toolchain = None THEN {} ELSE Distribution
<1>1. normalizeToolchainVersion(input.toolchain) \in Version \cup {Invalid}
  BY TaskFacts, NormalizedType
<1>2. normalizeToolchainVersion(None) = Invalid
  BY DEF normalizeToolchainVersion
<1>3. ASSUME NEW name \in Distribution, VersionFor(name) # None
      PROVE  name \in paths
  <2>1. VersionFor(name) # None <=> normalizeToolchainVersion(input.toolchain) # Invalid
    BY <1>1, <1>3, SemverConstants DEF VersionFor
  <2> QED BY <1>2, <1>3, <2>1
<1>4. ASSUME NEW name, name \notin Distribution
      PROVE  name \in paths <=> VersionFor(name) # None
  <2>1. VersionFor(name) = IF name \in DOMAIN input.modules THEN input.modules[name] ELSE None
    BY <1>4 DEF VersionFor
  <2>2. name \in DOMAIN input.modules => input.modules[name] # None
    BY TaskFacts, SemverConstants
  <2> QED BY <1>4, <2>1, <2>2
<1>5. \A name : VersionFor(name) # None => name \in paths
  BY <1>3, <1>4
<1>6. \A name : name \in paths /\ VersionFor(name) = None =>
        name \in Distribution /\ (input.toolchain # None \/ name \in DOMAIN input.modules)
  BY <1>4
<1>7. \A name \in Distribution : input.toolchain # None \/ name \in DOMAIN input.modules
                                => name \in paths
  OBVIOUS
<1> HIDE DEF paths
<1>8. CASE task.indexed
  <2>1. Candidates = UNION {Index(path) : path \in paths}
    BY <1>8 DEF Candidates, paths
  <2>2. \A id : id \in Candidates <=>
          id \in DOMAIN records /\ \E name \in Names(records[id]) : name \in paths
    BY <2>1 DEF Index
  <2>3. \A id \in DOMAIN records : id \in Reported <=> \E name \in Names(records[id]) : name \in paths
    BY <1>5, <1>6, <1>7, <1>8 DEF Reported, Concerned, OnlyIndexed, CouldApply
  <2>4. \A id : id \in Reported => id \in DOMAIN records
    BY DEF Reported, Concerned, OnlyIndexed
  <2> QED BY <2>2, <2>3, <2>4
<1>9. CASE ~task.indexed
  BY <1>9 DEF Candidates, Reported, Concerned, OnlyIndexed
<1> QED BY <1>8, <1>9

\* A list in order has every id.
LEMMA OrderHasAll ==
  ASSUME NEW ids, IsFiniteSet(ids), ids \subseteq Nat, NEW list \in Orders(ids)
  PROVE  \A id \in ids : \E i \in 1 .. Cardinality(ids) : list[i] = id
<1> DEFINE n == Cardinality(ids)
<1>1. n \in Nat /\ list \in [1 .. n -> ids]
      /\ \A i, k \in 1 .. n : i < k => list[i] < list[k]
  BY FS_CardinalityType DEF Orders
<1>2. \A i, k \in 1 .. n : list[i] = list[k] => i = k
  <2> SUFFICES ASSUME NEW i \in 1 .. n, NEW k \in 1 .. n, list[i] = list[k], i # k
               PROVE  FALSE
    OBVIOUS
  <2>0. list[i] \in Nat /\ list[k] \in Nat
    BY <1>1
  <2>1. ~(list[i] < list[k]) /\ ~(list[k] < list[i])
    BY <2>0
  <2>2. i < k \/ k < i
    BY <1>1
  <2> QED BY <1>1, <2>1, <2>2
<1>3. list \in Injection(1 .. n, ids)
  BY <1>1, <1>2 DEF Injection, IsInjective
<1>4. IsFiniteSet(1 .. n) /\ Cardinality(1 .. n) = n
  BY <1>1, FS_Interval
<1>5. list \in Surjection(1 .. n, ids)
  BY <1>3, <1>4, FS_Injection
<1> QED BY <1>5 DEF Surjection

\* The findings follow the list, each with the status its record means.
Follows(found, list, meaning) ==
  /\ DOMAIN found = 1 .. Cardinality(Candidates)
  /\ \A i \in DOMAIN found : found[i] = [id |-> list[i], status |-> meaning[list[i]]]

\* They tell the meaning of every record that is reported, and of no other, in order.
TellsAll(found, meaning) ==
  /\ ToSet(found) = {[id |-> id, status |-> meaning[id]] : id \in Reported}
  /\ \A i, k \in DOMAIN found : i < k => found[i].id < found[k].id

\* A report with a finding for each of the candidates in order is right.
LEMMA InOrderIsRight ==
  ASSUME TaskOK, NEW list \in Orders(Candidates),
         NEW found, NEW meaning, Follows(found, list, meaning)
  PROVE  TellsAll(found, meaning)
<1>0. /\ DOMAIN found = 1 .. Cardinality(Candidates)
      /\ \A i \in DOMAIN found : found[i] = [id |-> list[i], status |-> meaning[list[i]]]
  BY DEF Follows
<1>1. IsFiniteSet(Candidates) /\ Candidates \subseteq Nat
  BY TaskFacts, CandidatesAreRecords, FS_Subset
<1>2. list \in [1 .. Cardinality(Candidates) -> Candidates]
      /\ \A i, k \in 1 .. Cardinality(Candidates) : i < k => list[i] < list[k]
  BY DEF Orders
<1>3. \A id \in Candidates : \E i \in 1 .. Cardinality(Candidates) : list[i] = id
  <2> DEFINE ids == Candidates
  <2>1. IsFiniteSet(ids) /\ ids \subseteq Nat /\ list \in Orders(ids)
    BY <1>1
  <2> HIDE DEF ids
  <2>2. \A id \in ids : \E i \in 1 .. Cardinality(ids) : list[i] = id
    BY <2>1, OrderHasAll
  <2> QED BY <2>2 DEF ids
<1>4. ToSet(found) \subseteq {[id |-> id, status |-> meaning[id]] : id \in Reported}
  BY <1>0, <1>2, CandidatesAreReported DEF ToSet
<1>5. {[id |-> id, status |-> meaning[id]] : id \in Reported} \subseteq ToSet(found)
  <2> SUFFICES ASSUME NEW id \in Reported
               PROVE  [id |-> id, status |-> meaning[id]] \in ToSet(found)
    OBVIOUS
  <2>1. PICK i \in 1 .. Cardinality(Candidates) : list[i] = id
    BY <1>3, CandidatesAreReported
  <2> QED BY <1>0, <2>1 DEF ToSet
<1>6. \A i \in DOMAIN found : found[i].id = list[i]
  BY <1>0
<1>7. \A i, k \in DOMAIN found : i < k => found[i].id < found[k].id
  BY <1>0, <1>2, <1>6
<1>8. ToSet(found) = {[id |-> id, status |-> meaning[id]] : id \in Reported}
  BY <1>4, <1>5, Zenon
<1> QED BY <1>7, <1>8 DEF TellsAll

----------------------------------------------------------------------------
\* What is known of the records stays known.
LEMMA SameRecordsSoFar ==
  ASSUME RecordsSoFar, UNCHANGED <<task, findings>>
  PROVE  RecordsSoFar'
<1>1. records' = records /\ \A r : RecordMeaning(r)' = RecordMeaning(r)
  BY SameMeaning DEF records
<1> QED BY <1>1 DEF RecordsSoFar

LEMMA SameOrder ==
  ASSUME InOrder, UNCHANGED <<task, todo, findings>>, loop \notin {"evaluate", "done"}
  PROVE  InOrder'
<1>1. Orders(Candidates)' = Orders(Candidates) /\ Candidates' = Candidates
  BY SameMeaning DEF Orders
<1> QED BY <1>1 DEF InOrder

LEMMA SameEntriesSoFar ==
  ASSUME EntriesSoFar, UNCHANGED <<task, todo, unknown>>, entry'.affected = entry.affected,
         loop \in {"affected", "ranges", "events"}
  PROVE  EntriesSoFar'
<1>1. record' = record /\ (\A a : AppliesTo(a)' = AppliesTo(a))
      /\ \A a : EntryMeaning(a)' = EntryMeaning(a)
  BY SameRecord, SameMeaning
<1> QED BY <1>1 DEF EntriesSoFar

\* To the next entry, once it is known what this one says.
LEMMA NextEntryMeaning ==
  ASSUME EvaluationInv, MeaningInv, UNCHANGED <<task, todo, findings, report>>,
         NEW u \in BOOLEAN, NextEntry(u),
         loop \in {"affected", "ranges"}, entry.affected \in DOMAIN record.affected,
         NarrowTask /\ AppliesTo(affectedEntry) =>
           /\ EntryMeaning(affectedEntry) # "affected"
           /\ u <=> unknown \/ EntryMeaning(affectedEntry) = "unknown",
         NarrowTask /\ ~AppliesTo(affectedEntry) => (u <=> unknown)
  PROVE  MeaningInv'
<1>1. /\ loop' = "affected" /\ unknown' = u /\ entry'.affected = entry.affected + 1
      /\ entry.affected \in Nat \ {0} /\ unknown \in BOOLEAN
  BY DEF NextEntry, EvaluationInv, TypeOK
<1>2. /\ record' = record /\ (\A a : AppliesTo(a)' = AppliesTo(a))
      /\ (\A a : EntryMeaning(a)' = EntryMeaning(a)) /\ (NarrowTask' <=> NarrowTask)
  BY SameRecord, SameMeaning
<1>3. FindingsMatchRecords' /\ InOrder' /\ (NarrowTask => RecordsSoFar')
  BY SameFindings, SameOrder, SameRecordsSoFar DEF MeaningInv
<1>4. ASSUME NarrowTask PROVE EntriesSoFar'
  <2>1. /\ \A k \in 1 .. (entry.affected - 1) :
             AppliesTo(record.affected[k]) => EntryMeaning(record.affected[k]) # "affected"
        /\ unknown <=> \E k \in 1 .. (entry.affected - 1) :
                         /\ AppliesTo(record.affected[k])
                         /\ EntryMeaning(record.affected[k]) = "unknown"
    BY <1>4 DEF MeaningInv, EntriesSoFar
  <2>2. /\ entry'.affected - 1 = entry.affected
        /\ \A k \in 1 .. entry.affected : k \in 1 .. (entry.affected - 1) \/ k = entry.affected
        /\ 1 .. (entry.affected - 1) \subseteq 1 .. entry.affected
        /\ entry.affected \in 1 .. entry.affected
    BY <1>1
  <2>3. /\ \A k \in 1 .. entry.affected :
             AppliesTo(record.affected[k]) => EntryMeaning(record.affected[k]) # "affected"
        /\ u <=> \E k \in 1 .. entry.affected :
                   /\ AppliesTo(record.affected[k])
                   /\ EntryMeaning(record.affected[k]) = "unknown"
    <3>1. CASE AppliesTo(affectedEntry)
      BY <1>4, <2>1, <2>2, <3>1 DEF affectedEntry
    <3>2. CASE ~AppliesTo(affectedEntry)
      BY <1>4, <2>1, <2>2, <3>2 DEF affectedEntry
    <3> QED BY <3>1, <3>2
  <2> QED BY <1>1, <1>2, <2>2, <2>3 DEF EntriesSoFar
<1>5. RangesSoFar' /\ (loop' = "evaluate" => findings' = <<>>)
  BY <1>1 DEF RangesSoFar
<1> QED BY <1>2, <1>3, <1>4, <1>5 DEF MeaningInv

\* To the next record, once it is known what this one says.
LEMMA FoundMeaning ==
  ASSUME EvaluationInv, MeaningInv, UNCHANGED <<task, report>>,
         NEW s \in Status, Found(s), todo # <<>>,
         loop \in {"records", "affected", "ranges"},
         NarrowTask => s = RecordMeaning(record)
  PROVE  MeaningInv'
<1>1. /\ loop' = "records" /\ todo' = Tail(todo)
      /\ findings' = Append(findings, [id |-> Head(todo), status |-> s])
  BY DEF Found
<1>2. /\ records' = records /\ (\A r : RecordMeaning(r)' = RecordMeaning(r))
      /\ (NarrowTask' <=> NarrowTask)
      /\ Candidates' = Candidates /\ Orders(Candidates)' = Orders(Candidates)
  BY SameMeaning DEF records, Orders
<1>3. /\ Len(todo) \in Nat /\ Len(todo) > 0 /\ DOMAIN todo = 1 .. Len(todo)
      /\ Len(todo') = Len(todo) - 1 /\ DOMAIN todo' = 1 .. (Len(todo) - 1)
      /\ \A i \in 1 .. (Len(todo) - 1) : todo'[i] = todo[i + 1]
      /\ Head(todo) = todo[1]
  <2>1. todo \in Seq(DOMAIN records)
    BY DEF EvaluationInv, TypeOK
  <2> HIDE DEF records
  <2> QED BY <1>1, <2>1
<1>4. /\ Len(findings) \in Nat /\ DOMAIN findings = 1 .. Len(findings)
      /\ Len(findings') = Len(findings) + 1 /\ DOMAIN findings' = 1 .. (Len(findings) + 1)
      /\ \A i \in 1 .. Len(findings) : findings'[i] = findings[i]
      /\ findings'[Len(findings) + 1] = [id |-> Head(todo), status |-> s]
  <2> DEFINE S == [id : DOMAIN records, status : Status]
             f == [id |-> Head(todo), status |-> s]
  <2>1. findings \in Seq(S) /\ f \in S
    BY Here DEF EvaluationInv, TypeOK
  <2>2. findings' = Append(findings, f)
    BY <1>1
  <2> HIDE DEF S, f
  <2>3. /\ Append(findings, f) \in Seq(S) /\ Len(Append(findings, f)) = Len(findings) + 1
        /\ Append(findings, f)[Len(findings) + 1] = f
        /\ \A i \in 1 .. Len(findings) : Append(findings, f)[i] = findings[i]
    BY <2>1, Appended
  <2>4. DOMAIN Append(findings, f) = 1 .. (Len(findings) + 1) /\ Len(findings) \in Nat
        /\ DOMAIN findings = 1 .. Len(findings)
    BY <2>1, <2>3
  <2> QED BY <2>2, <2>3, <2>4 DEF f
<1>5. InOrder'
  <2>1. PICK list \in Orders(Candidates) :
          /\ Len(findings) + Len(todo) = Cardinality(Candidates)
          /\ \A i \in DOMAIN findings : findings[i].id = list[i]
          /\ \A i \in DOMAIN todo : todo[i] = list[Len(findings) + i]
    BY DEF MeaningInv, InOrder
  <2>2. Len(findings') + Len(todo') = Cardinality(Candidates)
    BY <1>3, <1>4, <2>1
  <2>3. findings'[Len(findings) + 1].id = list[Len(findings) + 1]
    <3>1. todo[1] = list[Len(findings) + 1]
      BY <1>3, <2>1
    <3> QED BY <1>3, <1>4, <3>1
  <2>4. \A i \in DOMAIN findings' : findings'[i].id = list[i]
    BY <1>4, <2>1, <2>3
  <2>5. \A i \in DOMAIN todo' : todo'[i] = list[Len(findings') + i]
    <3> SUFFICES ASSUME NEW i \in 1 .. (Len(todo) - 1)
                 PROVE  todo'[i] = list[Len(findings') + i]
      BY <1>3
    <3>1. i + 1 \in DOMAIN todo /\ Len(findings) + (i + 1) = Len(findings') + i
      BY <1>3, <1>4
    <3> QED BY <1>3, <2>1, <3>1
  <2> QED BY <1>2, <2>1, <2>2, <2>4, <2>5 DEF InOrder
<1>6. ASSUME NarrowTask PROVE RecordsSoFar'
  <2>1. findings'[Len(findings) + 1].status = RecordMeaning(records[Head(todo)])
        /\ findings'[Len(findings) + 1].id = Head(todo)
    BY <1>4, <1>6 DEF record
  <2>2. \A i \in 1 .. Len(findings) :
          findings'[i].status = RecordMeaning(records[findings'[i].id])
    BY <1>4, <1>6 DEF MeaningInv, RecordsSoFar
  <2>3. \A i \in DOMAIN findings' :
          findings'[i].status = RecordMeaning(records[findings'[i].id])
    BY <1>4, <2>1, <2>2
  <2> QED BY <1>2, <2>3 DEF RecordsSoFar
<1>7. EntriesSoFar' /\ RangesSoFar' /\ loop' # "evaluate"
  BY <1>1 DEF EntriesSoFar, RangesSoFar
<1>8. FindingsMatchRecords'
  BY SameFindings DEF MeaningInv
<1> QED BY <1>2, <1>5, <1>6, <1>7, <1>8 DEF MeaningInv

----------------------------------------------------------------------------
\* What the loops conclude is what the record says.

\* Meaning has three values, and so has everything made of it.
LEMMA MeaningType == \A r, version : RangeMeaning(r, version) \in Status
BY DEF RangeMeaning, Meaning, Status

\* An entry whose ranges have all been passed.
LEMMA EntryIs ==
  ASSUME EvaluationInv, RangesSoFar, loop = "ranges", entry.range > Len(ranges)
  PROVE  EntryMeaning(affectedEntry) =
           IF rangeFlags.unknown THEN "unknown"
           ELSE IF rangeFlags.affected THEN "affected" ELSE "not-affected"
<1> DEFINE version == VersionFor(affectedEntry.name)
           outcomes == {RangeMeaning(r, version) : r \in ToSet(ranges)}
<1>1. /\ version # Invalid /\ ranges # <<>> /\ todo # <<>>
      /\ entry.affected \in DOMAIN record.affected
      /\ entry.range <= Len(ranges) + 1
      /\ entry.range \in Nat
  BY DEF EvaluationInv, Position, TypeOK
<1>2. DOMAIN ranges = 1 .. Len(ranges) /\ Len(ranges) \in Nat
  BY <1>1, Here DEF IsList
<1>3. 1 .. (entry.range - 1) = DOMAIN ranges
  BY <1>1, <1>2
<1>4. \A s : s \in outcomes <=> \E k \in DOMAIN ranges : RangeMeaning(ranges[k], version) = s
  BY DEF ToSet
<1>5. /\ rangeFlags.affected <=> "affected" \in outcomes
      /\ rangeFlags.unknown <=> "unknown" \in outcomes
  BY <1>3, <1>4 DEF RangesSoFar
<1>6. EntryMeaning(affectedEntry) =
        IF "unknown" \in outcomes THEN "unknown" ELSE Worst(outcomes)
  BY <1>1 DEF EntryMeaning, ranges
<1> QED BY <1>5, <1>6 DEF Worst

\* A record whose entries have all been passed.
LEMMA RecordIs ==
  ASSUME EvaluationInv, EntriesSoFar, loop = "affected",
         entry.affected > Len(record.affected)
  PROVE  RecordMeaning(record) = IF unknown THEN "unknown" ELSE "not-affected"
<1> DEFINE says == {EntryMeaning(a) : a \in {b \in ToSet(record.affected) : AppliesTo(b)}}
<1>1. /\ todo # <<>> /\ record.reviewed /\ entry.affected \in Nat
      /\ entry.affected <= Len(record.affected) + 1
  BY DEF EvaluationInv, Position, TypeOK
<1>2. DOMAIN record.affected = 1 .. Len(record.affected) /\ Len(record.affected) \in Nat
  BY <1>1, Here DEF IsList
<1>3. 1 .. (entry.affected - 1) = DOMAIN record.affected
  BY <1>1, <1>2
<1>4. \A s : s \in says <=> \E k \in DOMAIN record.affected :
                              AppliesTo(record.affected[k]) /\ EntryMeaning(record.affected[k]) = s
  BY DEF ToSet
<1>5. "affected" \notin says /\ (unknown <=> "unknown" \in says)
  BY <1>3, <1>4 DEF EntriesSoFar
<1>6. RecordMeaning(record) = Worst(says)
  BY <1>1 DEF RecordMeaning
<1> QED BY <1>5, <1>6 DEF Worst

\* A record with an entry that applies and is affected.
LEMMA RecordIsAffected ==
  ASSUME NEW k \in DOMAIN record.affected, record.reviewed, AppliesTo(record.affected[k]),
         EntryMeaning(record.affected[k]) = "affected"
  PROVE  RecordMeaning(record) = "affected"
<1>1. record.affected[k] \in {b \in ToSet(record.affected) : AppliesTo(b)}
  BY DEF ToSet
<1> QED BY <1>1 DEF RecordMeaning, Worst

\* The range the loop is in is narrow if the call is.
LEMMA NarrowHere ==
  ASSUME EvaluationInv, NarrowTask, loop = "events"
  PROVE  AllNarrow(events, candidate)
<1>1. /\ todo # <<>> /\ entry.affected \in DOMAIN record.affected
      /\ VersionFor(affectedEntry.name) \notin {Invalid, None} /\ TaskOK
      /\ entry.range \in DOMAIN ranges /\ events = ranges[entry.range].events
      /\ candidate = VersionFor(affectedEntry.name)
  BY DEF EvaluationInv, Position, Applies, AppliesTo
<1>2. VersionFor(affectedEntry.name) \in Version /\ Head(todo) \in DOMAIN records
  BY <1>1, VersionForType, Here
<1>3. /\ affectedEntry \in ToSet(records[Head(todo)].affected)
      /\ ranges[entry.range] \in ToSet(affectedEntry.ranges)
  BY <1>1 DEF ToSet, affectedEntry, record, ranges
<1> QED BY <1>1, <1>2, <1>3 DEF NarrowTask

----------------------------------------------------------------------------
LEMMA MeaningInit == ASSUME Init PROVE MeaningInv
<1>1. loop = "evaluate" /\ findings = <<>> /\ report = None
  BY DEF Init
<1> QED BY <1>1 DEF MeaningInv, InOrder, RecordsSoFar, EntriesSoFar, RangesSoFar,
                    FindingsMatchRecords, Evaluated

\* A step that returns the right findings, or none.
LEMMA ReturnMeaning ==
  ASSUME MeaningInv, UNCHANGED <<task, findings>>, loop' = "done", FindingsMatchRecords'
  PROVE  MeaningInv'
<1>1. NarrowTask' <=> NarrowTask
  BY SameMeaning
<1>2. NarrowTask => RecordsSoFar'
  BY SameRecordsSoFar DEF MeaningInv
<1> QED BY <1>1, <1>2 DEF MeaningInv, InOrder, EntriesSoFar, RangesSoFar

LEMMA LoadFailsMeaning == ASSUME EvaluationInv, MeaningInv, LoadFails PROVE MeaningInv'
<1>1. FindingsMatchRecords'
  BY DEF LoadFails, Return, FindingsMatchRecords, Evaluated
<1> QED BY <1>1, ReturnMeaning DEF LoadFails, Return

LEMMA BeginMeaning == ASSUME EvaluationInv, MeaningInv, Begin PROVE MeaningInv'
<1>0. UNCHANGED <<task, entry, unknown, rangeFlags, findings>> /\ loop = "evaluate"
      /\ findings = <<>>
  BY DEF Begin, MeaningInv
<1>1. CASE ~input.complete /\ Return("unknown", "unknown", <<>>, "vulndb-input-invalid")
  <2>1. FindingsMatchRecords'
    BY <1>1 DEF Return, FindingsMatchRecords, Evaluated
  <2> QED BY <1>0, <1>1, <2>1, ReturnMeaning DEF Return
<1>2. ASSUME NEW list \in Orders(Candidates), Freshness # "current",
             Return("unknown", Freshness,
                    [i \in DOMAIN list |-> [id |-> list[i], status |-> "unknown"]],
                    IF Freshness = "stale" THEN "vulndb-stale"
                    ELSE "vulndb-freshness-unknown")
      PROVE  MeaningInv'
  <2> DEFINE found == [i \in DOMAIN list |-> [id |-> list[i], status |-> "unknown"]]
  <2>1. report'.findings = found /\ report'.freshness # "current" /\ loop' = "done"
    BY <1>2 DEF Return
  <2>2. /\ ToSet(found) = {[id |-> id, status |-> "unknown"] : id \in Reported}
        /\ \A i, k \in DOMAIN found : i < k => found[i].id < found[k].id
    <3> DEFINE meaning == [id \in Candidates |-> "unknown"]
    <3>1. DOMAIN found = 1 .. Cardinality(Candidates)
          /\ \A i \in DOMAIN found : list[i] \in Candidates
      BY DEF Orders
    <3>2. Follows(found, list, meaning)
      BY <3>1 DEF Follows
    <3>3. TaskOK
      BY DEF EvaluationInv
    <3> HIDE DEF found, meaning
    <3>4. TellsAll(found, meaning)
      BY <3>2, <3>3, InOrderIsRight
    <3>5. \A id \in Reported : meaning[id] = "unknown"
      BY <3>3, CandidatesAreReported DEF meaning
    <3> QED BY <3>4, <3>5 DEF TellsAll
  <2> HIDE DEF found
  <2>3. FindingsMatchRecords'
    <3>1. Reported' = Reported
      BY <1>0, SameMeaning
    <3> QED BY <2>1, <2>2, <3>1 DEF FindingsMatchRecords, RightFindings, Reported
  <2> QED BY <1>0, <2>1, <2>3, ReturnMeaning
<1>3. CASE todo' \in Orders(Candidates) /\ loop' = "records" /\ UNCHANGED report
  <2>1. /\ Candidates' = Candidates /\ Orders(Candidates)' = Orders(Candidates)
        /\ (NarrowTask' <=> NarrowTask)
    BY <1>0, SameMeaning DEF Orders
  <2>2. IsFiniteSet(Candidates)
    BY TaskFacts, CandidatesAreRecords, FS_Subset DEF EvaluationInv
  <2>3. Len(findings') = 0 /\ Len(todo') = Cardinality(Candidates)
        /\ Cardinality(Candidates) \in Nat /\ findings' = <<>>
    BY <1>0, <1>3, <2>2, OrdersType
  <2>4. \A i \in DOMAIN todo' : 0 + i = i
    <3>1. DOMAIN todo' = 1 .. Cardinality(Candidates)
      BY <1>3 DEF Orders
    <3> QED BY <2>3, <3>1
  <2>5. InOrder'
    BY <1>3, <2>1, <2>3, <2>4 DEF InOrder
  <2>6. FindingsMatchRecords' /\ RecordsSoFar'
    BY <1>0, <1>3, <2>3, SameFindings DEF MeaningInv, RecordsSoFar
  <2> QED BY <1>3, <2>5, <2>6 DEF MeaningInv, EntriesSoFar, RangesSoFar
<1> QED BY <1>1, <1>2, <1>3 DEF Begin

LEMMA OpenRecordMeaning == ASSUME EvaluationInv, MeaningInv, OpenRecord PROVE MeaningInv'
<1>1. CASE ~record.reviewed
  <2>1. RecordMeaning(record) = "unknown"
    BY <1>1 DEF RecordMeaning
  <2> QED BY <1>1, <2>1, FoundMeaning DEF OpenRecord, Status
<1>2. CASE record.reviewed
  <2>1. /\ UNCHANGED <<task, todo, findings, report>> /\ loop = "records"
        /\ loop' = "affected" /\ entry'.affected = 1 /\ unknown' = FALSE
    BY <1>2 DEF OpenRecord
  <2>2. InOrder' /\ FindingsMatchRecords' /\ (NarrowTask' <=> NarrowTask)
        /\ (NarrowTask => RecordsSoFar')
    BY <2>1, SameOrder, SameFindings, SameMeaning, SameRecordsSoFar DEF MeaningInv
  <2>3. EntriesSoFar' /\ RangesSoFar'
    BY <2>1 DEF EntriesSoFar, RangesSoFar
  <2> QED BY <2>1, <2>2, <2>3 DEF MeaningInv
<1> QED BY <1>1, <1>2

LEMMA SkipEntryMeaning == ASSUME EvaluationInv, MeaningInv, SkipEntry PROVE MeaningInv'
<1>1. unknown \in BOOLEAN
  BY DEF EvaluationInv, TypeOK
<1> QED BY <1>1, NextEntryMeaning DEF SkipEntry, InEntries, Applies

LEMMA UndecidedMeaning == ASSUME EvaluationInv, MeaningInv, Undecided PROVE MeaningInv'
<1>1. EntryMeaning(affectedEntry) = "unknown"
  BY DEF Undecided, EntryMeaning, ranges
<1> QED BY <1>1, NextEntryMeaning DEF Undecided, InEntries, Applies

\* A step within an entry.
LEMMA WithinEntry ==
  ASSUME MeaningInv, UNCHANGED <<task, todo, unknown, findings, report>>,
         entry'.affected = entry.affected, loop \in {"affected", "ranges", "events"},
         loop' # "evaluate", NarrowTask => RangesSoFar'
  PROVE  MeaningInv'
<1>1. InOrder' /\ FindingsMatchRecords' /\ (NarrowTask' <=> NarrowTask)
  BY SameOrder, SameFindings, SameMeaning DEF MeaningInv
<1>2. NarrowTask => RecordsSoFar' /\ EntriesSoFar'
  BY SameRecordsSoFar, SameEntriesSoFar DEF MeaningInv
<1> QED BY <1>1, <1>2 DEF MeaningInv

LEMMA EnterRangesMeaning == ASSUME EvaluationInv, MeaningInv, EnterRanges PROVE MeaningInv'
<1>1. entry.range = 1
  BY DEF EnterRanges, InEntries, EvaluationInv, Position
<1>2. RangesSoFar'
  BY <1>1 DEF EnterRanges, RangesSoFar, NoFlags
<1> QED BY <1>2, WithinEntry DEF EnterRanges, InEntries

\* One more range is passed.
LEMMA OneMoreRange ==
  ASSUME EvaluationInv, MeaningInv, UNCHANGED <<task, todo, unknown, findings, report>>,
         loop \in {"ranges", "events"}, loop' = "ranges", entry.range \in DOMAIN ranges,
         entry' = [entry EXCEPT !.range = @ + 1],
         NEW outcome,
         NarrowTask => outcome = RangeMeaning(ranges[entry.range], VersionFor(affectedEntry.name)),
         rangeFlags' = [affected |-> rangeFlags.affected \/ outcome = "affected",
                        unknown |-> rangeFlags.unknown \/ outcome = "unknown"]
  PROVE  MeaningInv'
<1>1. /\ entry.range \in Nat \ {0} /\ entry'.range = entry.range + 1
      /\ entry'.affected = entry.affected
  BY DEF EvaluationInv, TypeOK
<1>2. /\ affectedEntry' = affectedEntry /\ ranges' = ranges
      /\ \A name : VersionFor(name)' = VersionFor(name)
  BY <1>1, SameEntry
<1>3. ASSUME NarrowTask PROVE RangesSoFar'
  <2> DEFINE says(k) == RangeMeaning(ranges[k], VersionFor(affectedEntry.name))
  <2>1. /\ rangeFlags.affected <=> \E k \in 1 .. (entry.range - 1) : says(k) = "affected"
        /\ rangeFlags.unknown <=> \E k \in 1 .. (entry.range - 1) : says(k) = "unknown"
    BY <1>3 DEF MeaningInv, RangesSoFar
  <2>2. /\ entry'.range - 1 = entry.range
        /\ \A k \in 1 .. entry.range : k \in 1 .. (entry.range - 1) \/ k = entry.range
        /\ 1 .. (entry.range - 1) \subseteq 1 .. entry.range
        /\ entry.range \in 1 .. entry.range
    BY <1>1
  <2>3. outcome = says(entry.range)
    BY <1>3
  <2> HIDE DEF says
  <2>4. /\ rangeFlags'.affected <=> \E k \in 1 .. entry.range : says(k) = "affected"
        /\ rangeFlags'.unknown <=> \E k \in 1 .. entry.range : says(k) = "unknown"
    BY <2>1, <2>2, <2>3
  <2> QED BY <1>2, <2>2, <2>4 DEF RangesSoFar, says
<1> QED BY <1>1, <1>3, WithinEntry

LEMMA UnsupportedMeaning == ASSUME EvaluationInv, MeaningInv, Unsupported PROVE MeaningInv'
<1>1. RangeMeaning(ranges[entry.range], VersionFor(affectedEntry.name)) = "unknown"
  BY DEF Unsupported, RangeMeaning, Meaning
<1>2. rangeFlags' = [affected |-> rangeFlags.affected \/ "unknown" = "affected",
                     unknown |-> rangeFlags.unknown \/ "unknown" = "unknown"]
  <2>1. rangeFlags \in [affected : BOOLEAN, unknown : BOOLEAN]
    BY DEF EvaluationInv, TypeOK
  <2> QED BY <2>1 DEF Unsupported
<1> QED BY <1>1, <1>2, OneMoreRange DEF Unsupported, InRanges

LEMMA EnterRangeMeaning == ASSUME EvaluationInv, MeaningInv, EnterRange PROVE MeaningInv'
<1>1. /\ UNCHANGED <<task, todo, entry, unknown, rangeFlags, findings, report>>
      /\ loop = "ranges" /\ loop' = "events"
  BY DEF EnterRange, InRanges
<1>2. /\ affectedEntry' = affectedEntry /\ ranges' = ranges
      /\ \A name : VersionFor(name)' = VersionFor(name)
  BY <1>1, SameEntry
<1>3. NarrowTask => RangesSoFar'
  BY <1>1, <1>2 DEF MeaningInv, RangesSoFar
<1> QED BY <1>1, <1>3, WithinEntry

LEMMA ScanRangeMeaning == ASSUME EvaluationInv, MeaningInv, ScanRange PROVE MeaningInv'
<1>1. /\ UNCHANGED <<task, todo, entry, unknown, rangeFlags, findings, report, loop>>
      /\ loop = "events"
  BY DEF ScanRange
<1>2. /\ affectedEntry' = affectedEntry /\ ranges' = ranges
      /\ \A name : VersionFor(name)' = VersionFor(name)
  BY <1>1, SameEntry
<1>3. NarrowTask => RangesSoFar'
  BY <1>1, <1>2 DEF MeaningInv, RangesSoFar
<1> QED BY <1>1, <1>3, WithinEntry

LEMMA LeaveRangeMeaning == ASSUME EvaluationInv, MeaningInv, LeaveRange PROVE MeaningInv'
<1>1. /\ status \notin {"idle", "evaluating"} /\ loop = "events"
      /\ entry.range \in DOMAIN ranges /\ ranges[entry.range].semver
      /\ events = ranges[entry.range].events /\ candidate = VersionFor(affectedEntry.name)
  BY DEF LeaveRange, EvaluationInv, Position
<1>2. NarrowTask => status = RangeMeaning(ranges[entry.range], VersionFor(affectedEntry.name))
  <2>1. NarrowTask => status = Meaning(events, candidate)
    BY <1>1, NarrowHere DEF EvaluationInv, RangeInv, RangeMatchesReference
  <2> QED BY <1>1, <2>1 DEF RangeMeaning
<1> QED BY <1>1, <1>2, OneMoreRange DEF LeaveRange

LEMMA LeaveRangesMeaning == ASSUME EvaluationInv, MeaningInv, LeaveRanges PROVE MeaningInv'
<1>1. /\ loop = "ranges" /\ todo # <<>> /\ entry.affected \in DOMAIN record.affected
      /\ unknown \in BOOLEAN /\ rangeFlags \in [affected : BOOLEAN, unknown : BOOLEAN]
      /\ record.reviewed /\ AppliesTo(affectedEntry) /\ entry.range > Len(ranges)
  BY DEF LeaveRanges, EvaluationInv, Position, TypeOK, Applies
<1>2. NarrowTask => EntryMeaning(affectedEntry) =
                      IF rangeFlags.unknown THEN "unknown"
                      ELSE IF rangeFlags.affected THEN "affected" ELSE "not-affected"
  BY <1>1, EntryIs DEF MeaningInv
<1>3. CASE rangeFlags.unknown /\ NextEntry(TRUE) /\ UNCHANGED <<todo, findings>>
  BY <1>1, <1>2, <1>3, NextEntryMeaning DEF LeaveRanges
<1>4. CASE /\ ~rangeFlags.unknown /\ rangeFlags.affected
           /\ Found("affected") /\ UNCHANGED <<entry, unknown>>
  <2>1. NarrowTask => RecordMeaning(record) = "affected"
    BY <1>1, <1>2, <1>4, RecordIsAffected DEF affectedEntry
  <2> QED BY <1>1, <1>4, <2>1, FoundMeaning DEF LeaveRanges, Status
<1>5. CASE /\ ~rangeFlags.unknown /\ ~rangeFlags.affected
           /\ NextEntry(unknown) /\ UNCHANGED <<todo, findings>>
  BY <1>1, <1>2, <1>5, NextEntryMeaning DEF LeaveRanges
<1> QED BY <1>3, <1>4, <1>5 DEF LeaveRanges

LEMMA CloseRecordMeaning == ASSUME EvaluationInv, MeaningInv, CloseRecord PROVE MeaningInv'
<1>1. /\ loop = "affected" /\ todo # <<>> /\ entry.affected > Len(record.affected)
  BY DEF CloseRecord, EvaluationInv, Position
<1>2. NarrowTask => RecordMeaning(record) = IF unknown THEN "unknown" ELSE "not-affected"
  BY <1>1, RecordIs DEF MeaningInv
<1>3. (IF unknown THEN "unknown" ELSE "not-affected") \in Status
  BY DEF Status
<1> QED BY <1>1, <1>2, <1>3, FoundMeaning DEF CloseRecord

LEMMA SummarizeMeaning == ASSUME EvaluationInv, MeaningInv, Summarize PROVE MeaningInv'
<1>1. /\ UNCHANGED <<task, findings>> /\ loop' = "done" /\ loop = "records" /\ todo = <<>>
      /\ report'.findings = findings /\ report'.freshness = Freshness
      /\ Freshness = "current" /\ TaskOK
  BY DEF Summarize, Return, EvaluationInv, Evidence
<1>2. FindingsMatchRecords'
  <2> SUFFICES ASSUME NarrowTask PROVE RightFindings'
    BY <1>1, SameMeaning DEF FindingsMatchRecords
  <2>1. Candidates = Reported
    BY <1>1, CandidatesAreReported
  <2>2. PICK list \in Orders(Candidates) :
          /\ Len(findings) + Len(todo) = Cardinality(Candidates)
          /\ \A i \in DOMAIN findings : findings[i].id = list[i]
    BY <1>1 DEF MeaningInv, InOrder
  <2> DEFINE meaning == [id \in Candidates |-> RecordMeaning(records[id])]
  <2>3. DOMAIN findings = 1 .. Cardinality(Candidates)
    <3>1. DOMAIN findings = 1 .. Len(findings) /\ Len(findings) \in Nat
      BY DEF EvaluationInv, TypeOK
    <3> QED BY <1>1, <2>2, <3>1
  <2>4. \A i \in DOMAIN findings :
          findings[i] = [id |-> list[i], status |-> meaning[list[i]]]
    <3> SUFFICES ASSUME NEW i \in DOMAIN findings
                 PROVE  findings[i] = [id |-> list[i], status |-> meaning[list[i]]]
      OBVIOUS
    <3>1. list[i] \in Candidates
      BY <2>3 DEF Orders
    <3>2. findings[i].id = list[i] /\ findings[i].status = RecordMeaning(records[list[i]])
      BY <2>2 DEF MeaningInv, RecordsSoFar
    <3>3. findings[i] = [id |-> findings[i].id, status |-> findings[i].status]
      BY FindingIsPair DEF EvaluationInv
    <3> QED BY <3>1, <3>2, <3>3
  <2> HIDE DEF meaning
  <2>5. /\ ToSet(findings) = {[id |-> id, status |-> meaning[id]] : id \in Reported}
        /\ \A i, k \in DOMAIN findings : i < k => findings[i].id < findings[k].id
    <3>1. Follows(findings, list, meaning)
      BY <2>3, <2>4 DEF Follows
    <3>2. TellsAll(findings, meaning)
      BY <1>1, <3>1, InOrderIsRight
    <3> QED BY <3>2 DEF TellsAll
  <2>6. {[id |-> id, status |-> meaning[id]] : id \in Reported}
          = {[id |-> id, status |-> RecordMeaning(records[id])] : id \in Reported}
    BY <2>1 DEF meaning
  <2>7. /\ Reported' = Reported /\ records' = records
        /\ \A r : RecordMeaning(r)' = RecordMeaning(r)
    BY <1>1, SameMeaning DEF records
  <2> QED BY <1>1, <2>5, <2>6, <2>7 DEF RightFindings, Reported
<1> QED BY <1>1, <1>2, ReturnMeaning

LEMMA StutterMeaning == ASSUME MeaningInv, UNCHANGED vars PROVE MeaningInv'
<1>1. /\ UNCHANGED <<task, loop, todo, entry, unknown, rangeFlags, findings, report>>
      /\ (NarrowTask' <=> NarrowTask)
  BY SameMeaning DEF vars
<1>2. InOrder' /\ FindingsMatchRecords' /\ (NarrowTask => RecordsSoFar')
  <2>1. loop \in {"evaluate", "done"} => InOrder'
    BY <1>1 DEF InOrder
  <2> QED BY <1>1, <2>1, SameOrder, SameFindings, SameRecordsSoFar DEF MeaningInv
<1>3. NarrowTask => EntriesSoFar' /\ RangesSoFar'
  <2>1. /\ affectedEntry' = affectedEntry /\ ranges' = ranges
        /\ \A name : VersionFor(name)' = VersionFor(name)
    BY <1>1, SameEntry
  <2>2. loop \notin {"affected", "ranges", "events"} => EntriesSoFar'
    BY <1>1 DEF EntriesSoFar
  <2>3. NarrowTask => RangesSoFar'
    BY <1>1, <2>1 DEF MeaningInv, RangesSoFar
  <2> QED BY <1>1, <2>2, <2>3, SameEntriesSoFar DEF MeaningInv
<1> QED BY <1>1, <1>2, <1>3 DEF MeaningInv

LEMMA MeaningInvariance == Spec => []MeaningInv
<1>1. EvaluationInv /\ MeaningInv /\ [Next]_vars => MeaningInv'
  BY LoadFailsMeaning, BeginMeaning, OpenRecordMeaning, SkipEntryMeaning, UndecidedMeaning,
     EnterRangesMeaning, UnsupportedMeaning, EnterRangeMeaning, ScanRangeMeaning,
     LeaveRangeMeaning, LeaveRangesMeaning, CloseRecordMeaning, SummarizeMeaning,
     StutterMeaning DEF Next
<1>2. Init => MeaningInv
  BY MeaningInit
<1> QED BY EvaluationInvariance, <1>1, <1>2, PTL DEF Spec

\* A report has one finding for every record about a package of the project, and
\* each is what the record says, for every release, input and clock.  The index adds
\* those of OnlyIndexed, a scan none ("both paths ... produce identical reports",
\* evaluation.go:56).  Numbers beyond 64 bits are left out, see NarrowTask.
THEOREM FindingsCorrect == Spec => []FindingsMatchRecords
<1>1. MeaningInv => FindingsMatchRecords
  BY DEF MeaningInv
<1> QED BY MeaningInvariance, <1>1, PTL

\* No release, input or clock makes Evaluate clear a project of which a record that
\* concerns it does not, or without complete and current evidence (evaluation.go:58).
THEOREM EvidenceComesFirst == Spec => []ClearsOnlyOnEvidence
<1>1. EvaluationInv /\ MeaningInv => ClearsOnlyOnEvidence
  <2> SUFFICES ASSUME EvaluationInv, MeaningInv, report # None, report.status = "not-affected"
               PROVE  /\ input.complete /\ task.now \in Int
                      /\ task.now \in
                           task.release.fetchedAt .. (task.release.fetchedAt + task.release.maxAge)
                      /\ NarrowTask =>
                           \A id \in Concerned : RecordMeaning(records[id]) = "not-affected"
    BY DEF ClearsOnlyOnEvidence
  <2>1. Cleared
    BY DEF EvaluationInv, Evidence
  <2>2. ASSUME NarrowTask, NEW id \in Concerned
        PROVE  RecordMeaning(records[id]) = "not-affected"
    <3>1. RightFindings
      BY <2>1, <2>2, CodesAssumption DEF Cleared, MeaningInv, FindingsMatchRecords, Evaluated
    <3>2. [id |-> id, status |-> RecordMeaning(records[id])] \in ToSet(report.findings)
      BY <2>1, <2>2, <3>1 DEF Cleared, RightFindings
    <3>3. PICK i \in DOMAIN report.findings :
            report.findings[i] = [id |-> id, status |-> RecordMeaning(records[id])]
      BY <3>2 DEF ToSet
    <3> QED BY <2>1, <3>3 DEF Cleared
  <2> QED BY <2>1, <2>2 DEF Cleared
<1> QED BY EvaluationInvariance, MeaningInvariance, <1>1, PTL

\* The toolchain of any call, among those of all calls, is placed by its name as the
\* Go project released it (normalizeToolchainVersion and compareSemver).
THEOREM ToolchainsOrdered == Spec => []ToolchainsInOrder
<1>1. ToolchainsInOrder
  BY ReleasesInOrder DEF ToolchainsInOrder
<1> QED BY <1>1, PTL
=============================================================================
