-------------------------- MODULE VulnReleaseProofs --------------------------
(***************************************************************************)
(* BuildArchive finds the length of its archive within four attempts, and    *)
(* what loads under the release's key is the release, for records, limits    *)
(* and alterations of any number and size.                                   *)
(***************************************************************************)
EXTENDS VulnRelease, FiniteSetTheorems, WellFoundedInduction, TLAPS

----------------------------------------------------------------------------
\* Sums of sizes.

\* A sum of sizes counts something: the units of every size, told apart.  The fold
\* that FiniteSetsExt sums with is recursive, so that it counts is proved once, in
\* FoldIsCount; all else about sums is about finite sets.
Sized(f, S) == IsFiniteSet(S) /\ \A x \in S : f[x] \in Nat
Units(f, S) == UNION {{x} \X (1 .. f[x]) : x \in S}
Count(f, S) == Cardinality(Units(f, S))

\* One thing has as many units as its size.
LEMMA UnitsOfOne ==
  ASSUME NEW x, NEW n \in Nat
  PROVE  IsFiniteSet({x} \X (1 .. n)) /\ Cardinality({x} \X (1 .. n)) = n
<1> DEFINE one == {x}
           I == 1 .. n
<1>1. IsFiniteSet(I) /\ Cardinality(I) = n
  <2>1. Cardinality(I) = IF 1 > n THEN 0 ELSE n - 1 + 1
    BY FS_Interval
  <2> QED BY <2>1, FS_Interval
<1>2. IsFiniteSet(one) /\ Cardinality(one) = 1
  BY FS_Singleton
<1> HIDE DEF one, I
<1>3. IsFiniteSet(one \X I) /\ Cardinality(one \X I) = Cardinality(one) * Cardinality(I)
  BY <1>1, <1>2, FS_Product
<1>4. 1 * n = n
  OBVIOUS
<1> QED BY <1>1, <1>2, <1>3, <1>4 DEF one, I

\* Finitely many things have finitely many units.
LEMMA UnitsFinite ==
  ASSUME NEW S, IsFiniteSet(S), NEW f, \A x \in S : f[x] \in Nat
  PROVE  IsFiniteSet(Units(f, S))
<1> DEFINE T == {{x} \X (1 .. f[x]) : x \in S}
           of == [x \in S |-> {x} \X (1 .. f[x])]
<1>1. of \in Surjection(S, T)
  BY DEF Surjection
<1>2. IsFiniteSet(T)
  <2> HIDE DEF T, of
  <2> QED BY <1>1, FS_Surjection
<1>3. ASSUME NEW x \in S PROVE IsFiniteSet({x} \X (1 .. f[x]))
  <2>1. f[x] \in Nat
    OBVIOUS
  <2> QED BY <2>1, UnitsOfOne
<1> QED BY <1>2, <1>3, FS_UNION DEF Units

\* What every step of the fold adds.
LEMMA CountStep ==
  ASSUME NEW S, IsFiniteSet(S), NEW f, \A x \in S : f[x] \in Nat, NEW x \in S
  PROVE  Count(f, S) = f[x] + Count(f, S \ {x}) /\ Count(f, S) \in Nat
<1> DEFINE A == Units(f, S \ {x})
           B == {x} \X (1 .. f[x])
<1>1. IsFiniteSet(A) /\ IsFiniteSet(S \ {x}) /\ IsFiniteSet(Units(f, S))
  BY FS_RemoveElement, UnitsFinite
<1>2. IsFiniteSet(B) /\ Cardinality(B) = f[x]
  BY f[x] \in Nat, UnitsOfOne
<1>3. Units(f, S) = A \cup B /\ A \cap B = {}
  BY DEF Units
<1>4. Cardinality(A) \in Nat /\ Cardinality(Units(f, S)) \in Nat
  BY <1>1, FS_CardinalityType
<1> HIDE DEF A, B
<1>5. Cardinality(A \cup B) = Cardinality(A) + Cardinality(B) - Cardinality(A \cap B)
  BY <1>1, <1>2, FS_Union
<1>6. Cardinality(A \cap B) = 0
  BY <1>3, FS_EmptySet
<1> QED BY <1>2, <1>3, <1>4, <1>5, <1>6 DEF Count, A

\* The equation of the fold has one solution, since two would differ on a smallest set.
Folded(f, S, h) ==
  [s \in SUBSET S |-> IF s = {} THEN 0
                      ELSE LET x == CHOOSE x \in s : TRUE IN f[x] + h[s \ {x}]]
Counts(f, S) == [s \in SUBSET S |-> Count(f, s)]

LEMMA FoldIsCount ==
  ASSUME NEW f, NEW S, Sized(f, S)
  PROVE  \A h : h = Folded(f, S, h) <=> h = Counts(f, S)
<1>1. Count(f, {}) = 0
  BY FS_EmptySet DEF Count, Units
<1>2. ASSUME NEW s \in SUBSET S, s # {}, NEW x, x = CHOOSE y \in s : TRUE
      PROVE  /\ x \in s /\ s \ {x} \in SUBSET S
             /\ Counts(f, S)[s] = f[x] + Counts(f, S)[s \ {x}]
  <2>1. x \in s /\ IsFiniteSet(s)
    BY <1>2, FS_Subset DEF Sized
  <2>2. Count(f, s) = f[x] + Count(f, s \ {x})
    BY <2>1, CountStep DEF Sized
  <2> QED BY <2>1, <2>2 DEF Counts
<1>3. Counts(f, S) = Folded(f, S, Counts(f, S))
  BY <1>1, <1>2 DEF Counts, Folded
<1>4. ASSUME NEW h, h = Folded(f, S, h), NEW s \in SUBSET S, h[s] # Counts(f, S)[s] PROVE FALSE
  <2> DEFINE Bad == {t \in SUBSET S : h[t] # Counts(f, S)[t]}
  <2>1. PICK t \in Bad : \A u \in Bad : <<u, t>> \notin StrictSubsetOrdering(S)
    <3>1. Bad \subseteq SUBSET S /\ s \in Bad
      BY <1>4
    <3>2. IsWellFoundedOn(StrictSubsetOrdering(S), SUBSET S)
      BY FS_StrictSubsetOrderingWellFounded, FS_FiniteSubsetsOfFinite DEF Sized
    <3> HIDE DEF Bad
    <3> QED BY <3>1, <3>2, WFMin
  <2>2. t # {}
    BY <2>1, <1>1, <1>4 DEF Counts, Folded
  <2> DEFINE x == CHOOSE y \in t : TRUE
  <2>3. x \in t /\ t \ {x} \in SUBSET S /\ Counts(f, S)[t] = f[x] + Counts(f, S)[t \ {x}]
    BY <2>2, <1>2
  <2>4. h[t] = f[x] + h[t \ {x}]
    BY <2>2, <1>4 DEF Folded
  <2>5. h[t \ {x}] = Counts(f, S)[t \ {x}]
    <3>1. <<t \ {x}, t>> \in StrictSubsetOrdering(S)
      BY <2>1, <2>3 DEF StrictSubsetOrdering
    <3> QED BY <2>1, <2>3, <3>1
  <2> QED BY <2>1, <2>3, <2>4, <2>5
<1>5. ASSUME NEW h, h = Folded(f, S, h) PROVE h = Counts(f, S)
  BY <1>4, <1>5 DEF Folded, Counts
<1> QED BY <1>3, <1>5

LEMMA CountType == ASSUME NEW f, NEW S, Sized(f, S) PROVE Count(f, S) \in Nat
BY UnitsFinite, FS_CardinalityType DEF Sized, Count

LEMMA CountOfNone == ASSUME NEW f PROVE Count(f, {}) = 0
BY FS_EmptySet DEF Count, Units

LEMMA CountOfSame ==
  ASSUME NEW f, NEW g, NEW S, \A x \in S : f[x] = g[x]
  PROVE  Count(f, S) = Count(g, S)
<1>1. Units(f, S) = Units(g, S)
  BY DEF Units
<1> QED BY <1>1 DEF Count

\* The two sums of the loader.
LEMMA CompressedIs ==
  ASSUME NEW files, IsFiniteSet(files), \A f \in files : f.bytes \in Nat
  PROVE  Compressed(files) = Count([f \in files |-> f.bytes], files)
<1> DEFINE size == [f \in files |-> f.bytes]
           Folding(h) == [s \in SUBSET files |-> IF s = {} THEN 0
                         ELSE LET x == CHOOSE x \in s : TRUE IN x.bytes + h[s \ {x}]]
           fold == CHOOSE h : h = Folding(h)
<1>1. Sized(size, files)
  BY DEF Sized
<1>2. \A h : Folded(size, files, h) = Folding(h)
  BY DEF Folded
<1>3. Compressed(files) = fold[files]
  BY Zenon DEF Compressed, MapThenSumSet, MapThenFoldSet
<1> HIDE DEF size, Folding
<1>4. \A h : h = Folding(h) <=> h = Counts(size, files)
  BY <1>1, <1>2, FoldIsCount
<1>5. fold = Counts(size, files)
  BY <1>4
<1> QED BY <1>3, <1>5 DEF Counts, size

LEMMA UncompressedIs ==
  ASSUME NEW files, IsFiniteSet(files), \A f \in files : RawBytes[f.data] \in Nat
  PROVE  Uncompressed(files) = Count([f \in files |-> RawBytes[f.data]], files)
<1> DEFINE size == [f \in files |-> RawBytes[f.data]]
           Folding(h) == [s \in SUBSET files |-> IF s = {} THEN 0
                         ELSE LET x == CHOOSE x \in s : TRUE IN RawBytes[x.data] + h[s \ {x}]]
           fold == CHOOSE h : h = Folding(h)
<1>1. Sized(size, files)
  BY DEF Sized
<1>2. \A h : Folded(size, files, h) = Folding(h)
  BY DEF Folded
<1>3. Uncompressed(files) = fold[files]
  BY Zenon DEF Uncompressed, MapThenSumSet, MapThenFoldSet
<1> HIDE DEF size, Folding
<1>4. \A h : h = Folding(h) <=> h = Counts(size, files)
  BY <1>1, <1>2, FoldIsCount
<1>5. fold = Counts(size, files)
  BY <1>4
<1> QED BY <1>3, <1>5 DEF Counts, size

----------------------------------------------------------------------------
\* Digits.

LEMMA DigitsType ==
  ASSUME NEW n \in Nat
  PROVE  Digits(n) \in 1 .. Cardinality(Powers) /\ Digits(n) \in Nat
<1> DEFINE Up == {p \in Powers : p <= n}
<1>1. Up \in SUBSET Powers /\ IsFiniteSet(Powers) /\ 1 \in Powers
  BY PowersAssumption
<1>2. IsFiniteSet(Up) /\ Cardinality(Up) <= Cardinality(Powers)
  BY <1>1, FS_Subset
<1>3. Cardinality(Up) \in Nat /\ Cardinality(Powers) \in Nat
  BY <1>1, <1>2, FS_CardinalityType
<1>4. Cardinality(Powers) # 0
  BY <1>1, FS_EmptySet
<1>5. n # 0 => Cardinality(Up) # 0
  <2> SUFFICES ASSUME n # 0 PROVE Cardinality(Up) # 0
    OBVIOUS
  <2>1. 1 \in Up
    BY <1>1
  <2> QED BY <2>1, <1>2, FS_EmptySet
<1> QED BY <1>2, <1>3, <1>4, <1>5 DEF Digits

\* A number that does not pass a power has no more digits than it had.
LEMMA SameDigits ==
  ASSUME NEW m \in Nat \ {0}, NEW n \in Nat, m <= n,
         ~ \E p \in Powers : m < p /\ p <= n
  PROVE  Digits(m) = Digits(n)
<1>1. \A p \in Powers : p \in Nat
  BY PowersAssumption
<1>2. \A p \in Powers : p <= m <=> p <= n
  BY <1>1
<1>3. {p \in Powers : p <= m} = {p \in Powers : p <= n}
  BY <1>2
<1> QED BY <1>3 DEF Digits

LEMMA DigitsGrow ==
  ASSUME NEW m \in Nat, NEW n \in Nat, m <= n
  PROVE  Digits(m) <= Digits(n)
<1>1. CASE m = 0
  <2>1. Digits(m) = 1 /\ Digits(n) \in 1 .. Cardinality(Powers)
    BY <1>1, DigitsType DEF Digits
  <2>2. Cardinality(Powers) \in Nat
    BY PowersAssumption, FS_CardinalityType
  <2> QED BY <2>1, <2>2
<1>2. CASE m # 0
  <2>1. {p \in Powers : p <= m} \in SUBSET {p \in Powers : p <= n}
    <3>1. \A p \in Powers : p \in Nat
      BY PowersAssumption
    <3>2. \A p \in Powers : p <= m => p <= n
      BY <3>1
    <3> QED BY <3>2
  <2>2. IsFiniteSet({p \in Powers : p <= n})
    BY PowersAssumption, FS_Subset
  <2> QED BY <2>1, <2>2, <1>2, FS_Subset DEF Digits
<1> QED BY <1>1, <1>2

\* The sizes that BuildArchive measures one after the other, with the base that
\* is the same for all: the third is the fix point.
LEMMA FixPoint ==
  ASSUME NEW base \in Nat, base >= 3 * Cardinality(Powers),
         NEW c \in Nat, NEW u \in Nat,
         NEW s0 \in Nat, s0 = base + Digits(0) + Digits(0) + Digits(0),
         NEW s1 \in Nat, s1 = base + Digits(s0) + Digits(c) + Digits(u),
         NEW s2 \in Nat, s2 = base + Digits(s1) + Digits(c) + Digits(u)
  PROVE  s2 = base + Digits(s2) + Digits(c) + Digits(u)
<1> DEFINE k == Cardinality(Powers)
<1>1. k \in Nat /\ k # 0
  BY PowersAssumption, FS_CardinalityType, FS_EmptySet
<1>2. Digits(0) = 1
  BY DEF Digits
<1>3. /\ Digits(s0) \in 1 .. k /\ Digits(s1) \in 1 .. k /\ Digits(s2) \in 1 .. k
      /\ Digits(c) \in 1 .. k /\ Digits(u) \in 1 .. k
  BY DigitsType
<1> HIDE DEF k
<1>4. s0 <= s1
  BY <1>1, <1>2, <1>3
<1>5. Digits(s0) <= Digits(s1)
  BY <1>4, DigitsGrow
<1>6. s1 <= s2
  BY <1>1, <1>3, <1>5
<1>7. CASE Digits(s0) = Digits(s1)
  <2>1. s2 = s1
    BY <1>7, <1>1, <1>3
  <2> QED BY <2>1
<1>8. CASE Digits(s0) # Digits(s1)
  <2>1. PICK p \in Powers : s0 < p /\ p <= s1
    BY <1>1, <1>2, <1>4, <1>8, SameDigits
  <2>2. p \in Nat /\ base < p
    BY <2>1, <1>2, PowersAssumption
  <2>3. s2 <= 2 * base
    BY <1>1, <1>3 DEF k
  <2>4. ~ \E q \in Powers : s1 < q /\ q <= s2
    <3> SUFFICES ASSUME NEW q \in Powers, s1 < q, q <= s2 PROVE FALSE
      OBVIOUS
    <3>1. q \in Nat
      BY PowersAssumption
    <3>2. p < q
      BY <2>1, <2>2, <3>1
    <3>3. 10 * p <= q
      BY <3>2, PowersAssumption
    <3> QED BY <2>2, <2>3, <3>1, <3>3
  <2>5. s1 # 0
    BY <1>1, <1>3
  <2>6. Digits(s1) = Digits(s2)
    BY <1>6, <2>4, <2>5, SameDigits
  <2> QED BY <2>6
<1> QED BY <1>7, <1>8

----------------------------------------------------------------------------
\* The inductive invariant.

\* The records taken are the first ones of the bulk artifact, one for each id.
RecordsInv ==
  /\ bulk \in Seq(Raw) /\ description \in Descriptions
  /\ IsFiniteSet(records) /\ Cardinality(records) <= Len(bulk)
  /\ records = {bulk[i] : i \in 1 .. Cardinality(records)}
  /\ \A r \in records : Parsed[r] \in Record
  /\ \A r, s \in records : Parsed[r].id = Parsed[s].id => r = s
  /\ measured \in [compressed : Nat, uncompressed : Nat]

\* m has the fields of a manifest.
Fields(m) ==
  m = [content_digest |-> m.content_digest, review_status |-> m.review_status,
       records |-> m.records, archive_bytes |-> m.archive_bytes,
       compressed |-> m.compressed, uncompressed |-> m.uncompressed,
       signature |-> m.signature]

Descriptors == {[id |-> Parsed[r].id, digest |-> r] : r \in records}

\* The manifest is about the records.
ManifestInv ==
  pc \in {"attempt", "verify", "write", "written"} =>
    /\ Fields(manifest)
    /\ manifest.records = Descriptors
    /\ manifest.content_digest = ContentDigest(Descriptors, BuildIndex(records))
    /\ Cardinality(records) = Len(bulk)

\* The length of the archive without the three numbers, and what the attempts
\* measure one after the other.
Base == description + DescriptorBytes * Cardinality(Descriptors) + IndexBytes(BuildIndex(records))
          + measured.compressed + FileBytes * (Cardinality(records) + 2)
Length(n) == Base + Digits(n) + Digits(measured.compressed) + Digits(measured.uncompressed)
First == Base + Digits(0) + Digits(0) + Digits(0)

\* Before each attempt the manifest says what the one before has measured.
AttemptInv ==
  /\ pc \in {"extract", "records"} => attempt = 0
  /\ pc = "attempt" =>
       /\ attempt \in 0 .. 3
       /\ attempt = 0 => /\ manifest.archive_bytes = 0
                         /\ manifest.compressed = 0 /\ manifest.uncompressed = 0
       /\ attempt > 0 => /\ manifest.compressed = measured.compressed
                         /\ manifest.uncompressed = measured.uncompressed
       /\ attempt = 1 => manifest.archive_bytes = First
       /\ attempt = 2 => manifest.archive_bytes = Length(First)
       /\ attempt = 3 => manifest.archive_bytes = Length(Length(First))

\* The archive has its parts, and no signature under the key but the manifest's.
ArchiveInv ==
  /\ pc \in {"verify", "write", "written"} =>
       /\ manifest.signature = [key |-> Key, payload |-> Payload(manifest)]
       /\ archive = [manifest |-> archive.manifest, index |-> archive.index,
                     files |-> archive.files, length |-> archive.length]
       /\ Fields(archive.manifest)
       /\ IsFiniteSet(archive.files)
       /\ \/ archive.manifest.signature = manifest.signature
          \/ archive.manifest.signature.key = OtherKey

IInv ==
  /\ RecordsInv
  /\ ManifestInv
  /\ AttemptInv
  /\ ArchiveInv
  /\ Stabilizes

----------------------------------------------------------------------------
LEMMA BaseType ==
  ASSUME RecordsInv
  PROVE  /\ Base \in Nat /\ Base >= 3 * Cardinality(Powers)
         /\ Cardinality(records) \in Nat /\ description \in Nat
         /\ measured.compressed \in Nat /\ measured.uncompressed \in Nat
         /\ DescriptorBytes * Cardinality(Descriptors) \in Nat
         /\ IndexBytes(BuildIndex(records)) \in Nat
         /\ FileBytes * (Cardinality(records) + 2) \in Nat
<1>1. /\ description \in Nat /\ description >= 3 * Cardinality(Powers)
      /\ measured.compressed \in Nat /\ measured.uncompressed \in Nat
  BY SizeAssumption, DescriptionAssumption DEF RecordsInv
<1>2. Cardinality(records) \in Nat
  BY FS_CardinalityType DEF RecordsInv
<1>3. Cardinality(Descriptors) \in Nat
  <2>1. Descriptors = {[id |-> Parsed[r].id, digest |-> r] : r \in records}
    BY DEF Descriptors
  <2> DEFINE f == [r \in records |-> [id |-> Parsed[r].id, digest |-> r]]
  <2>2. f \in Surjection(records, Descriptors)
    BY <2>1 DEF Surjection
  <2>3. IsFiniteSet(Descriptors)
    BY <2>2, FS_Surjection DEF RecordsInv
  <2> QED BY <2>3, FS_CardinalityType
<1>4. IndexBytes(BuildIndex(records)) \in Nat
  <2>1. DOMAIN BuildIndex(records) \in SUBSET Name
    BY DEF BuildIndex, RecordsInv, Record
  <2>2. IsFiniteSet(DOMAIN BuildIndex(records))
    BY <2>1, RecordAssumption, FS_Subset
  <2>3. Cardinality(DOMAIN BuildIndex(records)) \in Nat
    BY <2>2, FS_CardinalityType
  <2> QED BY <2>3, SizeAssumption DEF IndexBytes
<1>5. Cardinality(Powers) \in Nat
  BY PowersAssumption, FS_CardinalityType
<1> DEFINE D == DescriptorBytes * Cardinality(Descriptors)
           F == FileBytes * (Cardinality(records) + 2)
<1>6. D \in Nat /\ F \in Nat
  BY <1>2, <1>3, SizeAssumption
<1>7. Base = description + D + IndexBytes(BuildIndex(records)) + measured.compressed + F
  BY DEF Base
<1>8. Base \in Nat /\ Base >= 3 * Cardinality(Powers)
  <2> HIDE DEF D, F
  <2> QED BY <1>1, <1>2, <1>4, <1>5, <1>6, <1>7
<1> QED BY <1>1, <1>2, <1>4, <1>6, <1>8

LEMMA LengthType ==
  ASSUME RecordsInv, NEW n \in Nat
  PROVE  Length(n) \in Nat /\ First \in Nat
<1>1. /\ Digits(n) \in Nat /\ Digits(0) \in Nat
      /\ Digits(measured.compressed) \in Nat /\ Digits(measured.uncompressed) \in Nat
  BY DigitsType, BaseType
<1> QED BY <1>1, BaseType DEF Length, First

\* The length of the archive that is written follows from the numbers in it.
LEMMA LengthOfArchive ==
  ASSUME RecordsInv, NEW m, m.records = Descriptors,
         m.archive_bytes \in Nat, m.compressed \in Nat, m.uncompressed \in Nat
  PROVE  ArchiveLength(m) = Base + Digits(m.archive_bytes) + Digits(m.compressed)
                                 + Digits(m.uncompressed)
<1> DEFINE D == DescriptorBytes * Cardinality(Descriptors)
           F == FileBytes * (Cardinality(records) + 2)
           I == IndexBytes(BuildIndex(records))
           N == NumbersOf(m)
<1>1. ArchiveLength(m) = ((description + D + N) + I) + measured.compressed + F
  BY DEF ArchiveLength, ManifestBytes
<1>2. Base = description + D + I + measured.compressed + F
  BY DEF Base
<1>3. /\ D \in Nat /\ F \in Nat /\ I \in Nat /\ description \in Nat
      /\ measured.compressed \in Nat
  BY BaseType
<1>4. /\ Digits(m.archive_bytes) \in Nat /\ Digits(m.compressed) \in Nat
      /\ Digits(m.uncompressed) \in Nat
  BY DigitsType
<1>5. N = Digits(m.archive_bytes) + Digits(m.compressed) + Digits(m.uncompressed)
  BY DEF NumbersOf
<1> HIDE DEF D, F, I, N
<1> QED BY <1>1, <1>2, <1>3, <1>4, <1>5

\* Three numbers of a manifest set at once.
WithNumbers(m, a, b, c) ==
  [m EXCEPT !.archive_bytes = a, !.compressed = b, !.uncompressed = c]

\* The same field by field.
LEMMA ThreeNumbers ==
  ASSUME NEW m, Fields(m), NEW a, NEW b, NEW c
  PROVE  WithNumbers(m, a, b, c) =
           [content_digest |-> m.content_digest, review_status |-> m.review_status,
            records |-> m.records, archive_bytes |-> a, compressed |-> b,
            uncompressed |-> c, signature |-> m.signature]
<1> DEFINE names == {"content_digest", "review_status", "records", "archive_bytes",
                     "compressed", "uncompressed", "signature"}
           value == [n \in names |-> IF n = "archive_bytes" THEN a
                                     ELSE IF n = "compressed" THEN b
                                     ELSE IF n = "uncompressed" THEN c ELSE m[n]]
<1>1. DOMAIN m = names
  BY Zenon DEF Fields
<1>2. m = [n \in DOMAIN m |-> m[n]]
  BY DEF Fields
<1>3. [m EXCEPT !.archive_bytes = a, !.compressed = b, !.uncompressed = c] = value
  BY <1>1, <1>2
<1>4. value = [content_digest |-> m.content_digest, review_status |-> m.review_status,
               records |-> m.records, archive_bytes |-> a, compressed |-> b,
               uncompressed |-> c, signature |-> m.signature]
  OBVIOUS
<1> QED BY <1>3, <1>4 DEF WithNumbers

LEMMA InitInv == Init => IInv
<1> SUFFICES ASSUME Init PROVE IInv
  OBVIOUS
<1>1. bulk \in Seq(Raw) /\ description \in Descriptions
  BY RecordAssumption DEF Init
<1>2. IsFiniteSet(records) /\ Cardinality(records) = 0 /\ records = {}
  BY FS_EmptySet DEF Init
<1>3. RecordsInv
  BY <1>1, <1>2 DEF Init, RecordsInv
<1>4. ManifestInv /\ AttemptInv /\ ArchiveInv /\ Stabilizes
  BY DEF Init, ManifestInv, AttemptInv, ArchiveInv, Stabilizes
<1> QED BY <1>3, <1>4 DEF IInv

\* What follows from the records alone stays as long as they do.
LEMMA SameRecords ==
  ASSUME UNCHANGED <<bulk, description, records, measured>>
  PROVE  /\ RecordsInv => RecordsInv'
         /\ Descriptors' = Descriptors /\ BuildIndex(records)' = BuildIndex(records)
         /\ First' = First /\ \A n : Length(n)' = Length(n)
<1>1. RecordsInv => RecordsInv'
  BY DEF RecordsInv
<1>2. Descriptors' = Descriptors /\ BuildIndex(records)' = BuildIndex(records)
  BY DEF Descriptors, BuildIndex
<1>3. Base' = Base
  BY <1>2 DEF Base, IndexBytes
<1>4. First' = First
  BY <1>3 DEF First, Digits
<1>5. \A n : Length(n)' = Length(n)
  BY <1>3 DEF Length, Digits
<1> QED BY <1>1, <1>2, <1>4, <1>5

LEMMA TakeRecordInv ==
  ASSUME IInv, TakeRecord, UNCHANGED <<bulk, description, altered>>
  PROVE  IInv'
<1> DEFINE raw == bulk[Cardinality(records) + 1]
<1>1. /\ Cardinality(records) \in Nat /\ Len(bulk) \in Nat
      /\ Cardinality(records) < Len(bulk) /\ bulk \in Seq(Raw)
      /\ raw \in Raw
  BY FS_CardinalityType DEF IInv, RecordsInv, TakeRecord
<1>2. RecordsInv'
  <2>1. CASE UNCHANGED <<records, measured>>
    BY <2>1 DEF IInv, RecordsInv
  <2>2. CASE /\ Parsed[raw] # Corrupt
             /\ Parsed[raw].id \notin Ids(records)
             /\ records' = records \cup {raw}
             /\ measured' = [compressed |-> measured.compressed + DeflatedBytes[raw],
                             uncompressed |-> measured.uncompressed + RawBytes[raw]]
    <3>1. raw \notin records
      BY <2>2 DEF Ids
    <3>2. IsFiniteSet(records') /\ Cardinality(records') = Cardinality(records) + 1
      BY <2>2, <3>1, FS_AddElement DEF IInv, RecordsInv
    <3>3. records' = {bulk'[i] : i \in 1 .. Cardinality(records')}
      <4>1. 1 .. Cardinality(records') =
              (1 .. Cardinality(records)) \cup {Cardinality(records) + 1}
        BY <1>1, <3>2
      <4>2. /\ records = {bulk[i] : i \in 1 .. Cardinality(records)}
            /\ records' = records \cup {bulk[Cardinality(records) + 1]} /\ bulk' = bulk
        BY <2>2 DEF IInv, RecordsInv
      <4> QED BY <4>1, <4>2
    <3>4. Parsed[raw] \in Record
      BY <1>1, <2>2, RecordAssumption
    <3>5. /\ \A r \in records' : Parsed[r] \in Record
          /\ \A r, s \in records' : Parsed[r].id = Parsed[s].id => r = s
      BY <2>2, <3>4 DEF IInv, RecordsInv, Ids
    <3>6. measured' \in [compressed : Nat, uncompressed : Nat]
      <4>1. DeflatedBytes[raw] \in Nat /\ RawBytes[raw] \in Nat
        BY <1>1, RecordAssumption
      <4> QED BY <2>2, <4>1, BaseType DEF IInv
    <3> QED BY <1>1, <3>2, <3>3, <3>5, <3>6 DEF IInv, RecordsInv
  <2> QED BY <2>1, <2>2 DEF TakeRecord, ParseRecord
<1>3. pc' \in {"records", "failed"} /\ code' # "unstable"
  BY DEF TakeRecord, Fails, GoesTo, IInv, Stabilizes
<1>4. ManifestInv' /\ AttemptInv' /\ ArchiveInv' /\ Stabilizes'
  BY <1>3 DEF ManifestInv, AttemptInv, ArchiveInv, Stabilizes, TakeRecord, IInv
<1> QED BY <1>2, <1>4 DEF IInv

LEMMA ExtractInv ==
  ASSUME IInv, Extract, UNCHANGED <<bulk, description, altered>>
  PROVE  IInv'
<1>1. pc' \in {"records", "failed"} /\ code' # "unstable"
  BY DEF Extract, Fails, GoesTo, IInv, Stabilizes
<1>2. ManifestInv' /\ AttemptInv' /\ ArchiveInv' /\ Stabilizes'
  BY <1>1 DEF ManifestInv, AttemptInv, ArchiveInv, Stabilizes, Extract, IInv
<1>3. RecordsInv'
  BY SameRecords DEF Extract, IInv
<1> QED BY <1>2, <1>3 DEF IInv

LEMMA DescribeInv ==
  ASSUME IInv, Describe, UNCHANGED <<bulk, description, altered>>
  PROVE  IInv'
<1>1. RecordsInv'
  BY SameRecords DEF Describe, IInv
<1>2. pc' = "attempt" /\ code' = code /\ records' = records
  BY DEF Describe, GoesTo
<1>3. manifest' = [content_digest |-> ContentDigest(Descriptors, BuildIndex(records)),
                   review_status |-> AggregateReviewStatus(records),
                   records |-> Descriptors,
                   archive_bytes |-> 0, compressed |-> 0, uncompressed |-> 0,
                   signature |-> Unsigned]
  BY DEF Describe, Descriptors
<1>4. ManifestInv'
  <2>1. Fields(manifest)'
    BY <1>3 DEF Fields
  <2>2. Cardinality(records) = Len(bulk)
    BY DEF Describe
  <2>3. Descriptors' = Descriptors /\ BuildIndex(records)' = BuildIndex(records)
    BY SameRecords DEF Describe
  <2>4. /\ manifest'.records = Descriptors'
        /\ manifest'.content_digest = ContentDigest(Descriptors, BuildIndex(records))'
    BY <1>3, <2>3 DEF ContentDigest
  <2>5. (Cardinality(records) = Len(bulk))'
    BY <1>2, <2>2
  <2> QED BY <2>1, <2>4, <2>5 DEF ManifestInv
<1>5. AttemptInv'
  BY <1>2, <1>3 DEF AttemptInv, Describe, IInv
<1>6. ArchiveInv' /\ Stabilizes'
  BY <1>2 DEF ArchiveInv, Stabilizes, IInv
<1> QED BY <1>1, <1>4, <1>5, <1>6 DEF IInv

\* What an attempt leaves in the manifest are numbers.
LEMMA AttemptNumbers ==
  ASSUME IInv, Attempt, TypeOK
  PROVE  manifest' # Absent =>
           /\ manifest'.archive_bytes \in Nat /\ manifest'.compressed \in Nat
           /\ manifest'.uncompressed \in Nat
<1> DEFINE signed == Signed(manifest, Key)
<1>1. /\ Fields(manifest) /\ manifest.records = Descriptors
      /\ measured.compressed \in Nat /\ measured.uncompressed \in Nat
  BY BaseType DEF IInv, ManifestInv, Attempt
<1>2. /\ manifest.archive_bytes \in Nat /\ manifest.compressed \in Nat
      /\ manifest.uncompressed \in Nat
  BY BaseType, LengthType DEF IInv, AttemptInv, Attempt, Attempts
<1>3. /\ Fields(signed) /\ signed.records = Descriptors
      /\ signed.archive_bytes \in Nat /\ signed.compressed \in Nat
      /\ signed.uncompressed \in Nat
  BY <1>1, <1>2 DEF Fields, Signed
<1>4. manifest' = manifest \/ manifest' = Measured(signed)
  BY DEF Attempt
<1> HIDE DEF signed
<1>5. ArchiveLength(signed) \in Nat
  BY <1>3, LengthOfArchive, DigitsType, BaseType DEF IInv
<1>6. CASE manifest' = Measured(signed)
  <2>1. manifest' = WithNumbers(signed, ArchiveLength(signed),
                                measured.compressed, measured.uncompressed)
    BY <1>6 DEF Measured, WithNumbers
  <2>2. WithNumbers(signed, ArchiveLength(signed), measured.compressed,
                    measured.uncompressed) =
          [content_digest |-> signed.content_digest,
           review_status |-> signed.review_status,
           records |-> signed.records, archive_bytes |-> ArchiveLength(signed),
           compressed |-> measured.compressed, uncompressed |-> measured.uncompressed,
           signature |-> signed.signature]
    BY <1>3, ThreeNumbers, Zenon
  <2> QED BY <1>1, <1>5, <2>1, <2>2
<1> QED BY <1>2, <1>4, <1>6

\* The manifest that has told what was measured, field by field.
LEMMA MeasuredManifest ==
  ASSUME Fields(manifest)
  PROVE  Measured(Signed(manifest, Key)) =
           [content_digest |-> manifest.content_digest,
            review_status |-> manifest.review_status, records |-> manifest.records,
            archive_bytes |-> ArchiveLength(Signed(manifest, Key)),
            compressed |-> measured.compressed, uncompressed |-> measured.uncompressed,
            signature |-> [key |-> Key, payload |-> Payload(manifest)]]
<1> DEFINE signed == Signed(manifest, Key)
<1>1. /\ Fields(signed) /\ signed.content_digest = manifest.content_digest
      /\ signed.review_status = manifest.review_status
      /\ signed.records = manifest.records
      /\ signed.signature = [key |-> Key, payload |-> Payload(manifest)]
  BY DEF Fields, Signed
<1>2. Measured(signed) = WithNumbers(signed, ArchiveLength(signed),
                                     measured.compressed, measured.uncompressed)
  BY DEF Measured, WithNumbers
<1> HIDE DEF signed
<1>3. WithNumbers(signed, ArchiveLength(signed), measured.compressed,
                  measured.uncompressed) =
        [content_digest |-> signed.content_digest,
         review_status |-> signed.review_status,
         records |-> signed.records, archive_bytes |-> ArchiveLength(signed),
         compressed |-> measured.compressed, uncompressed |-> measured.uncompressed,
         signature |-> signed.signature]
  BY <1>1, ThreeNumbers, Zenon
<1>4. Measured(signed) =
        [content_digest |-> manifest.content_digest,
         review_status |-> manifest.review_status, records |-> manifest.records,
         archive_bytes |-> ArchiveLength(signed),
         compressed |-> measured.compressed, uncompressed |-> measured.uncompressed,
         signature |-> [key |-> Key, payload |-> Payload(manifest)]]
  BY <1>1, <1>2, <1>3, Zenon
<1> QED BY <1>4 DEF signed

\* One attempt: the first three measure what FixPoint says, the fourth finds it.
LEMMA AttemptStep ==
  ASSUME IInv, Attempt, UNCHANGED <<bulk, description, altered>>
  PROVE  IInv'
<1> DEFINE signed == Signed(manifest, Key)
<1>1. /\ pc = "attempt" /\ attempt \in 0 .. 3 /\ attempt' = attempt + 1
      /\ UNCHANGED <<bulk, description, records, measured, altered>>
  BY DEF Attempt, IInv, AttemptInv
<1>2. /\ Fields(manifest) /\ manifest.records = Descriptors
      /\ manifest.content_digest = ContentDigest(Descriptors, BuildIndex(records))
      /\ Cardinality(records) = Len(bulk)
  BY <1>1 DEF IInv, ManifestInv
<1>3. /\ measured.compressed \in Nat /\ measured.uncompressed \in Nat
      /\ First \in Nat /\ Length(First) \in Nat /\ Length(Length(First)) \in Nat
  BY BaseType, LengthType DEF IInv
<1>4. /\ manifest.archive_bytes \in Nat /\ manifest.compressed \in Nat
      /\ manifest.uncompressed \in Nat
  BY <1>1, <1>3 DEF IInv, AttemptInv
<1>5. signed = [content_digest |-> manifest.content_digest,
                review_status |-> manifest.review_status,
                records |-> manifest.records, archive_bytes |-> manifest.archive_bytes,
                compressed |-> manifest.compressed, uncompressed |-> manifest.uncompressed,
                signature |-> [key |-> Key, payload |-> Payload(manifest)]]
  BY <1>2 DEF Fields, Signed
<1>6. ArchiveLength(signed) = Base + Digits(manifest.archive_bytes)
                                   + Digits(manifest.compressed) + Digits(manifest.uncompressed)
  BY <1>2, <1>4, <1>5, LengthOfArchive DEF IInv
<1>7. /\ attempt = 0 => ArchiveLength(signed) = First
      /\ attempt = 1 => ArchiveLength(signed) = Length(First)
      /\ attempt = 2 => ArchiveLength(signed) = Length(Length(First))
      /\ attempt = 3 => ArchiveLength(signed) = Length(Length(Length(First)))
  BY <1>1, <1>6 DEF IInv, AttemptInv, First, Length
<1>8. Length(Length(Length(First))) = Length(Length(First))
  BY <1>3, BaseType, FixPoint DEF IInv, First, Length
<1>9. RecordsInv'
  BY <1>1, SameRecords DEF IInv
<1>10. CASE /\ Fails("limit") /\ UNCHANGED <<manifest, archive>>
  <2>1. pc' = "failed" /\ code' = "limit"
    BY <1>10 DEF Fails
  <2> QED BY <1>9, <2>1 DEF IInv, ManifestInv, AttemptInv, ArchiveInv, Stabilizes
<1>11. CASE /\ archive' = WriteArchive(signed)
            /\ manifest' = Measured(signed)
            /\ GoesTo(IF manifest' = signed THEN "verify" ELSE "attempt")
  <2>1. manifest' = [content_digest |-> manifest.content_digest,
                     review_status |-> manifest.review_status,
                     records |-> manifest.records, archive_bytes |-> ArchiveLength(signed),
                     compressed |-> measured.compressed,
                     uncompressed |-> measured.uncompressed,
                     signature |-> [key |-> Key, payload |-> Payload(manifest)]]
    BY <1>2, <1>11, MeasuredManifest, Zenon
  <2>2. /\ manifest' = signed => pc' = "verify"
        /\ manifest' # signed => pc' = "attempt"
        /\ code' = code
    BY <1>11 DEF GoesTo
  <2>3. attempt = 3 => manifest' = signed
    <3> SUFFICES ASSUME attempt = 3 PROVE manifest' = signed
      OBVIOUS
    <3>1. /\ manifest.archive_bytes = Length(Length(First))
          /\ manifest.compressed = measured.compressed
          /\ manifest.uncompressed = measured.uncompressed
      BY <1>1 DEF IInv, AttemptInv
    <3>2. ArchiveLength(signed) = manifest.archive_bytes
      BY <1>7, <1>8, <3>1
    <3> QED BY <1>5, <2>1, <3>1, <3>2
  <2>4. /\ Descriptors' = Descriptors /\ BuildIndex(records)' = BuildIndex(records)
        /\ First' = First /\ Length(First)' = Length(First)
        /\ Length(Length(First))' = Length(Length(First))
    <3>1. /\ Descriptors' = Descriptors /\ BuildIndex(records)' = BuildIndex(records)
          /\ Base' = Base /\ measured' = measured
      BY <1>1, SameRecords DEF Base, Descriptors, BuildIndex, IndexBytes
    <3> QED BY <3>1 DEF First, Length, Digits
  <2>5. ManifestInv'
    <3>1. Fields(manifest)'
      BY <2>1 DEF Fields
    <3>2. /\ manifest'.records = Descriptors'
          /\ manifest'.content_digest = ContentDigest(Descriptors, BuildIndex(records))'
      BY <1>2, <2>1, <2>4 DEF ContentDigest
    <3>3. (Cardinality(records) = Len(bulk))'
      BY <1>1, <1>2
    <3> QED BY <3>1, <3>2, <3>3 DEF ManifestInv
  <2>6. AttemptInv'
    BY <1>1, <1>7, <2>1, <2>2, <2>3, <2>4 DEF AttemptInv
  <2>7. ArchiveInv'
    <3>1. CASE manifest' = signed
      <4>1. Payload(signed) = Payload(manifest)
        BY <1>2, <1>5 DEF Payload, Fields
      <4>2. archive' = [manifest |-> signed, index |-> BuildIndex(records),
                        files |-> {[id |-> Parsed[r].id, data |-> r,
                                    bytes |-> DeflatedBytes[r]] : r \in records},
                        length |-> ArchiveLength(signed)]
        BY <1>11 DEF WriteArchive
      <4>3. IsFiniteSet(archive'.files)
        <5> DEFINE entry == [r \in records |-> [id |-> Parsed[r].id, data |-> r,
                                                bytes |-> DeflatedBytes[r]]]
        <5>1. entry \in Surjection(records, archive'.files)
          BY <4>2 DEF Surjection
        <5> QED BY <5>1, FS_Surjection DEF IInv, RecordsInv
      <4>4. manifest'.signature = [key |-> Key, payload |-> Payload(manifest')]
        BY <2>1, <3>1, <4>1
      <4> QED BY <1>5, <3>1, <4>2, <4>3, <4>4 DEF ArchiveInv, Fields, Payload
    <3>2. CASE manifest' # signed
      BY <2>2, <3>2 DEF ArchiveInv
    <3> QED BY <3>1, <3>2
  <2> QED BY <1>9, <2>2, <2>5, <2>6, <2>7 DEF IInv, Stabilizes
<1> QED BY <1>10, <1>11 DEF Attempt

LEMMA GivesUpInv ==
  ASSUME IInv, GivesUp
  PROVE  FALSE
BY DEF IInv, AttemptInv, GivesUp, Attempts

LEMMA VerifyInv ==
  ASSUME IInv, Verify, UNCHANGED <<bulk, description, altered>>
  PROVE  IInv'
<1>1. /\ pc = "verify" /\ pc' \in {"write", "failed"} /\ code' # "unstable"
      /\ UNCHANGED <<bulk, description, records, measured, manifest, archive>>
  BY DEF Verify, Fails, GoesTo, IInv, Stabilizes
<1>2. RecordsInv'
  BY <1>1, SameRecords DEF IInv
<1>3. ManifestInv'
  BY <1>1, SameRecords DEF IInv, ManifestInv, Fields, ContentDigest
<1>4. ArchiveInv'
  BY <1>1 DEF IInv, ArchiveInv, Fields, Payload, Unsigned
<1> QED BY <1>1, <1>2, <1>3, <1>4 DEF IInv, AttemptInv, Stabilizes

LEMMA WriteInv ==
  ASSUME IInv, Write, UNCHANGED <<bulk, description, altered>>
  PROVE  IInv'
<1>1. /\ pc = "write" /\ pc' \in {"written", "failed"} /\ code' # "unstable"
      /\ pc' = "written" => archive' = archive
      /\ UNCHANGED <<bulk, description, records, measured, manifest>>
  BY DEF Write, Fails, GoesTo, IInv, Stabilizes
<1>2. RecordsInv'
  BY <1>1, SameRecords DEF IInv
<1>3. ManifestInv'
  BY <1>1, SameRecords DEF IInv, ManifestInv, Fields, ContentDigest
<1>4. ArchiveInv'
  BY <1>1 DEF IInv, ArchiveInv, Fields, Payload, Unsigned
<1> QED BY <1>1, <1>2, <1>3, <1>4 DEF IInv, AttemptInv, Stabilizes

----------------------------------------------------------------------------
\* Alterations.

\* One field of a manifest set, and what is left of the others.
LEMMA OneField ==
  ASSUME NEW m, Fields(m), NEW v
  PROVE  /\ [m EXCEPT !.compressed = v] =
              [content_digest |-> m.content_digest, review_status |-> m.review_status,
               records |-> m.records, archive_bytes |-> m.archive_bytes,
               compressed |-> v, uncompressed |-> m.uncompressed,
               signature |-> m.signature]
         /\ [m EXCEPT !.archive_bytes = v] =
              [content_digest |-> m.content_digest, review_status |-> m.review_status,
               records |-> m.records, archive_bytes |-> v,
               compressed |-> m.compressed, uncompressed |-> m.uncompressed,
               signature |-> m.signature]
         /\ [m EXCEPT !.content_digest = v] =
              [content_digest |-> v, review_status |-> m.review_status,
               records |-> m.records, archive_bytes |-> m.archive_bytes,
               compressed |-> m.compressed, uncompressed |-> m.uncompressed,
               signature |-> m.signature]
         /\ [m EXCEPT !.records = v] =
              [content_digest |-> m.content_digest, review_status |-> m.review_status,
               records |-> v, archive_bytes |-> m.archive_bytes,
               compressed |-> m.compressed, uncompressed |-> m.uncompressed,
               signature |-> m.signature]
         /\ [m EXCEPT !.signature = v] =
              [content_digest |-> m.content_digest, review_status |-> m.review_status,
               records |-> m.records, archive_bytes |-> m.archive_bytes,
               compressed |-> m.compressed, uncompressed |-> m.uncompressed,
               signature |-> v]
BY DEF Fields

\* Who edits a manifest keeps its signature or puts one with another key.
LEMMA AlteredManifest ==
  ASSUME NEW e \in AlteredManifests, Fields(archive.manifest)
  PROVE  /\ Fields(e)
         /\ e.signature = archive.manifest.signature \/ e.signature.key = OtherKey
<1> DEFINE m == archive.manifest
           edited == {m, [m EXCEPT !.compressed = @ + 1], [m EXCEPT !.archive_bytes = @ + 1],
                      [m EXCEPT !.content_digest = ContentDigest(m.records, archive.index)]}
                     \cup {[m EXCEPT !.records = @ \ {d}] : d \in m.records}
                     \cup {[m EXCEPT !.records = @ \cup {d}] : d \in [id : Id, digest : Raw]}
<1>1. ASSUME NEW x \in edited PROVE Fields(x) /\ x.signature = m.signature
  <2>1. CASE x = m
    BY <2>1
  <2>2. CASE x = [m EXCEPT !.compressed = m.compressed + 1]
    BY <2>2, OneField DEF Fields
  <2>3. CASE x = [m EXCEPT !.archive_bytes = m.archive_bytes + 1]
    BY <2>3, OneField DEF Fields
  <2>4. CASE x = [m EXCEPT !.content_digest = ContentDigest(m.records, archive.index)]
    BY <2>4, OneField DEF Fields
  <2>5. ASSUME NEW d \in m.records, x = [m EXCEPT !.records = m.records \ {d}]
        PROVE  Fields(x) /\ x.signature = m.signature
    BY <2>5, OneField DEF Fields
  <2>6. ASSUME NEW d \in [id : Id, digest : Raw], x = [m EXCEPT !.records = m.records \cup {d}]
        PROVE  Fields(x) /\ x.signature = m.signature
    BY <2>6, OneField DEF Fields
  <2> QED BY <1>1, <2>1, <2>2, <2>3, <2>4, <2>5, <2>6
<1>2. e \in edited \/ \E x \in edited : e = Signed(x, OtherKey)
  BY DEF AlteredManifests
<1> HIDE DEF edited
<1>3. ASSUME NEW x \in edited, e = Signed(x, OtherKey)
      PROVE  Fields(e) /\ e.signature.key = OtherKey
  <2>1. Fields(x) /\ e = [x EXCEPT !.signature = [key |-> OtherKey, payload |-> Payload(x)]]
    BY <1>1, <1>3 DEF Signed
  <2> DEFINE s == [key |-> OtherKey, payload |-> Payload(x)]
  <2>2. s.key = OtherKey
    OBVIOUS
  <2> HIDE DEF s
  <2>3. e = [content_digest |-> x.content_digest, review_status |-> x.review_status,
             records |-> x.records, archive_bytes |-> x.archive_bytes,
             compressed |-> x.compressed, uncompressed |-> x.uncompressed, signature |-> s]
    BY <2>1, OneField DEF s
  <2> QED BY <2>2, <2>3 DEF Fields
<1> QED BY <1>1, <1>2, <1>3

LEMMA AlterInv ==
  ASSUME IInv, Alter
  PROVE  IInv'
<1>1. /\ pc = "written"
      /\ UNCHANGED <<bulk, description, pc, records, measured, manifest, attempt, code>>
  BY DEF Alter
<1>2. RecordsInv'
  BY <1>1, SameRecords DEF IInv
<1>3. ManifestInv'
  BY <1>1, SameRecords DEF IInv, ManifestInv, Fields, ContentDigest
<1>4. /\ archive = [manifest |-> archive.manifest, index |-> archive.index,
                     files |-> archive.files, length |-> archive.length]
      /\ Fields(archive.manifest) /\ IsFiniteSet(archive.files)
  BY <1>1 DEF IInv, ArchiveInv
<1>5. /\ archive' = [manifest |-> archive'.manifest, index |-> archive'.index,
                      files |-> archive'.files, length |-> archive'.length]
      /\ Fields(archive'.manifest) /\ IsFiniteSet(archive'.files)
      /\ \/ archive'.manifest.signature = archive.manifest.signature
         \/ archive'.manifest.signature.key = OtherKey
  <2>1. ASSUME NEW m \in AlteredManifests, archive' = [archive EXCEPT !.manifest = m]
        PROVE  <1>5!:
    <3>1. archive' = [manifest |-> m, index |-> archive.index,
                      files |-> archive.files, length |-> archive.length]
      BY <1>4, <2>1
    <3> QED BY <1>4, <3>1, AlteredManifest
  <2>2. ASSUME NEW i, archive' = [archive EXCEPT !.index = i]
        PROVE  <1>5!:
    <3>1. archive' = [manifest |-> archive.manifest, index |-> i,
                      files |-> archive.files, length |-> archive.length]
      BY <1>4, <2>2
    <3> QED BY <1>4, <3>1
  <2>3. ASSUME NEW f \in AlteredFiles, archive' = [archive EXCEPT !.files = f]
        PROVE  <1>5!:
    <3>1. archive' = [manifest |-> archive.manifest, index |-> archive.index,
                      files |-> f, length |-> archive.length]
      BY <1>4, <2>3
    <3>2. IsFiniteSet(f)
      <4> DEFINE files == archive.files
                 others == {[id |-> i, data |-> r, bytes |-> DeflatedBytes[r]] : i \in Id, r \in Raw}
                 longer(x) == [x EXCEPT !.bytes = @ + 1]
      <4>1. f \in {files \ {x} : x \in files} \cup {files \cup {x} : x \in others}
                 \cup {(files \ {x}) \cup {longer(x)} : x \in files}
        BY DEF AlteredFiles
      <4>2. IsFiniteSet(files)
        BY <1>4
      <4> HIDE DEF files, others, longer
      <4>3. CASE f \in {files \ {x} : x \in files}
        BY <4>2, <4>3, FS_RemoveElement
      <4>4. CASE f \in {files \cup {x} : x \in others}
        BY <4>2, <4>4, FS_AddElement
      <4>5. CASE f \in {(files \ {x}) \cup {longer(x)} : x \in files}
        <5>1. PICK x \in files : f = (files \ {x}) \cup {longer(x)}
          BY <4>5
        <5>2. IsFiniteSet(files \ {x})
          BY <4>2, FS_RemoveElement
        <5> QED BY <5>1, <5>2, FS_AddElement
      <4> QED BY <4>1, <4>3, <4>4, <4>5
    <3> QED BY <1>4, <3>1, <3>2
  <2>4. CASE archive' = [archive EXCEPT !.length = archive.length + 1]
    <3>1. archive' = [manifest |-> archive.manifest, index |-> archive.index,
                      files |-> archive.files, length |-> archive.length + 1]
      BY <1>4, <2>4
    <3> QED BY <1>4, <3>1
  <2> QED BY <2>1, <2>2, <2>3, <2>4 DEF Alter
<1>6. ArchiveInv'
  BY <1>1, <1>5 DEF IInv, ArchiveInv, Payload, Unsigned
<1> QED BY <1>1, <1>2, <1>3, <1>6 DEF IInv, AttemptInv, Stabilizes

----------------------------------------------------------------------------
LEMMA StepInv == IInv /\ [Next]_vars => IInv'
<1> SUFFICES ASSUME IInv, [Next]_vars PROVE IInv'
  OBVIOUS
<1>1. CASE Extract /\ UNCHANGED <<bulk, description, altered>>
  BY <1>1, ExtractInv
<1>2. CASE TakeRecord /\ UNCHANGED <<bulk, description, altered>>
  BY <1>2, TakeRecordInv
<1>3. CASE Describe /\ UNCHANGED <<bulk, description, altered>>
  BY <1>3, DescribeInv
<1>4. CASE Attempt /\ UNCHANGED <<bulk, description, altered>>
  BY <1>4, AttemptStep
<1>5. CASE GivesUp
  BY <1>5, GivesUpInv
<1>6. CASE Verify /\ UNCHANGED <<bulk, description, altered>>
  BY <1>6, VerifyInv
<1>7. CASE Write /\ UNCHANGED <<bulk, description, altered>>
  BY <1>7, WriteInv
<1>8. CASE Alter
  BY <1>8, AlterInv
<1>9. CASE UNCHANGED vars
  <2>1. UNCHANGED <<bulk, description, pc, records, measured, manifest, attempt, archive, code>>
    BY <1>9 DEF vars
  <2>2. RecordsInv' /\ First' = First /\ \A n : Length(n)' = Length(n)
    BY <2>1, SameRecords DEF IInv
  <2>3. ManifestInv'
    BY <2>1, SameRecords DEF IInv, ManifestInv, Fields, ContentDigest
  <2>4. AttemptInv'
    <3>1. /\ Length(First)' = Length(First) /\ Length(Length(First))' = Length(Length(First))
          /\ First' = First
      BY <2>1 DEF First, Length, Base, Descriptors, BuildIndex, IndexBytes, Digits
    <3>2. AttemptInv
      BY DEF IInv
    <3> QED BY <2>1, <3>1, <3>2 DEF AttemptInv
  <2>5. ArchiveInv' /\ Stabilizes'
    BY <2>1 DEF IInv, ArchiveInv, Fields, Payload, Unsigned, Stabilizes
  <2> QED BY <2>2, <2>3, <2>4, <2>5 DEF IInv
<1> QED BY <1>1, <1>2, <1>3, <1>4, <1>5, <1>6, <1>7, <1>8, <1>9 DEF Next, Step

\* Every state the tool can be in, and every altered release, satisfies the
\* invariant.
THEOREM Invariance == Spec => []IInv
<1>1. IInv /\ [Next]_vars => IInv'
  BY StepInv
<1> QED BY InitInv, <1>1, PTL DEF Spec

\* BuildArchive never gives up: the sizes it writes into the manifest settle
\* by its fourth attempt, however the lengths fall.
THEOREM SizeStabilizes == Spec => []Stabilizes
<1>1. IInv => Stabilizes
  BY DEF IInv
<1> QED BY Invariance, <1>1, PTL

\* An archive that loads is signed as the release is, so its manifest is the
\* release's manifest.
LEMMA SameManifest ==
  ASSUME IInv, pc = "written", LoadArchive(archive, Key)
  PROVE  archive.manifest = manifest
<1> DEFINE a == archive.manifest
<1>1. /\ Fields(a) /\ Fields(manifest)
      /\ manifest.signature = [key |-> Key, payload |-> Payload(manifest)]
      /\ a.signature = manifest.signature \/ a.signature.key = OtherKey
  BY DEF IInv, ArchiveInv, ManifestInv
<1>2. a.signature = [key |-> Key, payload |-> Payload(a)]
  BY DEF LoadArchive, ValidateManifest
<1> HIDE DEF a
<1>3. a.signature = manifest.signature
  BY <1>1, <1>2, KeyAssumption
<1>4. Payload(a) = Payload(manifest)
  BY <1>1, <1>2, <1>3
<1>5. [content_digest |-> a.content_digest, review_status |-> a.review_status,
       records |-> a.records, archive_bytes |-> a.archive_bytes,
       compressed |-> a.compressed, uncompressed |-> a.uncompressed, signature |-> Unsigned] =
      [content_digest |-> manifest.content_digest, review_status |-> manifest.review_status,
       records |-> manifest.records, archive_bytes |-> manifest.archive_bytes,
       compressed |-> manifest.compressed, uncompressed |-> manifest.uncompressed,
       signature |-> Unsigned]
  <2>1. Payload(a) = [content_digest |-> a.content_digest,
          review_status |-> a.review_status, records |-> a.records,
          archive_bytes |-> a.archive_bytes, compressed |-> a.compressed,
          uncompressed |-> a.uncompressed, signature |-> Unsigned]
    BY <1>1, OneField DEF Payload
  <2>2. Payload(manifest) = [content_digest |-> manifest.content_digest,
          review_status |-> manifest.review_status, records |-> manifest.records,
          archive_bytes |-> manifest.archive_bytes, compressed |-> manifest.compressed,
          uncompressed |-> manifest.uncompressed, signature |-> Unsigned]
    BY <1>1, OneField DEF Payload
  <2> QED BY <1>4, <2>1, <2>2
<1>6. /\ a.content_digest = manifest.content_digest
      /\ a.review_status = manifest.review_status /\ a.records = manifest.records
      /\ a.archive_bytes = manifest.archive_bytes /\ a.compressed = manifest.compressed
      /\ a.uncompressed = manifest.uncompressed
  BY <1>5
<1>7. a = manifest
  BY <1>1, <1>3, <1>6 DEF Fields
<1> QED BY <1>7 DEF a

\* It has one file for each record, so it has no other.
LEMMA SameFiles ==
  ASSUME IInv, pc = "written", LoadArchive(archive, Key), NEW f \in archive.files
  PROVE  \E d \in Descriptors : f.id = d.id /\ f.data = d.digest
<1>1. archive.manifest.records = Descriptors
  BY SameManifest DEF IInv, ManifestInv
<1>2. /\ IsFiniteSet(archive.files)
      /\ \A d \in Descriptors : \E g \in archive.files : g.id = d.id /\ g.data = d.digest
      /\ Cardinality(archive.files) = Cardinality(Descriptors)
  BY <1>1 DEF IInv, ArchiveInv, LoadArchive
<1> DEFINE told == {g \in archive.files : \E d \in Descriptors : g.id = d.id /\ g.data = d.digest}
           tells == [g \in told |-> [id |-> g.id, digest |-> g.data]]
<1>3. IsFiniteSet(told) /\ Cardinality(told) <= Cardinality(archive.files)
  BY <1>2, FS_Subset
<1>4. \A d \in Descriptors : d = [id |-> d.id, digest |-> d.digest]
  BY DEF Descriptors
<1>5. tells \in Surjection(told, Descriptors)
  <2>1. \A g \in told : tells[g] \in Descriptors
    BY <1>4
  <2>2. ASSUME NEW d \in Descriptors PROVE \E g \in told : tells[g] = d
    <3>1. PICK g \in archive.files : g.id = d.id /\ g.data = d.digest
      BY <1>2
    <3>2. g \in told /\ tells[g] = d
      BY <3>1, <1>4
    <3> QED BY <3>2
  <2> QED BY <2>1, <2>2 DEF Surjection
<1>6. Cardinality(Descriptors) <= Cardinality(told)
  BY <1>3, <1>5, FS_Surjection
<1>7. told \in SUBSET archive.files
  OBVIOUS
<1>8. Cardinality(told) = Cardinality(archive.files)
  BY <1>2, <1>3, <1>6, FS_CardinalityType
<1>9. told = archive.files
  BY <1>2, <1>7, <1>8, FS_Subset
<1> QED BY <1>9

\* What loads under the release's key is the release, whatever was altered.
THEOREM Authenticity == Spec => []LoadedIsRelease
<1>1. ASSUME IInv, pc = "written", LoadArchive(archive, Key)
      PROVE  LET raws == {bulk[i] : i \in DOMAIN bulk}
             IN  /\ archive.manifest = manifest
                 /\ {f.data : f \in archive.files} = raws
                 /\ \A n \in Name :
                      {Parsed[r].id : r \in {s \in raws : n \in Parsed[s].names}} =
                        IF n \in DOMAIN archive.index THEN archive.index[n] ELSE {}
  <2>1. /\ archive.manifest = manifest /\ manifest.records = Descriptors
        /\ manifest.content_digest = ContentDigest(Descriptors, BuildIndex(records))
        /\ Cardinality(records) = Len(bulk)
    BY <1>1, SameManifest DEF IInv, ManifestInv
  <2>2. records = {bulk[i] : i \in DOMAIN bulk}
    <3>1. DOMAIN bulk = 1 .. Len(bulk)
      BY <1>1 DEF IInv, RecordsInv
    <3> QED BY <1>1, <2>1, <3>1 DEF IInv, RecordsInv
  <2>3. archive.index = BuildIndex(records)
    <3>1. ContentDigest(Descriptors, archive.index) = ContentDigest(Descriptors, BuildIndex(records))
      BY <1>1, <2>1 DEF LoadArchive
    <3> QED BY <3>1 DEF ContentDigest
  <2>4. {f.data : f \in archive.files} = records
    <3>1. \A f \in archive.files : f.data \in records
      BY <1>1, SameFiles DEF Descriptors
    <3>2. \A r \in records : \E f \in archive.files : f.data = r
      <4>1. \A d \in Descriptors : \E f \in archive.files : f.data = d.digest
        BY <1>1, <2>1 DEF LoadArchive
      <4>2. \A r \in records : [id |-> Parsed[r].id, digest |-> r] \in Descriptors
        BY DEF Descriptors
      <4> QED BY <4>1, <4>2
    <3> QED BY <3>1, <3>2
  <2>5. \A n \in Name :
          {Parsed[r].id : r \in {s \in records : n \in Parsed[s].names}} =
            IF n \in DOMAIN BuildIndex(records) THEN BuildIndex(records)[n] ELSE {}
    <3> SUFFICES ASSUME NEW n \in Name
                 PROVE  {Parsed[r].id : r \in {s \in records : n \in Parsed[s].names}} =
                          IF n \in DOMAIN BuildIndex(records)
                            THEN BuildIndex(records)[n] ELSE {}
      OBVIOUS
    <3>1. n \in DOMAIN BuildIndex(records) <=> \E s \in records : n \in Parsed[s].names
      BY DEF BuildIndex
    <3>2. n \in DOMAIN BuildIndex(records) =>
            BuildIndex(records)[n] =
              {Parsed[r].id : r \in {s \in records : n \in Parsed[s].names}}
      BY DEF BuildIndex
    <3> QED BY <3>1, <3>2
  <2> QED BY <2>1, <2>2, <2>3, <2>4, <2>5
<1>2. IInv => LoadedIsRelease
  BY <1>1 DEF LoadedIsRelease
<1> QED BY Invariance, <1>2, PTL

----------------------------------------------------------------------------
\* What is built loads.

Files == {[id |-> Parsed[r].id, data |-> r, bytes |-> DeflatedBytes[r]] : r \in records}

\* What is measured is what the files sum up to; the archive that is about to be
\* verified is the last attempt's, whose manifest tells its length.
LoadInv ==
  /\ pc \notin {"extract", "failed"} => Len(bulk) \in 1 .. MaxRecords
  /\ measured = [compressed |-> Compressed(Files), uncompressed |-> Uncompressed(Files)]
  /\ records # {} => measured.compressed > 0 /\ measured.uncompressed > 0
  /\ pc \in {"attempt", "verify"} => manifest \in Manifest(Signature)
  /\ pc = "verify" =>
       /\ archive = [manifest |-> manifest, index |-> BuildIndex(records), files |-> Files,
                     length |-> manifest.archive_bytes]
       /\ manifest.compressed = measured.compressed
       /\ manifest.uncompressed = measured.uncompressed
  /\ code = "unverified" => pc = "failed"
  /\ LoadsUnlessTooLarge

\* The files are as many as the records, and so are their descriptors.
LEMMA OneEach ==
  ASSUME RecordsInv
  PROVE  /\ IsFiniteSet(Files) /\ Cardinality(Files) = Cardinality(records)
         /\ IsFiniteSet(Descriptors) /\ Cardinality(Descriptors) = Cardinality(records)
         /\ \A f \in Files : f.data \in Raw /\ f.bytes \in Nat /\ RawBytes[f.data] \in Nat
<1> DEFINE file == [r \in records |-> [id |-> Parsed[r].id, data |-> r,
                                       bytes |-> DeflatedBytes[r]]]
           descriptor == [r \in records |-> [id |-> Parsed[r].id, digest |-> r]]
<1>1. file \in Bijection(records, Files)
  <2>1. file \in [records -> Files] /\ \A f \in Files : \E r \in records : file[r] = f
    BY DEF Files
  <2>2. \A r, s \in records : file[r] = file[s] => r = s
    <3>1. \A r \in records : file[r].data = r
      OBVIOUS
    <3> HIDE DEF file
    <3> QED BY <3>1
  <2> HIDE DEF file
  <2> QED BY <2>1, <2>2 DEF Bijection, Injection, Surjection, IsInjective
<1>2. descriptor \in Bijection(records, Descriptors)
  <2>1. /\ descriptor \in [records -> Descriptors]
        /\ \A d \in Descriptors : \E r \in records : descriptor[r] = d
    BY DEF Descriptors
  <2>2. \A r, s \in records : descriptor[r] = descriptor[s] => r = s
    <3>1. \A r \in records : descriptor[r].digest = r
      OBVIOUS
    <3> HIDE DEF descriptor
    <3> QED BY <3>1
  <2> HIDE DEF descriptor
  <2> QED BY <2>1, <2>2 DEF Bijection, Injection, Surjection, IsInjective
<1> HIDE DEF file, descriptor
<1>3. IsFiniteSet(records)
  BY DEF RecordsInv
<1>4. IsFiniteSet(Files) /\ Cardinality(Files) = Cardinality(records)
  BY <1>1, <1>3, FS_Bijection DEF ExistsBijection
<1>5. IsFiniteSet(Descriptors) /\ Cardinality(Descriptors) = Cardinality(records)
  BY <1>2, <1>3, FS_Bijection DEF ExistsBijection
<1>6. records \subseteq Raw
  <2>1. \A i \in 1 .. Cardinality(records) : bulk[i] \in Raw
    BY FS_CardinalityType DEF RecordsInv
  <2> QED BY <2>1 DEF RecordsInv
<1>7. \A f \in Files : f.data \in Raw /\ f.bytes \in Nat /\ RawBytes[f.data] \in Nat
  BY <1>6, RecordAssumption DEF Files
<1> QED BY <1>4, <1>5, <1>7

\* One more file adds its size to both sums.
LEMMA OneMoreFile ==
  ASSUME NEW files, IsFiniteSet(files), NEW f, f \notin files,
         \A g \in files \cup {f} : g.bytes \in Nat /\ RawBytes[g.data] \in Nat
  PROVE  /\ Compressed(files \cup {f}) = Compressed(files) + f.bytes
         /\ Uncompressed(files \cup {f}) = Uncompressed(files) + RawBytes[f.data]
<1> DEFINE more == files \cup {f}
<1>1. IsFiniteSet(more) /\ more \ {f} = files /\ f \in more
  BY FS_AddElement
<1>2. Compressed(more) = Compressed(files) + f.bytes
  <2> DEFINE size == [g \in more |-> g.bytes]
             was == [g \in files |-> g.bytes]
  <2>1. \A g \in more : size[g] = g.bytes /\ size[g] \in Nat
    OBVIOUS
  <2>2. \A g \in files : was[g] = size[g] /\ was[g] \in Nat
    OBVIOUS
  <2>3. Compressed(more) = Count(size, more) /\ Compressed(files) = Count(was, files)
    BY <1>1, CompressedIs
  <2> HIDE DEF size, was, more
  <2>4. Count(size, more) = size[f] + Count(size, files)
    BY <1>1, <2>1, CountStep
  <2>5. Count(was, files) = Count(size, files)
    BY <2>2, CountOfSame
  <2>6. Count(was, files) \in Nat /\ size[f] = f.bytes /\ size[f] \in Nat
    BY <1>1, <2>1, <2>2, CountType DEF Sized
  <2> QED BY <2>3, <2>4, <2>5, <2>6
<1>3. Uncompressed(more) = Uncompressed(files) + RawBytes[f.data]
  <2> DEFINE size == [g \in more |-> RawBytes[g.data]]
             was == [g \in files |-> RawBytes[g.data]]
  <2>1. \A g \in more : size[g] = RawBytes[g.data] /\ size[g] \in Nat
    OBVIOUS
  <2>2. \A g \in files : was[g] = size[g] /\ was[g] \in Nat
    OBVIOUS
  <2>3. Uncompressed(more) = Count(size, more) /\ Uncompressed(files) = Count(was, files)
    BY <1>1, UncompressedIs
  <2> HIDE DEF size, was, more
  <2>4. Count(size, more) = size[f] + Count(size, files)
    BY <1>1, <2>1, CountStep
  <2>5. Count(was, files) = Count(size, files)
    BY <2>2, CountOfSame
  <2>6. Count(was, files) \in Nat /\ size[f] = RawBytes[f.data] /\ size[f] \in Nat
    BY <1>1, <2>1, <2>2, CountType DEF Sized
  <2> QED BY <2>3, <2>4, <2>5, <2>6
<1> QED BY <1>2, <1>3

LEMMA InitLoad == Init => LoadInv
<1> SUFFICES ASSUME Init PROVE LoadInv
  OBVIOUS
<1>1. Files = {} /\ IsFiniteSet(Files)
  BY FS_EmptySet DEF Init, Files
<1>2. Compressed(Files) = 0 /\ Uncompressed(Files) = 0
  <2>1. Compressed(Files) = Count([f \in Files |-> f.bytes], Files)
    BY <1>1, CompressedIs
  <2>2. Uncompressed(Files) = Count([f \in Files |-> RawBytes[f.data]], Files)
    BY <1>1, UncompressedIs
  <2> QED BY <1>1, <2>1, <2>2, CountOfNone
<1> QED BY <1>2 DEF Init, LoadInv, LoadsUnlessTooLarge

\* A record taken is one file more.
LEMMA TakeRecordLoad ==
  ASSUME IInv, LoadInv, TakeRecord, UNCHANGED <<bulk, description, altered>>
  PROVE  LoadInv'
<1> DEFINE raw == bulk[Cardinality(records) + 1]
<1>1. /\ pc = "records" /\ pc' \in {"records", "failed"}
      /\ code' # "unverified" /\ bulk' = bulk
  BY DEF TakeRecord, Fails, GoesTo, LoadInv
<1>2. CASE UNCHANGED <<records, measured>>
  <2>1. Files' = Files
    BY <1>2 DEF Files
  <2>2. Compressed(Files)' = Compressed(Files) /\ Uncompressed(Files)' = Uncompressed(Files)
    BY <2>1
  <2> QED BY <1>1, <1>2, <2>2 DEF LoadInv, LoadsUnlessTooLarge
<1>3. CASE /\ Parsed[raw] # Corrupt
           /\ Parsed[raw].id \notin Ids(records)
           /\ records' = records \cup {raw}
           /\ measured' = [compressed |-> measured.compressed + DeflatedBytes[raw],
                           uncompressed |-> measured.uncompressed + RawBytes[raw]]
  <2> DEFINE file == [id |-> Parsed[raw].id, data |-> raw, bytes |-> DeflatedBytes[raw]]
  <2>1. raw \in Raw
    BY FS_CardinalityType DEF IInv, RecordsInv, TakeRecord
  <2>2. Files' = Files \cup {file}
    BY <1>3 DEF Files
  <2>3. file \notin Files
    BY <1>3 DEF Files, Ids
  <2>4. IsFiniteSet(Files) /\ \A g \in Files : g.bytes \in Nat /\ RawBytes[g.data] \in Nat
    BY OneEach DEF IInv
  <2>5. /\ DeflatedBytes[raw] \in Nat \ {0} /\ RawBytes[raw] \in Nat \ {0}
        /\ file.bytes = DeflatedBytes[raw] /\ file.data = raw
    BY <2>1, RecordAssumption
  <2> HIDE DEF file
  <2>6. /\ Compressed(Files \cup {file}) = Compressed(Files) + DeflatedBytes[raw]
        /\ Uncompressed(Files \cup {file}) = Uncompressed(Files) + RawBytes[raw]
    <3>1. \A g \in Files \cup {file} : g.bytes \in Nat /\ RawBytes[g.data] \in Nat
      BY <2>4, <2>5
    <3> QED BY <2>3, <2>4, <2>5, <3>1, OneMoreFile
  <2>7. /\ Compressed(Files)' = Compressed(Files \cup {file})
        /\ Uncompressed(Files)' = Uncompressed(Files \cup {file})
    BY <2>2
  <2>8. /\ measured.compressed = Compressed(Files)
        /\ measured.uncompressed = Uncompressed(Files)
    BY DEF LoadInv
  <2>9. measured' = [compressed |-> Compressed(Files)', uncompressed |-> Uncompressed(Files)']
    BY <1>3, <2>6, <2>7, <2>8
  <2>10. measured'.compressed > 0 /\ measured'.uncompressed > 0
    <3>1. measured.compressed \in Nat /\ measured.uncompressed \in Nat
      BY BaseType DEF IInv
    <3> QED BY <1>3, <2>5, <3>1
  <2> QED BY <1>1, <2>9, <2>10 DEF LoadInv, LoadsUnlessTooLarge
<1> QED BY <1>2, <1>3 DEF TakeRecord, ParseRecord

LEMMA SameFilesKept ==
  ASSUME UNCHANGED records
  PROVE  /\ Files' = Files /\ BuildIndex(records)' = BuildIndex(records)
         /\ Compressed(Files)' = Compressed(Files) /\ Uncompressed(Files)' = Uncompressed(Files)
<1>1. Files' = Files
  BY DEF Files
<1> QED BY <1>1 DEF BuildIndex

\* The parts of a release are what the loader takes for such.
LEMMA PartsTyped ==
  ASSUME RecordsInv
  PROVE  /\ Descriptors \in SUBSET Descriptor /\ BuildIndex(records) \in Index
         /\ Files \in SUBSET File
         /\ ContentDigest(Descriptors, BuildIndex(records)) \in (SUBSET Descriptor) \X Index
<1>1. records \subseteq Raw
  <2>1. \A i \in 1 .. Cardinality(records) : bulk[i] \in Raw
    BY FS_CardinalityType DEF RecordsInv
  <2> QED BY <2>1 DEF RecordsInv
<1>2. \A r \in records : /\ Parsed[r].id \in Id /\ Parsed[r].names \subseteq Name
                         /\ DeflatedBytes[r] \in Nat
  BY <1>1, RecordAssumption DEF RecordsInv, Record
<1>3. Descriptors \in SUBSET Descriptor /\ Files \in SUBSET File
  BY <1>1, <1>2 DEF Descriptors, Descriptor, Files, File
<1>4. BuildIndex(records) \in Index
  <2> DEFINE names == UNION {Parsed[r].names : r \in records}
  <2>1. names \in SUBSET Name
    BY <1>2
  <2>2. BuildIndex(records) \in [names -> SUBSET Id]
    BY <1>2 DEF BuildIndex
  <2> QED BY <2>1, <2>2 DEF Index
<1> QED BY <1>3, <1>4 DEF ContentDigest

LEMMA DescribeLoad ==
  ASSUME IInv, LoadInv, Describe, UNCHANGED <<bulk, description, altered>>
  PROVE  LoadInv'
<1>1. /\ pc = "records" /\ pc' = "attempt" /\ code' = code
      /\ UNCHANGED <<bulk, records, measured, archive>> /\ Cardinality(records) = Len(bulk)
  BY DEF Describe, GoesTo
<1>2. manifest' = [content_digest |-> ContentDigest(Descriptors, BuildIndex(records)),
                   review_status |-> AggregateReviewStatus(records),
                   records |-> Descriptors,
                   archive_bytes |-> 0, compressed |-> 0, uncompressed |-> 0,
                   signature |-> Unsigned]
  BY DEF Describe, Descriptors
<1>3. AggregateReviewStatus(records) \in {"REVIEWED", "UNREVIEWED", "MIXED"}
  <2> DEFINE statuses == {Parsed[r].status : r \in records}
  <2>1. records # {}
    <3>1. Cardinality(records) # 0
      BY <1>1 DEF LoadInv
    <3> QED BY <3>1, FS_EmptySet
  <2>2. statuses # {} /\ statuses \subseteq {"REVIEWED", "UNREVIEWED"}
    BY <2>1 DEF IInv, RecordsInv, Record
  <2>3. (CHOOSE s \in statuses : TRUE) \in statuses
    BY <2>2
  <2> QED BY <2>2, <2>3 DEF AggregateReviewStatus
<1>4. manifest' \in Manifest(Signature)
  BY <1>2, <1>3, PartsTyped DEF IInv, Manifest, Signature
<1>5. /\ Compressed(Files)' = Compressed(Files) /\ Uncompressed(Files)' = Uncompressed(Files)
      /\ code' # "unverified"
  BY <1>1, SameFilesKept DEF LoadInv
<1> QED BY <1>1, <1>4, <1>5 DEF LoadInv, LoadsUnlessTooLarge

\* A manifest signed with the key and told other numbers is a manifest.
LEMMA SignedTyped ==
  ASSUME NEW m \in Manifest(Signature), NEW a \in Nat, NEW b \in Nat, NEW c \in Nat
  PROVE  [content_digest |-> m.content_digest, review_status |-> m.review_status,
          records |-> m.records, archive_bytes |-> a, compressed |-> b, uncompressed |-> c,
          signature |-> [key |-> Key, payload |-> Payload(m)]] \in Manifest(Signature)
<1>1. /\ m.content_digest \in (SUBSET Descriptor) \X Index
      /\ m.review_status \in {"REVIEWED", "UNREVIEWED", "MIXED"}
      /\ m.records \in SUBSET Descriptor
      /\ m.archive_bytes \in Nat /\ m.compressed \in Nat /\ m.uncompressed \in Nat
      /\ Fields(m)
  BY DEF Manifest, Fields
<1>2. Payload(m) = [content_digest |-> m.content_digest, review_status |-> m.review_status,
                    records |-> m.records, archive_bytes |-> m.archive_bytes,
                    compressed |-> m.compressed, uncompressed |-> m.uncompressed,
                    signature |-> Unsigned]
  BY <1>1, OneField DEF Payload
<1>3. Payload(m) \in Manifest({Unsigned})
  BY <1>1, <1>2 DEF Manifest
<1>4. [key |-> Key, payload |-> Payload(m)] \in Signature
  BY <1>3 DEF Signature
<1> QED BY <1>1, <1>4 DEF Manifest

LEMMA AttemptLoad ==
  ASSUME IInv, LoadInv, Attempt, UNCHANGED <<bulk, description, altered>>
  PROVE  LoadInv'
<1> DEFINE signed == Signed(manifest, Key)
<1>1. /\ pc = "attempt" /\ code # "unverified" /\ manifest \in Manifest(Signature)
      /\ Fields(manifest) /\ manifest.records = Descriptors
      /\ UNCHANGED <<bulk, records, measured>>
  BY DEF Attempt, LoadInv, IInv, ManifestInv
<1>2. /\ Compressed(Files)' = Compressed(Files) /\ Uncompressed(Files)' = Uncompressed(Files)
      /\ Files' = Files /\ BuildIndex(records)' = BuildIndex(records)
  BY <1>1, SameFilesKept
<1>3. CASE Fails("limit")
  BY <1>1, <1>2, <1>3 DEF LoadInv, Fails, LoadsUnlessTooLarge
<1>4. CASE /\ archive' = WriteArchive(signed)
           /\ manifest' = Measured(signed)
           /\ GoesTo(IF manifest' = signed THEN "verify" ELSE "attempt")
  <2>1. manifest' = [content_digest |-> manifest.content_digest,
                     review_status |-> manifest.review_status,
                     records |-> manifest.records, archive_bytes |-> ArchiveLength(signed),
                     compressed |-> measured.compressed,
                     uncompressed |-> measured.uncompressed,
                     signature |-> [key |-> Key, payload |-> Payload(manifest)]]
    BY <1>1, <1>4, MeasuredManifest, Zenon
  <2>2. /\ ArchiveLength(signed) \in Nat
        /\ measured.compressed \in Nat /\ measured.uncompressed \in Nat
    <3>1. /\ manifest.archive_bytes \in Nat /\ manifest.compressed \in Nat
          /\ manifest.uncompressed \in Nat
      BY <1>1 DEF Manifest
    <3>2. /\ signed.records = Descriptors /\ signed.archive_bytes \in Nat
          /\ signed.compressed \in Nat /\ signed.uncompressed \in Nat
      BY <1>1, <3>1 DEF Signed, Fields
    <3> HIDE DEF signed
    <3> QED BY <3>2, LengthOfArchive, DigitsType, BaseType DEF IInv
  <2>3. manifest' \in Manifest(Signature)
    BY <1>1, <2>1, <2>2, SignedTyped
  <2>4. /\ code' = code /\ pc' \in {"verify", "attempt"}
        /\ pc' = "verify" => manifest' = signed
    BY <1>4 DEF GoesTo
  <2>5. manifest' = signed =>
          archive' = [manifest |-> manifest', index |-> BuildIndex(records), files |-> Files,
                      length |-> manifest'.archive_bytes]
    <3>1. archive' = [manifest |-> signed, index |-> BuildIndex(records), files |-> Files,
                      length |-> ArchiveLength(signed)]
      BY <1>4 DEF WriteArchive, Files
    <3>2. manifest'.archive_bytes = ArchiveLength(signed)
      BY <2>1
    <3> QED BY <3>1, <3>2
  <2>6. /\ manifest'.compressed = measured.compressed
        /\ manifest'.uncompressed = measured.uncompressed
    BY <2>1
  <2> QED BY <1>1, <1>2, <2>3, <2>4, <2>5, <2>6 DEF LoadInv, LoadsUnlessTooLarge
<1> QED BY <1>3, <1>4 DEF Attempt

\* What the last attempt has written passes every test of the loader but those
\* of its limits.
LEMMA Loads ==
  ASSUME IInv, LoadInv, pc = "verify", FitsLoader(archive)
  PROVE  LoadArchive(archive, Key)
<1>1. /\ archive = [manifest |-> manifest, index |-> BuildIndex(records), files |-> Files,
                    length |-> manifest.archive_bytes]
      /\ manifest \in Manifest(Signature) /\ manifest.records = Descriptors
      /\ manifest.content_digest = ContentDigest(Descriptors, BuildIndex(records))
      /\ manifest.signature = [key |-> Key, payload |-> Payload(manifest)]
      /\ manifest.compressed = measured.compressed
      /\ manifest.uncompressed = measured.uncompressed
      /\ measured = [compressed |-> Compressed(Files), uncompressed |-> Uncompressed(Files)]
      /\ Cardinality(records) = Len(bulk) /\ Len(bulk) \in 1 .. MaxRecords
  BY DEF IInv, LoadInv, ManifestInv, ArchiveInv
<1>2. /\ archive.manifest = manifest /\ archive.index = BuildIndex(records)
      /\ archive.files = Files /\ archive.length = manifest.archive_bytes
  BY <1>1
<1>3. RecordsInv /\ records # {}
  <2>1. Cardinality(records) # 0
    BY <1>1
  <2> QED BY <2>1, FS_EmptySet DEF IInv
<1>4. archive \notin {Absent, Torn}
  <2>1. archive \in Archive
    BY <1>1, <1>3, PartsTyped DEF Archive, Manifest
  <2> QED BY <2>1, ArchiveAssumption
<1>5. UniqueIds(Files) /\ UniqueIds(Descriptors)
  BY <1>3 DEF UniqueIds, Files, Descriptors, RecordsInv
<1>6. ValidateManifest(manifest, manifest.archive_bytes, Key)
  <2>1. manifest.compressed > 0 /\ manifest.uncompressed > 0
    BY <1>1, <1>3 DEF LoadInv
  <2>2. Descriptors # {} /\ Cardinality(Descriptors) <= MaxRecords
    <3>1. Cardinality(Descriptors) = Len(bulk)
      BY <1>1, <1>3, OneEach
    <3>2. Cardinality(Descriptors) <= MaxRecords
      BY <1>1, <3>1, SizeAssumption
    <3>3. Descriptors # {}
      BY <1>3 DEF Descriptors
    <3> QED BY <3>2, <3>3
  <2> QED BY <1>1, <1>5, <2>1, <2>2 DEF ValidateManifest
<1>7. ValidateIndex(BuildIndex(records), Descriptors)
  <2> SUFFICES ASSUME NEW n \in DOMAIN BuildIndex(records)
               PROVE  /\ BuildIndex(records)[n] # {}
                      /\ BuildIndex(records)[n] \subseteq {d.id : d \in Descriptors}
    BY DEF ValidateIndex
  <2>1. \E s \in records : n \in Parsed[s].names
    BY DEF BuildIndex
  <2>2. BuildIndex(records)[n] = {Parsed[r].id : r \in {s \in records : n \in Parsed[s].names}}
    BY DEF BuildIndex
  <2>3. \A r \in records : Parsed[r].id \in {d.id : d \in Descriptors}
    <3>1. \A r \in records : [id |-> Parsed[r].id, digest |-> r] \in Descriptors
      BY DEF Descriptors
    <3>2. \A r \in records :
            \E d \in Descriptors : d.id = Parsed[r].id
      BY <3>1
    <3> QED BY <3>2
  <2> QED BY <2>1, <2>2, <2>3
<1>8. \A d \in Descriptors : \E f \in Files :
        /\ f.id = d.id /\ f.data = d.digest
        /\ ParseRecord(f.data) # Corrupt /\ ParseRecord(f.data).id = d.id
  <2> SUFFICES ASSUME NEW r \in records
               PROVE  \E f \in Files : /\ f.id = Parsed[r].id /\ f.data = r
                                       /\ ParseRecord(f.data) # Corrupt
                                       /\ ParseRecord(f.data).id = Parsed[r].id
    BY DEF Descriptors
  <2>1. Parsed[r] # Corrupt
    BY <1>3, RecordAssumption DEF RecordsInv
  <2>2. [id |-> Parsed[r].id, data |-> r, bytes |-> DeflatedBytes[r]] \in Files
    BY DEF Files
  <2> QED BY <2>1, <2>2 DEF ParseRecord
<1>9. Cardinality(Files) = Cardinality(Descriptors)
  BY <1>3, OneEach
<1>10. manifest.compressed = Compressed(Files) /\ manifest.uncompressed = Uncompressed(Files)
  BY <1>1
<1> QED BY <1>1, <1>2, <1>4, <1>5, <1>6, <1>7, <1>8, <1>9, <1>10 DEF LoadArchive

LEMMA StepLoad ==
  ASSUME IInv, LoadInv, [Next]_vars
  PROVE  LoadInv'
<1>1. CASE TakeRecord /\ UNCHANGED <<bulk, description, altered>>
  BY <1>1, TakeRecordLoad
<1>2. CASE Describe /\ UNCHANGED <<bulk, description, altered>>
  BY <1>2, DescribeLoad
<1>3. CASE Attempt /\ UNCHANGED <<bulk, description, altered>>
  BY <1>3, AttemptLoad
<1>4. CASE GivesUp
  BY <1>4, GivesUpInv
<1>5. ASSUME UNCHANGED <<bulk, records, measured>>,
             pc' \notin {"extract", "failed"} => Len(bulk) \in 1 .. MaxRecords,
             pc' \notin {"attempt", "verify"},
             code' = "unverified" => pc' = "failed",
             LoadsUnlessTooLarge'
      PROVE  LoadInv'
  BY <1>5, SameFilesKept DEF LoadInv
<1>6. CASE Extract /\ UNCHANGED <<bulk, description, altered>>
  <2>1. code' # "unverified"
    BY <1>6 DEF Extract, Fails, GoesTo, LoadInv
  <2> QED BY <1>5, <1>6, <2>1 DEF Extract, Fails, GoesTo, LoadsUnlessTooLarge
<1>7. CASE Verify /\ UNCHANGED <<bulk, description, altered>>
  <2>1. /\ UNCHANGED <<bulk, description, records, measured, archive>> /\ pc = "verify"
        /\ code # "unverified" /\ Len(bulk) \in 1 .. MaxRecords
    BY <1>7 DEF Verify, LoadInv
  <2>2. CASE LoadArchive(archive, Key)
    BY <1>5, <1>7, <2>1, <2>2 DEF Verify, GoesTo, LoadsUnlessTooLarge
  <2>3. CASE ~ LoadArchive(archive, Key)
    <3>1. ~ FitsLoader(archive)
      BY <2>1, <2>3, Loads
    <3>2. FitsLoader(archive)' = FitsLoader(archive)
      BY <2>1 DEF FitsLoader, ManifestBytes, NumbersOf, Digits, IndexBytes
    <3> QED BY <1>5, <1>7, <2>1, <2>3, <3>1, <3>2 DEF Verify, Fails, LoadsUnlessTooLarge
  <2> QED BY <2>2, <2>3
<1>8. CASE Write /\ UNCHANGED <<bulk, description, altered>>
  <2>1. code' # "unverified" /\ Len(bulk) \in 1 .. MaxRecords
    BY <1>8 DEF Write, Fails, GoesTo, LoadInv
  <2> QED BY <1>5, <1>8, <2>1 DEF Write, Fails, GoesTo, LoadsUnlessTooLarge
<1>9. CASE Alter
  <2>1. /\ pc = "written" /\ UNCHANGED <<bulk, records, measured, pc, code>>
        /\ code # "unverified" /\ Len(bulk) \in 1 .. MaxRecords
    BY <1>9 DEF Alter, LoadInv
  <2> QED BY <1>5, <2>1 DEF LoadsUnlessTooLarge
<1>10. CASE UNCHANGED vars
  <2>1. UNCHANGED <<bulk, description, pc, records, measured, manifest, archive, code>>
    BY <1>10 DEF vars
  <2>2. FitsLoader(archive)' = FitsLoader(archive)
    BY <2>1 DEF FitsLoader, ManifestBytes, NumbersOf, Digits, IndexBytes
  <2>3. manifest \in Manifest(Signature) => manifest' \in Manifest(Signature)'
    BY <2>1 DEF Manifest, Signature, Unsigned, Descriptor, Index
  <2> QED BY <2>1, <2>2, <2>3, SameFilesKept DEF LoadInv, LoadsUnlessTooLarge
<1> QED BY <1>1, <1>2, <1>3, <1>4, <1>6, <1>7, <1>8, <1>9, <1>10 DEF Next, Step

\* The only way for BuildArchive to fail the test of what it has built is a limit
\* that LoadArchive has and BuildArchive has not.
THEOREM BuiltLoads == Spec => []LoadsUnlessTooLarge
<1>1. IInv /\ LoadInv /\ [Next]_vars => LoadInv'
  BY StepLoad
<1>2. LoadInv => LoadsUnlessTooLarge
  BY DEF LoadInv
<1> QED BY InitLoad, <1>1, <1>2, Invariance, PTL DEF Spec

----------------------------------------------------------------------------
\* The numbers of a manifest are numbers, the lengths add up, and no fifth
\* attempt is made.
THEOREM TypeCorrect == Spec => []TypeOK
<1>1. Init => TypeOK
  BY RecordAssumption, SizeAssumption DEF Init, TypeOK, Building, Outcome
<1>2. IInv /\ TypeOK /\ [Next]_vars => TypeOK'
  <2> SUFFICES ASSUME IInv, TypeOK, [Next]_vars PROVE TypeOK'
    OBVIOUS
  <2>1. CASE Extract /\ UNCHANGED <<bulk, description, altered>>
    BY <2>1 DEF Extract, Fails, GoesTo, TypeOK, Building, Outcome
  <2>2. CASE TakeRecord /\ UNCHANGED <<bulk, description, altered>>
    <3> DEFINE raw == bulk[Cardinality(records) + 1]
    <3>1. raw \in Raw
      BY <2>2, FS_CardinalityType DEF IInv, RecordsInv, TakeRecord
    <3>2. RecordsInv'
      BY <2>2, TakeRecordInv DEF IInv
    <3>3. records' \subseteq Raw
      BY <2>2, <3>1 DEF TakeRecord, TypeOK
    <3>4. UNCHANGED <<bulk, description, altered, manifest, attempt>>
      BY <2>2 DEF TakeRecord
    <3>5. pc' \in Building \cup {"written", "failed"} /\ code' \in Outcome
      BY <2>2 DEF TakeRecord, Fails, GoesTo, TypeOK, Building, Outcome
    <3> QED BY <3>2, <3>3, <3>4, <3>5 DEF TypeOK, RecordsInv
  <2>3. CASE Describe /\ UNCHANGED <<bulk, description, altered>>
    <3>1. /\ manifest'.archive_bytes = 0 /\ manifest'.compressed = 0
          /\ manifest'.uncompressed = 0
      BY <2>3 DEF Describe
    <3> QED BY <2>3, <3>1 DEF Describe, GoesTo, TypeOK, Building, Outcome, Numbers
  <2>4. CASE Attempt /\ UNCHANGED <<bulk, description, altered>>
    <3>1. IInv'
      BY <2>4, AttemptStep
    <3>2. /\ UNCHANGED <<bulk, description, altered, records, measured>>
          /\ attempt' \in 0 .. 4
      BY <2>4 DEF Attempt, Attempts, TypeOK
    <3>3. pc' \in Building \cup {"written", "failed"} /\ code' \in Outcome
      BY <2>4 DEF Attempt, Fails, GoesTo, TypeOK, Building, Outcome
    <3>4. manifest' # Absent =>
            /\ manifest'.archive_bytes \in Nat /\ manifest'.compressed \in Nat
            /\ manifest'.uncompressed \in Nat
      BY <2>4, AttemptNumbers DEF TypeOK, Numbers
    <3> QED BY <3>2, <3>3, <3>4 DEF TypeOK, Numbers
  <2>5. CASE GivesUp
    BY <2>5, GivesUpInv
  <2>6. CASE Verify /\ UNCHANGED <<bulk, description, altered>>
    BY <2>6 DEF Verify, Fails, GoesTo, TypeOK, Building, Outcome
  <2>7. CASE Write /\ UNCHANGED <<bulk, description, altered>>
    BY <2>7 DEF Write, Fails, GoesTo, TypeOK, Building, Outcome
  <2>8. CASE Alter
    BY <2>8, SizeAssumption DEF Alter, TypeOK
  <2>9. CASE UNCHANGED vars
    BY <2>9 DEF vars, TypeOK
  <2> QED BY <2>1, <2>2, <2>3, <2>4, <2>5, <2>6, <2>7, <2>8, <2>9 DEF Next, Step
<1> QED BY <1>1, <1>2, Invariance, PTL DEF Spec
=============================================================================
