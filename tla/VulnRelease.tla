----------------------------- MODULE VulnRelease -----------------------------
(***************************************************************************)
(* The way of an offline vulnerability release: cmd/vulncheck-vulndb-pack   *)
(* extracts the records of the official bulk artifact, BuildArchive         *)
(* (internal/vulndb/builder.go) signs them into an archive whose manifest   *)
(* tells the archive's own length, LoadArchive (loader.go) verifies it, and *)
(* it is written.  The file may be torn, and altered on its way; whoever    *)
(* loads it trusts one public key.                                          *)
(*                                                                         *)
(* A raw record is opaque: what parsing makes of it, its length and what    *)
(* deflate makes of that are constants.  Digests and signatures are ideal:  *)
(* a digest is what it covers, and a signature under the key is made by no  *)
(* one else.  The descriptions of a release (URL, times, revision, key id)  *)
(* are their length only.                                                   *)
(***************************************************************************)
EXTENDS Naturals, Sequences, FiniteSets, FiniteSetsExt

CONSTANTS
  Raw,                    \* the bytes of records
  Parsed,                 \* what is made of each: a record, or Corrupt
  Id, Name,               \* of records, and of the packages they affect
  RawBytes, DeflatedBytes,
  Bulk,                   \* the bulk artifacts there may be: sequences of records
  Descriptions,           \* lengths of what a manifest says besides
  DescriptorBytes, EntryBytes, FileBytes,    \* of a descriptor, an index entry, a header
  Powers,                 \* 1, 10, 100 and so on, as far as numbers go
  MaxArchiveBytes, MaxRecordBytes, MaxRecords,
  MaxAlterations,         \* a bound
  Key, OtherKey,          \* the release's key, and what others sign with
  Corrupt, Torn, Absent

Record == [id : Id, names : SUBSET Name \ {{}}, status : {"REVIEWED", "UNREVIEWED"}]

ASSUME RecordAssumption ==
  /\ Parsed \in [Raw -> Record \cup {Corrupt}] /\ Corrupt \notin Record
  /\ RawBytes \in [Raw -> Nat \ {0}] /\ DeflatedBytes \in [Raw -> Nat \ {0}]
  /\ Bulk \subseteq Seq(Raw) /\ IsFiniteSet(Name)
ASSUME SizeAssumption ==
  /\ Descriptions \subseteq Nat /\ FileBytes \in Nat
  /\ DescriptorBytes \in Nat /\ EntryBytes \in Nat
  /\ MaxArchiveBytes \in Nat /\ MaxRecordBytes \in Nat /\ MaxRecords \in Nat
  /\ MaxAlterations \in Nat
ASSUME KeyAssumption == Key \notin {OtherKey, Absent}
ASSUME PowersAssumption ==
  /\ IsFiniteSet(Powers) /\ Powers \subseteq Nat \ {0} /\ 1 \in Powers
  /\ \A p, q \in Powers : p < q => 10 * p <= q

\* A manifest has more bytes than three numbers in it can have digits.
ASSUME DescriptionAssumption ==
  \A d \in Descriptions : d >= 3 * Cardinality(Powers)

VARIABLES
  bulk,           \* the records of the bulk artifact
  description,    \* the length of what this release says of itself
  pc,             \* where vulncheck-vulndb-pack is
  records,        \* the records taken so far
  measured,       \* their lengths in the archive and unpacked
  manifest, attempt,
  archive,        \* what this attempt has written, then what is published
  code,           \* why the tool failed
  altered         \* how often what is published was altered

vars == <<bulk, description, pc, records, measured, manifest, attempt, archive, code, altered>>

----------------------------------------------------------------------------
\* Digits of a number in the manifest, which is JSON.
Digits(n) == IF n = 0 THEN 1 ELSE Cardinality({p \in Powers : p <= n})

ParseRecord(raw) == Parsed[raw]
Ids(raws) == {Parsed[r].id : r \in raws}

BuildIndex(raws) ==
  [n \in UNION {Parsed[r].names : r \in raws} |->
     {Parsed[r].id : r \in {s \in raws : n \in Parsed[s].names}}]

AggregateReviewStatus(raws) ==
  LET statuses == {Parsed[r].status : r \in raws}
  IN  IF Cardinality(statuses) = 2 THEN "MIXED" ELSE CHOOSE s \in statuses : TRUE

\* Broken variants of a definition stand before it, each named for its bug.
ContentDigestOfRecords(descriptors, index) == <<descriptors>>   \* without the index

ContentDigest(descriptors, index) == <<descriptors, index>>

NumbersOf(m) == Digits(m.archive_bytes) + Digits(m.compressed) + Digits(m.uncompressed)

ManifestBytes(m) == description + DescriptorBytes * Cardinality(m.records) + NumbersOf(m)
IndexBytes(index) == EntryBytes * (1 + Cardinality(DOMAIN index))

\* manifestPayload, and what ed25519 makes of it.
Unsigned == [key |-> Absent, payload |-> Absent]
Payload(m) == [m EXCEPT !.signature = Unsigned]
Signed(m, key) == [m EXCEPT !.signature = [key |-> key, payload |-> Payload(m)]]

\* The files there may be, none of which is what stands for no file or a torn one.
Descriptor == [id : Id, digest : Raw]
Index == UNION {[names -> SUBSET Id] : names \in SUBSET Name}
Manifest(signatures) ==
  [content_digest : (SUBSET Descriptor) \X Index,
   review_status : {"REVIEWED", "UNREVIEWED", "MIXED"}, records : SUBSET Descriptor,
   archive_bytes : Nat, compressed : Nat, uncompressed : Nat, signature : signatures]
Signature == {Unsigned} \cup [key : {Key, OtherKey}, payload : Manifest({Unsigned})]
File == [id : Id, data : Raw, bytes : Nat]
Archive == [manifest : Manifest(Signature), index : Index, files : SUBSET File, length : Nat]

ASSUME ArchiveAssumption == Absent \notin Archive /\ Torn \notin Archive

Numbers == [archive_bytes : Nat, compressed : Nat, uncompressed : Nat]
Building == {"extract", "records", "attempt", "verify", "write"}
Outcome == {"none", "input", "duplicate", "limit", "unstable", "unverified", "torn"}

TypeOK ==
  /\ bulk \in Seq(Raw) /\ description \in Nat
  /\ pc \in Building \cup {"written", "failed"}
  /\ records \subseteq Raw
  /\ measured \in [compressed : Nat, uncompressed : Nat]
  /\ attempt \in 0 .. 4
  /\ manifest # Absent =>
       [archive_bytes |-> manifest.archive_bytes, compressed |-> manifest.compressed,
        uncompressed |-> manifest.uncompressed] \in Numbers
  /\ code \in Outcome
  /\ altered \in 0 .. MaxAlterations

Init ==
  /\ bulk \in Bulk /\ description \in Descriptions
  /\ pc = "extract"
  /\ records = {} /\ measured = [compressed |-> 0, uncompressed |-> 0]
  /\ manifest = Absent /\ attempt = 0
  /\ archive = Absent /\ code = "none" /\ altered = 0

Fails(why) == pc' = "failed" /\ code' = why
GoesTo(place) == pc' = place /\ code' = code

----------------------------------------------------------------------------
\* LoadArchive.

UniqueIds(set) == \A x, y \in set : x.id = y.id => x = y

ValidateManifest(m, length, key) ==
  /\ m.compressed > 0 /\ m.uncompressed > 0
  /\ m.records # {} /\ Cardinality(m.records) <= MaxRecords
  /\ m.archive_bytes = length
  /\ m.signature = [key |-> key, payload |-> Payload(m)]
  /\ UniqueIds(m.records)

ValidateIndex(index, descriptors) ==
  \A n \in DOMAIN index : /\ index[n] # {}
                          /\ index[n] \subseteq {d.id : d \in descriptors}

Compressed(files) == MapThenSumSet(LAMBDA f : f.bytes, files)
Uncompressed(files) == MapThenSumSet(LAMBDA f : RawBytes[f.data], files)

\* No entry, and not all of them unpacked, exceed the loader's limits.
FitsLoader(a) ==
  /\ a.length \in 1 .. MaxArchiveBytes /\ Cardinality(a.files) <= MaxRecords
  /\ ManifestBytes(a.manifest) <= MaxRecordBytes /\ IndexBytes(a.index) <= MaxRecordBytes
  /\ \A f \in a.files : RawBytes[f.data] <= MaxRecordBytes /\ f.bytes <= MaxRecordBytes
  /\ ManifestBytes(a.manifest) + IndexBytes(a.index) + Uncompressed(a.files) <= MaxArchiveBytes

LoadArchive(a, key) ==
  /\ a \notin {Absent, Torn}
  /\ FitsLoader(a)
  /\ UniqueIds(a.files)
  /\ ValidateManifest(a.manifest, a.length, key)
  /\ a.manifest.content_digest = ContentDigest(a.manifest.records, a.index)
  /\ ValidateIndex(a.index, a.manifest.records)
  /\ \A d \in a.manifest.records : \E f \in a.files :
       /\ f.id = d.id /\ f.data = d.digest
       /\ ParseRecord(f.data) # Corrupt /\ ParseRecord(f.data).id = d.id
  /\ Cardinality(a.files) = Cardinality(a.manifest.records)
  /\ a.manifest.compressed = Compressed(a.files)
  /\ a.manifest.uncompressed = Uncompressed(a.files)

----------------------------------------------------------------------------
\* run of vulncheck-vulndb-pack.

\* ExtractOfficialRecords, and the count BuildArchive asks for.
Extract ==
  /\ pc = "extract"
  /\ IF Len(bulk) \in 1 .. MaxRecords THEN GoesTo("records") ELSE Fails("input")
  /\ UNCHANGED <<records, measured, manifest, attempt, archive>>

TakeRecord ==
  /\ pc = "records" /\ Cardinality(records) < Len(bulk)
  /\ LET raw == bulk[Cardinality(records) + 1]
         record == ParseRecord(raw)
     IN  \/ /\ record = Corrupt \/ RawBytes[raw] > MaxRecordBytes
            /\ Fails("input") /\ UNCHANGED <<records, measured>>
         \/ /\ record # Corrupt /\ record.id \in Ids(records)
            /\ Fails("duplicate") /\ UNCHANGED <<records, measured>>
         \/ /\ record # Corrupt /\ RawBytes[raw] <= MaxRecordBytes
            /\ record.id \notin Ids(records)
            /\ records' = records \cup {raw}
            /\ measured' = [compressed |-> measured.compressed + DeflatedBytes[raw],
                            uncompressed |-> measured.uncompressed + RawBytes[raw]]
            /\ GoesTo("records")
  /\ UNCHANGED <<manifest, attempt, archive>>

Describe ==
  /\ pc = "records" /\ Cardinality(records) = Len(bulk)
  /\ LET descriptors == {[id |-> Parsed[r].id, digest |-> r] : r \in records}
     IN  manifest' = [content_digest |-> ContentDigest(descriptors, BuildIndex(records)),
                      review_status |-> AggregateReviewStatus(records),
                      records |-> descriptors,
                      archive_bytes |-> 0, compressed |-> 0, uncompressed |-> 0,
                      signature |-> Unsigned]
  /\ GoesTo("attempt")
  /\ UNCHANGED <<records, measured, attempt, archive>>

\* The length of the archive that holds m: every part is stored as it is but
\* the records, which are deflated.
ArchiveLength(m) ==
  ManifestBytes(m) + IndexBytes(BuildIndex(records)) + measured.compressed
    + FileBytes * (Cardinality(records) + 2)

WriteArchive(m) ==
  [manifest |-> m, index |-> BuildIndex(records),
   files |-> {[id |-> Parsed[r].id, data |-> r, bytes |-> DeflatedBytes[r]] : r \in records},
   length |-> ArchiveLength(m)]

Measured(m) == [m EXCEPT !.archive_bytes = ArchiveLength(m),
                         !.compressed = measured.compressed,
                         !.uncompressed = measured.uncompressed]

AttemptsThree == 3    \* one too few

Attempts == 4

AttemptSigningOnce ==    \* signs the manifest before it measures, and not again
  /\ pc = "attempt" /\ attempt < Attempts
  /\ attempt' = attempt + 1
  /\ LET signed == IF attempt = 0 THEN Signed(manifest, Key) ELSE manifest
     IN  \/ /\ ArchiveLength(signed) > MaxArchiveBytes
            /\ Fails("limit") /\ UNCHANGED <<manifest, archive>>
         \/ /\ ArchiveLength(signed) <= MaxArchiveBytes
            /\ archive' = WriteArchive(signed)
            /\ manifest' = Measured(signed)
            /\ GoesTo(IF manifest' = signed THEN "verify" ELSE "attempt")
  /\ UNCHANGED <<records, measured>>

\* The archive is written with what the manifest says so far; when it is what
\* the manifest says, it is done, and else the manifest says that.
Attempt ==
  /\ pc = "attempt" /\ attempt < Attempts
  /\ attempt' = attempt + 1
  /\ LET signed == Signed(manifest, Key)
     IN  \/ /\ ArchiveLength(signed) > MaxArchiveBytes
            /\ Fails("limit") /\ UNCHANGED <<manifest, archive>>
         \/ /\ ArchiveLength(signed) <= MaxArchiveBytes
            /\ archive' = WriteArchive(signed)
            /\ manifest' = Measured(signed)
            /\ GoesTo(IF manifest' = signed THEN "verify" ELSE "attempt")
  /\ UNCHANGED <<records, measured>>

GivesUp ==
  /\ pc = "attempt" /\ attempt = Attempts
  /\ Fails("unstable")
  /\ UNCHANGED <<records, measured, manifest, attempt, archive>>

Verify ==
  /\ pc = "verify"
  /\ IF LoadArchive(archive, Key) THEN GoesTo("write") ELSE Fails("unverified")
  /\ UNCHANGED <<records, measured, manifest, attempt, archive>>

\* os.WriteFile truncates what was there and writes: it may end in between.
Write ==
  /\ pc = "write"
  /\ \/ GoesTo("written") /\ archive' = archive
     \/ Fails("torn") /\ archive' = Torn
  /\ UNCHANGED <<records, measured, manifest, attempt>>

----------------------------------------------------------------------------
\* On its way anything about the archive may change.  Who changes the manifest
\* can make the digest fit but signs with another key, if at all.
AlteredManifests ==
  LET m == archive.manifest
      edited == {m, [m EXCEPT !.compressed = @ + 1], [m EXCEPT !.archive_bytes = @ + 1],
                 [m EXCEPT !.content_digest = ContentDigest(m.records, archive.index)]}
                \cup {[m EXCEPT !.records = @ \ {d}] : d \in m.records}
                \cup {[m EXCEPT !.records = @ \cup {d}] : d \in [id : Id, digest : Raw]}
  IN  edited \cup {Signed(e, OtherKey) : e \in edited}

AlteredIndexes ==
  LET index == archive.index
  IN  {[n \in DOMAIN index \ {gone} |-> index[n]] : gone \in DOMAIN index}
      \cup {[n \in DOMAIN index \cup {name} |-> IF n = name THEN ids ELSE index[n]] :
              name \in Name, ids \in SUBSET Id}

AlteredFiles ==
  LET files == archive.files
  IN  {files \ {f} : f \in files}
      \cup {files \cup {f} : f \in {[id |-> i, data |-> r, bytes |-> DeflatedBytes[r]] :
                                     i \in Id, r \in Raw}}
      \cup {(files \ {f}) \cup {[f EXCEPT !.bytes = @ + 1]} : f \in files}

Alter ==
  /\ pc = "written"
  /\ altered < MaxAlterations /\ altered' = altered + 1
  /\ archive' \in {[archive EXCEPT !.manifest = m] : m \in AlteredManifests}
                  \cup {[archive EXCEPT !.index = i] : i \in AlteredIndexes}
                  \cup {[archive EXCEPT !.files = f] : f \in AlteredFiles}
                  \cup {[archive EXCEPT !.length = @ + 1]}
  /\ UNCHANGED <<bulk, description, pc, records, measured, manifest, attempt, code>>

Step == Extract \/ TakeRecord \/ Describe \/ Attempt \/ GivesUp \/ Verify \/ Write

Next ==
  \/ Step /\ UNCHANGED <<bulk, description, altered>>
  \/ Alter

Spec == Init /\ [][Next]_vars

----------------------------------------------------------------------------
\* A manifest tells the length of the archive it is in, so writing one number
\* longer changes what it has to tell: four attempts always find the length
\* ("offline vulnerability archive size did not stabilize", builder.go:81).
Stabilizes == code # "unstable"

\* What is built loads, but for the sizes that only the loader bounds: an index
\* or a manifest (of some 7000 records) beyond a record's limit, a record that
\* deflating makes longer than the limit, and all of it unpacked.
LoadsUnlessTooLarge == code = "unverified" => ~FitsLoader(archive)

\* Whatever happened to it since, an archive that loads under the release's key
\* is the release: every record of the bulk artifact byte for byte, each of them
\* in the index under all names it affects, so that no lookup misses it, and
\* nothing else ("verifies the archive structure, signature, measurements, index,
\* canonical record digests", loader.go:13).
LoadedIsRelease ==
  pc = "written" /\ LoadArchive(archive, Key) =>
    LET raws == {bulk[i] : i \in DOMAIN bulk}
    IN  /\ archive.manifest = manifest
        /\ {f.data : f \in archive.files} = raws
        /\ \A n \in Name :
             {Parsed[r].id : r \in {s \in raws : n \in Parsed[s].names}} =
               IF n \in DOMAIN archive.index THEN archive.index[n] ELSE {}
=============================================================================
