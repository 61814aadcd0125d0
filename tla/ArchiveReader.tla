---------------------------- MODULE ArchiveReader ----------------------------
(***************************************************************************)
(* src/web/zip-reader.mjs, readStrictZip: one archive is read through Blob  *)
(* slices, its local entries first, each decompressed as it comes, then the *)
(* central directory that must describe the same entries, and only then are *)
(* any entries handed out.                                                  *)
(*                                                                         *)
(* An action is what runs when a read settles, up to the next read.  The    *)
(* archive is arbitrary: every header, body and stream is read once, so it  *)
(* is chosen when it is read.  Headers, names and the footer are one unit   *)
(* long; what only their syntax decides (signatures, flags, the method,     *)
(* path rules) is one rejection.  The caller may abort its signal and the   *)
(* time limits may pass at any moment.                                      *)
(***************************************************************************)
EXTENDS Naturals, Sequences

CONSTANTS
  Name,                  \* logical paths
  Crc, ZeroCrc,          \* checksums, the one of no bytes among them
  Sizes, Counts,         \* bounds: sizes of archives, entry counts of footers,
  CSizes, USizes,        \* compressed and uncompressed sizes in headers
  MaxBytes, MaxMemory, MaxFiles, MaxRatio,   \* the resource budget
  NoRecord

ASSUME CrcAssumption == ZeroCrc \in Crc
ASSUME BudgetAssumption ==
  /\ Sizes \cup Counts \cup CSizes \cup USizes \subseteq Nat
  /\ MaxBytes \in Nat \ {0} /\ MaxMemory \in Nat \ {0}
  /\ MaxFiles \in Nat \ {0} /\ MaxRatio \in Nat \ {0}

VARIABLES
  size,       \* archive.size
  end,        \* the end record: where the directory starts and ends, its count
  pc,         \* the read that is waited for
  offset,     \* of that read in the archive
  totals,     \* the state object: files, compressedBytes, observedBytes
  pending,    \* the local entry whose body is being read
  inflated,   \* bytes the entry's stream has produced
  locals,     \* localRecords
  kept,       \* visibleEntries: what the content of each file really is
  listed,     \* the central records accepted so far
  aborted,    \* the caller's signal
  late,       \* the time budget is used up
  outcome     \* how the promise settled

progress == <<end, pc, offset, totals, pending, inflated, locals, kept, listed, outcome>>
vars == <<size, progress, aborted, late>>

----------------------------------------------------------------------------
Path == [name : Name, directory : BOOLEAN]
Header == [path : Path, crc : Crc, csize : CSizes, usize : USizes,
           method : {"stored", "deflate"}]
Record == [header : Header, at : Nat]
Content == [path : Path, length : Nat, crc : Crc]
Outcome == {"none", "published", "cancelled", "limit", "invalid"}
NoEnd == [start |-> 0, limit |-> 0, entries |-> 0]

Entries(seq) == {seq[i] : i \in DOMAIN seq}
Allowance == IF MaxBytes < MaxMemory THEN MaxBytes ELSE MaxMemory

TypeOK ==
  /\ size \in Sizes
  /\ end \in [start : Nat, limit : Nat, entries : Nat]
  /\ pc \in {"start", "footer", "local", "body", "stream", "central", "settled"}
  /\ offset \in Nat
  /\ totals \in [files : Nat, compressed : Nat, observed : Nat]
  /\ pending \in Header \cup {NoRecord}
  /\ inflated \in Nat
  /\ locals \in Seq(Record) /\ listed \in Seq(Record)
  /\ kept \in Seq(Content)
  /\ aborted \in BOOLEAN /\ late \in BOOLEAN
  /\ outcome \in Outcome

Init ==
  /\ size \in Sizes
  /\ end = NoEnd
  /\ pc = "start" /\ outcome = "none"
  /\ offset = 0
  /\ totals = [files |-> 0, compressed |-> 0, observed |-> 0]
  /\ pending = NoRecord /\ inflated = 0
  /\ locals = <<>> /\ kept = <<>> /\ listed = <<>>
  /\ aborted \in BOOLEAN /\ late = FALSE

----------------------------------------------------------------------------
Settles(o) == pc' = "settled" /\ outcome' = o
ReadsNext(place) == pc' = place /\ outcome' = outcome

\* assertResourceBudget finds a limit exceeded.
OverBudget(t) ==
  \/ size > MaxBytes \/ t.observed > Allowance
  \/ t.files > MaxFiles
  \/ t.observed > MaxRatio * (IF t.compressed = 0 THEN size ELSE t.compressed)
  \/ late

\* assertBudgetState before the promise goes on to what is next.
Checked(t, next) ==
  \/ aborted /\ Settles("cancelled")
  \/ ~aborted /\ OverBudget(t) /\ Settles("limit")
  \/ ~aborted /\ ~OverBudget(t) /\ next

\* Nothing of the archive is settled by a read that was aborted or went wrong.
ReadFails ==
  /\ \/ aborted /\ Settles("cancelled")
     \/ ~aborted /\ Settles("invalid")
  /\ UNCHANGED <<end, offset, totals, pending, inflated, locals, kept, listed>>

\* Broken variants of a definition stand before it, each named for its bug.
PublishesUnchecked(t, ls, cs) ==    \* does not look at the budget again
  IF Len(cs) # end'.entries \/ Len(ls) # Len(cs) THEN Settles("invalid")
  ELSE Settles("published")

\* validateCentralDirectory's loop is over: the counts, and the last budget check.
Publishes(t, ls, cs) ==
  IF Len(cs) # end'.entries \/ Len(ls) # Len(cs) THEN Settles("invalid")
  ELSE Checked(t, Settles("published"))

\* The loop over local entries goes on, or the central directory is next.
GoesOn(t, ls) ==
  Checked(t, \/ offset' < end'.start /\ ReadsNext("local")
             \/ offset' = end'.start /\ offset' < end'.limit /\ ReadsNext("central")
             \/ offset' = end'.limit /\ Publishes(t, ls, listed))

Start ==
  /\ pc = "start"
  /\ Checked(totals, ReadsNext("footer"))
  /\ UNCHANGED <<end, offset, totals, pending, inflated, locals, kept, listed>>

\* The footer sits at end.limit; a comment may follow it.
Footer ==
  /\ pc = "footer"
  /\ \/ ReadFails
     \/ /\ ~aborted
        /\ \E e \in [start : 0 .. size, limit : 0 .. size, entries : Counts] :
             /\ e.start <= e.limit /\ e.limit < size
             /\ end' = e
             /\ offset' = 0
             /\ GoesOn(totals, locals)
        /\ UNCHANGED <<totals, pending, inflated, locals, kept, listed>>

----------------------------------------------------------------------------
\* readStrictZip's checks of a local header, but for the ratio and the budget.
Accepts(h) ==
  /\ offset + 1 + h.csize <= end.start
  /\ \A r \in Entries(locals) : r.header.path.name # h.path.name
  /\ h.path.directory => h.csize = 0 /\ h.usize = 0 /\ h.crc = ZeroCrc
  /\ h.usize > 0 => h.csize > 0

Counted(h) ==
  [totals EXCEPT !.files = @ + 1, !.compressed = @ + h.csize]

\* The entry h ends here, with the observed bytes.
Appends(h, t) ==
  /\ locals' = Append(locals, [header |-> h, at |-> offset])
  /\ offset' = offset + 1 + h.csize
  /\ totals' = t
  /\ GoesOn(t, locals')

LocalHeader ==
  /\ pc = "local"
  /\ \/ ReadFails
     \/ /\ ~aborted
        /\ UNCHANGED <<end, inflated, kept, listed>>
        /\ \E h \in Header :
             /\ Accepts(h)
             /\ \/ /\ \/ h.usize > MaxRatio * h.csize
                      \/ totals.observed + h.usize > Allowance
                   /\ Settles("limit")
                   /\ UNCHANGED <<offset, totals, pending, locals>>
                \/ /\ h.usize <= MaxRatio * h.csize
                   /\ h.path.directory
                   /\ Appends(h, Counted(h))
                   /\ pending' = pending
                \/ /\ h.usize <= MaxRatio * h.csize
                   /\ ~h.path.directory
                   /\ totals.observed + h.usize <= Allowance
                   /\ pending' = h
                   /\ totals' = Counted(h)
                   /\ ReadsNext("body")
                   /\ UNCHANGED <<offset, locals>>

\* The whole content of the pending entry is there: length bytes with this crc.
Keep(length, crc) ==
  IF length # pending.usize \/ crc # pending.crc
  THEN Settles("invalid") /\ UNCHANGED <<offset, totals, locals, kept>>
  ELSE /\ kept' = Append(kept, [path |-> pending.path, length |-> length, crc |-> crc])
       /\ Appends(pending, [totals EXCEPT !.observed = @ + length])

Body ==
  /\ pc = "body"
  /\ \/ ReadFails
     \/ /\ ~aborted /\ pending.method = "stored"
        /\ UNCHANGED <<end, inflated, listed>>
        /\ \E crc \in Crc : Keep(pending.csize, crc)
        /\ pending' = NoRecord
     \/ /\ ~aborted /\ pending.method = "deflate"
        /\ ReadsNext("stream")
        /\ UNCHANGED <<end, offset, totals, pending, inflated, locals, kept, listed>>

\* The decompression stream gives a chunk, ends, or fails.  The signal is looked
\* at before each read of it, not after.  Chunks too long are all alike.
ChunkUnmeasured(n) ==    \* counts a chunk only once the entry is complete
  IF aborted
  THEN Settles("cancelled") /\ inflated' = inflated
  ELSE ReadsNext("stream") /\ inflated' = inflated + n

Chunk(n) ==
  IF inflated + n > pending.usize \/ inflated + n > Allowance - totals.observed
  THEN Settles("limit") /\ inflated' = inflated
  ELSE /\ IF aborted THEN Settles("cancelled") ELSE ReadsNext("stream")
       /\ inflated' = inflated + n

Stream ==
  /\ pc = "stream"
  /\ \/ /\ Settles("invalid")
        /\ UNCHANGED <<end, offset, totals, pending, inflated, locals, kept, listed>>
     \/ /\ \E n \in 1 .. pending.usize + 1 - inflated : Chunk(n)
        /\ UNCHANGED <<end, offset, totals, pending, locals, kept, listed>>
     \/ /\ UNCHANGED <<end, listed>>
        /\ \E crc \in Crc : Keep(inflated, crc)
        /\ pending' = NoRecord /\ inflated' = 0

----------------------------------------------------------------------------
\* A central record describes a local entry that none has described before.
DescribesPath(c) ==    \* does not look the record up at its offset
  /\ \E r \in Entries(locals) : r.header.path = c.header.path
  /\ \A r \in Entries(listed) : r.header.path # c.header.path

Describes(c) ==
  /\ c \in Entries(locals)
  /\ \A r \in Entries(listed) : r.header.path # c.header.path

Central ==
  /\ pc = "central"
  /\ \/ ReadFails
     \/ /\ ~aborted
        /\ \E c \in [header : Header, at : 0 .. end.start] :
             /\ Describes(c)
             /\ offset' = offset + 1
             /\ listed' = Append(listed, c)
        /\ end' = end
        /\ \/ offset' < end.limit /\ ReadsNext("central")
           \/ offset' = end.limit /\ Publishes(totals, locals, listed')
        /\ UNCHANGED <<totals, pending, inflated, locals, kept>>

Step == Start \/ Footer \/ LocalHeader \/ Body \/ Stream \/ Central

Abort == pc # "settled" /\ ~aborted /\ aborted' = TRUE /\ UNCHANGED <<size, progress, late>>
Clock == pc # "settled" /\ ~late /\ late' = TRUE /\ UNCHANGED <<size, progress, aborted>>

Next ==
  \/ Step /\ UNCHANGED <<size, aborted, late>>
  \/ Abort
  \/ Clock

Spec == Init /\ [][Next]_vars

----------------------------------------------------------------------------
\* What is handed out is the whole archive and nothing else: the local entries
\* tile the bytes before the directory, the directory lists each of them once,
\* logical paths are unique, and every file's content has the declared size and
\* checksum ("holds no entry out to a caller until every local and central ZIP
\* record, size, CRC, duplicate, path, and resource check has passed", line 19).
PublishedIsWhole ==
  outcome = "published" =>
    /\ \A i \in DOMAIN locals :
         /\ locals[i].at = (IF i = 1 THEN 0
                            ELSE locals[i - 1].at + 1 + locals[i - 1].header.csize)
         /\ i = Len(locals) => locals[i].at + 1 + locals[i].header.csize = end.start
    /\ Entries(listed) = Entries(locals)
    /\ Len(listed) = Len(locals) /\ Len(locals) = end.entries
    /\ \A i, k \in DOMAIN locals :
         locals[i].header.path.name = locals[k].header.path.name => i = k
    /\ Entries(kept) = {[path |-> r.header.path, length |-> r.header.usize,
                         crc |-> r.header.crc] :
                        r \in {l \in Entries(locals) : ~l.header.path.directory}}

\* The bytes held, of finished entries and of the one being decompressed, never
\* exceed what the budget allows, whatever the headers declare.
MemoryIsBounded == totals.observed + inflated <= Allowance

\* A reading whose caller has given up, or whose time is over, publishes nothing,
\* and after an abort no read is begun: the one in flight is the last.
StopsOnTime ==
  [][ /\ outcome' # outcome /\ outcome' = "published" => ~aborted /\ ~late
      /\ aborted /\ progress' # progress => pc' = "settled" ]_vars
=============================================================================
