----------------------------- MODULE OpfsStorage -----------------------------
(***************************************************************************)
(* src/web/opfs-storage.mjs: the analysis storage of one worker on the      *)
(* origin-private file system.  Calls queue on one promise tail; the call   *)
(* at its head is a sequence of file system requests, and anything else may *)
(* happen while it waits for one: another call, an abort of a call's        *)
(* signal, close(), or the end of the worker.                               *)
(*                                                                         *)
(* One action is the code between two awaits of file system requests, named *)
(* for the request that settled.  A request may fail at any time.  Some     *)
(* requests that follow each other are one action, because no code runs and *)
(* nothing that is visible changes between them.                            *)
(*                                                                         *)
(* The file system is external: what it does is stated where it is used.    *)
(* Contents are whole blobs: bytes written through a writable are staged    *)
(* and appear in the file only when the writable is closed.                 *)
(***************************************************************************)
EXTENDS Naturals, Sequences, FiniteSets, Functions

CONSTANTS
  Analysis, Key,    \* analysis ids (directories) and storage keys (files)
  Blob, Size,       \* values that are stored, and their sizes
  Quota,            \* quotaBytes
  Call,             \* the calls made, by their identity
  MaxFaults,        \* bound: reloads and failed removals together
  Absent, Created,  \* no such file; a file created and never committed
  NoRequest

ASSUME SizeAssumption == Size \in [Blob -> Nat] /\ Quota \in Nat \ {0}
\* A storage name has at most 256 characters, so there are finitely many.
ASSUME EntryAssumption == IsFiniteSet(Analysis) /\ IsFiniteSet(Key)
ASSUME FaultsAssumption == MaxFaults \in Nat
ASSUME ContentAssumption == Absent \notin Blob /\ Created \notin Blob /\ Absent # Created

VARIABLES
  disk,       \* the content of every file under the application's root
  faults,     \* how many reloads and failed removals there were
  rooted,     \* #root is cached
  loaded,     \* #usageLoaded
  known,      \* #knownSizes, a function on the entries it has
  used,       \* #usedBytes
  closing,    \* "open", "draining" from close() on, "closed" once it resolved
  tail,       \* the calls on #operationTail that have not settled
  request,    \* what each call asks
  pc,         \* where each call is: the request it waits for
  planned,    \* nextUsedBytes of a put, computed before its first write
  had,        \* hadExistingEntry of a put
  writable,   \* the writable of a put: "none", "open" or "aborted"
  aborted,    \* calls whose signal is aborted
  result,     \* what each call's promise is
  answer      \* what a get resolved with

instance == <<rooted, loaded, known, used, closing, tail, pc, planned, had, writable>>
vars == <<disk, faults, instance, request, aborted, result, answer>>

----------------------------------------------------------------------------
Entry == Analysis \X Key
Content == Blob \cup {Absent, Created}
Request ==
  [kind : {"put"}, entry : Entry, blob : Blob]
  \cup [kind : {"get"}, entry : Entry]
  \cup [kind : {"purgeAnalysis"}, analysis : Analysis]
  \cup [kind : {"purge"}]

ASSUME RequestAssumption == NoRequest \notin Request

Bytes(content) == IF content \in Blob THEN Size[content] ELSE 0
Total(sizes) == FoldFunction(+, 0, sizes)
DiskBytes == Total([e \in Entry |-> Bytes(disk[e])])
KnownSize(sizes, e) == IF e \in DOMAIN sizes THEN sizes[e] ELSE 0

\* The files a purge removes.
Covered(r) == {e \in Entry : r.kind = "purge" \/ e[1] = r.analysis}

closed == closing # "open"

Place == {"idle", "queued", "root", "directory", "file", "write", "commit",
          "cleanup", "read", "remove"}

TypeOK ==
  /\ disk \in [Entry -> Content]
  /\ faults \in 0 .. MaxFaults
  /\ rooted \in BOOLEAN /\ loaded \in BOOLEAN
  /\ DOMAIN known \subseteq Entry /\ \A e \in DOMAIN known : known[e] \in Nat
  /\ used \in Nat
  /\ closing \in {"open", "draining", "closed"}
  /\ tail \in Seq(Call)
  /\ request \in [Call -> Request \cup {NoRequest}]
  /\ pc \in [Call -> Place]
  /\ planned \in [Call -> Nat]
  /\ had \in [Call -> BOOLEAN]
  /\ writable \in [Call -> {"none", "open", "aborted"}]
  /\ aborted \subseteq Call
  /\ result \in [Call -> {"none", "pending", "done", "rejected", "lost"}]
  /\ answer \in [Call -> Content]

\* A new OpfsAnalysisStorage has read nothing yet of what an earlier worker left.
Init ==
  /\ disk \in [Entry -> Blob \cup {Absent}]
  /\ DiskBytes <= Quota
  /\ faults = 0
  /\ rooted = FALSE /\ loaded = FALSE
  /\ known = <<>> /\ used = 0
  /\ closing = "open"
  /\ tail = <<>>
  /\ request = [c \in Call |-> NoRequest]
  /\ pc = [c \in Call |-> "idle"]
  /\ planned = [c \in Call |-> 0]
  /\ had = [c \in Call |-> FALSE]
  /\ writable = [c \in Call |-> "none"]
  /\ aborted = {}
  /\ result = [c \in Call |-> "none"]
  /\ answer = [c \in Call |-> Absent]

----------------------------------------------------------------------------
Refused(c) == closed \/ c \in aborted

\* The call c is made.  Its promise rejects at once, or it queues.
Make(c, r) ==
  /\ request[c] = NoRequest
  /\ request' = [request EXCEPT ![c] = r]
  /\ IF Refused(c)
     THEN /\ result' = [result EXCEPT ![c] = "rejected"]
          /\ UNCHANGED <<tail, pc>>
     ELSE /\ result' = [result EXCEPT ![c] = "pending"]
          /\ tail' = Append(tail, c)
          /\ pc' = [pc EXCEPT ![c] = "queued"]
  /\ UNCHANGED <<disk, faults, rooted, loaded, known, used, closing, planned,
                 had, writable, aborted, answer>>

\* The signal of c is aborted, before the call or while it is under way; the
\* listener of abortOnSignal aborts the writable.
Signal(c) ==
  /\ c \notin aborted
  /\ result[c] \in {"none", "pending"}
  /\ aborted' = aborted \cup {c}
  /\ writable' = [writable EXCEPT ![c] = IF @ = "open" THEN "aborted" ELSE @]
  /\ UNCHANGED <<disk, faults, rooted, loaded, known, used, closing, tail,
                 request, pc, planned, had, result, answer>>

Close ==
  /\ ~closed
  /\ closing' = "draining"
  /\ writable' = [c \in Call |-> IF writable[c] = "open" THEN "aborted" ELSE writable[c]]
  /\ UNCHANGED <<disk, faults, rooted, loaded, known, used, tail, request, pc,
                 planned, had, aborted, result, answer>>

\* Broken variants of a definition stand before it, each named for its bug.
CloseResolvesEarly ==    \* does not wait for the tail
  /\ closing = "draining"
  /\ closing' = "closed"
  /\ rooted' = FALSE
  /\ UNCHANGED <<disk, faults, loaded, known, used, tail, request, pc, planned,
                 had, writable, aborted, result, answer>>

\* The aborts and the tail have settled.
CloseResolves ==
  /\ closing = "draining"
  /\ tail = <<>>
  /\ closing' = "closed"
  /\ rooted' = FALSE
  /\ UNCHANGED <<disk, faults, loaded, known, used, tail, request, pc, planned,
                 had, writable, aborted, result, answer>>

----------------------------------------------------------------------------
TurnDuringWrite(c) ==    \* the turn passes on while a blob is being written
  \E i \in DOMAIN tail :
    tail[i] = c /\ \A k \in 1 .. (i - 1) : pc[tail[k]] = "write"

\* runExclusive: the call whose operation runs.
Turn(c) == tail # <<>> /\ Head(tail) = c

SettlePoisoned(c, outcome) ==    \* a rejection is not caught on the tail
  /\ result' = [result EXCEPT ![c] = outcome]
  /\ tail' = IF outcome = "rejected" THEN tail ELSE Tail(tail)
  /\ pc' = [pc EXCEPT ![c] = "idle"]
  /\ writable' = [writable EXCEPT ![c] = "none"]

\* The call at the head is over, and so is its turn.
Settle(c, outcome) ==
  /\ result' = [result EXCEPT ![c] = outcome]
  /\ tail' = Tail(tail)
  /\ pc' = [pc EXCEPT ![c] = "idle"]
  /\ writable' = [writable EXCEPT ![c] = "none"]

GoTo(c, place) ==
  /\ pc' = [pc EXCEPT ![c] = place]
  /\ UNCHANGED <<tail, writable, result>>

Start(c) ==
  /\ pc[c] = "queued" /\ Turn(c)
  /\ IF Refused(c) THEN Settle(c, "rejected")
     ELSE GoTo(c, IF request[c].kind = "purge" THEN "remove" ELSE "root")
  /\ UNCHANGED <<disk, faults, rooted, loaded, known, used, closing, request,
                 planned, had, aborted, answer>>

\* getRoot fails: no root directory, or it cannot be enumerated, or it already
\* holds more than the quota.
RootFails(c) ==
  /\ pc[c] = "root"
  /\ ~rooted \/ ~loaded
  /\ rooted' \in IF loaded THEN {rooted} ELSE {rooted, TRUE}
  /\ Settle(c, "rejected")
  /\ UNCHANGED <<disk, faults, loaded, known, used, closing, request, planned,
                 had, aborted, answer>>

\* getRoot returns, with the usage of the retained files the first time.  A put
\* then decides whether its blob fits.
RootReady(c) ==
  /\ pc[c] = "root"
  /\ loaded \/ DiskBytes <= Quota
  /\ rooted' = TRUE /\ loaded' = TRUE
  /\ known' = IF loaded THEN known
              ELSE [e \in {f \in Entry : disk[f] # Absent} |-> Bytes(disk[e])]
  /\ used' = IF loaded THEN used ELSE DiskBytes
  /\ LET r == request[c]
         next == used' - KnownSize(known', r.entry) + Size[r.blob]
     IN  \/ /\ Refused(c)
            /\ Settle(c, "rejected")
            /\ UNCHANGED <<planned, had>>
         \/ /\ ~Refused(c) /\ r.kind = "get"
            /\ GoTo(c, "read")
            /\ UNCHANGED <<planned, had>>
         \/ /\ ~Refused(c) /\ r.kind = "purgeAnalysis"
            /\ GoTo(c, "remove")
            /\ UNCHANGED <<planned, had>>
         \/ /\ ~Refused(c) /\ r.kind = "put" /\ next > Quota
            /\ Settle(c, "rejected")
            /\ UNCHANGED <<planned, had>>
         \/ /\ ~Refused(c) /\ r.kind = "put" /\ next <= Quota
            /\ GoTo(c, "directory")
            /\ planned' = [planned EXCEPT ![c] = next]
            /\ had' = [had EXCEPT ![c] = r.entry \in DOMAIN known']
  /\ UNCHANGED <<disk, faults, closing, request, aborted, answer>>

----------------------------------------------------------------------------
\* put.  Without a directory handle there is nothing to clean up.
OpenDirectory(c) ==
  /\ pc[c] = "directory"
  /\ \/ Settle(c, "rejected")
     \/ GoTo(c, IF Refused(c) THEN "cleanup" ELSE "file")
  /\ UNCHANGED <<disk, faults, rooted, loaded, known, used, closing, request,
                 planned, had, aborted, answer>>

\* getFileHandle and createWritable.  The signal is looked at, closed is not.
OpenFile(c) ==
  /\ pc[c] = "file"
  /\ LET e == request[c].entry
         opened == [disk EXCEPT ![e] = IF @ = Absent THEN Created ELSE @]
     IN  \/ /\ disk' \in {disk, opened}
            /\ GoTo(c, "cleanup")
         \/ /\ disk' = opened
            /\ c \notin aborted
            /\ pc' = [pc EXCEPT ![c] = "write"]
            /\ writable' = [writable EXCEPT ![c] = "open"]
            /\ UNCHANGED <<tail, result>>
  /\ UNCHANGED <<faults, rooted, loaded, known, used, closing, request, planned,
                 had, aborted, answer>>

WriteAcknowledged(c) ==    \* does not wait for writable.close()
  /\ pc[c] = "write"
  /\ ~Refused(c)
  /\ Settle(c, "done")
  /\ UNCHANGED <<disk, faults, rooted, loaded, known, used, closing, request,
                 planned, had, aborted, answer>>

\* An aborted write may settle either way; the checks that follow it see why it
\* was aborted.
Write(c) ==
  /\ pc[c] = "write"
  /\ \/ GoTo(c, "cleanup")
     \/ ~Refused(c) /\ GoTo(c, "commit")
  /\ UNCHANGED <<disk, faults, rooted, loaded, known, used, closing, request,
                 planned, had, aborted, answer>>

CommitFails(c) ==
  /\ pc[c] = "commit"
  /\ GoTo(c, "cleanup")
  /\ UNCHANGED <<disk, faults, rooted, loaded, known, used, closing, request,
                 planned, had, aborted, answer>>

CommitAdding(c) ==    \* counts an overwritten file twice
  /\ pc[c] = "commit"
  /\ ~closed
  /\ LET r == request[c]
     IN  /\ disk' = [disk EXCEPT ![r.entry] = r.blob]
         /\ known' = [e \in DOMAIN known \cup {r.entry} |->
                        IF e = r.entry THEN Size[r.blob] ELSE known[e]]
         /\ used' = used + Size[r.blob]
         /\ Settle(c, "done")
  /\ UNCHANGED <<faults, rooted, loaded, closing, request, planned, had,
                 aborted, answer>>

\* writable.close() resolved: the blob is in the file, whatever comes next.
Commit(c) ==
  /\ pc[c] = "commit"
  /\ LET r == request[c]
     IN  /\ disk' = [disk EXCEPT ![r.entry] = r.blob]
         /\ IF closed
            THEN GoTo(c, "cleanup") /\ UNCHANGED <<known, used>>
            ELSE /\ known' = [e \in DOMAIN known \cup {r.entry} |->
                             IF e = r.entry THEN Size[r.blob] ELSE known[e]]
                 /\ used' = planned[c]
                 /\ Settle(c, "done")
  /\ UNCHANGED <<faults, rooted, loaded, closing, request, planned, had,
                 aborted, answer>>

CleanupKeepingFile(c) ==    \* leaves the file it created
  /\ pc[c] = "cleanup"
  /\ Settle(c, "rejected")
  /\ UNCHANGED <<disk, faults, rooted, loaded, known, used, closing, request,
                 planned, had, aborted, answer>>

\* The catch of put: abort the writable, remove the file if there was none
\* before.  The removal may fail too, and then replaces the cause.
Cleanup(c) ==
  /\ pc[c] = "cleanup"
  /\ LET e == request[c].entry
     IN  \/ /\ disk' = [disk EXCEPT ![e] = IF had[c] THEN @ ELSE Absent]
            /\ faults' = faults
         \/ /\ ~had[c] /\ faults < MaxFaults
            /\ disk' = disk
            /\ faults' = faults + 1
  /\ Settle(c, "rejected")
  /\ UNCHANGED <<rooted, loaded, known, used, closing, request, planned, had,
                 aborted, answer>>

----------------------------------------------------------------------------
\* get: the directory, the file and its content, or undefined without one.
Read(c) ==
  /\ pc[c] = "read"
  /\ \/ Settle(c, "rejected") /\ answer' = answer
     \/ Settle(c, "done") /\ answer' = [answer EXCEPT ![c] = disk[request[c].entry]]
  /\ UNCHANGED <<disk, faults, rooted, loaded, known, used, closing, request,
                 planned, had, aborted>>

Without(content, files) == [e \in Entry |-> IF e \in files THEN Absent ELSE content[e]]

\* purgeAnalysis and purge, when removeEntry settles.  A recursive removal that
\* fails may have removed some of the files.
RemoveFails(c) ==
  /\ pc[c] = "remove"
  /\ faults < MaxFaults /\ faults' = faults + 1
  /\ \E files \in SUBSET Covered(request[c]) : disk' = Without(disk, files)
  /\ Settle(c, "rejected")
  /\ UNCHANGED <<rooted, loaded, known, used, closing, request, planned, had,
                 aborted, answer>>

RemoveRemembering(c) ==    \* subtracts the sizes and does not delete them
  /\ pc[c] = "remove"
  /\ LET files == Covered(request[c])
     IN  /\ disk' = Without(disk, files)
         /\ used' = used - SumFunctionOnSet(known, files \cap DOMAIN known)
  /\ Settle(c, "done")
  /\ UNCHANGED <<faults, rooted, loaded, known, closing, request, planned, had,
                 aborted, answer>>

Remove(c) ==
  /\ pc[c] = "remove"
  /\ LET files == Covered(request[c])
         forgotten == files \cap DOMAIN known
     IN  /\ disk' = Without(disk, files)
         /\ known' = Restrict(known, DOMAIN known \ files)
         /\ IF request[c].kind = "purge"
            THEN rooted' = FALSE /\ loaded' = TRUE /\ used' = 0
            ELSE /\ used' = used - SumFunctionOnSet(known, forgotten)
                 /\ UNCHANGED <<rooted, loaded>>
  /\ Settle(c, "done")
  /\ UNCHANGED <<faults, closing, request, planned, had, aborted, answer>>

----------------------------------------------------------------------------
\* What the request that c waits for may have done to the disk when the worker ends
\* before it hears of it; staged bytes that are not committed are gone.
Unanswered(c) ==
  LET e == request[c].entry
  IN  \/ /\ pc[c] = "file"
         /\ disk' = [disk EXCEPT ![e] = IF @ = Absent THEN Created ELSE @]
      \/ pc[c] = "commit" /\ disk' = [disk EXCEPT ![e] = request[c].blob]
      \/ pc[c] = "cleanup" /\ ~had[c] /\ disk' = [disk EXCEPT ![e] = Absent]
      \/ /\ pc[c] = "remove"
         /\ \E files \in SUBSET Covered(request[c]) : disk' = Without(disk, files)

\* The worker ends, at any moment, and a new one opens the same root.  The promises
\* are gone; the request under way has been carried out, or in part, or not at all.
Reload ==
  /\ faults < MaxFaults
  /\ faults' = faults + 1
  /\ rooted' = FALSE /\ loaded' = FALSE
  /\ known' = <<>> /\ used' = 0
  /\ closing' = "open"
  /\ tail' = <<>>
  /\ pc' = [c \in Call |-> "idle"]
  /\ planned' = [c \in Call |-> 0]
  /\ had' = [c \in Call |-> FALSE]
  /\ writable' = [c \in Call |-> "none"]
  /\ result' = [c \in Call |-> IF result[c] = "pending" THEN "lost" ELSE result[c]]
  /\ disk' = disk \/ \E c \in Call : Unanswered(c)
  /\ UNCHANGED <<request, aborted, answer>>

Step(c) ==
  \/ Start(c) \/ RootFails(c) \/ RootReady(c)
  \/ OpenDirectory(c) \/ OpenFile(c) \/ Write(c)
  \/ CommitFails(c) \/ Commit(c) \/ Cleanup(c)
  \/ Read(c) \/ RemoveFails(c) \/ Remove(c)

Next ==
  \/ \E c \in Call :
       \/ \E r \in Request : Make(c, r)
       \/ Signal(c)
       \/ Step(c)
  \/ Close \/ CloseResolves \/ Reload

Safety == Init /\ [][Next]_vars

\* Every request to the file system settles, but a write only where its writable is
\* aborted.
Prompt(c) == (pc[c] = "write" => writable[c] = "aborted") /\ Step(c)

Spec == Safety /\ WF_vars(CloseResolves) /\ \A c \in Call : WF_vars(Prompt(c))

----------------------------------------------------------------------------
\* The retained files never exceed the quota, whatever fails, is aborted or
\* reloaded on the way ("so concurrent writes cannot over-admit quota",
\* docs/features/01-browser-runtime-opfs-storage.md:1211).
DiskWithinQuota == DiskBytes <= Quota

\* While the storage is open its books cover the disk: no file is larger than
\* what is known of it, and usedBytes is the sum of what is known.  As long as
\* nothing went wrong they are exact.
BooksCoverDisk ==
  loaded /\ ~closed =>
    /\ \A e \in Entry : Bytes(disk[e]) <= KnownSize(known, e)
    /\ used = SumFunction(known)
    /\ faults = 0 => used = DiskBytes

\* A file that was created and never committed exists only while its put is
\* under way ("removes incomplete newly-created files when writes fail or are
\* cancelled", docs/features/01-browser-runtime-opfs-storage.md:115), unless the
\* worker ended or the removal itself failed.
NothingHalfWritten ==
  \A e \in Entry : disk[e] = Created /\ faults = 0 =>
    \E c \in Call : /\ pc[c] \in {"write", "commit", "cleanup"}
                    /\ request[c].entry = e /\ ~had[c]

\* What the callers see of the disk: a file without content counts as none.
Shown(content) == IF content = Created THEN Absent ELSE content
Files == [e \in Entry |-> Shown(disk[e])]

\* The put that close() overtook has a file to remove.
Withdrawing ==
  \E c \in Call : pc[c] = "cleanup" /\ ~had[c] /\ disk[request[c].entry] \in Blob

Promised == INSTANCE AnalysisStore WITH
  files <- Files,
  queue <- tail,
  promise <- result,
  state <- closing,
  withdraw <- Withdrawing,
  damaged <- (faults # 0),
  Empty <- Created

\* The storage implements AnalysisStore: its calls take effect whole, one at a time, in
\* the order they were made and in the step that resolves them, and a rejected one has no
\* effect but in a storage that is being closed or whose file system failed ("serializes
\* every read, write, purge, and namespace-cleanup operation behind one internal promise
\* tail", docs/features/01-browser-runtime-opfs-storage.md:185).
KeepsThePromise == Promised!Spec

\* Once close() has resolved, this storage touches the disk no more and owes
\* no caller an answer.
ClosedIsQuiet ==
  [][closing = "closed" => disk' = disk /\ \A c \in Call : result[c] # "pending"]_vars

\* A write of the call's blob that nobody aborted: it may take for ever.
WritingAtWill == \E c \in Call : pc[c] = "write" /\ writable[c] = "open" /\ c \notin aborted

\* A call waits for ever only behind such a write, its own or that of a call ahead
\* of it; otherwise it settles, after a failed call and an aborted one too ("An
\* active AbortSignal now immediately aborts the OPFS writable",
\* docs/features/01-browser-runtime-opfs-storage.md:188), and close() resolves.
EveryCallSettles ==
  /\ \A c \in Call : result[c] = "pending" ~> (result[c] # "pending" \/ WritingAtWill)
  /\ closing = "draining" ~> (closing # "draining" \/ WritingAtWill)

\* "immediately aborts active writes on cancellation or close" (the same document,
\* lines 1216-1217): no write goes on in a closed storage with its writable unaborted.
ClosedWritesAreAborted ==
  closed => \A c \in Call : pc[c] = "write" => writable[c] = "aborted"
=============================================================================
