------------------------------ MODULE Ingestion ------------------------------
(***************************************************************************)
(* How an archive gets into the local store: the controllers of the page     *)
(* (src/web/analysis-input-workflow.mjs, public-module-consent.mjs,          *)
(* public-module-retrieval.mjs), the ingestion worker with the bounded fetch *)
(* (ingestion-worker.mjs, public-module-fetch.mjs) and the in-memory store   *)
(* (memory-storage.mjs).                                                    *)
(*                                                                         *)
(* A request is one controller of the page with its request and analysis id. *)
(* The worker handles its messages concurrently; a step is one turn of its   *)
(* event loop, from the answer a handler waits for to the next await.  An    *)
(* archive is its size and whether the readers take it.                     *)
(***************************************************************************)
EXTENDS Integers, Sequences, FiniteSets, FiniteSetsExt

CONSTANTS
  Public,         \* requests for the module of a route
  Archives,       \* requests with a local module archive
  Bundles,        \* requests with an analysis bundle
  Analysis,       \* the analysis id of each request
  MaximumBytes,   \* the disclosed transfer limit
  QuotaBytes,     \* of the store
  LocalSizes,     \* bound: sizes of local archives
  ChunkSizes,     \* bound: sizes of the chunks of a response
  Coordinate,     \* the input that is a module's coordinate and no archive
  None            \* undefined

Requests == Public \cup Archives \cup Bundles

ASSUME IngestionAssumption ==
  /\ Analysis \in [Requests -> UNION {{Analysis[r]} : r \in Requests}]
  /\ IsFiniteSet(Requests)
  /\ Public \cap (Archives \cup Bundles) = {} /\ Archives \cap Bundles = {}
  /\ MaximumBytes \in Nat \ {0} /\ QuotaBytes \in Nat \ {0}
  /\ LocalSizes \subseteq Nat \ {0} /\ ChunkSizes \subseteq Nat \ {0}
  /\ None \notin {"cached", "unavailable", "consent"}

VARIABLES
  plan,       \* what planModuleRoute made of a route
  input,      \* the workflow's selected input
  sent,       \* the controller holds its message or receipt
  clicked,    \* a trusted activation accepted the disclosure (history)
  inbox,      \* messages to the worker
  pc,         \* what the handler of a message waits for
  cause,      \* the error readBoundedResponse caught
  received,   \* bytes of the response so far
  archive,    \* the archive the handler validates
  result,     \* the type or the code of the answer
  fetches,    \* network requests made
  aborted,    \* the worker's signal
  entries, usedBytes, closed,   \* the store
  latest      \* the request last answered as stored under each key that the owner
              \* has not emptied since (history)

pageVars == <<plan, input, sent, clicked>>
storeVars == <<entries, usedBytes, closed>>
vars == <<pageVars, inbox, pc, cause, received, archive, result, fetches, aborted,
          storeVars, latest>>

\* expected: what the request asks for.  other: a module archive of another module, a
\* bundle without project evidence.  malformed: anything the readers reject.
Contents == {"expected", "other", "malformed"}
LocalArchive == [content : Contents, size : LocalSizes]

\* archive-invalid stands for every code of the readers.
Codes == {"input-cancelled", "module-fetch-failed", "module-fetch-response-invalid",
          "module-fetch-limit", "archive-invalid", "storage-closed",
          "storage-quota-exceeded"}
Types == {"module-view-planned", "validated"}

\* No answer and no file in the store is undefined.
ASSUME NoneAssumption ==
  None \notin Types \cup Codes \cup Requests /\ None \notin [by : Requests, size : Nat]

Key(r) == <<Analysis[r], IF r \in Bundles THEN "analysis-bundle.zip" ELSE "module-archive.zip">>
Keys == {Key(r) : r \in Requests}

Init ==
  /\ plan = [r \in Public |-> None]
  /\ input = [r \in Requests |-> None]
  /\ sent = [r \in Requests |-> FALSE]
  /\ clicked = [r \in Public |-> FALSE]
  /\ inbox = <<>>
  /\ pc = [r \in Requests |-> "none"]
  /\ cause = [r \in Public |-> None]
  /\ received = [r \in Public |-> 0]
  /\ archive = [r \in Requests |-> None]
  /\ result = [r \in Requests |-> None]
  /\ fetches = [r \in Public |-> 0]
  /\ aborted = FALSE
  /\ entries = [k \in Keys |-> None] /\ usedBytes = 0 /\ closed = FALSE
  /\ latest = [k \in Keys |-> None]

----------------------------------------------------------------------------
\* The page.
Plan(r, cached, offline) ==
  /\ plan[r] = None
  /\ plan' = [plan EXCEPT ![r] = IF cached THEN "cached"
                                 ELSE IF offline THEN "unavailable" ELSE "consent"]
  /\ UNCHANGED <<input, sent, clicked, inbox, pc, cause, received, archive, result,
                 fetches, aborted, storeVars, latest>>

\* A second selection is refused; so is an input of no kind.
Select(r, value) ==
  /\ input[r] = None
  /\ IF r \in Public THEN plan[r] = "cached" /\ value = Coordinate
     ELSE value \in LocalArchive
  /\ input' = [input EXCEPT ![r] = value]
  /\ UNCHANGED <<plan, sent, clicked, inbox, pc, cause, received, archive, result,
                 fetches, aborted, storeVars, latest>>

PostAgain(r) ==    \* a broken variant: a double click posts twice
  /\ sent' = [sent EXCEPT ![r] = TRUE]
  /\ inbox' = Append(inbox, r)

\* Later calls return what the first one made and post nothing.
Post(r) ==
  /\ ~sent[r]
  /\ sent' = [sent EXCEPT ![r] = TRUE]
  /\ inbox' = Append(inbox, r)

BeginIngestion(r) ==
  /\ input[r] # None
  /\ Post(r)
  /\ UNCHANGED <<plan, input, clicked, pc, cause, received, archive, result, fetches,
                 aborted, storeVars, latest>>

\* accept() of the consent controller, which exists for a plan that needs consent.
Accept(r, isTrusted) ==
  /\ plan[r] = "consent" /\ isTrusted
  /\ Post(r)
  /\ clicked' = [clicked EXCEPT ![r] = TRUE]
  /\ UNCHANGED <<plan, input, pc, cause, received, archive, result, fetches, aborted,
                 storeVars, latest>>

----------------------------------------------------------------------------
\* The worker answers a message.
Answer(r, outcome) ==
  /\ pc' = [pc EXCEPT ![r] = "done"]
  /\ result' = [result EXCEPT ![r] = outcome]

Await(r, place) == pc' = [pc EXCEPT ![r] = place] /\ UNCHANGED result

\* handleIngestionMessage up to its first await.  What the controllers post is well
\* formed, and a worker has fetch.
Handle(r) ==
  \/ /\ r \in Public /\ plan[r] = "consent"
     /\ fetches' = [fetches EXCEPT ![r] = @ + 1]
     /\ Await(r, "fetch") /\ UNCHANGED archive
  \/ /\ input[r] = Coordinate
     /\ Answer(r, "module-view-planned") /\ UNCHANGED <<fetches, archive>>
  \/ /\ r \notin Public
     /\ archive' = [archive EXCEPT ![r] = input[r]]
     /\ Await(r, "hydrate") /\ UNCHANGED fetches

ReceiveSilently(r) ==    \* a broken variant: a cancelled worker drops its messages
  /\ inbox # <<>> /\ r = Head(inbox)
  /\ inbox' = Tail(inbox)
  /\ IF aborted THEN UNCHANGED <<pc, result, fetches, archive>> ELSE Handle(r)
  /\ UNCHANGED <<pageVars, cause, received, aborted, storeVars, latest>>

Receive(r) ==
  /\ inbox # <<>> /\ r = Head(inbox)
  /\ inbox' = Tail(inbox)
  /\ IF aborted THEN Answer(r, "input-cancelled") /\ UNCHANGED <<fetches, archive>>
     ELSE Handle(r)
  /\ UNCHANGED <<pageVars, cause, received, aborted, storeVars, latest>>

Unless(code) == IF aborted THEN "input-cancelled" ELSE code

FetchRejects(r) ==
  /\ pc[r] = "fetch"
  /\ Answer(r, Unless("module-fetch-failed"))
  /\ UNCHANGED <<pageVars, inbox, cause, received, archive, fetches, aborted, storeVars,
                 latest>>

\* A response with a declared length, or none; accepted is response.ok with a body
\* and a well formed header.
FetchResponds(r, accepted, declared) ==
  /\ pc[r] = "fetch"
  /\ IF aborted \/ ~accepted
     THEN Answer(r, Unless("module-fetch-response-invalid"))
     ELSE IF declared # None /\ declared > MaximumBytes
     THEN Answer(r, "module-fetch-limit")
     ELSE Await(r, "read")
  /\ UNCHANGED <<pageVars, inbox, cause, received, archive, fetches, aborted, storeVars,
                 latest>>

\* The catch block of readBoundedResponse waits for the reader to be cancelled.
Catch(r, code) ==
  /\ cause' = [cause EXCEPT ![r] = code]
  /\ Await(r, "cancelReader")

ReadFails(r, code) ==
  /\ pc[r] = "read"
  /\ Catch(r, code)
  /\ UNCHANGED <<pageVars, inbox, received, archive, fetches, aborted, storeVars, latest>>

ChunkArrivesLate(r, bytes) ==    \* a broken variant: looks at the limit before it adds
  /\ pc[r] = "read"
  /\ received' = [received EXCEPT ![r] = @ + bytes]
  /\ IF received[r] > MaximumBytes THEN Catch(r, "module-fetch-limit")
     ELSE IF aborted THEN Catch(r, "input-cancelled")
     ELSE UNCHANGED <<pc, result, cause>>
  /\ UNCHANGED <<pageVars, inbox, archive, fetches, aborted, storeVars, latest>>

ChunkArrives(r, bytes) ==
  /\ pc[r] = "read"
  /\ received' = [received EXCEPT ![r] = @ + bytes]
  /\ IF received'[r] > MaximumBytes THEN Catch(r, "module-fetch-limit")
     ELSE IF aborted THEN Catch(r, "input-cancelled")
     ELSE UNCHANGED <<pc, result, cause>>
  /\ UNCHANGED <<pageVars, inbox, archive, fetches, aborted, storeVars, latest>>

\* No bytes are no archive.
StreamEnds(r, content) ==
  /\ pc[r] = "read" /\ (received[r] = 0 => content = "malformed")
  /\ IF aborted
     THEN Catch(r, "input-cancelled") /\ UNCHANGED archive
     ELSE /\ archive' = [archive EXCEPT ![r] = [content |-> content, size |-> received[r]]]
          /\ Await(r, "hydrate") /\ UNCHANGED cause
  /\ UNCHANGED <<pageVars, inbox, received, fetches, aborted, storeVars, latest>>

ReaderCancelled(r) ==
  /\ pc[r] = "cancelReader"
  /\ Answer(r, Unless(cause[r]))
  /\ UNCHANGED <<pageVars, inbox, cause, received, archive, fetches, aborted, storeVars,
                 latest>>

\* The module a public request asked for; any module for a local archive.
Valid(r) == archive[r].content = "expected" \/ (r \in Archives /\ archive[r].content = "other")

\* MemoryAnalysisStorage.put, which has no await.
NextUsedBytes(r) ==
  usedBytes - (IF entries[Key(r)] = None THEN 0 ELSE entries[Key(r)].size) + archive[r].size

PutUnchecked(r) ==    \* a broken variant: does not look at the quota
  IF closed THEN Answer(r, "storage-closed") /\ UNCHANGED <<entries, usedBytes>>
  ELSE /\ entries' = [entries EXCEPT ![Key(r)] = [by |-> r, size |-> archive[r].size]]
       /\ usedBytes' = NextUsedBytes(r)
       /\ Answer(r, "validated")

PutOnce(r) ==    \* a broken variant: keeps what it has under the key
  IF closed THEN Answer(r, "storage-closed") /\ UNCHANGED <<entries, usedBytes>>
  ELSE IF NextUsedBytes(r) > QuotaBytes
  THEN Answer(r, "storage-quota-exceeded") /\ UNCHANGED <<entries, usedBytes>>
  ELSE IF entries[Key(r)] # None THEN Answer(r, "validated") /\ UNCHANGED <<entries, usedBytes>>
  ELSE /\ entries' = [entries EXCEPT ![Key(r)] = [by |-> r, size |-> archive[r].size]]
       /\ usedBytes' = NextUsedBytes(r)
       /\ Answer(r, "validated")

Put(r) ==
  IF closed THEN Answer(r, "storage-closed") /\ UNCHANGED <<entries, usedBytes>>
  ELSE IF NextUsedBytes(r) > QuotaBytes
  THEN Answer(r, "storage-quota-exceeded") /\ UNCHANGED <<entries, usedBytes>>
  ELSE /\ entries' = [entries EXCEPT ![Key(r)] = [by |-> r, size |-> archive[r].size]]
       /\ usedBytes' = NextUsedBytes(r)
       /\ Answer(r, "validated")

Credited(r) == latest' = [latest EXCEPT ![Key(r)] = IF result'[r] = "validated" THEN r ELSE @]

HydratedUncancelled(r) ==    \* a broken variant: no look at the signal before put
  /\ pc[r] = "hydrate"
  /\ IF Valid(r) THEN Put(r)
     ELSE Answer(r, "archive-invalid") /\ UNCHANGED <<entries, usedBytes>>
  /\ Credited(r)
  /\ UNCHANGED <<pageVars, inbox, cause, received, archive, fetches, aborted, closed>>

\* The reader has gone through the archive.  It looks at the signal now and then, so
\* a bad archive may be called cancelled.
Hydrated(r) ==
  /\ pc[r] = "hydrate"
  /\ \/ Valid(r) /\ ~aborted /\ Put(r)
     \/ /\ aborted
        /\ Answer(r, "input-cancelled") /\ UNCHANGED <<entries, usedBytes>>
     \/ /\ ~Valid(r)
        /\ Answer(r, "archive-invalid") /\ UNCHANGED <<entries, usedBytes>>
  /\ Credited(r)
  /\ UNCHANGED <<pageVars, inbox, cause, received, archive, fetches, aborted, closed>>

----------------------------------------------------------------------------
\* The owner of the worker's signal and store.
Abort ==
  /\ ~aborted /\ aborted' = TRUE
  /\ UNCHANGED <<pageVars, inbox, pc, cause, received, archive, result, fetches,
                 storeVars, latest>>

Forget(keys) ==
  /\ entries' = [k \in Keys |-> IF k \in keys THEN None ELSE entries[k]]
  /\ usedBytes' = usedBytes - MapThenSumSet(LAMBDA k : entries[k].size,
                                            {k \in keys : entries[k] # None})
  /\ latest' = [k \in Keys |-> IF k \in keys THEN None ELSE latest[k]]
  /\ UNCHANGED <<pageVars, inbox, pc, cause, received, archive, result, fetches, aborted>>

Purge == ~closed /\ Forget(Keys) /\ UNCHANGED closed
PurgeAnalysis(id) == ~closed /\ Forget({k \in Keys : k[1] = id}) /\ UNCHANGED closed
Close == ~closed /\ Forget(Keys) /\ closed' = TRUE

----------------------------------------------------------------------------
Page(r) ==
  \/ r \in Public /\ \E cached, offline \in BOOLEAN : Plan(r, cached, offline)
  \/ \E value \in LocalArchive \cup {Coordinate} : Select(r, value)
  \/ BeginIngestion(r)
  \/ r \in Public /\ \E isTrusted \in BOOLEAN : Accept(r, isTrusted)

Network(r) ==
  \/ FetchRejects(r)
  \/ \E accepted \in BOOLEAN, declared \in {None, MaximumBytes, MaximumBytes + 1} :
       FetchResponds(r, accepted, declared)
  \/ \E code \in {"module-fetch-failed", "module-fetch-response-invalid"} : ReadFails(r, code)
  \/ \E bytes \in ChunkSizes : ChunkArrives(r, bytes)
  \/ \E content \in Contents : StreamEnds(r, content)
  \/ ReaderCancelled(r)

Owner ==
  Abort \/ Purge \/ Close \/ \E id \in {Analysis[r] : r \in Requests} : PurgeAnalysis(id)

Next ==
  \/ \E r \in Requests : Page(r) \/ Receive(r) \/ Network(r) \/ Hydrated(r)
  \/ Owner

\* The event loop runs and a blob can be read; a network that is not aborted need
\* never answer.
Fairness ==
  \A r \in Requests : /\ WF_vars(Receive(r)) /\ WF_vars(Hydrated(r))
                      /\ WF_vars(aborted /\ Network(r))

Safety == Init /\ [][Next]_vars
Spec == Safety /\ Fairness

----------------------------------------------------------------------------
TypeOK ==
  /\ plan \in [Public -> {None, "cached", "unavailable", "consent"}]
  /\ input \in [Requests -> LocalArchive \cup {Coordinate, None}]
  /\ sent \in [Requests -> BOOLEAN] /\ clicked \in [Public -> BOOLEAN]
  /\ inbox \in Seq(Requests)
  /\ pc \in [Requests -> {"none", "fetch", "read", "cancelReader", "hydrate", "done"}]
  /\ cause \in [Public -> Codes \cup {None}]
  /\ received \in [Public -> Nat] /\ fetches \in [Public -> Nat]
  /\ archive \in [Requests -> [content : Contents, size : Nat] \cup {None}]
  /\ result \in [Requests -> Types \cup Codes \cup {None}]
  /\ aborted \in BOOLEAN /\ closed \in BOOLEAN
  /\ entries \in [Keys -> [by : Requests, size : 0 .. QuotaBytes] \cup {None}]
  /\ usedBytes \in 0 .. QuotaBytes /\ latest \in [Keys -> Requests \cup {None}]

\* However often the user clicks and whatever happens to the request, the network sees a
\* route at most once, and only if it was not cached, the page was online and the user
\* accepted (public-module-consent.mjs, planModuleRoute, fetchAuthorizedModuleArchive).
ConsentComesFirst ==
  \A r \in Public : fetches[r] > 0 => fetches[r] = 1 /\ clicked[r] /\ plan[r] = "consent"

\* What the store holds under a key is the archive last answered as stored there, whole,
\* until its owner empties the key, and nothing else; that archive was validated for its
\* request and is within the disclosed limit; and the store's books are right.
VouchedFor ==
  /\ usedBytes = MapThenSumSet(LAMBDA k : entries[k].size, {k \in Keys : entries[k] # None})
  /\ \A k \in Keys :
       LET r == latest[k]
       IN  IF r = None THEN entries[k] = None
           ELSE /\ entries[k] = [by |-> r, size |-> archive[r].size]
                /\ Valid(r)
                /\ r \in Public => archive[r].size = received[r] /\ received[r] <= MaximumBytes

\* After the signal no network request begins, nothing is stored, and a retrieval that
\* is still on the network ends as cancelled, whatever error came first.
AbortStopsTheWork ==
  [][aborted =>
       /\ fetches' = fetches
       /\ \A k \in Keys : entries'[k] \in {entries[k], None}
       /\ \A r \in Public : pc[r] \in {"fetch", "read", "cancelReader"} /\ pc'[r] = "done"
                              => result'[r] = "input-cancelled"]_vars

\* Every message of a local input is answered, and after the signal every message.
EveryMessageIsAnswered ==
  \A r \in Requests :
    sent[r] /\ (aborted \/ r \notin Public \/ plan[r] = "cached") ~> result[r] # None
=============================================================================
