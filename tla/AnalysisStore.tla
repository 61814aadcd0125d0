----------------------------- MODULE AnalysisStore -----------------------------
(***************************************************************************)
(* What the analysis storage promises its callers, without a file system:   *)
(* calls take effect one at a time, whole and in the order they were made,  *)
(* at the moment they are answered.  A call that is rejected has no effect, *)
(* with two exceptions that the caller is left to find: a put that close()  *)
(* overtakes, and a call after which the storage is damaged because the     *)
(* file system failed.  A call that is lost with its worker has taken       *)
(* effect or not, or in part if it is a purge.                              *)
(***************************************************************************)
EXTENDS Naturals, Sequences, Functions

CONSTANTS
  Analysis, Key, Blob, Size, Quota, Call,
  Absent, Empty,    \* no such file; a file without content
  NoRequest

VARIABLES
  files,      \* the blob retained under each entry, or Absent
  queue,      \* the calls that are not answered, in the order they were made
  request,    \* what each call asks
  promise,    \* what each call's promise is
  answer,     \* what a get resolved with
  state,      \* "open", "draining" from close() on, "closed" once it resolved
  withdraw,   \* close() has overtaken a put that has made a new file
  damaged     \* a removal has failed, or a worker ended, at some time

storeVars == <<files, queue, request, promise, answer, state, withdraw, damaged>>

Entry == Analysis \X Key
Request ==
  [kind : {"put"}, entry : Entry, blob : Blob]
  \cup [kind : {"get"}, entry : Entry]
  \cup [kind : {"purgeAnalysis"}, analysis : Analysis]
  \cup [kind : {"purge"}]

Fits(content) ==
  FoldFunction(+, 0, [e \in Entry |-> IF content[e] \in Blob THEN Size[content[e]] ELSE 0])
    <= Quota

\* The entries a purge removes.
Covered(r) ==
  {e \in Entry : r.kind = "purge" \/ (r.kind = "purgeAnalysis" /\ e[1] = r.analysis)}
Without(gone) == [e \in Entry |-> IF e \in gone THEN Absent ELSE files[e]]

Init ==
  /\ files \in [Entry -> Blob \cup {Absent}] /\ Fits(files)
  /\ queue = <<>>
  /\ request = [c \in Call |-> NoRequest]
  /\ promise = [c \in Call |-> "none"]
  /\ answer = [c \in Call |-> Absent]
  /\ state = "open" /\ withdraw = FALSE /\ damaged = FALSE

----------------------------------------------------------------------------
\* A call is rejected at once, or it queues if the storage is open.
Ask(c) ==
  /\ request[c] = NoRequest
  /\ \E r \in Request : request' = [request EXCEPT ![c] = r]
  /\ \/ /\ promise' = [promise EXCEPT ![c] = "rejected"]
        /\ queue' = queue
     \/ /\ state = "open"
        /\ promise' = [promise EXCEPT ![c] = "pending"]
        /\ queue' = Append(queue, c)
  /\ UNCHANGED <<files, answer, state, withdraw, damaged>>

\* The call whose turn it is, and that it is answered.
Turn(c) == queue # <<>> /\ Head(queue) = c
Answer(c, outcome) ==
  /\ queue' = Tail(queue)
  /\ promise' = [promise EXCEPT ![c] = outcome]
  /\ UNCHANGED <<request, state>>

Put(c) ==
  /\ state = "open"
  /\ request[c].kind = "put"
  /\ files' = [files EXCEPT ![request[c].entry] = request[c].blob]
  /\ Fits(files')
  /\ Answer(c, "done")
  /\ UNCHANGED <<answer, withdraw, damaged>>

\* Only a damaged storage may have a file without content to show.
Get(c) ==
  /\ request[c].kind = "get"
  /\ LET content == files[request[c].entry]
     IN  \/ answer' = [answer EXCEPT ![c] = content]
         \/ damaged /\ content = Absent /\ answer' = [answer EXCEPT ![c] = Empty]
  /\ Answer(c, "done")
  /\ UNCHANGED <<files, withdraw, damaged>>

Purge(c) ==
  /\ request[c].kind \in {"purge", "purgeAnalysis"}
  /\ files' = Without(Covered(request[c]))
  /\ Answer(c, "done")
  /\ UNCHANGED <<answer, withdraw, damaged>>

Reject(c) ==
  /\ ~withdraw
  /\ Answer(c, "rejected")
  /\ UNCHANGED <<files, answer, withdraw, damaged>>

\* The file system fails to remove: a purge may have removed some of its entries, and
\* what a put leaves stays.
Fail(c) ==
  /\ \E gone \in SUBSET Covered(request[c]) : files' = Without(gone)
  /\ Answer(c, "rejected")
  /\ withdraw' = FALSE /\ damaged' = TRUE
  /\ UNCHANGED answer

----------------------------------------------------------------------------
Close ==
  /\ state = "open"
  /\ state' = "draining"
  /\ UNCHANGED <<files, queue, request, promise, answer, withdraw, damaged>>

\* A put that has come too far when the storage is closed shows its blob unanswered.
\* It will be rejected: over an older blob it stays, a new file may be withdrawn.
Overtake(c) ==
  /\ state = "draining"
  /\ request[c].kind = "put"
  /\ files' = [files EXCEPT ![request[c].entry] = request[c].blob]
  /\ Fits(files')
  /\ withdraw' \in {FALSE, files[request[c].entry] = Absent}
  /\ UNCHANGED <<queue, request, promise, answer, state, damaged>>

Withdraw(c) ==
  /\ withdraw
  /\ files' = [files EXCEPT ![request[c].entry] = Absent]
  /\ Answer(c, "rejected")
  /\ withdraw' = FALSE
  /\ UNCHANGED <<answer, damaged>>

\* close() resolves when everyone is answered.
Closed ==
  /\ state = "draining" /\ queue = <<>>
  /\ state' = "closed"
  /\ UNCHANGED <<files, queue, request, promise, answer, withdraw, damaged>>

\* What the call c may have done when the worker ends before it is answered: it is a
\* put that shows its blob, a put that has withdrawn it, or a purge that is under way.
Unanswered(c) ==
  \/ /\ request[c].kind = "put"
     /\ files' = [files EXCEPT ![request[c].entry] = request[c].blob]
     /\ Fits(files')
  \/ /\ withdraw
     /\ files' = [files EXCEPT ![request[c].entry] = Absent]
  \/ \E gone \in SUBSET Covered(request[c]) : files' = Without(gone)

\* The worker ends, and another opens what it left.
Interrupt ==
  /\ \/ files' = files
     \/ queue # <<>> /\ Unanswered(Head(queue))
  /\ queue' = <<>>
  /\ promise' = [c \in Call |-> IF promise[c] = "pending" THEN "lost" ELSE promise[c]]
  /\ state' = "open" /\ withdraw' = FALSE /\ damaged' = TRUE
  /\ UNCHANGED <<request, answer>>

Next ==
  \/ \E c \in Call :
       \/ Ask(c)
       \/ Turn(c) /\ (Put(c) \/ Get(c) \/ Purge(c) \/ Reject(c) \/ Fail(c)
                       \/ Overtake(c) \/ Withdraw(c))
  \/ Close \/ Closed \/ Interrupt

Spec == Init /\ [][Next]_storeVars
=============================================================================
