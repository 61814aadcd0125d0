--------------------------- MODULE OpfsStorageProofs ---------------------------
(***************************************************************************)
(* What the storage on the origin-private file system keeps in order, for    *)
(* any files, blobs, calls and number of faults: no file stays half written, *)
(* answers tell what the disk holds, a closed storage is quiet, what is      *)
(* retained fits the quota because the books cover it, and the calls take    *)
(* effect as AnalysisStore says.                                             *)
(***************************************************************************)
EXTENDS OpfsStorage, FiniteSetTheorems, SequenceTheorems, WellFoundedInduction, TLAPS

\* What a call waits for once its operation runs, and where a put has a file to
\* clean up.
Running == Place \ {"idle", "queued"}
Putting == {"directory", "file", "write", "commit", "cleanup"}

Shape ==
  /\ disk \in [Entry -> Content]
  /\ faults \in Nat
  /\ rooted \in BOOLEAN /\ loaded \in BOOLEAN
  /\ DOMAIN known \subseteq Entry
  /\ closing \in {"open", "draining", "closed"}
  /\ tail \in Seq(Call)
  /\ request \in [Call -> Request \cup {NoRequest}]
  /\ pc \in [Call -> Place]
  /\ had \in [Call -> BOOLEAN]
  /\ writable \in [Call -> {"none", "open", "aborted"}]
  /\ aborted \subseteq Call
  /\ result \in [Call -> {"none", "pending", "done", "rejected", "lost"}]
  /\ answer \in [Call -> Content]

\* The promise tail: who is on it, once, and that only its head runs.
OnTail(c) == \E i \in DOMAIN tail : tail[i] = c
TailInv ==
  /\ \A i, k \in DOMAIN tail : tail[i] = tail[k] => i = k
  /\ \A c \in Call :
       /\ pc[c] # "idle" <=> OnTail(c)
       /\ pc[c] # "idle" <=> result[c] = "pending"
       /\ pc[c] # "idle" => request[c] \in Request
       /\ pc[c] \in Running => tail[1] = c
  /\ closing = "closed" => tail = <<>>

\* Each operation is where its kind leads, and a put remembers rightly whether its
\* file was there.
PlaceInv ==
  \A c \in Call :
    /\ pc[c] = "read" => request[c].kind = "get"
    /\ pc[c] = "root" => request[c].kind # "purge"
    /\ pc[c] = "remove" => request[c].kind \in {"purge", "purgeAnalysis"}
    /\ pc[c] \in Putting => /\ request[c].kind = "put" /\ loaded
                            /\ had[c] <=> request[c].entry \in DOMAIN known

\* Without faults, what is known is there.
KnownInv == faults = 0 => \A e \in DOMAIN known : disk[e] # Absent

IInv == Shape /\ TailInv /\ PlaceInv /\ KnownInv /\ NothingHalfWritten

----------------------------------------------------------------------------
\* The promise tail.

LEMMA TailSteps ==
  ASSUME NEW S, NEW s \in Seq(S), s # <<>>
  PROVE  /\ Tail(s) \in Seq(S) /\ Head(s) = s[1] /\ 1 \in DOMAIN s
         /\ DOMAIN Tail(s) = 1 .. (Len(s) - 1) /\ DOMAIN s = 1 .. Len(s) /\ Len(s) \in Nat
         /\ \A i \in DOMAIN Tail(s) : i + 1 \in DOMAIN s /\ Tail(s)[i] = s[i + 1]
         /\ \A i \in DOMAIN s : i = 1 \/ (i - 1 \in DOMAIN Tail(s) /\ Tail(s)[i - 1] = s[i])
<1>1. /\ Tail(s) \in Seq(S) /\ Len(Tail(s)) = Len(s) - 1
      /\ \A i \in 1 .. Len(Tail(s)) : Tail(s)[i] = s[i + 1]
  BY HeadTailProperties
<1>2. Len(s) \in Nat \ {0} /\ DOMAIN s = 1 .. Len(s) /\ DOMAIN Tail(s) = 1 .. Len(Tail(s))
  BY <1>1, EmptySeq, LenProperties
<1>3. Head(s) = s[1]
  OBVIOUS
<1> QED BY <1>1, <1>2, <1>3

\* The head settles: whoever is left waits, and runs no operation.
LEMMA SettleTail ==
  ASSUME Shape, TailInv, NEW c \in Call, Turn(c), pc[c] # "idle",
         NEW outcome \in {"done", "rejected"}, Settle(c, outcome),
         request' = request, closing' = closing
  PROVE  /\ tail' \in Seq(Call) /\ pc' \in [Call -> Place]
         /\ writable' \in [Call -> {"none", "open", "aborted"}]
         /\ result' \in [Call -> {"none", "pending", "done", "rejected", "lost"}]
         /\ TailInv'
         /\ \A d \in Call : pc'[d] \in {"idle", "queued"} /\ pc[d] \in {"idle", "queued", pc[c]}
<1>1. /\ tail \in Seq(Call) /\ tail # <<>> /\ tail' = Tail(tail)
      /\ c = tail[1] /\ 1 \in DOMAIN tail
  BY TailSteps DEF Shape, Turn, Settle
<1>2. /\ tail' \in Seq(Call)
      /\ \A i \in DOMAIN tail' : i + 1 \in DOMAIN tail /\ tail'[i] = tail[i + 1]
      /\ \A i \in DOMAIN tail : i = 1 \/ (i - 1 \in DOMAIN tail' /\ tail'[i - 1] = tail[i])
      /\ DOMAIN tail \subseteq Nat \ {0} /\ DOMAIN tail' \subseteq Nat \ {0}
  BY <1>1, TailSteps
<1>3. /\ \A d \in Call : d # c => pc'[d] = pc[d] /\ result'[d] = result[d]
      /\ pc'[c] = "idle" /\ result'[c] = outcome
      /\ pc' \in [Call -> Place]
      /\ result' \in [Call -> {"none", "pending", "done", "rejected", "lost"}]
      /\ writable' \in [Call -> {"none", "open", "aborted"}]
  BY DEF Shape, Settle, Place
<1>4. \A d \in Call : pc[d] \in {"idle", "queued"} \/ d = c
  BY <1>1 DEF TailInv, Running, Shape
<1>5. \A i, k \in DOMAIN tail' : tail'[i] = tail'[k] => i = k
  <2> SUFFICES ASSUME NEW i \in DOMAIN tail', NEW k \in DOMAIN tail', tail'[i] = tail'[k]
               PROVE  i = k
    OBVIOUS
  <2>1. i + 1 = k + 1
    BY <1>2 DEF TailInv
  <2> QED BY <2>1, <1>2
<1>6. ASSUME NEW d \in Call PROVE pc'[d] # "idle" <=> OnTail(d)'
  <2>1. CASE d = c
    <3>1. ASSUME NEW i \in DOMAIN tail', tail'[i] = c PROVE FALSE
      <4>1. i + 1 = 1
        BY <1>1, <1>2, <3>1 DEF TailInv
      <4> QED BY <4>1, <1>2
    <3> QED BY <2>1, <3>1, <1>3 DEF OnTail
  <2>2. CASE d # c
    <3>1. pc[d] # "idle" <=> OnTail(d)
      BY DEF TailInv
    <3>2. ASSUME OnTail(d) PROVE OnTail(d)'
      <4>1. PICK i \in DOMAIN tail : tail[i] = d
        BY <3>2 DEF OnTail
      <4>2. i # 1
        BY <4>1, <1>1, <2>2
      <4> QED BY <4>1, <4>2, <1>2 DEF OnTail
    <3>3. ASSUME OnTail(d)' PROVE OnTail(d)
      <4>1. PICK i \in DOMAIN tail' : tail'[i] = d
        BY <3>3 DEF OnTail
      <4>2. i + 1 \in DOMAIN tail /\ tail[i + 1] = d
        BY <4>1, <1>2
      <4> QED BY <4>2 DEF OnTail
    <3> QED BY <3>1, <3>2, <3>3, <2>2, <1>3
  <2> QED BY <2>1, <2>2
<1>7. closing' = "closed" => tail' = <<>>
  BY <1>1 DEF TailInv
<1>8. TailInv'
  BY <1>3, <1>4, <1>5, <1>6, <1>7 DEF TailInv, Running
<1> QED BY <1>2, <1>3, <1>4, <1>8

\* The head goes on.
LEMMA GoTail ==
  ASSUME Shape, TailInv, NEW c \in Call, Turn(c), pc[c] # "idle",
         NEW place \in Running, pc' = [pc EXCEPT ![c] = place], UNCHANGED <<tail, result>>,
         request' = request, closing' = closing
  PROVE  /\ pc' \in [Call -> Place] /\ TailInv'
         /\ pc'[c] = place
         /\ \A d \in Call : d # c => pc'[d] = pc[d] /\ pc[d] \in {"idle", "queued"}
<1>1. tail[1] = c
  BY TailSteps DEF Shape, Turn
<1>2. \A d \in Call : pc[d] \in {"idle", "queued"} \/ d = c
  BY <1>1 DEF TailInv, Running, Shape
<1>3. /\ pc' \in [Call -> Place] /\ pc'[c] = place
      /\ \A d \in Call : d # c => pc'[d] = pc[d]
  BY DEF Shape, Running
<1>4. TailInv'
  BY <1>1, <1>2, <1>3 DEF TailInv, Running, OnTail
<1> QED BY <1>2, <1>3, <1>4

\* A call that runs is the head; a file created and not committed is its file.
LEMMA RunningTurn ==
  ASSUME Shape, TailInv, NEW c \in Call, pc[c] \in Running
  PROVE  Turn(c) /\ pc[c] # "idle" /\ tail # <<>> /\ tail[1] = c
<1>1. pc[c] # "idle" /\ tail[1] = c /\ OnTail(c)
  BY DEF TailInv, Running
<1>2. tail \in Seq(Call) /\ tail # <<>>
  BY <1>1 DEF OnTail, Shape
<1> QED BY <1>1, <1>2, TailSteps DEF Turn

LEMMA CreatedByHead ==
  ASSUME IInv, NEW c \in Call, Turn(c), NEW e \in Entry, disk[e] = Created, faults = 0
  PROVE  pc[c] \in {"write", "commit", "cleanup"} /\ request[c].entry = e /\ ~had[c]
<1>1. tail[1] = c
  BY TailSteps DEF IInv, Shape, Turn
<1>2. PICK d \in Call : /\ pc[d] \in {"write", "commit", "cleanup"}
                        /\ request[d].entry = e /\ ~had[d]
  BY DEF IInv, NothingHalfWritten
<1>3. d = c
  BY <1>1, <1>2 DEF IInv, TailInv, Running, Place
<1> QED BY <1>2, <1>3

\* A call settles on a disk without half-written files.
LEMMA SettleKeeps ==
  ASSUME IInv, NEW c \in Call, Turn(c), pc[c] # "idle",
         NEW outcome \in {"done", "rejected"}, Settle(c, outcome),
         UNCHANGED <<request, closing, aborted>>,
         faults' \in Nat, rooted' \in BOOLEAN, loaded' \in BOOLEAN,
         disk' \in [Entry -> Content], DOMAIN known' \subseteq Entry,
         had' \in [Call -> BOOLEAN], answer' \in [Call -> Content],
         faults' = 0 => \A e \in Entry : disk'[e] # Created,
         KnownInv'
  PROVE  IInv'
<1>1. Shape /\ TailInv
  BY DEF IInv
<1>2. /\ tail' \in Seq(Call) /\ pc' \in [Call -> Place]
      /\ writable' \in [Call -> {"none", "open", "aborted"}]
      /\ result' \in [Call -> {"none", "pending", "done", "rejected", "lost"}]
      /\ TailInv'
      /\ \A d \in Call : pc'[d] \in {"idle", "queued"}
  BY <1>1, SettleTail
<1>3. Shape'
  BY <1>1, <1>2 DEF Shape
<1>4. PlaceInv'
  BY <1>2 DEF PlaceInv, Putting
<1>5. NothingHalfWritten'
  BY DEF NothingHalfWritten
<1> QED BY <1>2, <1>3, <1>4, <1>5 DEF IInv

\* A call goes on: to a place that its kind and its file allow.
LEMMA GoKeeps ==
  ASSUME IInv, NEW c \in Call, Turn(c), pc[c] # "idle",
         NEW place \in Running, pc' = [pc EXCEPT ![c] = place], UNCHANGED <<tail, result>>,
         UNCHANGED <<request, closing, aborted, answer>>,
         writable' \in [Call -> {"none", "open", "aborted"}],
         faults' \in Nat, rooted' \in BOOLEAN, loaded' \in BOOLEAN,
         disk' \in [Entry -> Content], DOMAIN known' \subseteq Entry,
         had' \in [Call -> BOOLEAN],
         place = "read" => request[c].kind = "get",
         place = "root" => request[c].kind # "purge",
         place = "remove" => request[c].kind \in {"purge", "purgeAnalysis"},
         place \in Putting => /\ request[c].kind = "put" /\ loaded'
                              /\ had'[c] <=> request[c].entry \in DOMAIN known',
         NothingHalfWritten', KnownInv'
  PROVE  IInv'
<1>1. Shape /\ TailInv
  BY DEF IInv
<1>2. /\ pc' \in [Call -> Place] /\ TailInv'
      /\ pc'[c] = place
      /\ \A d \in Call : d # c => pc'[d] \in {"idle", "queued"}
  BY <1>1, GoTail
<1>3. Shape'
  BY <1>1, <1>2 DEF Shape
<1>4. PlaceInv'
  BY <1>2 DEF PlaceInv, Putting
<1> QED BY <1>2, <1>3, <1>4 DEF IInv

----------------------------------------------------------------------------
\* The steps of a call.

LEMMA StartInv ==
  ASSUME IInv, NEW c \in Call, Start(c)
  PROVE  IInv'
<1>1. /\ Turn(c) /\ pc[c] = "queued"
      /\ UNCHANGED <<disk, faults, rooted, loaded, known, closing, request, had, aborted, answer>>
  BY DEF Start
<1>2. KnownInv'
  BY <1>1 DEF IInv, KnownInv
<1>3. faults = 0 => \A e \in Entry : disk[e] # Created
  BY <1>1, CreatedByHead
<1>4. CASE Settle(c, "rejected")
  BY <1>1, <1>2, <1>3, <1>4, SettleKeeps DEF IInv, Shape
<1>5. CASE GoTo(c, IF request[c].kind = "purge" THEN "remove" ELSE "root")
  <2> DEFINE place == IF request[c].kind = "purge" THEN "remove" ELSE "root"
  <2>1. /\ place \in Running /\ place \notin Putting /\ place # "read"
        /\ place = "root" => request[c].kind # "purge"
        /\ place = "remove" => request[c].kind = "purge"
    BY DEF Running, Place, Putting
  <2>2. pc' = [pc EXCEPT ![c] = place] /\ UNCHANGED <<tail, result, writable>>
    BY <1>5 DEF GoTo
  <2>3. NothingHalfWritten'
    BY <1>1, <1>3 DEF NothingHalfWritten
  <2> HIDE DEF place
  <2> QED BY <1>1, <1>2, <2>1, <2>2, <2>3, GoKeeps DEF IInv, Shape
<1> QED BY <1>4, <1>5 DEF Start

LEMMA RootFailsInv ==
  ASSUME IInv, NEW c \in Call, RootFails(c)
  PROVE  IInv'
<1>1. /\ pc[c] = "root" /\ Settle(c, "rejected") /\ rooted' \in BOOLEAN
      /\ UNCHANGED <<disk, faults, loaded, known, closing, request, had, aborted, answer>>
  BY DEF RootFails, IInv, Shape
<1>2. Turn(c) /\ pc[c] # "idle"
  BY <1>1, RunningTurn DEF IInv, Running, Place
<1>3. KnownInv'
  BY <1>1 DEF IInv, KnownInv
<1>4. faults = 0 => \A e \in Entry : disk[e] # Created
  BY <1>1, <1>2, CreatedByHead
<1> QED BY <1>1, <1>2, <1>3, <1>4, SettleKeeps DEF IInv, Shape

LEMMA RootReadyInv ==
  ASSUME IInv, NEW c \in Call, RootReady(c)
  PROVE  IInv'
<1>1. /\ pc[c] = "root" /\ rooted' = TRUE /\ loaded' = TRUE
      /\ known' = IF loaded THEN known
                  ELSE [e \in {f \in Entry : disk[f] # Absent} |-> Bytes(disk[e])]
      /\ UNCHANGED <<disk, faults, closing, request, aborted, answer>>
  BY DEF RootReady
<1>2. Turn(c) /\ pc[c] # "idle"
  BY <1>1, RunningTurn DEF IInv, Running, Place
<1>3. /\ DOMAIN known' \subseteq Entry
      /\ KnownInv'
  BY <1>1 DEF IInv, Shape, KnownInv
<1>4. faults = 0 => \A e \in Entry : disk[e] # Created
  BY <1>1, <1>2, CreatedByHead
<1>5. NothingHalfWritten'
  BY <1>1, <1>4 DEF NothingHalfWritten
<1>6. CASE Settle(c, "rejected") /\ had' = had
  BY <1>1, <1>2, <1>3, <1>4, <1>6, SettleKeeps DEF IInv, Shape
<1>7. CASE request[c].kind = "get" /\ GoTo(c, "read") /\ had' = had
  <2>1. pc' = [pc EXCEPT ![c] = "read"] /\ UNCHANGED <<tail, result, writable>>
    BY <1>7 DEF GoTo
  <2>2. "read" \in Running /\ "read" \notin Putting
    BY DEF Running, Place, Putting
  <2> QED BY <1>1, <1>2, <1>3, <1>5, <1>7, <2>1, <2>2, GoKeeps DEF IInv, Shape
<1>8. CASE request[c].kind = "purgeAnalysis" /\ GoTo(c, "remove") /\ had' = had
  <2>1. pc' = [pc EXCEPT ![c] = "remove"] /\ UNCHANGED <<tail, result, writable>>
    BY <1>8 DEF GoTo
  <2>2. "remove" \in Running /\ "remove" \notin Putting
    BY DEF Running, Place, Putting
  <2> QED BY <1>1, <1>2, <1>3, <1>5, <1>8, <2>1, <2>2, GoKeeps DEF IInv, Shape
<1>9. CASE /\ request[c].kind = "put" /\ GoTo(c, "directory")
           /\ had' = [had EXCEPT ![c] = request[c].entry \in DOMAIN known']
  <2>1. pc' = [pc EXCEPT ![c] = "directory"] /\ UNCHANGED <<tail, result, writable>>
    BY <1>9 DEF GoTo
  <2>2. "directory" \in Running
    BY DEF Running, Place
  <2>3. had' \in [Call -> BOOLEAN] /\ (had'[c] <=> request[c].entry \in DOMAIN known')
    <3> DEFINE was == request[c].entry \in DOMAIN known'
    <3>1. was \in BOOLEAN /\ had' = [had EXCEPT ![c] = was] /\ had \in [Call -> BOOLEAN]
      BY <1>9 DEF IInv, Shape
    <3> HIDE DEF was
    <3>2. had' \in [Call -> BOOLEAN] /\ had'[c] = was
      BY <3>1
    <3> QED BY <3>2 DEF was
  <2> QED BY <1>1, <1>2, <1>3, <1>5, <1>9, <2>1, <2>2, <2>3, GoKeeps DEF IInv, Shape
<1>10. \/ Settle(c, "rejected") /\ had' = had
       \/ request[c].kind = "get" /\ GoTo(c, "read") /\ had' = had
       \/ request[c].kind = "purgeAnalysis" /\ GoTo(c, "remove") /\ had' = had
       \/ /\ request[c].kind = "put" /\ GoTo(c, "directory")
          /\ had' = [had EXCEPT ![c] = request[c].entry \in DOMAIN known']
  BY DEF RootReady
<1> QED BY <1>6, <1>7, <1>8, <1>9, <1>10

\* A put that has its turn stays one: what its place asks of it.
LEMMA PutGoesOn ==
  ASSUME IInv, NEW c \in Call, pc[c] \in Putting,
         NEW place \in {"file", "write", "commit", "cleanup"},
         pc' = [pc EXCEPT ![c] = place], UNCHANGED <<tail, result>>,
         UNCHANGED <<faults, rooted, loaded, known, closing, request, had, aborted, answer>>,
         disk' \in [Entry -> Content],
         writable' \in [Call -> {"none", "open", "aborted"}],
         faults = 0 => \A e \in DOMAIN known : disk'[e] # Absent,
         NothingHalfWritten'
  PROVE  IInv'
<1>1. Turn(c) /\ pc[c] # "idle"
  BY RunningTurn DEF IInv, Running, Place, Putting
<1>2. KnownInv'
  BY DEF KnownInv
<1>3. place \in Running /\ place # "read" /\ place # "root" /\ place # "remove"
  BY DEF Running, Place
<1>4. request[c].kind = "put" /\ loaded /\ (had[c] <=> request[c].entry \in DOMAIN known)
  BY DEF IInv, PlaceInv
<1> QED BY <1>1, <1>2, <1>3, <1>4, GoKeeps DEF IInv, Shape

\* A put goes on before anything is created, or past the point where it was.
LEMMA SameDiskGoesOn ==
  ASSUME IInv, NEW c \in Call, pc[c] \in Putting,
         NEW place \in {"file", "write", "commit", "cleanup"}, GoTo(c, place),
         place \in {"write", "commit", "cleanup"} \/ pc[c] = "directory",
         UNCHANGED <<disk, faults, rooted, loaded, known, closing, request, had, aborted, answer>>
  PROVE  IInv'
<1>1. Turn(c) /\ pc[c] \in Running
  BY RunningTurn DEF IInv, Running, Place, Putting
<1>2. /\ pc' = [pc EXCEPT ![c] = place] /\ UNCHANGED <<tail, result, writable>>
      /\ pc'[c] = place
  BY DEF GoTo, IInv, Shape
<1>3. NothingHalfWritten'
  <2> SUFFICES ASSUME NEW e \in Entry, disk[e] = Created, faults = 0
               PROVE  pc'[c] \in {"write", "commit", "cleanup"} /\ request[c].entry = e /\ ~had[c]
    BY DEF NothingHalfWritten
  <2> QED BY <1>1, <1>2, CreatedByHead
<1>4. faults = 0 => \A e \in DOMAIN known : disk[e] # Absent
  BY DEF IInv, KnownInv, PlaceInv
<1> QED BY <1>2, <1>3, <1>4, PutGoesOn DEF IInv, Shape

LEMMA OpenDirectoryInv ==
  ASSUME IInv, NEW c \in Call, OpenDirectory(c)
  PROVE  IInv'
<1>1. /\ pc[c] = "directory"
      /\ UNCHANGED <<disk, faults, rooted, loaded, known, closing, request, had, aborted, answer>>
  BY DEF OpenDirectory
<1>2. Turn(c) /\ pc[c] # "idle"
  BY <1>1, RunningTurn DEF IInv, Running, Place
<1>3. CASE Settle(c, "rejected")
  <2>1. KnownInv'
    BY <1>1 DEF IInv, KnownInv
  <2>2. faults = 0 => \A e \in Entry : disk[e] # Created
    BY <1>1, <1>2, CreatedByHead
  <2> QED BY <1>1, <1>2, <1>3, <2>1, <2>2, SettleKeeps DEF IInv, Shape
<1>4. CASE GoTo(c, IF Refused(c) THEN "cleanup" ELSE "file")
  BY <1>1, <1>4, SameDiskGoesOn DEF Putting
<1> QED BY <1>3, <1>4 DEF OpenDirectory

LEMMA OpenFileInv ==
  ASSUME IInv, NEW c \in Call, OpenFile(c)
  PROVE  IInv'
<1> DEFINE r == request[c]
           opened == [disk EXCEPT ![r.entry] = IF @ = Absent THEN Created ELSE @]
<1>1. /\ pc[c] = "file" /\ pc[c] \in Putting /\ disk' \in {disk, opened}
      /\ UNCHANGED <<faults, rooted, loaded, known, closing, request, had, aborted, answer>>
  BY DEF OpenFile, Putting
<1>2. Turn(c)
  BY <1>1, RunningTurn DEF IInv, Running, Place
<1>3. r.kind = "put" /\ loaded /\ (had[c] <=> r.entry \in DOMAIN known)
  BY <1>1 DEF IInv, PlaceInv
<1>4. PICK place \in {"write", "cleanup"} :
        /\ pc' = [pc EXCEPT ![c] = place] /\ UNCHANGED <<tail, result>>
        /\ writable' \in [Call -> {"none", "open", "aborted"}]
  BY DEF OpenFile, GoTo, IInv, Shape
<1>5. disk \in [Entry -> Content] /\ disk' \in [Entry -> Content]
  BY <1>1 DEF IInv, Shape, Content
<1>6. faults = 0 => \A e \in Entry : disk[e] # Created
  BY <1>1, <1>2, CreatedByHead
<1>7. NothingHalfWritten'
  <2> SUFFICES ASSUME NEW e \in Entry, disk'[e] = Created, faults = 0
               PROVE  pc'[c] \in {"write", "cleanup"} /\ r.entry = e /\ ~had[c]
    BY <1>1 DEF NothingHalfWritten
  <2>1. e = r.entry /\ disk[e] = Absent
    BY <1>1, <1>5, <1>6
  <2>2. ~had[c]
    BY <1>3, <2>1 DEF IInv, KnownInv
  <2>3. pc'[c] = place
    BY <1>4 DEF IInv, Shape
  <2> QED BY <2>1, <2>2, <2>3
<1>8. faults = 0 => \A e \in DOMAIN known : disk'[e] # Absent
  <2> SUFFICES ASSUME faults = 0, NEW e \in DOMAIN known PROVE disk'[e] # Absent
    OBVIOUS
  <2>1. disk[e] # Absent /\ e \in Entry
    BY <1>3 DEF IInv, KnownInv, Shape
  <2> QED BY <2>1, <1>1, <1>5, ContentAssumption
<1> QED BY <1>1, <1>4, <1>5, <1>7, <1>8, PutGoesOn

LEMMA WriteInv ==
  ASSUME IInv, NEW c \in Call, Write(c) \/ CommitFails(c)
  PROVE  IInv'
<1>1. /\ pc[c] \in Putting
      /\ GoTo(c, "cleanup") \/ GoTo(c, "commit")
      /\ UNCHANGED <<disk, faults, rooted, loaded, known, closing, request, had, aborted, answer>>
  BY DEF Write, CommitFails, Putting
<1> QED BY <1>1, SameDiskGoesOn

LEMMA CommitInv ==
  ASSUME IInv, NEW c \in Call, Commit(c)
  PROVE  IInv'
<1> DEFINE r == request[c]
<1>1. /\ pc[c] = "commit" /\ pc[c] \in Putting /\ disk' = [disk EXCEPT ![r.entry] = r.blob]
      /\ UNCHANGED <<faults, rooted, loaded, closing, request, had, aborted, answer>>
  BY DEF Commit, Putting
<1>2. Turn(c) /\ pc[c] # "idle"
  BY <1>1, RunningTurn DEF IInv, Running, Place
<1>3. /\ r.kind = "put" /\ r \in Request /\ loaded
  BY <1>1 DEF IInv, PlaceInv, TailInv
<1>4. r.entry \in Entry /\ r.blob \in Blob
  BY <1>3 DEF Request
<1>5. /\ disk' \in [Entry -> Content] /\ disk'[r.entry] = r.blob
      /\ \A e \in Entry : e # r.entry => disk'[e] = disk[e]
  BY <1>1, <1>4 DEF IInv, Shape, Content
<1>6. faults = 0 => \A e \in Entry : disk'[e] # Created
  BY <1>1, <1>2, <1>4, <1>5, CreatedByHead, ContentAssumption
<1>7. \A e \in Entry : disk[e] # Absent => disk'[e] # Absent
  BY <1>4, <1>5, ContentAssumption
<1>8. CASE closed
  <2>1. GoTo(c, "cleanup") /\ known' = known
    BY <1>8 DEF Commit
  <2>2. pc' = [pc EXCEPT ![c] = "cleanup"] /\ UNCHANGED <<tail, result, writable>>
    BY <2>1 DEF GoTo
  <2>3. NothingHalfWritten'
    BY <1>1, <1>6 DEF NothingHalfWritten
  <2>4. faults = 0 => \A e \in DOMAIN known : disk'[e] # Absent
    BY <1>3, <1>7 DEF IInv, KnownInv, Shape
  <2> QED BY <1>1, <1>5, <2>1, <2>2, <2>3, <2>4, PutGoesOn DEF IInv, Shape
<1>9. CASE ~closed
  <2>1. Settle(c, "done")
    BY <1>9 DEF Commit
  <2>2. DOMAIN known' = DOMAIN known \cup {r.entry}
    BY <1>9 DEF Commit
  <2>3. DOMAIN known' \subseteq Entry
    BY <2>2, <1>4 DEF IInv, Shape
  <2>4. KnownInv'
    <3> SUFFICES ASSUME faults = 0, NEW e \in DOMAIN known' PROVE disk'[e] # Absent
      BY <1>1 DEF KnownInv
    <3>1. CASE e = r.entry
      BY <3>1, <1>4, <1>5, ContentAssumption
    <3>2. CASE e \in DOMAIN known
      BY <3>2, <1>7 DEF IInv, KnownInv, Shape
    <3> QED BY <3>1, <3>2, <2>2
  <2> QED BY <1>1, <1>2, <1>5, <1>6, <2>1, <2>3, <2>4, SettleKeeps DEF IInv, Shape
<1> QED BY <1>8, <1>9

LEMMA CleanupInv ==
  ASSUME IInv, NEW c \in Call, Cleanup(c)
  PROVE  IInv'
<1> DEFINE e == request[c].entry
<1>1. /\ pc[c] = "cleanup" /\ Settle(c, "rejected")
      /\ UNCHANGED <<rooted, loaded, known, closing, request, had, aborted, answer>>
  BY DEF Cleanup
<1>2. Turn(c) /\ pc[c] # "idle"
  BY <1>1, RunningTurn DEF IInv, Running, Place
<1>3. /\ request[c].kind = "put" /\ request[c] \in Request /\ loaded
      /\ had[c] <=> e \in DOMAIN known
  BY <1>1 DEF IInv, PlaceInv, TailInv, Putting
<1>4. e \in Entry
  BY <1>3 DEF Request
<1>5. faults = 0 => \A f \in Entry : disk[f] = Created => f = e /\ ~had[c]
  BY <1>2, CreatedByHead
<1>6. CASE disk' = [disk EXCEPT ![e] = IF had[c] THEN @ ELSE Absent] /\ faults' = faults
  <2>1. /\ disk' \in [Entry -> Content]
        /\ \A f \in Entry : disk'[f] = IF f = e /\ ~had[c] THEN Absent ELSE disk[f]
    BY <1>4, <1>6 DEF IInv, Shape, Content
  <2>2. faults = 0 => \A f \in Entry : disk'[f] # Created
    BY <1>5, <2>1, ContentAssumption
  <2>3. KnownInv'
    BY <1>1, <1>3, <1>6, <2>1 DEF IInv, KnownInv, Shape
  <2> QED BY <1>1, <1>2, <1>6, <2>1, <2>2, <2>3, SettleKeeps DEF IInv, Shape
<1>7. CASE disk' = disk /\ faults' = faults + 1
  <2>1. faults' \in Nat /\ faults' # 0
    BY <1>7 DEF IInv, Shape
  <2>2. KnownInv'
    BY <2>1 DEF KnownInv
  <2> QED BY <1>1, <1>2, <1>7, <2>1, <2>2, SettleKeeps DEF IInv, Shape
<1> QED BY <1>6, <1>7 DEF Cleanup

LEMMA ReadInv ==
  ASSUME IInv, NEW c \in Call, Read(c)
  PROVE  IInv'
<1>1. /\ pc[c] = "read"
      /\ UNCHANGED <<disk, faults, rooted, loaded, known, closing, request, had, aborted>>
  BY DEF Read
<1>2. Turn(c) /\ pc[c] # "idle"
  BY <1>1, RunningTurn DEF IInv, Running, Place
<1>3. request[c].kind = "get" /\ request[c] \in Request
  BY <1>1 DEF IInv, PlaceInv, TailInv
<1>4. request[c].entry \in Entry
  BY <1>3 DEF Request
<1>5. answer' \in [Call -> Content]
  BY <1>4 DEF Read, IInv, Shape
<1>6. KnownInv'
  BY <1>1 DEF IInv, KnownInv
<1>7. faults = 0 => \A e \in Entry : disk[e] # Created
  BY <1>1, <1>2, CreatedByHead
<1>8. Settle(c, "rejected") \/ Settle(c, "done")
  BY DEF Read
<1> QED BY <1>1, <1>2, <1>5, <1>6, <1>7, <1>8, SettleKeeps DEF IInv, Shape

LEMMA WithoutType ==
  ASSUME NEW d \in [Entry -> Content], NEW files
  PROVE  /\ Without(d, files) \in [Entry -> Content]
         /\ \A e \in Entry : Without(d, files)[e] = IF e \in files THEN Absent ELSE d[e]
BY DEF Without, Content

LEMMA RemoveFailsInv ==
  ASSUME IInv, NEW c \in Call, RemoveFails(c)
  PROVE  IInv'
<1>1. /\ pc[c] = "remove" /\ Settle(c, "rejected") /\ faults' = faults + 1
      /\ UNCHANGED <<rooted, loaded, known, closing, request, had, aborted, answer>>
  BY DEF RemoveFails
<1>2. Turn(c) /\ pc[c] # "idle"
  BY <1>1, RunningTurn DEF IInv, Running, Place
<1>3. faults' \in Nat /\ faults' # 0
  BY <1>1 DEF IInv, Shape
<1>4. disk' \in [Entry -> Content]
  BY WithoutType DEF RemoveFails, IInv, Shape
<1>5. KnownInv'
  BY <1>3 DEF KnownInv
<1> QED BY <1>1, <1>2, <1>3, <1>4, <1>5, SettleKeeps DEF IInv, Shape

LEMMA RemoveInv ==
  ASSUME IInv, NEW c \in Call, Remove(c)
  PROVE  IInv'
<1> DEFINE files == Covered(request[c])
<1>1. /\ pc[c] = "remove" /\ Settle(c, "done") /\ disk' = Without(disk, files)
      /\ known' = Restrict(known, DOMAIN known \ files)
      /\ rooted' \in BOOLEAN /\ loaded' \in BOOLEAN
      /\ UNCHANGED <<faults, closing, request, had, aborted, answer>>
  BY DEF Remove, IInv, Shape
<1>2. Turn(c) /\ pc[c] # "idle"
  BY <1>1, RunningTurn DEF IInv, Running, Place
<1>3. /\ disk' \in [Entry -> Content]
      /\ \A e \in Entry : disk'[e] = IF e \in files THEN Absent ELSE disk[e]
  BY <1>1, WithoutType DEF IInv, Shape
<1>4. DOMAIN known' = DOMAIN known \ files /\ DOMAIN known \subseteq Entry
  BY <1>1 DEF Restrict, IInv, Shape
<1>5. faults = 0 => \A e \in Entry : disk[e] # Created
  BY <1>1, <1>2, CreatedByHead
<1>6. faults = 0 => \A e \in Entry : disk'[e] # Created
  BY <1>3, <1>5, ContentAssumption
<1>7. KnownInv'
  <2> SUFFICES ASSUME faults = 0, NEW e \in DOMAIN known' PROVE disk'[e] # Absent
    BY <1>1 DEF KnownInv
  <2> QED BY <1>3, <1>4 DEF IInv, KnownInv
<1> QED BY <1>1, <1>2, <1>3, <1>4, <1>6, <1>7, SettleKeeps DEF IInv, Shape

LEMMA StepInv ==
  ASSUME IInv, NEW c \in Call, Step(c)
  PROVE  IInv'
BY StartInv, RootFailsInv, RootReadyInv, OpenDirectoryInv, OpenFileInv, WriteInv, CommitInv,
   CleanupInv, ReadInv, RemoveFailsInv, RemoveInv DEF Step

----------------------------------------------------------------------------
\* The callers, close() and the end of the worker.

LEMMA MakeInv ==
  ASSUME IInv, NEW c \in Call, NEW r \in Request, Make(c, r)
  PROVE  IInv'
<1>1. /\ request[c] = NoRequest /\ request' = [request EXCEPT ![c] = r]
      /\ UNCHANGED <<disk, faults, rooted, loaded, known, closing, had, writable, aborted, answer>>
  BY DEF Make
<1>2. pc[c] = "idle" /\ ~OnTail(c)
  BY <1>1, RequestAssumption DEF IInv, TailInv
<1>3. /\ request' \in [Call -> Request \cup {NoRequest}] /\ request'[c] = r
      /\ \A d \in Call : d # c => request'[d] = request[d]
  BY <1>1 DEF IInv, Shape
<1>4. KnownInv'
  BY <1>1 DEF IInv, KnownInv
<1>5. NothingHalfWritten'
  <2> SUFFICES ASSUME NEW e \in Entry, disk[e] = Created, faults = 0
               PROVE  \E d \in Call : /\ pc'[d] \in {"write", "commit", "cleanup"}
                                      /\ request'[d].entry = e /\ ~had[d]
    BY <1>1 DEF NothingHalfWritten
  <2>1. PICK d \in Call : /\ pc[d] \in {"write", "commit", "cleanup"}
                          /\ request[d].entry = e /\ ~had[d]
    BY DEF IInv, NothingHalfWritten
  <2>2. pc'[d] = pc[d] /\ d # c
    BY <1>2, <2>1 DEF Make, IInv, Shape
  <2> QED BY <1>3, <2>1, <2>2
<1>6. CASE Refused(c)
  <2>1. UNCHANGED <<tail, pc>> /\ result' = [result EXCEPT ![c] = "rejected"]
    BY <1>6 DEF Make
  <2>2. Shape'
    BY <1>1, <1>3, <2>1 DEF IInv, Shape
  <2>3. TailInv'
    BY <1>1, <1>2, <1>3, <2>1 DEF IInv, Shape, TailInv, OnTail, Running
  <2>4. PlaceInv'
    BY <1>1, <1>2, <1>3, <2>1 DEF IInv, PlaceInv, Putting
  <2> QED BY <1>4, <1>5, <2>2, <2>3, <2>4 DEF IInv
<1>7. CASE ~Refused(c)
  <2>1. /\ tail' = Append(tail, c) /\ pc' = [pc EXCEPT ![c] = "queued"]
        /\ result' = [result EXCEPT ![c] = "pending"] /\ closing = "open"
    BY <1>7 DEF Make, Refused, closed
  <2>2. /\ tail \in Seq(Call) /\ tail' \in Seq(Call)
        /\ DOMAIN tail = 1 .. Len(tail) /\ DOMAIN tail' = 1 .. (Len(tail) + 1) /\ Len(tail) \in Nat
        /\ tail'[Len(tail) + 1] = c /\ \A i \in DOMAIN tail : tail'[i] = tail[i]
    BY <2>1 DEF IInv, Shape
  <2>3. /\ pc' \in [Call -> Place] /\ pc'[c] = "queued" /\ result'[c] = "pending"
        /\ result' \in [Call -> {"none", "pending", "done", "rejected", "lost"}]
        /\ \A d \in Call : d # c => pc'[d] = pc[d] /\ result'[d] = result[d]
    BY <2>1 DEF IInv, Shape, Place
  <2>4. Shape'
    BY <1>1, <1>3, <2>2, <2>3 DEF IInv, Shape
  <2>5. \A i, k \in DOMAIN tail' : tail'[i] = tail'[k] => i = k
    <3>1. \A i \in DOMAIN tail : tail[i] # c
      BY <1>2 DEF OnTail
    <3>2. \A i \in DOMAIN tail' : i \in DOMAIN tail \/ i = Len(tail) + 1
      BY <2>2
    <3> QED BY <2>2, <3>1, <3>2 DEF IInv, TailInv
  <2>6. ASSUME NEW d \in Call
        PROVE  /\ pc'[d] # "idle" <=> OnTail(d)'
               /\ pc'[d] # "idle" <=> result'[d] = "pending"
               /\ pc'[d] # "idle" => request'[d] \in Request
               /\ pc'[d] \in Running => tail'[1] = d
    <3>1. CASE d = c
      BY <1>3, <2>2, <2>3, <3>1 DEF OnTail, Running
    <3>2. CASE d # c
      <4>1. OnTail(d)' <=> OnTail(d)
        BY <2>2, <3>2 DEF OnTail
      <4>2. pc[d] \in Running => 1 \in DOMAIN tail
        BY <2>2 DEF IInv, TailInv, Running, OnTail
      <4> QED BY <1>3, <2>2, <2>3, <3>2, <4>1, <4>2 DEF IInv, TailInv
    <3> QED BY <3>1, <3>2
  <2>7. TailInv'
    BY <1>1, <2>1, <2>5, <2>6 DEF TailInv
  <2>8. PlaceInv'
    BY <1>1, <1>3, <2>3 DEF IInv, PlaceInv, Putting
  <2> QED BY <1>4, <1>5, <2>4, <2>7, <2>8 DEF IInv
<1> QED BY <1>6, <1>7

LEMMA SignalInv == ASSUME IInv, (\E c \in Call : Signal(c)) \/ Close PROVE IInv'
<1>1. UNCHANGED <<disk, faults, rooted, loaded, known, tail, request, pc, had, result, answer>>
  BY DEF Signal, Close
<1>2. /\ writable' \in [Call -> {"none", "open", "aborted"}] /\ aborted' \subseteq Call
      /\ closing' \in {closing, "draining"}
  BY DEF Signal, Close, IInv, Shape
<1>3. Shape' /\ TailInv'
  BY <1>1, <1>2 DEF IInv, Shape, TailInv, OnTail
<1>4. PlaceInv' /\ KnownInv' /\ NothingHalfWritten'
  BY <1>1 DEF IInv, PlaceInv, KnownInv, NothingHalfWritten
<1> QED BY <1>3, <1>4 DEF IInv

LEMMA CloseResolvesInv == ASSUME IInv, CloseResolves PROVE IInv'
<1>1. /\ closing' = "closed" /\ rooted' = FALSE
      /\ UNCHANGED <<disk, faults, loaded, known, tail, request, pc, had, writable, aborted,
                     result, answer>>
  BY DEF CloseResolves
<1>2. Shape'
  BY <1>1 DEF IInv, Shape
<1>3. tail' = <<>>
  BY DEF CloseResolves
<1>4. TailInv'
  BY <1>1, <1>3 DEF IInv, TailInv, OnTail
<1>5. PlaceInv' /\ KnownInv' /\ NothingHalfWritten'
  BY <1>1 DEF IInv, PlaceInv, KnownInv, NothingHalfWritten
<1> QED BY <1>2, <1>4, <1>5 DEF IInv

LEMMA RequestTypes ==
  ASSUME NEW r \in Request
  PROVE  /\ r.kind \in {"put", "get", "purgeAnalysis", "purge"}
         /\ r.kind = "put" => r.entry \in Entry /\ r.blob \in Blob
         /\ r.kind = "get" => r.entry \in Entry
BY DEF Request

\* Whatever the end of the worker leaves of a request, contents are contents.
LEMMA UnansweredType ==
  ASSUME IInv, NEW c \in Call, Unanswered(c)
  PROVE  disk' \in [Entry -> Content]
<1>1. CASE pc[c] = "remove"
  <2>1. PICK files : disk' = Without(disk, files)
    BY <1>1 DEF Unanswered
  <2> QED BY <2>1, WithoutType DEF IInv, Shape
<1>2. CASE pc[c] # "remove"
  <2>1. pc[c] \in Putting
    BY <1>2 DEF Unanswered, Putting
  <2>2. request[c] \in Request /\ request[c].kind = "put"
    BY <2>1 DEF IInv, PlaceInv, TailInv, Putting
  <2>3. request[c].blob \in Blob
    BY <2>2, RequestTypes
  <2> QED BY <1>2, <2>3 DEF Unanswered, IInv, Shape, Content
<1> QED BY <1>1, <1>2

LEMMA ReloadInv == ASSUME IInv, Reload PROVE IInv'
<1>1. /\ faults' = faults + 1 /\ rooted' = FALSE /\ loaded' = FALSE /\ known' = <<>>
      /\ closing' = "open" /\ tail' = <<>> /\ pc' = [c \in Call |-> "idle"]
      /\ had' = [c \in Call |-> FALSE] /\ writable' = [c \in Call |-> "none"]
      /\ result' = [c \in Call |-> IF result[c] = "pending" THEN "lost" ELSE result[c]]
      /\ UNCHANGED <<request, aborted, answer>>
  BY DEF Reload
<1>2. disk' \in [Entry -> Content]
  BY UnansweredType DEF Reload, IInv, Shape
<1>3. faults' \in Nat /\ faults' # 0
  BY <1>1 DEF IInv, Shape
<1>4. tail' \in Seq(Call) /\ DOMAIN tail' = {} /\ DOMAIN known' = {}
  BY <1>1
<1>5. Shape'
  BY <1>1, <1>2, <1>3, <1>4 DEF IInv, Shape, Place
<1>6. TailInv'
  BY <1>1, <1>4 DEF TailInv, OnTail, Running, IInv, Shape
<1>7. PlaceInv' /\ KnownInv' /\ NothingHalfWritten'
  BY <1>1, <1>3 DEF PlaceInv, Putting, KnownInv, NothingHalfWritten
<1> QED BY <1>5, <1>6, <1>7 DEF IInv

LEMMA InitInv == Init => IInv
<1> SUFFICES ASSUME Init PROVE IInv
  OBVIOUS
<1>1. tail \in Seq(Call) /\ DOMAIN tail = {} /\ DOMAIN known = {}
  BY DEF Init
<1>2. disk \in [Entry -> Content] /\ \A e \in Entry : disk[e] # Created
  BY ContentAssumption DEF Init, Content
<1>3. Shape
  BY <1>1, <1>2 DEF Init, Shape, Place, Content
<1>4. TailInv
  BY <1>1 DEF Init, TailInv, OnTail, Running
<1>5. PlaceInv /\ KnownInv /\ NothingHalfWritten
  BY <1>1, <1>2 DEF Init, PlaceInv, Putting, KnownInv, NothingHalfWritten
<1> QED BY <1>3, <1>4, <1>5 DEF IInv

LEMMA NextInv == IInv /\ [Next]_vars => IInv'
<1> SUFFICES ASSUME IInv, [Next]_vars PROVE IInv'
  OBVIOUS
<1>1. CASE UNCHANGED vars
  BY <1>1 DEF IInv, vars, instance, Shape, TailInv, OnTail, PlaceInv, KnownInv, NothingHalfWritten
<1> QED BY <1>1, MakeInv, SignalInv, StepInv, CloseResolvesInv, ReloadInv DEF Next

\* The storage's inductive invariant.
THEOREM Invariance == Safety => []IInv
<1> QED BY InitInv, NextInv, PTL DEF Safety

\* A file that a put created and did not commit is there only while that put is under
\* way, as long as no removal failed and no worker ended: the catch of put and the
\* order of its awaits see to it (opfs-storage.mjs:94).
THEOREM NoFileIsHalfWritten == Safety => []NothingHalfWritten
<1> QED BY Invariance, PTL DEF IInv

----------------------------------------------------------------------------
\* The storage once it is closed.

LEMMA ClosedIsIdle ==
  ASSUME IInv, closing = "closed"
  PROVE  \A c \in Call : pc[c] = "idle" /\ result[c] # "pending"
<1>1. tail = <<>>
  BY DEF IInv, TailInv
<1>2. \A c \in Call : ~OnTail(c)
  BY <1>1 DEF OnTail
<1> QED BY <1>2 DEF IInv, TailInv

LEMMA StepRuns == ASSUME NEW c \in Call, Step(c) PROVE pc[c] # "idle"
BY DEF Step, Start, RootFails, RootReady, OpenDirectory, OpenFile, Write, CommitFails, Commit,
       Cleanup, Read, RemoveFails, Remove

LEMMA ClosedStep ==
  ASSUME IInv, [Next]_vars, closing = "closed"
  PROVE  disk' = disk /\ \A c \in Call : result[c] # "pending"
<1>1. \A c \in Call : pc[c] = "idle" /\ result[c] # "pending"
  BY ClosedIsIdle
<1>2. CASE Reload
  <2>1. disk' = disk
    BY <1>1, <1>2 DEF Reload, Unanswered
  <2> QED BY <1>1, <2>1
<1>3. CASE UNCHANGED vars
  BY <1>1, <1>3 DEF vars
<1>4. CASE \E c \in Call : (\E r \in Request : Make(c, r)) \/ Signal(c)
  BY <1>1, <1>4 DEF Make, Signal
<1>5. CASE Close \/ CloseResolves
  BY <1>1, <1>5 DEF Close, CloseResolves
<1> QED BY <1>1, <1>2, <1>3, <1>4, <1>5, StepRuns DEF Next

\* After close() has resolved the disk is left alone, and no caller waits.
THEOREM ClosedStorageIsQuiet == Safety => ClosedIsQuiet
<1>1. IInv /\ [Next]_vars =>
        [closing = "closed" => disk' = disk /\ \A c \in Call : result[c] # "pending"]_vars
  BY ClosedStep
<1> QED BY <1>1, Invariance, PTL DEF Safety, ClosedIsQuiet

----------------------------------------------------------------------------
\* Sums of sizes.

\* A sum of sizes counts something: the units of every size, told apart.  The fold
\* that Functions sums with is recursive, so what it yields is proved once, in
\* SumIsCount; all else about sums is about finite sets.
Sized(f, S) == IsFiniteSet(S) /\ \A x \in S : f[x] \in Nat
Units(f, S) == UNION {{x} \X (1 .. f[x]) : x \in S}
Count(f, S) == Cardinality(Units(f, S))

\* One thing has as many units as its size.
LEMMA UnitsOfOne ==
  ASSUME NEW x, NEW n \in Nat
  PROVE  IsFiniteSet({x} \X (1 .. n)) /\ Cardinality({x} \X (1 .. n)) = n
<1> DEFINE one == {x}
           I == 1 .. n
<1>1. IsFiniteSet(I) /\ Cardinality(I) = n
  <2>1. Cardinality(I) = IF 1 > n THEN 0 ELSE n - 1 + 1
    BY FS_Interval
  <2> QED BY <2>1, FS_Interval
<1>2. IsFiniteSet(one) /\ Cardinality(one) = 1
  BY FS_Singleton
<1> HIDE DEF one, I
<1>3. IsFiniteSet(one \X I) /\ Cardinality(one \X I) = Cardinality(one) * Cardinality(I)
  BY <1>1, <1>2, FS_Product
<1>4. 1 * n = n
  OBVIOUS
<1> QED BY <1>1, <1>2, <1>3, <1>4 DEF one, I

\* Finitely many things have finitely many units.
LEMMA UnitsFinite ==
  ASSUME NEW S, IsFiniteSet(S), NEW f, \A x \in S : f[x] \in Nat
  PROVE  IsFiniteSet(Units(f, S))
<1> DEFINE T == {{x} \X (1 .. f[x]) : x \in S}
           of == [x \in S |-> {x} \X (1 .. f[x])]
<1>1. of \in Surjection(S, T)
  BY DEF Surjection
<1>2. IsFiniteSet(T)
  <2> HIDE DEF T, of
  <2> QED BY <1>1, FS_Surjection
<1>3. ASSUME NEW x \in S PROVE IsFiniteSet({x} \X (1 .. f[x]))
  <2>1. f[x] \in Nat
    OBVIOUS
  <2> QED BY <2>1, UnitsOfOne
<1> QED BY <1>2, <1>3, FS_UNION DEF Units

\* What every step of the fold adds.
LEMMA CountStep ==
  ASSUME NEW S, IsFiniteSet(S), NEW f, \A x \in S : f[x] \in Nat, NEW x \in S
  PROVE  Count(f, S) = f[x] + Count(f, S \ {x}) /\ Count(f, S) \in Nat
<1> DEFINE A == Units(f, S \ {x})
           B == {x} \X (1 .. f[x])
<1>1. IsFiniteSet(A) /\ IsFiniteSet(S \ {x}) /\ IsFiniteSet(Units(f, S))
  BY FS_RemoveElement, UnitsFinite
<1>2. IsFiniteSet(B) /\ Cardinality(B) = f[x]
  BY f[x] \in Nat, UnitsOfOne
<1>3. Units(f, S) = A \cup B /\ A \cap B = {}
  BY DEF Units
<1>4. Cardinality(A) \in Nat /\ Cardinality(Units(f, S)) \in Nat
  BY <1>1, FS_CardinalityType
<1> HIDE DEF A, B
<1>5. Cardinality(A \cup B) = Cardinality(A) + Cardinality(B) - Cardinality(A \cap B)
  BY <1>1, <1>2, FS_Union
<1>6. Cardinality(A \cap B) = 0
  BY <1>3, FS_EmptySet
<1> QED BY <1>2, <1>3, <1>4, <1>5, <1>6 DEF Count, A

\* The fold sums: there is one function that solves its recursive equation, since two
\* would differ on a smallest set.
LEMMA SumIsCount ==
  ASSUME NEW S, IsFiniteSet(S), NEW f, \A x \in S : f[x] \in Nat
  PROVE  FoldFunctionOnSet(+, 0, f, S) = Count(f, S)
<1> DEFINE Folded(g) ==
      [s \in SUBSET S |-> IF s = {} THEN 0
                          ELSE LET x == CHOOSE x \in s : TRUE IN f[x] + g[s \ {x}]]
      count == [s \in SUBSET S |-> Count(f, s)]
      it == CHOOSE h : h = Folded(h)
<1>1. Count(f, {}) = 0
  BY FS_EmptySet DEF Count, Units
<1>2. ASSUME NEW s \in SUBSET S, s # {}, NEW x, x = CHOOSE y \in s : TRUE
      PROVE  x \in s /\ s \ {x} \in SUBSET S /\ count[s] = f[x] + count[s \ {x}]
  <2>1. x \in s /\ IsFiniteSet(s)
    BY <1>2, FS_Subset
  <2>2. Count(f, s) = f[x] + Count(f, s \ {x})
    BY <2>1, CountStep
  <2> QED BY <2>1, <2>2
<1>3. count = Folded(count)
  BY <1>1, <1>2
<1>4. ASSUME NEW h, h = Folded(h), NEW s \in SUBSET S, h[s] # count[s] PROVE FALSE
  <2> DEFINE Bad == {t \in SUBSET S : h[t] # count[t]}
  <2>1. PICK t \in Bad : \A u \in Bad : <<u, t>> \notin StrictSubsetOrdering(S)
    <3>1. Bad \subseteq SUBSET S /\ s \in Bad
      BY <1>4
    <3>2. IsWellFoundedOn(StrictSubsetOrdering(S), SUBSET S)
      BY FS_StrictSubsetOrderingWellFounded, FS_FiniteSubsetsOfFinite
    <3> HIDE DEF Bad
    <3> QED BY <3>1, <3>2, WFMin
  <2>2. t # {}
    BY <2>1, <1>1, <1>4
  <2> DEFINE x == CHOOSE y \in t : TRUE
  <2>3. x \in t /\ t \ {x} \in SUBSET S /\ count[t] = f[x] + count[t \ {x}]
    <3>1. t \in SUBSET S
      BY <2>1
    <3> HIDE DEF count
    <3> QED BY <3>1, <2>2, <1>2
  <2>4. h[t] = f[x] + h[t \ {x}]
    BY <2>2, <1>4
  <2>5. h[t \ {x}] = count[t \ {x}]
    <3>1. <<t \ {x}, t>> \in StrictSubsetOrdering(S)
      BY <2>1, <2>3 DEF StrictSubsetOrdering
    <3> QED BY <2>1, <2>3, <3>1
  <2> QED BY <2>1, <2>3, <2>4, <2>5
<1>5. \A h : h = Folded(h) => h = count
  BY <1>4
<1>6. it = count
  <2> HIDE DEF Folded, count
  <2> QED BY <1>3, <1>5
<1>7. FoldFunctionOnSet(+, 0, f, S) = it[S]
  BY Zenon DEF FoldFunctionOnSet, MapThenFoldSet
<1> QED BY <1>6, <1>7

\* What the proofs below use of sums.
LEMMA SumType == ASSUME NEW f, NEW S, Sized(f, S) PROVE SumFunctionOnSet(f, S) \in Nat
<1>1. FoldFunctionOnSet(+, 0, f, S) = Count(f, S)
  BY SumIsCount DEF Sized
<1>2. Count(f, S) \in Nat
  BY UnitsFinite, FS_CardinalityType DEF Sized, Count
<1> QED BY <1>1, <1>2 DEF SumFunctionOnSet

LEMMA SumOfNone == ASSUME NEW f PROVE SumFunctionOnSet(f, {}) = 0
<1>1. FoldFunctionOnSet(+, 0, f, {}) = Count(f, {})
  BY SumIsCount, FS_EmptySet
<1>2. Count(f, {}) = 0
  BY FS_EmptySet DEF Count, Units
<1> QED BY <1>1, <1>2 DEF SumFunctionOnSet

LEMMA SumOfZeros ==
  ASSUME NEW f, NEW S, IsFiniteSet(S), \A x \in S : f[x] = 0
  PROVE  SumFunctionOnSet(f, S) = 0
<1>1. Sized(f, S)
  BY DEF Sized
<1>2. \A x \in S : 1 .. f[x] = {}
  OBVIOUS
<1>3. Units(f, S) = {}
  BY <1>2 DEF Units
<1> QED BY <1>1, <1>3, SumIsCount, FS_EmptySet DEF SumFunctionOnSet, Count, Sized

LEMMA SumWithout ==
  ASSUME NEW f, NEW S, Sized(f, S), NEW x \in S
  PROVE  SumFunctionOnSet(f, S) = f[x] + SumFunctionOnSet(f, S \ {x})
<1>1. Count(f, S) = f[x] + Count(f, S \ {x})
  BY CountStep DEF Sized
<1>2. FoldFunctionOnSet(+, 0, f, S) = Count(f, S)
  BY SumIsCount DEF Sized
<1>3. FoldFunctionOnSet(+, 0, f, S \ {x}) = Count(f, S \ {x})
  BY SumIsCount, FS_RemoveElement DEF Sized
<1> QED BY <1>1, <1>2, <1>3 DEF SumFunctionOnSet

LEMMA SumSplit ==
  ASSUME NEW f, NEW S, Sized(f, S), NEW T \in SUBSET S
  PROVE  SumFunctionOnSet(f, S) = SumFunctionOnSet(f, T) + SumFunctionOnSet(f, S \ T)
<1> DEFINE A == Units(f, T)
           B == Units(f, S \ T)
<1>1. IsFiniteSet(T) /\ IsFiniteSet(S \ T)
  BY FS_Subset, S \ T \subseteq S DEF Sized
<1>2. IsFiniteSet(A) /\ IsFiniteSet(B)
  BY <1>1, UnitsFinite DEF Sized
<1>3. Units(f, S) = A \cup B /\ A \cap B = {}
  BY DEF Units
<1>4. SumFunctionOnSet(f, S) = Cardinality(Units(f, S))
  BY SumIsCount DEF SumFunctionOnSet, Count, Sized
<1>5. SumFunctionOnSet(f, T) = Cardinality(A) /\ SumFunctionOnSet(f, S \ T) = Cardinality(B)
  BY <1>1, SumIsCount DEF SumFunctionOnSet, Count, Sized
<1> HIDE DEF A, B
<1>6. Cardinality(A \cup B) = Cardinality(A) + Cardinality(B) - Cardinality(A \cap B)
  BY <1>2, FS_Union
<1>7. Cardinality(A \cap B) = 0
  BY <1>3, FS_EmptySet
<1>8. Cardinality(A) \in Nat /\ Cardinality(B) \in Nat
  BY <1>2, FS_CardinalityType
<1> QED BY <1>3, <1>4, <1>5, <1>6, <1>7, <1>8

LEMMA SumGrows ==
  ASSUME NEW f, NEW g, NEW S, NEW T, Sized(f, S), Sized(g, T), S \subseteq T,
         \A x \in S : f[x] <= g[x]
  PROVE  SumFunctionOnSet(f, S) <= SumFunctionOnSet(g, T)
<1>1. Units(f, S) \subseteq Units(g, T)
  BY DEF Units, Sized
<1>2. IsFiniteSet(Units(g, T))
  BY UnitsFinite DEF Sized
<1>3. Cardinality(Units(f, S)) <= Cardinality(Units(g, T))
  BY <1>1, <1>2, FS_Subset
<1> QED BY <1>3, SumIsCount DEF SumFunctionOnSet, Count, Sized

LEMMA SumOfSame ==
  ASSUME NEW f, NEW g, NEW S, Sized(f, S), \A x \in S : f[x] = g[x]
  PROVE  SumFunctionOnSet(f, S) = SumFunctionOnSet(g, S)
<1>1. Sized(g, S)
  BY DEF Sized
<1>2. Units(f, S) = Units(g, S)
  BY DEF Units
<1> QED BY <1>1, <1>2, SumIsCount DEF SumFunctionOnSet, Count, Sized

----------------------------------------------------------------------------
\* The books: a second layer on the invariant.

\* Where a put still counts on the size it planned with.
Filling == Putting \ {"cleanup"}

\* What the books know of each file covers what it takes, exactly while no fault.
BooksHold ==
  \A e \in Entry : /\ Bytes(disk[e]) <= KnownSize(known, e)
                   /\ faults = 0 => Bytes(disk[e]) = KnownSize(known, e)

\* A put under way will bring the books to what it planned, which fits.
PlanInv ==
  \A c \in Call : pc[c] \in Filling =>
    LET r == request[c]
    IN  /\ planned[c] = used - KnownSize(known, r.entry) + Size[r.blob]
        /\ planned[c] <= Quota

\* In a closed storage a put that had its blob committed leaves the books behind; but
\* one that is still to commit has not, and no other call gets as far.
BooksInv ==
  /\ faults <= MaxFaults
  /\ planned \in [Call -> Nat]
  /\ \A e \in DOMAIN known : known[e] \in Nat
  /\ used = SumFunction(known)
  /\ loaded /\ (closed => \E c \in Call : pc[c] \in Filling) => BooksHold
  /\ PlanInv
  /\ DiskWithinQuota

Held(d) == [e \in Entry |-> Bytes(d[e])]
Booked(sizes) == [e \in Entry |-> KnownSize(sizes, e)]
Sizes(sizes) == DOMAIN sizes \subseteq Entry /\ \A e \in DOMAIN sizes : sizes[e] \in Nat

LEMMA EntryFinite == IsFiniteSet(Entry)
BY EntryAssumption, FS_Product DEF Entry

LEMMA HeldSum ==
  ASSUME NEW d
  PROVE  /\ Sized(Held(d), Entry) /\ \A e \in Entry : Held(d)[e] = Bytes(d[e]) /\ Bytes(d[e]) \in Nat
         /\ Total(Held(d)) = SumFunctionOnSet(Held(d), Entry)
<1>1. \A e \in Entry : Held(d)[e] = Bytes(d[e]) /\ Bytes(d[e]) \in Nat
  BY SizeAssumption DEF Held, Bytes
<1>2. Total(Held(d)) = SumFunctionOnSet(Held(d), Entry)
  BY DEF Total, FoldFunction, SumFunctionOnSet, Held
<1> QED BY <1>1, <1>2, EntryFinite DEF Sized

\* The sum of the known sizes is one over all files.
LEMMA BookedSum ==
  ASSUME NEW sizes, Sizes(sizes)
  PROVE  /\ Sized(Booked(sizes), Entry)
         /\ \A e \in Entry : Booked(sizes)[e] = KnownSize(sizes, e) /\ KnownSize(sizes, e) \in Nat
         /\ SumFunction(sizes) = SumFunctionOnSet(Booked(sizes), Entry)
<1> DEFINE b == Booked(sizes)
           D == DOMAIN sizes
<1>1. \A e \in Entry : b[e] = KnownSize(sizes, e) /\ KnownSize(sizes, e) \in Nat
  BY DEF Booked, KnownSize, Sizes
<1>2. Sized(b, Entry)
  BY <1>1, EntryFinite DEF Sized
<1>3. D \in SUBSET Entry /\ \A e \in D : b[e] = sizes[e]
  BY <1>1 DEF Sizes, KnownSize
<1>4. \A e \in Entry \ D : b[e] = 0
  BY <1>1 DEF KnownSize
<1> HIDE DEF b, D
<1>5. IsFiniteSet(D) /\ IsFiniteSet(Entry \ D)
  BY <1>3, EntryFinite, FS_Subset, Entry \ D \subseteq Entry
<1>6. SumFunctionOnSet(b, Entry) = SumFunctionOnSet(b, D) + SumFunctionOnSet(b, Entry \ D)
  BY <1>2, <1>3, SumSplit
<1>7. SumFunctionOnSet(b, D) = SumFunctionOnSet(sizes, D) /\ Sized(b, D)
  <2>1. Sized(b, D)
    BY <1>2, <1>3, <1>5 DEF Sized
  <2> QED BY <1>3, <2>1, SumOfSame
<1>8. SumFunctionOnSet(b, Entry \ D) = 0
  BY <1>4, <1>5, SumOfZeros
<1>9. SumFunctionOnSet(b, D) \in Nat
  BY <1>7, SumType
<1>10. SumFunction(sizes) = SumFunctionOnSet(sizes, D)
  BY DEF SumFunction, FoldFunction, SumFunctionOnSet, D
<1> QED BY <1>1, <1>2, <1>6, <1>7, <1>8, <1>9, <1>10 DEF b

\* The disk takes no more than books that cover it say.
LEMMA DiskCovered ==
  ASSUME NEW d, NEW sizes, Sizes(sizes), \A e \in Entry : Bytes(d[e]) <= KnownSize(sizes, e)
  PROVE  Total(Held(d)) <= SumFunction(sizes)
<1>1. /\ Sized(Held(d), Entry) /\ \A e \in Entry : Held(d)[e] = Bytes(d[e])
      /\ Total(Held(d)) = SumFunctionOnSet(Held(d), Entry)
  BY HeldSum
<1>2. /\ Sized(Booked(sizes), Entry) /\ \A e \in Entry : Booked(sizes)[e] = KnownSize(sizes, e)
      /\ SumFunction(sizes) = SumFunctionOnSet(Booked(sizes), Entry)
  BY BookedSum
<1>3. \A e \in Entry : Held(d)[e] <= Booked(sizes)[e]
  BY <1>1, <1>2
<1> QED BY <1>1, <1>2, <1>3, SumGrows

LEMMA DiskExact ==
  ASSUME NEW d, NEW sizes, Sizes(sizes), \A e \in Entry : Bytes(d[e]) = KnownSize(sizes, e)
  PROVE  Total(Held(d)) = SumFunction(sizes)
<1>1. Held(d) = Booked(sizes)
  BY DEF Held, Booked
<1> QED BY <1>1, HeldSum, BookedSum

LEMMA DiskShrinks ==
  ASSUME NEW d, NEW f, \A e \in Entry : Bytes(f[e]) <= Bytes(d[e]), Total(Held(d)) <= Quota
  PROVE  Total(Held(f)) <= Quota
<1>1. /\ Sized(Held(d), Entry) /\ \A e \in Entry : Held(d)[e] = Bytes(d[e])
      /\ Total(Held(d)) = SumFunctionOnSet(Held(d), Entry)
      /\ Sized(Held(f), Entry) /\ \A e \in Entry : Held(f)[e] = Bytes(f[e])
      /\ Total(Held(f)) = SumFunctionOnSet(Held(f), Entry)
  BY HeldSum
<1>2. SumFunctionOnSet(Held(f), Entry) <= SumFunctionOnSet(Held(d), Entry)
  BY <1>1, SumGrows
<1>3. SumFunctionOnSet(Held(f), Entry) \in Nat /\ SumFunctionOnSet(Held(d), Entry) \in Nat
  BY <1>1, SumType
<1> QED BY <1>1, <1>2, <1>3, SizeAssumption

\* What the books say when the size of one file in them changes.
Corrected(sizes, e, n) == [f \in DOMAIN sizes \cup {e} |-> IF f = e THEN n ELSE sizes[f]]
LEMMA OneSize ==
  ASSUME NEW sizes, Sizes(sizes), NEW e \in Entry, NEW n \in Nat
  PROVE  /\ Sizes(Corrected(sizes, e, n))
         /\ \A f \in Entry :
              KnownSize(Corrected(sizes, e, n), f) = IF f = e THEN n ELSE KnownSize(sizes, f)
         /\ SumFunction(Corrected(sizes, e, n)) = SumFunction(sizes) - KnownSize(sizes, e) + n
         /\ SumFunction(sizes) \in Nat /\ KnownSize(sizes, e) \in Nat
         /\ KnownSize(sizes, e) <= SumFunction(sizes)
<1> DEFINE new == Corrected(sizes, e, n)
<1>1. Sizes(new)
  BY DEF Sizes, Corrected
<1>2. \A f \in Entry : KnownSize(new, f) = IF f = e THEN n ELSE KnownSize(sizes, f)
  BY DEF KnownSize, Corrected
<1> HIDE DEF new
<1> DEFINE b == Booked(sizes)
           a == Booked(new)
<1>3. /\ Sized(b, Entry) /\ \A f \in Entry : b[f] = KnownSize(sizes, f) /\ b[f] \in Nat
      /\ SumFunction(sizes) = SumFunctionOnSet(b, Entry)
      /\ Sized(a, Entry) /\ \A f \in Entry : a[f] = KnownSize(new, f)
      /\ SumFunction(new) = SumFunctionOnSet(a, Entry)
  BY <1>1, BookedSum
<1> HIDE DEF a, b
<1> DEFINE R == Entry \ {e}
<1>4. SumFunctionOnSet(b, Entry) = b[e] + SumFunctionOnSet(b, R)
  BY <1>3, SumWithout
<1>5. SumFunctionOnSet(a, Entry) = a[e] + SumFunctionOnSet(a, R)
  BY <1>3, SumWithout
<1>6. Sized(b, R) /\ \A f \in R : b[f] = a[f]
  BY <1>2, <1>3, FS_RemoveElement DEF Sized
<1>7. SumFunctionOnSet(b, R) = SumFunctionOnSet(a, R) /\ SumFunctionOnSet(b, R) \in Nat
  BY <1>6, SumOfSame, SumType
<1>8. b[e] = KnownSize(sizes, e) /\ b[e] \in Nat /\ a[e] = n
  BY <1>2, <1>3
<1>9. /\ SumFunction(sizes) = KnownSize(sizes, e) + SumFunctionOnSet(b, R)
      /\ SumFunction(new) = n + SumFunctionOnSet(b, R)
  BY <1>3, <1>4, <1>5, <1>7, <1>8
<1>10. /\ SumFunction(new) = SumFunction(sizes) - KnownSize(sizes, e) + n
       /\ SumFunction(sizes) \in Nat /\ KnownSize(sizes, e) \in Nat
       /\ KnownSize(sizes, e) <= SumFunction(sizes)
  <2> HIDE DEF R
  <2> QED BY <1>7, <1>8, <1>9
<1> QED BY <1>1, <1>2, <1>10 DEF new

\* What they say when files are forgotten.
LEMMA FewerSizes ==
  ASSUME NEW sizes, Sizes(sizes), NEW files
  PROVE  LET new == Restrict(sizes, DOMAIN sizes \ files)
         IN  /\ Sizes(new)
             /\ \A f \in Entry : KnownSize(new, f) = IF f \in files THEN 0 ELSE KnownSize(sizes, f)
             /\ SumFunction(new) = SumFunction(sizes) - SumFunctionOnSet(sizes, files \cap DOMAIN sizes)
             /\ DOMAIN sizes \subseteq files => SumFunction(new) = 0
<1> DEFINE D == DOMAIN sizes
           new == Restrict(sizes, DOMAIN sizes \ files)
           kept == D \ files
           gone == files \cap D
<1>1. DOMAIN new = kept /\ \A f \in kept : new[f] = sizes[f]
  BY DEF Restrict
<1>2. Sizes(new)
  BY <1>1 DEF Sizes
<1>3. \A f \in Entry : KnownSize(new, f) = IF f \in files THEN 0 ELSE KnownSize(sizes, f)
  BY <1>1 DEF KnownSize
<1>4. IsFiniteSet(D) /\ \A f \in D : sizes[f] \in Nat
  BY EntryFinite, FS_Subset DEF Sizes
<1>5. kept \subseteq D /\ gone \in SUBSET D /\ D \ gone = kept
  OBVIOUS
<1>6. SumFunction(sizes) = SumFunctionOnSet(sizes, D) /\ SumFunction(new) = SumFunctionOnSet(new, kept)
  BY <1>1 DEF SumFunction, FoldFunction, SumFunctionOnSet
<1> HIDE DEF D, kept, gone, new
<1>7. IsFiniteSet(kept) /\ IsFiniteSet(gone)
  BY <1>4, <1>5, FS_Subset
<1>8. Sized(sizes, D) /\ Sized(sizes, kept) /\ Sized(sizes, gone)
  BY <1>4, <1>5, <1>7 DEF Sized
<1>9. SumFunctionOnSet(sizes, D) = SumFunctionOnSet(sizes, gone) + SumFunctionOnSet(sizes, kept)
  BY <1>5, <1>8, SumSplit
<1>10. SumFunctionOnSet(sizes, kept) = SumFunctionOnSet(new, kept)
  BY <1>1, <1>8, SumOfSame
<1>11. SumFunctionOnSet(sizes, kept) \in Nat /\ SumFunctionOnSet(sizes, gone) \in Nat
  BY <1>8, SumType
<1>12. ASSUME DOMAIN sizes \subseteq files PROVE SumFunction(new) = 0
  <2>1. kept = {}
    BY <1>12 DEF kept, D
  <2> QED BY <2>1, <1>6, SumOfNone
<1>13. SumFunctionOnSet(sizes, files \cap DOMAIN sizes) = SumFunctionOnSet(sizes, gone)
  BY DEF gone, D
<1>14. SumFunction(new) = SumFunction(sizes) - SumFunctionOnSet(sizes, gone)
  BY <1>6, <1>9, <1>10, <1>11
<1> QED BY <1>2, <1>3, <1>12, <1>13, <1>14 DEF new

LEMMA DiskBytesIs == DiskBytes = Total(Held(disk)) /\ DiskBytes' = Total(Held(disk'))
BY DEF DiskBytes, Held

\* Only one call runs, so one that fills is the one that moves.
LEMMA OneRuns ==
  ASSUME IInv, NEW c \in Call, pc[c] \in Running, NEW d \in Call, pc[d] \in Running
  PROVE  c = d
BY RunningTurn DEF IInv

LEMMA FillingRuns == Filling \subseteq Running /\ Filling \subseteq Putting
BY DEF Filling, Putting, Running, Place

\* A step that leaves the books alone and adds nothing to the disk.
LEMMA BooksKept ==
  ASSUME IInv, BooksInv, UNCHANGED <<loaded, known, used, planned>>, closed => closed',
         faults' = faults \/ faults' = faults + 1, faults' <= MaxFaults,
         \A c \in Call : pc'[c] \in Filling => pc[c] \in Filling /\ request'[c] = request[c],
         \A e \in Entry : Bytes(disk'[e]) <= Bytes(disk[e]),
         faults' = 0 /\ BooksHold => \A e \in Entry : Bytes(disk'[e]) = Bytes(disk[e])
  PROVE  BooksInv'
<1>1. DiskWithinQuota'
  BY DiskBytesIs, DiskShrinks DEF BooksInv, DiskWithinQuota
<1>2. PlanInv'
  BY DEF BooksInv, PlanInv, KnownSize
<1>3. ASSUME loaded', closed' => \E c \in Call : pc'[c] \in Filling
      PROVE  BooksHold'
  <2>1. BooksHold
    BY <1>3 DEF BooksInv
  <2>2. ASSUME NEW e \in Entry
        PROVE  /\ Bytes(disk'[e]) <= KnownSize(known, e)
               /\ faults' = 0 => Bytes(disk'[e]) = KnownSize(known, e)
    <3>1. /\ Bytes(disk'[e]) \in Nat /\ Bytes(disk[e]) \in Nat
          /\ KnownSize(known, e) \in Nat
      BY HeldSum DEF KnownSize, BooksInv
    <3>2. faults' = 0 => faults = 0
      BY DEF IInv, Shape
    <3> QED BY <2>1, <3>1, <3>2 DEF BooksHold
  <2> QED BY <2>2 DEF BooksHold, KnownSize
<1> QED BY <1>1, <1>2, <1>3 DEF BooksInv

\* A call that settles fills no more, and one that goes on elsewhere fills if it did.
LEMMA SettleFills ==
  ASSUME IInv, NEW c \in Call, Turn(c), NEW outcome, Settle(c, outcome)
  PROVE  \A d \in Call : pc'[d] \notin Filling
<1>1. tail[1] = c
  BY TailSteps DEF IInv, Shape, Turn
<1>2. \A d \in Call : pc[d] \in Running => d = c
  BY <1>1 DEF IInv, TailInv
<1>3. pc'[c] = "idle" /\ \A d \in Call : d # c => pc'[d] = pc[d]
  BY DEF Settle, IInv, Shape
<1> QED BY <1>2, <1>3, FillingRuns DEF Filling, Putting

LEMMA GoFills ==
  ASSUME IInv, NEW c \in Call, NEW place, pc' = [pc EXCEPT ![c] = place],
         place \in Filling => pc[c] \in Filling
  PROVE  \A d \in Call : pc'[d] \in Filling => pc[d] \in Filling
BY DEF IInv, Shape

\* The steps of a call that leave the books alone.
LEMMA BooksRest ==
  ASSUME IInv, BooksInv, NEW c \in Call,
         \/ Start(c) \/ RootFails(c) \/ OpenDirectory(c) \/ Write(c) \/ CommitFails(c) \/ Read(c)
  PROVE  BooksInv'
<1>1. UNCHANGED <<disk, faults, loaded, known, used, planned, closing, request>>
  BY DEF Start, RootFails, OpenDirectory, Write, CommitFails, Read
<1>2. \A d \in Call : pc'[d] \in Filling => pc[d] \in Filling
  <2>1. CASE Settle(c, "rejected") \/ Settle(c, "done")
    <3>1. CASE Start(c)
      BY <2>1, <3>1, SettleFills DEF Start
    <3>2. CASE ~Start(c)
      <4>1. pc[c] \in {"root", "directory", "write", "commit", "read"}
        BY <3>2 DEF RootFails, OpenDirectory, Write, CommitFails, Read
      <4>2. Turn(c)
        BY <4>1, RunningTurn DEF IInv, Running, Place
      <4> QED BY <2>1, <4>2, SettleFills
    <3> QED BY <3>1, <3>2
  <2>2. CASE Start(c) /\ GoTo(c, IF request[c].kind = "purge" THEN "remove" ELSE "root")
    BY <2>2, GoFills DEF GoTo, Filling, Putting
  <2>3. CASE OpenDirectory(c) /\ GoTo(c, IF Refused(c) THEN "cleanup" ELSE "file")
    BY <2>3, GoFills DEF GoTo, Filling, Putting, OpenDirectory
  <2>4. CASE (Write(c) \/ CommitFails(c)) /\ (GoTo(c, "cleanup") \/ GoTo(c, "commit"))
    BY <2>4, GoFills DEF GoTo, Filling, Putting, Write, CommitFails
  <2> QED BY <2>1, <2>2, <2>3, <2>4 DEF Start, RootFails, OpenDirectory, Write, CommitFails, Read
<1>3. \A e \in Entry : Bytes(disk'[e]) <= Bytes(disk[e])
  BY <1>1, HeldSum
<1> QED BY <1>1, <1>2, <1>3, BooksKept DEF BooksInv, closed

LEMMA BooksOpenFile == ASSUME IInv, BooksInv, NEW c \in Call, OpenFile(c) PROVE BooksInv'
<1> DEFINE e == request[c].entry
<1>1. /\ UNCHANGED <<faults, loaded, known, used, planned, closing, request>> /\ pc[c] = "file"
  BY DEF OpenFile
<1>2. PICK place \in {"cleanup", "write"} : pc' = [pc EXCEPT ![c] = place]
  BY DEF OpenFile, GoTo
<1>3. \A d \in Call : pc'[d] \in Filling => pc[d] \in Filling
  BY <1>1, <1>2, GoFills DEF Filling, Putting
<1>4. disk' \in {disk, [disk EXCEPT ![e] = IF @ = Absent THEN Created ELSE @]}
  BY DEF OpenFile
<1>5. \A f \in Entry : disk'[f] = disk[f] \/ (disk[f] = Absent /\ disk'[f] = Created)
  BY <1>4 DEF IInv, Shape
<1>6. \A f \in Entry : Bytes(disk'[f]) = Bytes(disk[f]) /\ Bytes(disk[f]) \in Nat
  BY <1>5, ContentAssumption, HeldSum DEF Bytes
<1> QED BY <1>1, <1>3, <1>6, BooksKept DEF BooksInv, closed

LEMMA BooksCleanup == ASSUME IInv, BooksInv, NEW c \in Call, Cleanup(c) PROVE BooksInv'
<1> DEFINE e == request[c].entry
<1>1. /\ UNCHANGED <<loaded, known, used, planned, closing, request>>
      /\ pc[c] = "cleanup" /\ Settle(c, "rejected")
  BY DEF Cleanup
<1>2. \A d \in Call : pc'[d] \notin Filling
  <2>1. Turn(c)
    BY <1>1, RunningTurn DEF IInv, Running, Place
  <2> QED BY <1>1, <2>1, SettleFills
<1>3. /\ disk' = disk \/ disk' = [disk EXCEPT ![e] = IF had[c] THEN @ ELSE Absent]
      /\ faults' = faults \/ (faults' = faults + 1 /\ faults < MaxFaults)
  BY DEF Cleanup
<1>4. faults' <= MaxFaults
  BY <1>3, FaultsAssumption DEF BooksInv, IInv, Shape
<1>5. \A f \in Entry : disk'[f] = disk[f] \/ (f = e /\ ~had[c] /\ disk'[f] = Absent)
  BY <1>3 DEF IInv, Shape
<1>6. \A f \in Entry : Bytes(disk'[f]) <= Bytes(disk[f]) /\ Bytes(disk[f]) \in Nat
  BY <1>5, ContentAssumption, HeldSum DEF Bytes
<1>7. ASSUME faults' = 0, BooksHold, NEW f \in Entry PROVE Bytes(disk'[f]) = Bytes(disk[f])
  <2>1. CASE disk'[f] = disk[f]
    BY <2>1
  <2>2. CASE f = e /\ ~had[c] /\ disk'[f] = Absent
    <3>1. e \notin DOMAIN known
      BY <1>1, <2>2 DEF IInv, PlaceInv, Putting
    <3>2. faults = 0
      BY <1>3, <1>7 DEF IInv, Shape
    <3>3. Bytes(disk[f]) = 0
      BY <1>7, <2>2, <3>1, <3>2 DEF BooksHold, KnownSize
    <3> QED BY <2>2, <3>3, ContentAssumption DEF Bytes
  <2> QED BY <1>5, <2>1, <2>2
<1> QED BY <1>1, <1>2, <1>3, <1>4, <1>6, <1>7, BooksKept DEF closed

LEMMA WithoutBytes ==
  ASSUME IInv, NEW files, disk' = Without(disk, files)
  PROVE  /\ \A e \in Entry : Bytes(disk'[e]) <= Bytes(disk[e])
         /\ \A e \in Entry : /\ Bytes(disk'[e]) = IF e \in files THEN 0 ELSE Bytes(disk[e])
                             /\ Bytes(disk'[e]) \in Nat /\ Bytes(disk[e]) \in Nat
<1>1. \A e \in Entry : disk'[e] = IF e \in files THEN Absent ELSE disk[e]
  BY WithoutType DEF IInv, Shape
<1>2. \A e \in Entry : Bytes(disk'[e]) \in Nat /\ Bytes(disk[e]) \in Nat
  BY HeldSum
<1>3. Bytes(Absent) = 0
  BY ContentAssumption DEF Bytes
<1>4. ASSUME NEW e \in Entry PROVE Bytes(disk'[e]) = IF e \in files THEN 0 ELSE Bytes(disk[e])
  BY <1>1, <1>3
<1> QED BY <1>2, <1>4

LEMMA BooksRemoveFails == ASSUME IInv, BooksInv, NEW c \in Call, RemoveFails(c) PROVE BooksInv'
<1>1. /\ UNCHANGED <<loaded, known, used, planned, closing, request>>
      /\ pc[c] = "remove" /\ Settle(c, "rejected") /\ faults' = faults + 1 /\ faults < MaxFaults
  BY DEF RemoveFails
<1>2. \A d \in Call : pc'[d] \notin Filling
  <2>1. Turn(c)
    BY <1>1, RunningTurn DEF IInv, Running, Place
  <2> QED BY <1>1, <2>1, SettleFills
<1>3. faults' <= MaxFaults /\ faults' # 0
  BY <1>1, FaultsAssumption DEF IInv, Shape
<1>4. PICK files : disk' = Without(disk, files)
  BY DEF RemoveFails
<1>5. \A e \in Entry : Bytes(disk'[e]) <= Bytes(disk[e])
  BY <1>4, WithoutBytes
<1> QED BY <1>1, <1>2, <1>3, <1>5, BooksKept DEF closed

\* The first root of a worker: the books are what the disk holds.
LEMMA FirstBooks ==
  ASSUME IInv, NEW sizes, sizes = [e \in {f \in Entry : disk[f] # Absent} |-> Bytes(disk[e])]
  PROVE  /\ Sizes(sizes) /\ \A e \in Entry : KnownSize(sizes, e) = Bytes(disk[e])
         /\ SumFunction(sizes) = DiskBytes
<1>1. \A e \in Entry : Bytes(disk[e]) \in Nat
  BY HeldSum
<1>2. Sizes(sizes)
  BY <1>1 DEF Sizes
<1>3. \A e \in Entry : KnownSize(sizes, e) = Bytes(disk[e])
  BY ContentAssumption DEF KnownSize, Bytes
<1>4. SumFunction(sizes) = DiskBytes
  BY <1>2, <1>3, DiskExact, DiskBytesIs
<1> QED BY <1>2, <1>3, <1>4

LEMMA BooksRootReady == ASSUME IInv, BooksInv, NEW c \in Call, RootReady(c) PROVE BooksInv'
<1> DEFINE r == request[c]
           next == used' - KnownSize(known', r.entry) + Size[r.blob]
<1>1. /\ UNCHANGED <<disk, faults, closing, request>> /\ pc[c] = "root" /\ loaded' = TRUE
      /\ known' = IF loaded THEN known
                  ELSE [e \in {f \in Entry : disk[f] # Absent} |-> Bytes(disk[e])]
      /\ used' = IF loaded THEN used ELSE DiskBytes
  BY DEF RootReady
<1>2. pc[c] \in Running /\ r \in Request /\ r.kind # "purge"
  BY <1>1 DEF Running, Place, IInv, TailInv, PlaceInv
<1>3. Sizes(known') /\ used' = SumFunction(known')
  <2>1. CASE loaded
    BY <1>1, <2>1 DEF BooksInv, Sizes, IInv, Shape
  <2>2. CASE ~loaded
    BY <1>1, <2>2, FirstBooks
  <2> QED BY <2>1, <2>2
<1>4. ~closed => BooksHold'
  <2>1. CASE loaded
    BY <1>1, <2>1 DEF BooksInv, BooksHold, KnownSize
  <2>2. CASE ~loaded
    <3>1. \A e \in Entry : KnownSize(known', e) = Bytes(disk'[e]) /\ Bytes(disk'[e]) \in Nat
      BY <1>1, <2>2, FirstBooks, HeldSum
    <3> QED BY <3>1 DEF BooksHold, KnownSize
  <2> QED BY <2>1, <2>2
<1>5. DiskWithinQuota'
  BY <1>1, DiskBytesIs DEF BooksInv, DiskWithinQuota
<1>6. /\ faults' <= MaxFaults /\ planned \in [Call -> Nat]
      /\ \A e \in DOMAIN known' : known'[e] \in Nat
  BY <1>1, <1>3 DEF BooksInv, Sizes
<1>7. \A d \in Call : pc[d] \notin Filling
  BY <1>1, <1>2, OneRuns, FillingRuns DEF Filling, Putting
<1>8. CASE planned' = planned /\ \A d \in Call : pc'[d] \notin Filling
  <2>1. PlanInv'
    BY <1>8 DEF PlanInv
  <2> QED BY <1>1, <1>3, <1>4, <1>5, <1>6, <1>8, <2>1 DEF BooksInv, closed
<1>9. CASE /\ ~closed /\ r.kind = "put" /\ next <= Quota
           /\ pc' = [pc EXCEPT ![c] = "directory"] /\ planned' = [planned EXCEPT ![c] = next]
  <2>1. r.entry \in Entry /\ r.blob \in Blob /\ Size[r.blob] \in Nat
    BY <1>2, <1>9, RequestTypes, SizeAssumption
  <2>2. next \in Nat
    <3>1. /\ SumFunction(known') \in Nat /\ KnownSize(known', r.entry) \in Nat
          /\ KnownSize(known', r.entry) <= SumFunction(known')
      BY <1>3, <2>1, OneSize
    <3> QED BY <1>3, <2>1, <3>1
  <2> HIDE DEF next
  <2>3. planned' \in [Call -> Nat] /\ planned'[c] = next
    BY <1>6, <1>9, <2>2
  <2>4. \A d \in Call : pc'[d] \in Filling => d = c
    BY <1>7, <1>9 DEF IInv, Shape
  <2>5. PlanInv'
    <3> SUFFICES ASSUME NEW d \in Call, pc'[d] \in Filling
                 PROVE  /\ planned'[d] = used' - KnownSize(known', request'[d].entry) + Size[request'[d].blob]
                        /\ planned'[d] <= Quota
      BY DEF PlanInv, KnownSize
    <3> QED BY <1>1, <1>9, <2>3, <2>4 DEF next
  <2> QED BY <1>1, <1>3, <1>4, <1>5, <1>6, <1>9, <2>3, <2>5 DEF BooksInv, closed
<1>10. \/ Settle(c, "rejected") /\ planned' = planned
       \/ GoTo(c, "read") /\ planned' = planned
       \/ GoTo(c, "remove") /\ planned' = planned
       \/ /\ ~closed /\ r.kind = "put" /\ next <= Quota
          /\ pc' = [pc EXCEPT ![c] = "directory"] /\ planned' = [planned EXCEPT ![c] = next]
  BY DEF RootReady, Refused, GoTo
<1>11. ASSUME GoTo(c, "read") \/ GoTo(c, "remove") PROVE \A d \in Call : pc'[d] \notin Filling
  BY <1>7, <1>11, GoFills DEF GoTo, Filling, Putting
<1>12. ASSUME Settle(c, "rejected") PROVE \A d \in Call : pc'[d] \notin Filling
  <2>1. Turn(c)
    BY <1>2, RunningTurn DEF IInv
  <2> QED BY <1>12, <2>1, SettleFills
<1> QED BY <1>8, <1>9, <1>10, <1>11, <1>12

\* The books as they are once the put of c is committed.
Committed(c) == Corrected(known, request[c].entry, Size[request[c].blob])

\* They cover the disk as it is then, whether or not anybody gets to write them.
LEMMA CommittedFits ==
  ASSUME IInv, BooksInv, NEW c \in Call, pc[c] = "commit",
         disk' = [disk EXCEPT ![request[c].entry] = request[c].blob]
  PROVE  /\ Sizes(Committed(c)) /\ SumFunction(Committed(c)) = planned[c]
         /\ \A f \in Entry : /\ Bytes(disk'[f]) <= KnownSize(Committed(c), f)
                             /\ faults = 0 => Bytes(disk'[f]) = KnownSize(Committed(c), f)
         /\ DiskWithinQuota'
<1> DEFINE r == request[c]
           e == r.entry
           n == Size[r.blob]
           new == Corrected(known, e, n)
<1>1. new = Committed(c)
  BY DEF Committed
<1>2. pc[c] \in Running /\ pc[c] \in Filling /\ r \in Request /\ r.kind = "put" /\ loaded
  BY DEF Running, Place, Filling, Putting, IInv, TailInv, PlaceInv
<1>3. e \in Entry /\ r.blob \in Blob /\ n \in Nat
  BY <1>2, RequestTypes, SizeAssumption
<1>4. BooksHold /\ planned[c] = used - KnownSize(known, e) + n /\ planned[c] <= Quota
  BY <1>2 DEF BooksInv, PlanInv
<1>5. Sizes(known) /\ used = SumFunction(known)
  BY DEF BooksInv, Sizes, IInv, Shape
<1>6. /\ Sizes(new) /\ \A f \in Entry : KnownSize(new, f) = IF f = e THEN n ELSE KnownSize(known, f)
      /\ SumFunction(new) = planned[c] /\ planned[c] \in Nat
  <2> HIDE DEF n, e
  <2>2. /\ Sizes(new) /\ \A f \in Entry : KnownSize(new, f) = IF f = e THEN n ELSE KnownSize(known, f)
        /\ SumFunction(new) = SumFunction(known) - KnownSize(known, e) + n
    BY <1>3, <1>5, OneSize
  <2> QED BY <1>4, <1>5, <2>2 DEF BooksInv
<1> HIDE DEF new
<1>7. \A f \in Entry : /\ Bytes(disk'[f]) = IF f = e THEN n ELSE Bytes(disk[f])
                       /\ Bytes(disk'[f]) \in Nat
  BY <1>3, HeldSum DEF Bytes, IInv, Shape
<1>8. \A f \in Entry : /\ Bytes(disk'[f]) <= KnownSize(new, f)
                       /\ faults = 0 => Bytes(disk'[f]) = KnownSize(new, f)
  BY <1>3, <1>4, <1>6, <1>7 DEF BooksHold
<1>9. DiskWithinQuota'
  <2>1. Total(Held(disk')) <= planned[c]
    BY <1>6, <1>8, DiskCovered
  <2>2. Total(Held(disk')) \in Nat
    BY HeldSum, SumType
  <2> QED BY <1>4, <1>6, <2>1, <2>2, DiskBytesIs, SizeAssumption DEF DiskWithinQuota
<1> QED BY <1>1, <1>6, <1>8, <1>9

LEMMA BooksCommit == ASSUME IInv, BooksInv, NEW c \in Call, Commit(c) PROVE BooksInv'
<1> DEFINE r == request[c]
           e == r.entry
           n == Size[r.blob]
           new == Corrected(known, e, n)
<1>1. /\ UNCHANGED <<faults, loaded, planned, closing, request>> /\ pc[c] = "commit"
      /\ disk' = [disk EXCEPT ![e] = r.blob]
  BY DEF Commit
<1>2. pc[c] \in Running /\ pc[c] \in Filling
  BY <1>1 DEF Running, Place, Filling, Putting
<1>3. new = Committed(c)
  BY DEF Committed
<1>4. /\ Sizes(new) /\ SumFunction(new) = planned[c]
      /\ \A f \in Entry : /\ Bytes(disk'[f]) <= KnownSize(new, f)
                          /\ faults = 0 => Bytes(disk'[f]) = KnownSize(new, f)
      /\ DiskWithinQuota'
  <2> HIDE DEF new
  <2> QED BY <1>1, <1>3, CommittedFits
<1> HIDE DEF new
<1>10. CASE closed
  <2>1. pc' = [pc EXCEPT ![c] = "cleanup"] /\ UNCHANGED <<known, used>>
    BY <1>10 DEF Commit, GoTo
  <2>2. \A d \in Call : pc'[d] \notin Filling
    <3>1. \A d \in Call : pc[d] \in Filling => d = c
      BY <1>2, OneRuns, FillingRuns
    <3> QED BY <2>1, <3>1 DEF IInv, Shape, Filling
  <2>3. PlanInv'
    BY <2>2 DEF PlanInv
  <2> QED BY <1>1, <1>4, <1>10, <2>1, <2>2, <2>3 DEF BooksInv, closed
<1>11. CASE ~closed
  <2>1. known' = new /\ used' = planned[c] /\ Settle(c, "done")
    BY <1>11 DEF Commit, Corrected, new
  <2>2. \A d \in Call : pc'[d] \notin Filling
    <3>1. Turn(c)
      BY <1>2, RunningTurn DEF IInv
    <3> QED BY <2>1, <3>1, SettleFills
  <2>3. PlanInv'
    BY <2>2 DEF PlanInv
  <2>4. BooksHold'
    BY <1>1, <1>4, <2>1 DEF BooksHold, KnownSize
  <2>5. used' = SumFunction(known') /\ \A f \in DOMAIN known' : known'[f] \in Nat
    BY <1>4, <2>1 DEF Sizes
  <2> QED BY <1>1, <1>4, <2>3, <2>4, <2>5 DEF BooksInv
<1> QED BY <1>10, <1>11

LEMMA BooksRemove == ASSUME IInv, BooksInv, NEW c \in Call, Remove(c) PROVE BooksInv'
<1> DEFINE files == Covered(request[c])
<1>1. /\ UNCHANGED <<faults, planned, closing, request>> /\ pc[c] = "remove" /\ Settle(c, "done")
      /\ disk' = Without(disk, files) /\ known' = Restrict(known, DOMAIN known \ files)
      /\ IF request[c].kind = "purge" THEN loaded' = TRUE /\ used' = 0
         ELSE loaded' = loaded /\ used' = used - SumFunctionOnSet(known, files \cap DOMAIN known)
  BY DEF Remove
<1>2. \A d \in Call : pc'[d] \notin Filling
  <2>1. Turn(c)
    BY <1>1, RunningTurn DEF IInv, Running, Place
  <2> QED BY <1>1, <2>1, SettleFills
<1>3. PlanInv'
  BY <1>2 DEF PlanInv
<1>4. Sizes(known) /\ used = SumFunction(known) /\ DOMAIN known \subseteq Entry
  BY DEF BooksInv, Sizes, IInv, Shape
<1>5. request[c].kind = "purge" => files = Entry
  BY DEF Covered
<1> HIDE DEF files
<1>6. /\ Sizes(known')
      /\ \A e \in Entry : KnownSize(known', e) = IF e \in files THEN 0 ELSE KnownSize(known, e)
      /\ SumFunction(known') = SumFunction(known) - SumFunctionOnSet(known, files \cap DOMAIN known)
      /\ DOMAIN known \subseteq files => SumFunction(known') = 0
  BY <1>1, <1>4, FewerSizes
<1>7. used' = SumFunction(known')
  BY <1>1, <1>4, <1>5, <1>6
<1>8. \A e \in Entry : /\ Bytes(disk'[e]) = IF e \in files THEN 0 ELSE Bytes(disk[e])
                       /\ Bytes(disk'[e]) \in Nat /\ Bytes(disk[e]) \in Nat
  BY <1>1, WithoutBytes
<1>9. DiskWithinQuota'
  <2>1. \A e \in Entry : Bytes(disk'[e]) <= Bytes(disk[e])
    BY <1>1, WithoutBytes
  <2> QED BY <2>1, DiskBytesIs, DiskShrinks DEF BooksInv, DiskWithinQuota
<1>10. loaded' /\ ~closed => BooksHold'
  <2>1. CASE request[c].kind = "purge"
    <3>1. \A e \in Entry : Bytes(disk'[e]) = 0 /\ KnownSize(known', e) = 0
      BY <1>5, <1>6, <1>8, <2>1
    <3> QED BY <3>1 DEF BooksHold, KnownSize
  <2>2. CASE request[c].kind # "purge"
    <3>1. loaded /\ ~closed => BooksHold
      BY DEF BooksInv
    <3>2. ASSUME loaded', ~closed, NEW e \in Entry
          PROVE  /\ Bytes(disk'[e]) <= KnownSize(known', e)
                 /\ faults = 0 => Bytes(disk'[e]) = KnownSize(known', e)
      <4>1. /\ Bytes(disk[e]) <= KnownSize(known, e)
            /\ faults = 0 => Bytes(disk[e]) = KnownSize(known, e)
        BY <1>1, <2>2, <3>1, <3>2 DEF BooksHold
      <4> QED BY <1>6, <1>8, <4>1
    <3> QED BY <1>1, <3>2 DEF BooksHold, KnownSize
  <2> QED BY <2>1, <2>2
<1> QED BY <1>1, <1>2, <1>3, <1>6, <1>7, <1>9, <1>10 DEF BooksInv, Sizes, closed

LEMMA BooksOutside ==
  ASSUME IInv, BooksInv,
         \/ \E c \in Call : (\E r \in Request : Make(c, r)) \/ Signal(c)
         \/ Close \/ CloseResolves \/ UNCHANGED vars
  PROVE  BooksInv'
<1>1. /\ UNCHANGED <<disk, faults, loaded, known, used, planned>>
      /\ closed => closed'
  BY DEF Make, Signal, Close, CloseResolves, vars, instance, closed
<1>2. \A d \in Call : pc'[d] \in Filling => pc[d] \in Filling /\ request'[d] = request[d]
  <2>1. CASE \E c \in Call : \E r \in Request : Make(c, r)
    <3>1. PICK c \in Call : \E r \in Request : Make(c, r)
      BY <2>1
    <3>2. /\ request[c] = NoRequest
          /\ \A d \in Call : d # c => pc'[d] = pc[d] /\ request'[d] = request[d]
          /\ pc'[c] \in {pc[c], "queued"}
      BY <3>1 DEF Make, IInv, Shape
    <3>3. pc[c] = "idle"
      BY <3>2, RequestAssumption DEF IInv, TailInv
    <3> QED BY <3>2, <3>3 DEF Filling, Putting
  <2>2. CASE ~\E c \in Call : \E r \in Request : Make(c, r)
    <3>1. UNCHANGED <<pc, request>>
      BY <2>2 DEF Signal, Close, CloseResolves, vars, instance
    <3> QED BY <3>1
  <2> QED BY <2>1, <2>2
<1>3. \A e \in Entry : Bytes(disk'[e]) <= Bytes(disk[e])
  BY <1>1, HeldSum
<1> QED BY <1>1, <1>2, <1>3, BooksKept DEF BooksInv

LEMMA NoBooks == ASSUME NEW sizes, DOMAIN sizes = {} PROVE SumFunction(sizes) = 0
BY SumOfNone DEF SumFunction, FoldFunction, SumFunctionOnSet

LEMMA BooksReload == ASSUME IInv, BooksInv, Reload PROVE BooksInv'
<1>1. /\ faults' = faults + 1 /\ faults < MaxFaults /\ loaded' = FALSE /\ used' = 0
      /\ known' = <<>> /\ pc' = [c \in Call |-> "idle"] /\ planned' = [c \in Call |-> 0]
  BY DEF Reload
<1>2. DOMAIN known' = {} /\ used' = SumFunction(known')
  <2>1. DOMAIN known' = {}
    BY <1>1
  <2> QED BY <1>1, <2>1, NoBooks
<1>3. faults' <= MaxFaults
  BY <1>1, FaultsAssumption DEF IInv, Shape
<1>4. ASSUME NEW c \in Call, Unanswered(c), pc[c] # "commit"
      PROVE  \A e \in Entry : Bytes(disk'[e]) <= Bytes(disk[e])
  <2>1. CASE pc[c] = "remove"
    <3>1. PICK files : disk' = Without(disk, files)
      BY <1>4, <2>1 DEF Unanswered
    <3> QED BY <3>1, WithoutBytes
  <2>2. CASE pc[c] # "remove"
    <3>1. \A e \in Entry : disk'[e] = disk[e] \/ disk'[e] \in {Absent, Created}
      BY <1>4, <2>2 DEF Unanswered, IInv, Shape
    <3>2. Bytes(Absent) = 0 /\ Bytes(Created) = 0
      BY ContentAssumption DEF Bytes
    <3>3. \A e \in Entry : Bytes(disk[e]) \in Nat
      BY HeldSum
    <3> QED BY <3>1, <3>2, <3>3
  <2> QED BY <2>1, <2>2
<1>5. ASSUME NEW c \in Call, Unanswered(c), pc[c] = "commit"
      PROVE  DiskWithinQuota'
  <2>1. disk' = [disk EXCEPT ![request[c].entry] = request[c].blob]
    BY <1>5 DEF Unanswered
  <2> QED BY <1>5, <2>1, CommittedFits
<1>6. DiskWithinQuota'
  <2>1. CASE \A e \in Entry : Bytes(disk'[e]) <= Bytes(disk[e])
    BY <2>1, DiskBytesIs, DiskShrinks DEF BooksInv, DiskWithinQuota
  <2>2. CASE disk' = disk
    BY <2>2 DEF BooksInv, DiskWithinQuota, DiskBytes
  <2> QED BY <1>4, <1>5, <2>1, <2>2 DEF Reload
<1>7. PlanInv'
  BY <1>1 DEF PlanInv, Filling, Putting
<1> QED BY <1>1, <1>2, <1>3, <1>6, <1>7 DEF BooksInv

LEMMA BooksInit == Init => BooksInv
<1> SUFFICES ASSUME Init PROVE BooksInv
  OBVIOUS
<1>1. DOMAIN known = {} /\ used = SumFunction(known)
  <2>1. DOMAIN known = {}
    BY DEF Init
  <2> QED BY <2>1, NoBooks DEF Init
<1>2. PlanInv
  BY DEF Init, PlanInv, Filling, Putting
<1> QED BY <1>1, <1>2, FaultsAssumption DEF Init, BooksInv, DiskWithinQuota

LEMMA BooksNext == IInv /\ BooksInv /\ [Next]_vars => BooksInv'
<1> SUFFICES ASSUME IInv, BooksInv, [Next]_vars PROVE BooksInv'
  OBVIOUS
<1>1. CASE \E c \in Call : Step(c)
  BY <1>1, BooksRest, BooksRootReady, BooksOpenFile, BooksCommit, BooksCleanup, BooksRemoveFails,
     BooksRemove DEF Step
<1> QED BY <1>1, BooksOutside, BooksReload DEF Next

\* The books of the storage, and what they keep true of the disk.
THEOREM BooksInvariance == Safety => [](IInv /\ BooksInv)
<1>1. Init => IInv /\ BooksInv
  BY InitInv, BooksInit
<1>2. (IInv /\ BooksInv) /\ [Next]_vars => (IInv /\ BooksInv)'
  BY NextInv, BooksNext
<1> QED BY <1>1, <1>2, PTL DEF Safety

\* usedBytes, #knownSizes, planned sizes and everything else have their types; usedBytes
\* is never negative, though it is only ever corrected by differences
\* (opfs-storage.mjs:61, :89, :241).
THEOREM TypeCorrect == Safety => []TypeOK
<1>1. IInv /\ BooksInv => TypeOK
  <2> SUFFICES ASSUME IInv, BooksInv PROVE TypeOK
    OBVIOUS
  <2>1. faults \in 0 .. MaxFaults
    BY FaultsAssumption DEF IInv, Shape, BooksInv
  <2>2. used \in Nat
    <3>1. Sizes(known) /\ used = SumFunction(known)
      BY DEF BooksInv, Sizes, IInv, Shape
    <3> QED BY <3>1, BookedSum, SumType
  <2> QED BY <2>1, <2>2 DEF IInv, Shape, BooksInv, TypeOK
<1> QED BY <1>1, BooksInvariance, PTL

\* What is retained fits the quota in every state: in a closed storage whose last put
\* was committed all the same, after failed removals and after a reload too.
THEOREM QuotaHolds == Safety => []DiskWithinQuota
<1> QED BY BooksInvariance, PTL DEF BooksInv

\* The books of an open storage cover the disk, and are exact as long as nothing failed.
THEOREM BooksAreRight == Safety => []BooksCoverDisk
<1>1. IInv /\ BooksInv => BooksCoverDisk
  <2> SUFFICES ASSUME IInv, BooksInv, loaded, ~closed
               PROVE  /\ \A e \in Entry : Bytes(disk[e]) <= KnownSize(known, e)
                      /\ used = SumFunction(known)
                      /\ faults = 0 => used = DiskBytes
    BY DEF BooksCoverDisk
  <2>1. BooksHold /\ used = SumFunction(known) /\ Sizes(known)
    BY DEF BooksInv, Sizes, IInv, Shape
  <2>2. faults = 0 => SumFunction(known) = DiskBytes
    BY <2>1, DiskExact, DiskBytesIs DEF BooksHold
  <2> QED BY <2>1, <2>2 DEF BooksHold
<1> QED BY <1>1, BooksInvariance, PTL

----------------------------------------------------------------------------
\* What is visible is known.

\* A blob that is on the disk of a storage that has read it is known, so the put that
\* finds no size for its file does make a new one, but for a put that close() overtook.
VisibleInv ==
  loaded => \A e \in Entry :
    disk[e] \in Blob /\ e \notin DOMAIN known =>
      closed /\ \A c \in Call : pc[c] \in Putting /\ request[c].entry = e => pc[c] = "cleanup"

\* No new blob, no size forgotten, and no put that comes to its file when closed.
LEMMA VisibleKept ==
  ASSUME VisibleInv, loaded' => loaded, known' = known, closed => closed',
         \A e \in Entry : disk'[e] \in Blob => disk[e] \in Blob,
         \A c \in Call : pc'[c] \in Putting =>
           /\ request'[c] = request[c]
           /\ pc'[c] = "cleanup" \/ pc[c] \in Putting \ {"cleanup"} \/ ~closed
  PROVE  VisibleInv'
<1> SUFFICES ASSUME loaded', NEW e \in Entry, disk'[e] \in Blob, e \notin DOMAIN known
             PROVE  /\ closed'
                    /\ \A c \in Call : pc'[c] \in Putting /\ request'[c].entry = e
                                      => pc'[c] = "cleanup"
  BY DEF VisibleInv
<1>1. /\ closed
      /\ \A c \in Call : pc[c] \in Putting /\ request[c].entry = e => pc[c] = "cleanup"
  BY DEF VisibleInv
<1>2. ASSUME NEW c \in Call, pc'[c] \in Putting, request'[c].entry = e, pc'[c] # "cleanup"
      PROVE  FALSE
  <2>1. request[c].entry = e /\ pc[c] \in Putting \ {"cleanup"}
    BY <1>1, <1>2
  <2> QED BY <1>1, <2>1
<1> QED BY <1>1, <1>2

\* The steps that only go on or reject show no blob.
LEMMA OtherStepsShow ==
  ASSUME IInv, NEW c \in Call,
         \/ Start(c) \/ RootFails(c) \/ OpenDirectory(c) \/ OpenFile(c) \/ Write(c)
         \/ CommitFails(c) \/ Cleanup(c) \/ Read(c) \/ RemoveFails(c)
  PROVE  \A e \in Entry : disk'[e] \in Blob => disk[e] \in Blob
<1>1. CASE UNCHANGED disk
  BY <1>1
<1>2. CASE OpenFile(c)
  BY <1>2, ContentAssumption DEF OpenFile, IInv, Shape
<1>3. CASE Cleanup(c)
  BY <1>3, ContentAssumption DEF Cleanup, IInv, Shape
<1>4. CASE RemoveFails(c)
  BY <1>4, WithoutType, ContentAssumption DEF RemoveFails, IInv, Shape
<1> QED BY <1>1, <1>2, <1>3, <1>4 DEF Start, RootFails, OpenDirectory, Write, CommitFails, Read

LEMMA VisibleRest ==
  ASSUME IInv, VisibleInv, NEW c \in Call,
         \/ Start(c) \/ RootFails(c) \/ OpenDirectory(c) \/ OpenFile(c) \/ Write(c)
         \/ CommitFails(c) \/ Cleanup(c) \/ Read(c) \/ RemoveFails(c)
  PROVE  VisibleInv'
<1>1. UNCHANGED <<known, closing, request, loaded>> /\ (closed => closed')
  BY DEF Start, RootFails, OpenDirectory, OpenFile, Write, CommitFails, Cleanup, Read,
         RemoveFails, closed
<1>2. \A e \in Entry : disk'[e] \in Blob => disk[e] \in Blob
  BY OtherStepsShow
<1>3. \/ \E place \in {"root", "remove", "idle", "cleanup"} : pc' = [pc EXCEPT ![c] = place]
      \/ /\ pc[c] \in {"directory", "file", "write"}
         /\ \E place : pc' = [pc EXCEPT ![c] = place]
  BY DEF Start, RootFails, OpenDirectory, OpenFile, Write, CommitFails, Cleanup, Read,
         RemoveFails, Settle, GoTo
<1>4. ASSUME NEW d \in Call, pc'[d] \in Putting
      PROVE  /\ request'[d] = request[d]
             /\ pc'[d] = "cleanup" \/ pc[d] \in Putting \ {"cleanup"} \/ ~closed
  BY <1>1, <1>3, <1>4 DEF Putting, IInv, Shape
<1> QED BY <1>1, <1>2, <1>4, VisibleKept

LEMMA VisibleRootReady ==
  ASSUME IInv, VisibleInv, NEW c \in Call, RootReady(c)
  PROVE  VisibleInv'
<1>1. /\ UNCHANGED <<disk, closing, request>> /\ (closed => closed')
      /\ known' = IF loaded THEN known
                  ELSE [e \in {f \in Entry : disk[f] # Absent} |-> Bytes(disk[e])]
  BY DEF RootReady, closed
<1>2. CASE loaded
  <2>1. \E place \in {"idle", "read", "remove", "directory"} :
          pc' = [pc EXCEPT ![c] = place] /\ (place = "directory" => ~closed)
    BY DEF RootReady, Settle, GoTo, Refused
  <2>2. ASSUME NEW d \in Call, pc'[d] \in Putting
        PROVE  /\ request'[d] = request[d]
               /\ pc'[d] = "cleanup" \/ pc[d] \in Putting \ {"cleanup"} \/ ~closed
    BY <1>1, <2>1, <2>2 DEF Putting, IInv, Shape
  <2> QED BY <1>1, <1>2, <2>2, VisibleKept
<1>3. CASE ~loaded
  <2>1. \A e \in Entry : disk'[e] \in Blob => e \in DOMAIN known'
    BY <1>1, <1>3, ContentAssumption
  <2> QED BY <2>1 DEF VisibleInv
<1> QED BY <1>2, <1>3

\* The blob that is committed becomes known, or its put is overtaken.
LEMMA VisibleCommit ==
  ASSUME IInv, VisibleInv, NEW c \in Call, Commit(c)
  PROVE  VisibleInv'
<1> DEFINE r == request[c]
<1>1. /\ pc[c] = "commit" /\ Turn(c) /\ r \in Request /\ r.kind = "put" /\ loaded
      /\ r.entry \in Entry
      /\ UNCHANGED <<closing, request, loaded>>
  <2>1. pc[c] = "commit" /\ UNCHANGED <<closing, request, loaded>>
    BY DEF Commit
  <2>2. Turn(c)
    BY <2>1, RunningTurn DEF IInv, Running, Place
  <2>3. r \in Request /\ r.kind = "put" /\ loaded
    BY <2>1 DEF IInv, TailInv, PlaceInv, Putting
  <2> QED BY <2>1, <2>2, <2>3, RequestTypes
<1>2. \A e \in Entry : e # r.entry => disk'[e] = disk[e]
  BY DEF Commit, IInv, Shape
<1>3. \A d \in Call : d # c => pc'[d] = pc[d] /\ pc[d] \notin Putting
  <2>1. \A d \in Call : d # c => pc[d] \notin Putting
    BY <1>1, OneRuns DEF Putting, Running, Place
  <2>2. \A d \in Call : d # c => pc'[d] = pc[d]
    BY DEF Commit, Settle, GoTo, IInv, Shape
  <2> QED BY <2>1, <2>2
<1>4. \/ closed /\ known' = known /\ pc'[c] = "cleanup"
      \/ ~closed /\ DOMAIN known' = DOMAIN known \cup {r.entry}
  BY DEF Commit, GoTo, IInv, Shape
<1> SUFFICES ASSUME NEW e \in Entry, disk'[e] \in Blob, e \notin DOMAIN known'
             PROVE  /\ closed'
                    /\ \A d \in Call : pc'[d] \in Putting /\ request'[d].entry = e
                                      => pc'[d] = "cleanup"
  BY DEF VisibleInv
<1>5. CASE closed
  <2>1. closed' /\ pc'[c] = "cleanup"
    BY <1>1, <1>4, <1>5 DEF closed
  <2> QED BY <1>3, <2>1
<1>6. CASE ~closed
  <2>1. e # r.entry /\ e \notin DOMAIN known
    BY <1>4, <1>6
  <2>2. disk[e] \in Blob
    BY <1>2, <2>1
  <2> QED BY <1>1, <1>6, <2>1, <2>2 DEF VisibleInv
<1> QED BY <1>5, <1>6

LEMMA VisibleRemove ==
  ASSUME IInv, VisibleInv, NEW c \in Call, Remove(c)
  PROVE  VisibleInv'
<1> DEFINE files == Covered(request[c])
<1>1. /\ Settle(c, "done") /\ disk' = Without(disk, files)
      /\ known' = Restrict(known, DOMAIN known \ files)
      /\ UNCHANGED <<closing, request>>
      /\ loaded' = loaded \/ request[c].kind = "purge"
  BY DEF Remove
<1>2. \A e \in Entry : disk'[e] = IF e \in files THEN Absent ELSE disk[e]
  BY <1>1, WithoutType DEF IInv, Shape
<1>3. DOMAIN known' = DOMAIN known \ files
  BY <1>1 DEF Restrict
<1>4. \A d \in Call : pc'[d] \in Putting => pc[d] \in Putting /\ pc'[d] = pc[d]
  BY <1>1 DEF Settle, Putting, IInv, Shape
<1>5. CASE loaded
  <2> SUFFICES ASSUME NEW e \in Entry, disk'[e] \in Blob, e \notin DOMAIN known'
               PROVE  /\ closed'
                      /\ \A d \in Call : pc'[d] \in Putting /\ request'[d].entry = e
                                        => pc'[d] = "cleanup"
    BY DEF VisibleInv
  <2>1. disk[e] \in Blob /\ e \notin DOMAIN known
    BY <1>2, <1>3, ContentAssumption
  <2>2. /\ closed
        /\ \A d \in Call : pc[d] \in Putting /\ request[d].entry = e => pc[d] = "cleanup"
    BY <1>5, <2>1 DEF VisibleInv
  <2>3. closed'
    BY <1>1, <2>2 DEF closed
  <2> QED BY <1>1, <1>4, <2>2, <2>3
<1>6. CASE loaded' # loaded
  <2>1. \A e \in Entry : disk'[e] = Absent
    BY <1>1, <1>2, <1>6 DEF Covered
  <2> QED BY <2>1, ContentAssumption DEF VisibleInv
<1>7. CASE ~loaded /\ loaded' = loaded
  BY <1>7 DEF VisibleInv
<1> QED BY <1>5, <1>6, <1>7

LEMMA VisibleOutside ==
  ASSUME IInv, VisibleInv,
         \/ \E c \in Call : (\E r \in Request : Make(c, r)) \/ Signal(c)
         \/ Close \/ CloseResolves \/ UNCHANGED vars
  PROVE  VisibleInv'
<1>1. UNCHANGED <<known, disk, loaded>> /\ (closed => closed')
  BY DEF Make, Signal, Close, CloseResolves, vars, instance, closed
<1>2. ASSUME NEW d \in Call, pc'[d] \in Putting
      PROVE  request'[d] = request[d] /\ pc'[d] = pc[d]
  <2>1. CASE \E c \in Call : \E r \in Request : Make(c, r)
    <3>1. PICK c \in Call : \E r \in Request : Make(c, r)
      BY <2>1
    <3>2. pc[c] = "idle" /\ pc'[c] \in {"idle", "queued"}
      BY <3>1, RequestAssumption DEF Make, IInv, TailInv, Shape
    <3> QED BY <1>2, <3>1, <3>2 DEF Make, Putting, IInv, Shape
  <2>2. CASE (\E c \in Call : Signal(c)) \/ Close \/ CloseResolves \/ UNCHANGED vars
    BY <2>2 DEF Signal, Close, CloseResolves, vars, instance
  <2> QED BY <2>1, <2>2
<1>3. ASSUME NEW d \in Call, pc'[d] \in Putting
      PROVE  /\ request'[d] = request[d]
             /\ pc'[d] = "cleanup" \/ pc[d] \in Putting \ {"cleanup"} \/ ~closed
  BY <1>2, <1>3
<1> QED BY <1>1, <1>3, VisibleKept

LEMMA VisibleNext == IInv /\ VisibleInv /\ [Next]_vars => VisibleInv'
<1> SUFFICES ASSUME IInv, VisibleInv, [Next]_vars PROVE VisibleInv'
  OBVIOUS
<1>1. CASE \E c \in Call : Step(c)
  BY <1>1, VisibleRest, VisibleRootReady, VisibleCommit, VisibleRemove DEF Step
<1>2. CASE Reload
  BY <1>2 DEF Reload, VisibleInv
<1> QED BY <1>1, <1>2, VisibleOutside DEF Next

\* The storage knows what it shows.
THEOREM VisibleInvariance == Safety => [](IInv /\ BooksInv /\ VisibleInv)
<1>1. Init => VisibleInv
  BY DEF Init, VisibleInv
<1> QED BY <1>1, VisibleNext, BooksInvariance, PTL DEF Safety

----------------------------------------------------------------------------
\* The storage implements AnalysisStore.

\* A step of AnalysisStore, or none.
StoreStep == [Promised!Next]_(Promised!storeVars)

\* AnalysisStore's budget is the quota of the disk.
LEMMA FitsIs ==
  ASSUME NEW d \in [Entry -> Content]
  PROVE  Promised!Fits([e \in Entry |-> Shown(d[e])]) <=> Total([e \in Entry |-> Bytes(d[e])]) <= Quota
<1> DEFINE held == [e \in Entry |-> Bytes(d[e])]
           seen == [e \in Entry |-> Shown(d[e])]
           bytes == [e \in Promised!Entry |-> IF seen[e] \in Blob THEN Size[seen[e]] ELSE 0]
<1>1. bytes = held
  <2>1. Promised!Entry = Entry
    BY DEF Promised!Entry, Entry
  <2>2. \A e \in Entry : held[e] = IF seen[e] \in Blob THEN Size[seen[e]] ELSE 0
    BY ContentAssumption DEF Bytes, Shown, Content
  <2> HIDE DEF seen
  <2> QED BY <2>1, <2>2
<1> HIDE DEF held, seen
<1>2. Promised!Fits(seen) <=> Total(bytes) <= Quota
  <2>1. Promised!Fits(seen) <=> Promised!FoldFunction(+, 0, bytes) <= Quota
    BY Zenon DEF Promised!Fits
  <2>2. Promised!FoldFunction(+, 0, bytes) = FoldFunction(+, 0, bytes)
    BY Zenon DEF Promised!FoldFunction, FoldFunction, Promised!FoldFunctionOnSet, FoldFunctionOnSet,
           Promised!MapThenFoldSet, MapThenFoldSet
  <2> QED BY <2>1, <2>2, Zenon DEF Total
<1> HIDE DEF bytes
<1>3. Promised!Fits(seen) <=> Total(held) <= Quota
  BY <1>1, <1>2
<1> QED BY <1>3 DEF held, seen

LEMMA FilesFit ==
  /\ disk \in [Entry -> Content] /\ DiskWithinQuota => Promised!Fits(Files)
  /\ disk' \in [Entry -> Content] /\ DiskWithinQuota' => Promised!Fits(Files')
<1>1. Files = [e \in Entry |-> Shown(disk[e])] /\ Files' = [e \in Entry |-> Shown(disk'[e])]
  BY DEF Files
<1>2. /\ DiskWithinQuota <=> Total([e \in Entry |-> Bytes(disk[e])]) <= Quota
      /\ DiskWithinQuota' <=> Total([e \in Entry |-> Bytes(disk'[e])]) <= Quota
  BY DEF DiskWithinQuota, DiskBytes
<1> QED BY <1>1, <1>2, FitsIs, Zenon

\* What the callers see of a disk that changes.
LEMMA FilesAre ==
  /\ disk \in [Entry -> Content] =>
       /\ Files \in [Entry -> Blob \cup {Absent}]
       /\ \A e \in Entry : /\ disk[e] \in Blob => Files[e] = disk[e]
                           /\ disk[e] \notin Blob => Files[e] = Absent
  /\ disk' \in [Entry -> Content] =>
       /\ Files' \in [Entry -> Blob \cup {Absent}]
       /\ \A e \in Entry : /\ disk'[e] \in Blob => Files'[e] = disk'[e]
                           /\ disk'[e] \notin Blob => Files'[e] = Absent
BY ContentAssumption DEF Files, Shown, Content

LEMMA FilesSame ==
  ASSUME disk \in [Entry -> Content], disk' \in [Entry -> Content],
         \A e \in Entry : disk'[e] = disk[e] \/ (disk'[e] \notin Blob /\ disk[e] \notin Blob)
  PROVE  Files' = Files
<1>1. \A e \in Entry : Files'[e] = Files[e]
  BY FilesAre
<1> QED BY <1>1, FilesAre

LEMMA FilesPut ==
  ASSUME disk \in [Entry -> Content], NEW e \in Entry, NEW content \in Blob \cup {Absent},
         disk' = [disk EXCEPT ![e] = content]
  PROVE  Files' = [Files EXCEPT ![e] = content] /\ disk' \in [Entry -> Content]
<1>1. /\ disk' \in [Entry -> Content] /\ disk'[e] = content
      /\ \A f \in Entry : f # e => disk'[f] = disk[f]
  BY DEF Content
<1>2. Files'[e] = content /\ \A f \in Entry : f # e => Files'[f] = Files[f]
  BY <1>1, FilesAre, ContentAssumption
<1> QED BY <1>1, <1>2, FilesAre

LEMMA FilesWithout ==
  ASSUME disk \in [Entry -> Content], NEW gone, disk' = Without(disk, gone)
  PROVE  Files' = Promised!Without(gone)
<1>1. /\ disk' \in [Entry -> Content]
      /\ \A e \in Entry : disk'[e] = IF e \in gone THEN Absent ELSE disk[e]
  BY WithoutType
<1>2. \A e \in Entry : Files'[e] = IF e \in gone THEN Absent ELSE Files[e]
  BY <1>1, FilesAre, ContentAssumption
<1>3. Promised!Without(gone) = [e \in Entry |-> IF e \in gone THEN Absent ELSE Files[e]]
  BY DEF Promised!Without, Promised!Entry, Entry
<1> QED BY <1>1, <1>2, <1>3, FilesAre

LEMMA WithdrawingType == Withdrawing \in BOOLEAN /\ Withdrawing' \in BOOLEAN
BY DEF Withdrawing

\* Only the head can have a file to withdraw.
LEMMA HeadWithdraws ==
  ASSUME IInv, NEW c \in Call, Turn(c), Withdrawing
  PROVE  pc[c] = "cleanup" /\ ~had[c] /\ disk[request[c].entry] \in Blob
<1>1. PICK d \in Call : pc[d] = "cleanup" /\ ~had[d] /\ disk[request[d].entry] \in Blob
  BY DEF Withdrawing
<1>2. tail[1] = d
  BY <1>1, RunningTurn DEF IInv, Running, Place
<1>3. tail[1] = c
  BY TailSteps DEF IInv, Shape, Turn
<1> QED BY <1>1, <1>2, <1>3

LEMMA SettledWithdraws ==
  ASSUME IInv, NEW c \in Call, Turn(c), pc[c] # "idle",
         NEW outcome \in {"done", "rejected"}, Settle(c, outcome), UNCHANGED <<request, closing>>
  PROVE  ~Withdrawing'
<1>1. \A d \in Call : pc'[d] \in {"idle", "queued"}
  BY SettleTail DEF IInv
<1> QED BY <1>1 DEF Withdrawing

LEMMA GoneWithdraws ==
  ASSUME IInv, NEW c \in Call, Turn(c), pc[c] # "idle", NEW place \in Running,
         pc' = [pc EXCEPT ![c] = place], UNCHANGED <<tail, result, request, closing>>,
         place = "cleanup" => had'[c] \/ disk'[request[c].entry] \notin Blob
  PROVE  ~Withdrawing'
<1>1. pc'[c] = place /\ \A d \in Call : d # c => pc'[d] \in {"idle", "queued"}
  BY GoTail DEF IInv
<1> QED BY <1>1 DEF Withdrawing

\* Nothing that AnalysisStore tells happens.
LEMMA StoreStutters ==
  ASSUME UNCHANGED <<tail, request, result, answer, closing, faults>>, Files' = Files,
         Withdrawing' <=> Withdrawing
  PROVE  StoreStep
<1>1. Withdrawing' = Withdrawing
  BY WithdrawingType
<1>2. (faults # 0)' = (faults # 0)
  OBVIOUS
<1> QED BY <1>1, <1>2 DEF StoreStep, Promised!storeVars

\* The head is answered.
LEMMA StoreAnswers ==
  ASSUME NEW c \in Call, Turn(c), NEW outcome, Settle(c, outcome), UNCHANGED <<request, closing>>
  PROVE  Promised!Turn(c) /\ Promised!Answer(c, outcome)
BY DEF Turn, Settle, Promised!Turn, Promised!Answer

LEMMA StoreRejects ==
  ASSUME IInv, NEW c \in Call, Turn(c), pc[c] # "idle", Settle(c, "rejected"),
         UNCHANGED <<request, closing, answer, faults>>, Files' = Files, ~Withdrawing
  PROVE  StoreStep
<1>1. ~Withdrawing'
  BY SettledWithdraws
<1>2. Withdrawing' = Withdrawing /\ (faults # 0)' = (faults # 0)
  BY <1>1, WithdrawingType
<1>3. Promised!Turn(c) /\ Promised!Answer(c, "rejected")
  BY StoreAnswers
<1>4. Promised!Reject(c)
  BY <1>2, <1>3 DEF Promised!Reject
<1> QED BY <1>3, <1>4 DEF StoreStep, Promised!Next

\* A file system failure is a rejection that leaves damage.
LEMMA StoreFails ==
  ASSUME IInv, NEW c \in Call, Turn(c), pc[c] # "idle", Settle(c, "rejected"),
         UNCHANGED <<request, closing, answer>>, faults' = faults + 1,
         NEW gone \in SUBSET Promised!Covered(request[c]), Files' = Promised!Without(gone)
  PROVE  StoreStep
<1>1. Withdrawing' = FALSE
  <2>1. ~Withdrawing'
    BY SettledWithdraws
  <2> QED BY <2>1, WithdrawingType
<1>2. (faults # 0)' = TRUE
  BY DEF IInv, Shape
<1>3. Promised!Turn(c) /\ Promised!Answer(c, "rejected")
  BY StoreAnswers
<1>4. Promised!Fail(c)
  BY <1>1, <1>2, <1>3 DEF Promised!Fail
<1> QED BY <1>3, <1>4 DEF StoreStep, Promised!Next

\* A put has no file to withdraw before it is committed.
LEMMA NothingToWithdraw ==
  ASSUME IInv, VisibleInv, NEW c \in Call, pc[c] \in Putting \ {"cleanup"}
  PROVE  /\ request[c] \in Request /\ request[c].kind = "put" /\ request[c].entry \in Entry
         /\ had[c] \/ disk[request[c].entry] \notin Blob
<1>1. request[c] \in Request /\ request[c].kind = "put" /\ loaded
      /\ (had[c] <=> request[c].entry \in DOMAIN known)
  BY DEF IInv, TailInv, PlaceInv, Putting
<1>2. request[c].entry \in Entry
  BY <1>1, RequestTypes
<1> QED BY <1>1, <1>2 DEF VisibleInv

\* The steps of a call that changes no content: it goes on, or is rejected.
LEMMA StoreGoes ==
  ASSUME IInv, VisibleInv, NEW c \in Call,
         \/ Start(c) \/ RootFails(c) \/ RootReady(c) \/ OpenDirectory(c) \/ OpenFile(c)
         \/ Write(c) \/ CommitFails(c)
  PROVE  StoreStep
<1>1. UNCHANGED <<request, answer, closing, faults>> /\ (had'[c] = had[c] \/ pc[c] = "root")
  BY DEF Start, RootFails, RootReady, OpenDirectory, OpenFile, Write, CommitFails
<1>2. Turn(c) /\ pc[c] # "idle" /\ pc[c] # "cleanup"
  BY RunningTurn DEF Start, RootFails, RootReady, OpenDirectory, OpenFile, Write, CommitFails,
                     IInv, Running, Place
<1>3. ~Withdrawing
  BY <1>2, HeadWithdraws
<1>4. /\ disk' \in [Entry -> Content]
      /\ \A e \in Entry : disk'[e] = disk[e] \/ (disk'[e] \notin Blob /\ disk[e] \notin Blob)
  <2>1. CASE OpenFile(c)
    BY <2>1, ContentAssumption DEF OpenFile, IInv, Shape, Content
  <2>2. CASE ~OpenFile(c)
    BY <2>2 DEF Start, RootFails, RootReady, OpenDirectory, Write, CommitFails, IInv, Shape
  <2> QED BY <2>1, <2>2
<1>5. Files' = Files
  BY <1>4, FilesSame DEF IInv, Shape
<1>6. \/ Settle(c, "rejected")
      \/ /\ \E place \in Running :
              /\ pc' = [pc EXCEPT ![c] = place]
              /\ place = "cleanup" => pc[c] \in {"directory", "file", "write", "commit"}
         /\ UNCHANGED <<tail, result>>
  <2>1. {"root", "remove", "read", "directory", "file", "write", "commit", "cleanup"} \subseteq Running
    BY DEF Running, Place
  <2>2. CASE Start(c)
    BY <2>1, <2>2 DEF Start, GoTo
  <2>3. CASE RootFails(c)
    BY <2>3 DEF RootFails
  <2>4. CASE RootReady(c)
    <3>1. \/ Settle(c, "rejected")
          \/ GoTo(c, "read") \/ GoTo(c, "remove") \/ GoTo(c, "directory")
      BY <2>4 DEF RootReady
    <3> QED BY <2>1, <3>1 DEF GoTo
  <2>5. CASE OpenDirectory(c)
    BY <2>1, <2>5 DEF OpenDirectory, GoTo
  <2>6. CASE OpenFile(c)
    <3>1. /\ pc[c] = "file" /\ UNCHANGED <<tail, result>>
          /\ pc' = [pc EXCEPT ![c] = "cleanup"] \/ pc' = [pc EXCEPT ![c] = "write"]
      BY <2>6 DEF OpenFile, GoTo
    <3> QED BY <2>1, <3>1
  <2>7. CASE Write(c)
    BY <2>1, <2>7 DEF Write, GoTo
  <2>8. CASE CommitFails(c)
    BY <2>1, <2>8 DEF CommitFails, GoTo
  <2> QED BY <2>2, <2>3, <2>4, <2>5, <2>6, <2>7, <2>8
<1>7. CASE Settle(c, "rejected")
  BY <1>1, <1>2, <1>3, <1>5, <1>7, StoreRejects
<1>8. ASSUME UNCHANGED <<tail, result>>, NEW place \in Running, pc' = [pc EXCEPT ![c] = place],
             place = "cleanup" => pc[c] \in {"directory", "file", "write", "commit"}
      PROVE  StoreStep
  <2>1. place = "cleanup" => had'[c] \/ disk'[request[c].entry] \notin Blob
    <3> SUFFICES ASSUME place = "cleanup" PROVE had'[c] \/ disk'[request[c].entry] \notin Blob
      OBVIOUS
    <3>1. had'[c] = had[c] /\ pc[c] \in Putting \ {"cleanup"}
      BY <1>1, <1>8 DEF Putting
    <3>2. request[c].entry \in Entry /\ (had[c] \/ disk[request[c].entry] \notin Blob)
      BY <3>1, NothingToWithdraw
    <3> QED BY <1>4, <3>1, <3>2
  <2>2. ~Withdrawing'
    BY <1>1, <1>2, <1>8, <2>1, GoneWithdraws
  <2> QED BY <1>1, <1>3, <1>5, <1>8, <2>2, StoreStutters
<1> QED BY <1>6, <1>7, <1>8

\* A put that is committed is answered, or overtaken by close().
LEMMA StoreCommits ==
  ASSUME IInv, BooksInv, VisibleInv, NEW c \in Call, Commit(c), DiskWithinQuota'
  PROVE  StoreStep
<1> DEFINE r == request[c]
<1>1. /\ pc[c] = "commit" /\ Turn(c) /\ pc[c] # "idle" /\ pc[c] # "cleanup" /\ tail # <<>>
      /\ UNCHANGED <<request, answer, closing, faults, had>>
      /\ disk' = [disk EXCEPT ![r.entry] = r.blob]
  BY RunningTurn DEF Commit, IInv, Running, Place
<1>2. /\ r \in Request /\ r.kind = "put" /\ r.entry \in Entry /\ r.blob \in Blob
      /\ had[c] \/ disk[r.entry] \notin Blob
  BY <1>1, NothingToWithdraw, RequestTypes DEF Putting
<1>3. Files' = [Files EXCEPT ![r.entry] = r.blob] /\ disk' \in [Entry -> Content]
  BY <1>1, <1>2, FilesPut DEF IInv, Shape
<1>4. Promised!Fits(Files')
  BY <1>3, FilesFit
<1>5. ~Withdrawing
  BY <1>1, HeadWithdraws
<1>6. (faults # 0)' = (faults # 0)
  BY <1>1
<1>7. CASE closed
  <2>1. closing = "draining"
    BY <1>1, <1>7 DEF closed, IInv, Shape, TailInv
  <2>2. GoTo(c, "cleanup")
    BY <1>7 DEF Commit
  <2>3. UNCHANGED <<tail, result>> /\ pc' = [pc EXCEPT ![c] = "cleanup"] /\ pc'[c] = "cleanup"
    BY <2>2 DEF GoTo, IInv, Shape
  <2>4. Withdrawing' \in {FALSE, Files[r.entry] = Absent}
    <3>1. CASE had[c]
      <4>1. ~Withdrawing'
        BY <1>1, <2>3, <3>1, GoneWithdraws DEF Running, Place
      <4> QED BY <4>1, WithdrawingType
    <3>2. CASE ~had[c]
      <4>1. Files[r.entry] = Absent
        BY <1>2, <3>2, FilesAre DEF IInv, Shape
      <4>2. disk'[r.entry] \in Blob
        BY <1>1, <1>2 DEF IInv, Shape
      <4>3. Withdrawing'
        BY <1>1, <2>3, <3>2, <4>2 DEF Withdrawing
      <4> QED BY <4>1, <4>3, WithdrawingType
    <3> QED BY <3>1, <3>2
  <2>5. Promised!Turn(c)
    BY <1>1 DEF Turn, Promised!Turn
  <2>6. Promised!Overtake(c)
    BY <1>1, <1>2, <1>3, <1>4, <1>6, <2>1, <2>3, <2>4 DEF Promised!Overtake
  <2> QED BY <2>5, <2>6 DEF StoreStep, Promised!Next
<1>8. CASE ~closed
  <2>1. closing = "open" /\ Settle(c, "done")
    BY <1>8 DEF closed, Commit
  <2>2. Withdrawing' = Withdrawing
    BY <1>1, <1>5, <2>1, SettledWithdraws, WithdrawingType
  <2>3. Promised!Turn(c) /\ Promised!Answer(c, "done")
    BY <1>1, <2>1, StoreAnswers
  <2>4. Promised!Put(c)
    BY <1>1, <1>2, <1>3, <1>4, <1>6, <2>1, <2>2, <2>3 DEF Promised!Put
  <2> QED BY <2>3, <2>4 DEF StoreStep, Promised!Next
<1> QED BY <1>7, <1>8

\* What a purge removes, here and there.
LEMMA CoveredIs ==
  ASSUME NEW r \in Request
  PROVE  /\ r.kind = "put" => Promised!Covered(r) = {}
         /\ r.kind \in {"purge", "purgeAnalysis"} => Promised!Covered(r) = Covered(r)
BY DEF Promised!Covered, Covered, Promised!Entry, Entry

LEMMA StoreCleansUp ==
  ASSUME IInv, VisibleInv, NEW c \in Call, Cleanup(c)
  PROVE  StoreStep
<1> DEFINE r == request[c]
<1>1. /\ pc[c] = "cleanup" /\ Turn(c) /\ pc[c] # "idle" /\ Settle(c, "rejected")
      /\ UNCHANGED <<request, answer, closing, had>>
  BY RunningTurn DEF Cleanup, IInv, Running, Place
<1>2. r \in Request /\ r.kind = "put" /\ r.entry \in Entry
  <2>1. r \in Request /\ r.kind = "put"
    BY <1>1 DEF IInv, TailInv, PlaceInv, Putting
  <2> QED BY <2>1, RequestTypes
<1>3. Withdrawing <=> ~had[c] /\ disk[r.entry] \in Blob
  BY <1>1, HeadWithdraws DEF Withdrawing
<1>4. \/ faults' = faults /\ disk' = [disk EXCEPT ![r.entry] = IF had[c] THEN @ ELSE Absent]
      \/ faults' = faults + 1 /\ disk' = disk
  BY DEF Cleanup
<1>5. CASE faults' = faults /\ disk' = [disk EXCEPT ![r.entry] = IF had[c] THEN @ ELSE Absent]
  <2>1. CASE Withdrawing
    <3>1. disk' = [disk EXCEPT ![r.entry] = Absent]
      BY <1>3, <1>5, <2>1
    <3>2. Files' = [Files EXCEPT ![r.entry] = Absent]
      BY <1>2, <3>1, FilesPut DEF IInv, Shape
    <3>3. Promised!Turn(c) /\ Promised!Answer(c, "rejected")
      BY <1>1, StoreAnswers
    <3>4. Withdrawing' = FALSE /\ (faults # 0)' = (faults # 0)
      BY <1>1, <1>5, SettledWithdraws, WithdrawingType
    <3>5. Promised!Withdraw(c)
      BY <1>1, <2>1, <3>2, <3>3, <3>4 DEF Promised!Withdraw
    <3> QED BY <3>3, <3>5 DEF StoreStep, Promised!Next
  <2>2. CASE ~Withdrawing
    <3>1. /\ disk' \in [Entry -> Content]
          /\ \A e \in Entry : disk'[e] = disk[e] \/ (disk'[e] \notin Blob /\ disk[e] \notin Blob)
      BY <1>2, <1>3, <1>5, <2>2, ContentAssumption DEF IInv, Shape, Content
    <3>2. Files' = Files
      BY <3>1, FilesSame DEF IInv, Shape
    <3> QED BY <1>1, <1>5, <2>2, <3>2, StoreRejects
  <2> QED BY <2>1, <2>2
<1>6. CASE faults' = faults + 1 /\ disk' = disk
  <2>1. disk' = Without(disk, {})
    BY <1>6 DEF Without, IInv, Shape
  <2>2. Files' = Promised!Without({})
    BY <2>1, FilesWithout DEF IInv, Shape
  <2> QED BY <1>1, <1>6, <2>2, StoreFails
<1> QED BY <1>4, <1>5, <1>6

\* A get resolves with what callers see, or with an empty file that damage has left.
LEMMA StoreReads ==
  ASSUME IInv, NEW c \in Call, Read(c)
  PROVE  StoreStep
<1> DEFINE e == request[c].entry
<1>1. /\ pc[c] = "read" /\ Turn(c) /\ pc[c] # "idle" /\ pc[c] # "cleanup"
      /\ UNCHANGED <<disk, request, closing, faults>>
  BY RunningTurn DEF Read, IInv, Running, Place
<1>2. request[c] \in Request /\ request[c].kind = "get" /\ e \in Entry
  <2>1. request[c] \in Request /\ request[c].kind = "get"
    BY <1>1 DEF IInv, TailInv, PlaceInv
  <2> QED BY <2>1, RequestTypes
<1>3. ~Withdrawing
  BY <1>1, HeadWithdraws
<1>4. Files' = Files /\ (faults # 0)' = (faults # 0)
  BY <1>1 DEF Files
<1>5. CASE Settle(c, "rejected") /\ answer' = answer
  BY <1>1, <1>3, <1>4, <1>5, StoreRejects
<1>6. CASE Settle(c, "done") /\ answer' = [answer EXCEPT ![c] = disk[e]]
  <2>1. \/ disk[e] = Files[e]
        \/ disk[e] = Created /\ faults # 0 /\ Files[e] = Absent
    <3>1. disk[e] = Created => faults # 0
      BY <1>1, <1>2, CreatedByHead
    <3> QED BY <1>2, <3>1, FilesAre, ContentAssumption DEF IInv, Shape, Content
  <2>2. Promised!Turn(c) /\ Promised!Answer(c, "done")
    BY <1>1, <1>6, StoreAnswers
  <2>3. Withdrawing' = Withdrawing
    BY <1>1, <1>3, <1>6, SettledWithdraws, WithdrawingType
  <2>4. \/ answer' = [answer EXCEPT ![c] = Files[e]]
        \/ faults # 0 /\ Files[e] = Absent /\ answer' = [answer EXCEPT ![c] = Created]
    BY <1>6, <2>1
  <2>5. Promised!Get(c)
    BY <1>2, <1>4, <2>2, <2>3, <2>4 DEF Promised!Get
  <2> QED BY <2>2, <2>5 DEF StoreStep, Promised!Next
<1> QED BY <1>5, <1>6 DEF Read

LEMMA StoreRemoves ==
  ASSUME IInv, NEW c \in Call, Remove(c)
  PROVE  StoreStep
<1>1. /\ pc[c] = "remove" /\ Turn(c) /\ pc[c] # "idle" /\ pc[c] # "cleanup"
      /\ Settle(c, "done") /\ disk' = Without(disk, Covered(request[c]))
      /\ UNCHANGED <<faults, closing, request, answer>>
  BY RunningTurn DEF Remove, IInv, Running, Place
<1>2. request[c] \in Request /\ request[c].kind \in {"purge", "purgeAnalysis"}
  BY <1>1 DEF IInv, TailInv, PlaceInv
<1>3. Files' = Promised!Without(Promised!Covered(request[c]))
  BY <1>1, <1>2, CoveredIs, FilesWithout DEF IInv, Shape
<1>4. Promised!Turn(c) /\ Promised!Answer(c, "done")
  BY <1>1, StoreAnswers
<1>5. ~Withdrawing
  BY <1>1, HeadWithdraws
<1>6. Withdrawing' = Withdrawing /\ (faults # 0)' = (faults # 0)
  BY <1>1, <1>5, SettledWithdraws, WithdrawingType
<1>7. Promised!Purge(c)
  BY <1>1, <1>2, <1>3, <1>4, <1>6 DEF Promised!Purge
<1> QED BY <1>4, <1>7 DEF StoreStep, Promised!Next

LEMMA StoreRemovalFails ==
  ASSUME IInv, NEW c \in Call, RemoveFails(c)
  PROVE  StoreStep
<1>1. /\ pc[c] = "remove" /\ Turn(c) /\ pc[c] # "idle"
      /\ Settle(c, "rejected") /\ faults' = faults + 1
      /\ UNCHANGED <<closing, request, answer>>
  BY RunningTurn DEF RemoveFails, IInv, Running, Place
<1>2. request[c] \in Request /\ request[c].kind \in {"purge", "purgeAnalysis"}
  BY <1>1 DEF IInv, TailInv, PlaceInv
<1>3. PICK gone \in SUBSET Covered(request[c]) : disk' = Without(disk, gone)
  BY DEF RemoveFails
<1>4. gone \in SUBSET Promised!Covered(request[c])
  BY <1>2, <1>3, CoveredIs
<1>5. Files' = Promised!Without(gone)
  BY <1>3, FilesWithout DEF IInv, Shape
<1> QED BY <1>1, <1>4, <1>5, StoreFails

\* A call is made: refused at once, or queued in an open storage.
LEMMA StoreAsked ==
  ASSUME IInv, NEW c \in Call, NEW r \in Request, Make(c, r)
  PROVE  StoreStep
<1>1. /\ request[c] = NoRequest /\ request' = [request EXCEPT ![c] = r]
      /\ UNCHANGED <<disk, faults, closing, answer, had>>
  BY DEF Make
<1>2. pc[c] = "idle"
  BY <1>1, RequestAssumption DEF IInv, TailInv, Shape
<1>3. \A d \in Call : pc'[d] = "cleanup" \/ pc[d] = "cleanup" => d # c /\ pc'[d] = pc[d]
  BY <1>2 DEF Make, IInv, Shape
<1>4. \A d \in Call : d # c => request'[d] = request[d]
  BY <1>1 DEF IInv, Shape
<1>5. Withdrawing' = Withdrawing
  <2>1. Withdrawing' <=> Withdrawing
    BY <1>1, <1>3, <1>4 DEF Withdrawing
  <2> QED BY <2>1, WithdrawingType
<1>6. Files' = Files /\ (faults # 0)' = (faults # 0)
  BY <1>1 DEF Files
<1>7. r \in Promised!Request
  BY DEF Request, Promised!Request, Entry, Promised!Entry
<1>8. \/ result' = [result EXCEPT ![c] = "rejected"] /\ tail' = tail
      \/ /\ closing = "open"
         /\ result' = [result EXCEPT ![c] = "pending"] /\ tail' = Append(tail, c)
  BY DEF Make, Refused, closed
<1>9. Promised!Ask(c)
  BY <1>1, <1>5, <1>6, <1>7, <1>8 DEF Promised!Ask
<1> QED BY <1>9 DEF StoreStep, Promised!Next

\* Signals mean nothing to AnalysisStore, and close() is close().
LEMMA StoreOutside ==
  ASSUME IInv, (\E c \in Call : Signal(c)) \/ Close \/ CloseResolves \/ UNCHANGED vars
  PROVE  StoreStep
<1>1. UNCHANGED <<disk, faults, tail, request, pc, had, result, answer>>
  BY DEF Signal, Close, CloseResolves, vars, instance
<1>2. /\ Files' = Files /\ (Withdrawing' <=> Withdrawing)
      /\ (faults # 0)' = (faults # 0)
  BY <1>1 DEF Files, Withdrawing
<1>3. Withdrawing' = Withdrawing
  BY <1>2, WithdrawingType
<1>4. CASE (\E c \in Call : Signal(c)) \/ UNCHANGED vars
  <2>1. closing' = closing
    BY <1>4 DEF Signal, vars, instance
  <2> QED BY <1>1, <1>2, <2>1, StoreStutters
<1>5. CASE Close
  <2>1. closing = "open" /\ closing' = "draining"
    BY <1>5 DEF Close, closed
  <2>2. Promised!Close
    BY <1>1, <1>2, <1>3, <2>1 DEF Promised!Close
  <2> QED BY <2>2 DEF StoreStep, Promised!Next
<1>6. CASE CloseResolves
  <2>1. closing = "draining" /\ tail = <<>> /\ closing' = "closed"
    BY <1>6 DEF CloseResolves
  <2>2. Promised!Closed
    BY <1>1, <1>2, <1>3, <2>1 DEF Promised!Closed
  <2> QED BY <2>2 DEF StoreStep, Promised!Next
<1> QED BY <1>4, <1>5, <1>6

\* The end of the worker interrupts at most the call at the head.
LEMMA StoreInterrupted ==
  ASSUME IInv, BooksInv', VisibleInv, Reload
  PROVE  StoreStep
<1>1. Files' = Files \/ (tail # <<>> /\ Promised!Unanswered(Head(tail)))
  <2>1. CASE disk' = disk
    BY <2>1 DEF Files
  <2>2. ASSUME NEW c \in Call, Unanswered(c)
        PROVE  Files' = Files \/ (tail # <<>> /\ Promised!Unanswered(Head(tail)))
    <3> DEFINE r == request[c]
    <3>1. tail # <<>> /\ Head(tail) = c /\ pc[c] # "idle"
      BY <2>2, RunningTurn DEF IInv, Running, Place, Turn, Unanswered
    <3>2. disk \in [Entry -> Content] /\ disk' \in [Entry -> Content]
      BY <2>2, UnansweredType DEF IInv, Shape
    <3>3. CASE pc[c] = "remove"
      <4>1. PICK gone \in SUBSET Covered(r) : disk' = Without(disk, gone)
        BY <2>2, <3>3 DEF Unanswered
      <4>2. Files' = Promised!Without(gone)
        BY <3>2, <4>1, FilesWithout
      <4>3. gone \in SUBSET Promised!Covered(r)
        <5>1. r \in Request /\ r.kind \in {"purge", "purgeAnalysis"}
          BY <3>3 DEF IInv, TailInv, PlaceInv
        <5> QED BY <4>1, <5>1, CoveredIs
      <4> QED BY <3>1, <4>2, <4>3 DEF Promised!Unanswered
    <3>4. CASE pc[c] # "remove"
      <4>1. pc[c] \in Putting /\ r \in Request /\ r.kind = "put"
        BY <2>2, <3>4 DEF Unanswered, Putting, IInv, TailInv, PlaceInv
      <4>2. r.entry \in Entry /\ r.blob \in Blob
        BY <4>1, RequestTypes
      <4>3. CASE pc[c] = "file"
        <5>1. \A e \in Entry : disk'[e] = disk[e] \/ (disk'[e] \notin Blob /\ disk[e] \notin Blob)
          BY <2>2, <3>2, <4>2, <4>3, ContentAssumption DEF Unanswered
        <5> QED BY <3>2, <5>1, FilesSame
      <4>4. CASE pc[c] = "commit"
        <5>1. disk' = [disk EXCEPT ![r.entry] = r.blob]
          BY <2>2, <4>4 DEF Unanswered
        <5>2. Files' = [Files EXCEPT ![r.entry] = r.blob]
          BY <3>2, <4>2, <5>1, FilesPut
        <5>3. Promised!Fits(Files')
          BY <3>2, FilesFit DEF BooksInv
        <5> QED BY <3>1, <4>1, <5>2, <5>3 DEF Promised!Unanswered
      <4>5. CASE pc[c] = "cleanup"
        <5>1. ~had[c] /\ disk' = [disk EXCEPT ![r.entry] = Absent]
          BY <2>2, <4>5 DEF Unanswered
        <5>2. CASE disk[r.entry] \in Blob
          <6>1. Withdrawing
            BY <4>5, <5>1, <5>2 DEF Withdrawing
          <6>2. Files' = [Files EXCEPT ![r.entry] = Absent]
            BY <3>2, <4>2, <5>1, FilesPut
          <6> QED BY <3>1, <6>1, <6>2 DEF Promised!Unanswered
        <5>3. CASE disk[r.entry] \notin Blob
          <6>1. \A e \in Entry : disk'[e] = disk[e] \/ (disk'[e] \notin Blob /\ disk[e] \notin Blob)
            BY <3>2, <4>2, <5>1, <5>3, ContentAssumption
          <6> QED BY <3>2, <6>1, FilesSame
        <5> QED BY <5>2, <5>3
      <4> QED BY <2>2, <3>4, <4>3, <4>4, <4>5 DEF Unanswered
    <3> QED BY <3>3, <3>4
  <2> QED BY <2>1, <2>2 DEF Reload
<1>2. Withdrawing' = FALSE
  BY DEF Withdrawing, Reload
<1>3. (faults # 0)' = TRUE
  BY DEF Reload, IInv, Shape
<1>4. /\ tail' = <<>> /\ closing' = "open" /\ UNCHANGED <<request, answer>>
      /\ result' = [c \in Call |-> IF result[c] = "pending" THEN "lost" ELSE result[c]]
  BY DEF Reload
<1>5. Promised!Interrupt
  BY <1>1, <1>2, <1>3, <1>4 DEF Promised!Interrupt
<1> QED BY <1>5 DEF StoreStep, Promised!Next

LEMMA StoreNext ==
  IInv /\ BooksInv /\ VisibleInv /\ (IInv /\ BooksInv)' /\ [Next]_vars => StoreStep
<1> SUFFICES ASSUME IInv, BooksInv, VisibleInv, BooksInv', [Next]_vars PROVE StoreStep
  OBVIOUS
<1>1. DiskWithinQuota'
  BY DEF BooksInv
<1>2. CASE \E c \in Call : Step(c)
  BY <1>1, <1>2, StoreGoes, StoreCommits, StoreCleansUp, StoreReads, StoreRemoves,
     StoreRemovalFails DEF Step
<1> QED BY <1>2, StoreAsked, StoreOutside, StoreInterrupted DEF Next

LEMMA StoreInit == Init => Promised!Init
<1> SUFFICES ASSUME Init PROVE Promised!Init
  OBVIOUS
<1>1. disk \in [Entry -> Content] /\ DiskWithinQuota
  BY DEF Init, Content, DiskWithinQuota
<1>2. Promised!Fits(Files) /\ Files \in [Promised!Entry -> Blob \cup {Absent}]
  BY <1>1, FilesFit, FilesAre DEF Promised!Entry, Entry
<1>3. Withdrawing = FALSE
  BY DEF Init, Withdrawing
<1>4. (faults # 0) = FALSE
  BY DEF Init
<1> QED BY <1>2, <1>3, <1>4 DEF Init, Promised!Init

\* Whatever calls overlap, whatever the file system fails, whoever aborts or closes and
\* whenever the worker ends: the storage does what AnalysisStore promises.
THEOREM StoreKeepsThePromise == Safety => KeepsThePromise
<1>1. IInv /\ BooksInv /\ VisibleInv /\ (IInv /\ BooksInv /\ VisibleInv)' /\ [Next]_vars
        => [Promised!Next]_(Promised!storeVars)
  BY StoreNext DEF StoreStep
<1> QED BY <1>1, StoreInit, VisibleInvariance, PTL DEF Safety, KeepsThePromise, Promised!Spec
=============================================================================
