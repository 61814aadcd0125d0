--------------------------- MODULE IngestionProofs ---------------------------
(***************************************************************************)
(* What holds of the intake for any requests, sizes and limits: a route is   *)
(* told to the network once at most and never without consent, and nothing   *)
(* is begun or stored after an abort.                                       *)
(***************************************************************************)
EXTENDS Ingestion, FiniteSetTheorems, SequenceTheorems, WellFoundedInduction, TLAPS

Place == {"none", "fetch", "read", "cancelReader", "hydrate", "done"}

\* The functions whose ranges the steps look at.
Shape ==
  /\ plan \in [Public -> {None, "cached", "unavailable", "consent"}]
  /\ sent \in [Requests -> BOOLEAN] /\ clicked \in [Public -> BOOLEAN]
  /\ inbox \in Seq(Requests)
  /\ pc \in [Requests -> Place]
  /\ fetches \in [Public -> Nat]
  /\ DOMAIN input = Requests /\ DOMAIN result = Requests
  /\ DOMAIN entries = Keys

\* A message is posted once, waits in the inbox once, and is handled after that.
MessageInv ==
  /\ \A i, k \in DOMAIN inbox : inbox[i] = inbox[k] => i = k
  /\ \A i \in DOMAIN inbox : sent[inbox[i]] /\ pc[inbox[i]] = "none"
  /\ \A r \in Requests : pc[r] # "none" => sent[r]

\* Only the consent controller posts for a route that needs consent.
ConsentInv ==
  \A r \in Public :
    /\ input[r] # None => plan[r] = "cached"
    /\ sent[r] => plan[r] = "cached" \/ (plan[r] = "consent" /\ clicked[r])
    /\ pc[r] = "none" => fetches[r] = 0
    /\ fetches[r] > 0 => fetches[r] = 1 /\ plan[r] = "consent"

IInv == Shape /\ MessageInv /\ ConsentInv

----------------------------------------------------------------------------
LEMMA InitInv == Init => IInv
<1> SUFFICES ASSUME Init PROVE IInv
  OBVIOUS
<1>1. inbox \in Seq(Requests) /\ DOMAIN inbox = {}
  BY DEF Init
<1>2. Shape
  BY <1>1 DEF Init, Shape, Place
<1>3. MessageInv
  BY <1>1 DEF Init, MessageInv
<1>4. ConsentInv
  BY DEF Init, ConsentInv, Requests
<1> QED BY <1>2, <1>3, <1>4 DEF IInv

LEMMA PlanInv ==
  ASSUME IInv, NEW r \in Public, NEW cached \in BOOLEAN, NEW offline \in BOOLEAN,
         Plan(r, cached, offline)
  PROVE  IInv'
<1>1. ~sent[r] /\ fetches[r] = 0 /\ pc[r] = "none"
  BY IngestionAssumption DEF Plan, IInv, Shape, MessageInv, ConsentInv, Requests
<1>2. /\ UNCHANGED <<sent, clicked, inbox, pc, fetches, input, result, entries>>
      /\ plan' \in [Public -> {None, "cached", "unavailable", "consent"}]
      /\ \A q \in Public : q # r => plan'[q] = plan[q]
      /\ input[r] = None
  BY IngestionAssumption DEF Plan, IInv, Shape, ConsentInv, storeVars
<1>3. Shape' /\ MessageInv'
  BY <1>2 DEF IInv, Shape, MessageInv
<1>4. ConsentInv'
  BY <1>1, <1>2 DEF IInv, ConsentInv
<1> QED BY <1>3, <1>4 DEF IInv

LEMMA SelectInv ==
  ASSUME IInv, NEW r \in Requests, NEW value, Select(r, value)
  PROVE  IInv'
<1>1. /\ UNCHANGED <<plan, sent, clicked, inbox, pc, fetches, result, entries>>
      /\ DOMAIN input' = Requests
      /\ \A q \in Requests : q # r => input'[q] = input[q]
      /\ r \in Public => plan[r] = "cached"
  BY DEF Select, IInv, Shape, storeVars
<1>2. Shape' /\ MessageInv'
  BY <1>1 DEF IInv, Shape, MessageInv
<1>3. ConsentInv'
  BY <1>1 DEF IInv, ConsentInv, Requests
<1> QED BY <1>2, <1>3 DEF IInv

\* A message that was not posted before is posted.
LEMMA PostKeeps ==
  ASSUME Shape, MessageInv, NEW r \in Requests, Post(r), pc' = pc
  PROVE  /\ sent' \in [Requests -> BOOLEAN] /\ inbox' \in Seq(Requests)
         /\ \A q \in Requests : q # r => sent'[q] = sent[q]
         /\ MessageInv'
<1>1. /\ ~sent[r] /\ sent'[r] /\ sent' \in [Requests -> BOOLEAN]
      /\ \A q \in Requests : q # r => sent'[q] = sent[q]
  BY DEF Post, Shape
<1>2. /\ inbox' \in Seq(Requests) /\ Len(inbox) \in Nat
      /\ DOMAIN inbox = 1 .. Len(inbox) /\ DOMAIN inbox' = 1 .. (Len(inbox) + 1)
      /\ inbox'[Len(inbox) + 1] = r /\ \A i \in DOMAIN inbox : inbox'[i] = inbox[i]
      /\ \A i \in DOMAIN inbox : inbox[i] \in Requests
  BY DEF Post, Shape
<1>3. pc[r] = "none" /\ \A i \in DOMAIN inbox : inbox[i] # r
  BY <1>1 DEF MessageInv
<1>4. \A i \in DOMAIN inbox' : i \in DOMAIN inbox \/ i = Len(inbox) + 1
  BY <1>2
<1>5. \A i, k \in DOMAIN inbox' : inbox'[i] = inbox'[k] => i = k
  BY <1>2, <1>3, <1>4 DEF MessageInv
<1>6. \A i \in DOMAIN inbox' : sent'[inbox'[i]] /\ pc'[inbox'[i]] = "none"
  BY <1>1, <1>2, <1>3, <1>4 DEF MessageInv
<1> QED BY <1>1, <1>2, <1>5, <1>6 DEF MessageInv

LEMMA BeginIngestionInv ==
  ASSUME IInv, NEW r \in Requests, BeginIngestion(r)
  PROVE  IInv'
<1>1. /\ UNCHANGED <<plan, clicked, pc, fetches, input, result, entries>>
      /\ input[r] # None /\ Post(r)
  BY DEF BeginIngestion, storeVars
<1>2. /\ sent' \in [Requests -> BOOLEAN] /\ inbox' \in Seq(Requests)
      /\ \A q \in Requests : q # r => sent'[q] = sent[q]
      /\ MessageInv'
  BY <1>1, PostKeeps DEF IInv
<1>3. Shape'
  BY <1>1, <1>2 DEF IInv, Shape
<1>4. ConsentInv'
  BY <1>1, <1>2 DEF IInv, ConsentInv, Requests
<1> QED BY <1>2, <1>3, <1>4 DEF IInv

LEMMA AcceptInv ==
  ASSUME IInv, NEW r \in Public, NEW isTrusted \in BOOLEAN, Accept(r, isTrusted)
  PROVE  IInv'
<1>1. /\ UNCHANGED <<plan, pc, fetches, input, result, entries>>
      /\ plan[r] = "consent" /\ Post(r) /\ r \in Requests
  BY DEF Accept, storeVars, Requests
<1>2. /\ sent' \in [Requests -> BOOLEAN] /\ inbox' \in Seq(Requests)
      /\ \A q \in Requests : q # r => sent'[q] = sent[q]
      /\ MessageInv'
  BY <1>1, PostKeeps DEF IInv
<1>3. /\ clicked' \in [Public -> BOOLEAN] /\ clicked'[r]
      /\ \A q \in Public : clicked[q] => clicked'[q]
  BY DEF Accept, IInv, Shape
<1>4. Shape'
  BY <1>1, <1>2, <1>3 DEF IInv, Shape
<1>5. ConsentInv'
  BY <1>1, <1>2, <1>3 DEF IInv, ConsentInv, Requests
<1> QED BY <1>2, <1>4, <1>5 DEF IInv

\* The worker takes its next message.
LEMMA ReceiveInv == ASSUME IInv, NEW r \in Requests, Receive(r) PROVE IInv'
<1>1. /\ inbox \in Seq(Requests) /\ inbox # <<>> /\ r = Head(inbox) /\ inbox' = Tail(inbox)
      /\ UNCHANGED <<plan, sent, clicked, input, entries>>
  BY DEF Receive, IInv, Shape, pageVars, storeVars
<1>2. /\ inbox' \in Seq(Requests) /\ Len(inbox') = Len(inbox) - 1 /\ Len(inbox) \in Nat \ {0}
      /\ \A i \in 1 .. Len(inbox') : inbox'[i] = inbox[i + 1]
      /\ DOMAIN inbox = 1 .. Len(inbox) /\ DOMAIN inbox' = 1 .. Len(inbox')
      /\ r = inbox[1]
  BY <1>1, HeadTailProperties, EmptySeq, LenProperties
<1>3. sent[r] /\ pc[r] = "none" /\ \A i \in DOMAIN inbox : inbox[i] = r => i = 1
  BY <1>2 DEF IInv, MessageInv
<1>4. /\ pc' \in [Requests -> Place] /\ \A q \in Requests : q # r => pc'[q] = pc[q]
      /\ DOMAIN result' = Requests
  BY DEF Receive, Handle, Answer, Await, IInv, Shape, Place
<1>5. MessageInv'
  <2>1. \A i \in DOMAIN inbox' : /\ i + 1 \in DOMAIN inbox /\ inbox'[i] = inbox[i + 1]
                                 /\ inbox'[i] # r /\ inbox'[i] \in Requests
    BY <1>2, <1>3
  <2>2. \A i, k \in DOMAIN inbox' : inbox'[i] = inbox'[k] => i = k
    <3> SUFFICES ASSUME NEW i \in DOMAIN inbox', NEW k \in DOMAIN inbox', inbox'[i] = inbox'[k]
                 PROVE  i = k
      OBVIOUS
    <3>1. i + 1 = k + 1
      BY <2>1 DEF IInv, MessageInv
    <3> QED BY <3>1, <1>2
  <2>3. \A i \in DOMAIN inbox' : sent'[inbox'[i]] /\ pc'[inbox'[i]] = "none"
    BY <1>1, <1>4, <2>1 DEF IInv, MessageInv
  <2>4. \A q \in Requests : pc'[q] # "none" => sent'[q]
    BY <1>1, <1>3, <1>4 DEF IInv, MessageInv
  <2> QED BY <2>2, <2>3, <2>4 DEF MessageInv
<1>6. CASE fetches' = fetches /\ pc'[r] # "none"
  <2>1. Shape'
    BY <1>1, <1>2, <1>4, <1>6 DEF IInv, Shape
  <2>2. ConsentInv'
    BY <1>1, <1>4, <1>6 DEF IInv, ConsentInv, Requests
  <2> QED BY <1>5, <2>1, <2>2 DEF IInv
<1>7. CASE /\ r \in Public /\ plan[r] = "consent" /\ pc'[r] = "fetch"
           /\ fetches' = [fetches EXCEPT ![r] = @ + 1]
  <2>1. fetches[r] = 0
    BY <1>3, <1>7 DEF IInv, ConsentInv
  <2>2. /\ fetches' \in [Public -> Nat] /\ fetches'[r] = 1
        /\ \A q \in Public : q # r => fetches'[q] = fetches[q]
    BY <1>7, <2>1 DEF IInv, Shape
  <2>3. Shape'
    BY <1>1, <1>2, <1>4, <2>2 DEF IInv, Shape
  <2>4. ConsentInv'
    BY <1>1, <1>4, <1>7, <2>2 DEF IInv, ConsentInv, Requests
  <2> QED BY <1>5, <2>3, <2>4 DEF IInv
<1>8. \/ fetches' = fetches /\ pc'[r] # "none"
      \/ /\ r \in Public /\ plan[r] = "consent" /\ pc'[r] = "fetch"
         /\ fetches' = [fetches EXCEPT ![r] = @ + 1]
  BY DEF Receive, Handle, Answer, Await, IInv, Shape
<1> QED BY <1>6, <1>7, <1>8

\* A handler that has begun goes on; the page and the network count do not change.
LEMMA HandlerInv ==
  ASSUME IInv, NEW r \in Requests, pc[r] # "none",
         UNCHANGED <<plan, sent, clicked, inbox, input, fetches>>,
         pc' \in [Requests -> Place], pc'[r] # "none",
         \A q \in Requests : q # r => pc'[q] = pc[q],
         DOMAIN result' = Requests, DOMAIN entries' = Keys
  PROVE  IInv'
<1>1. Shape'
  BY DEF IInv, Shape
<1>2. MessageInv'
  <2>1. \A i \in DOMAIN inbox : inbox[i] \in Requests /\ inbox[i] # r
    BY DEF IInv, Shape, MessageInv
  <2> QED BY <2>1 DEF IInv, MessageInv
<1>3. ConsentInv'
  BY DEF IInv, ConsentInv, Requests
<1> QED BY <1>1, <1>2, <1>3 DEF IInv

LEMMA NetworkInv ==
  ASSUME IInv, NEW r \in Requests, Network(r) \/ Hydrated(r)
  PROVE  IInv'
<1>1. /\ pc[r] # "none"
      /\ UNCHANGED <<plan, sent, clicked, inbox, input, fetches>>
  BY DEF Network, FetchRejects, FetchResponds, ReadFails, ChunkArrives, StreamEnds,
         ReaderCancelled, Hydrated, pageVars
<1>2. /\ pc' \in [Requests -> Place] /\ pc'[r] # "none"
      /\ \A q \in Requests : q # r => pc'[q] = pc[q]
      /\ DOMAIN result' = Requests
  <2>1. CASE FetchRejects(r) \/ ReaderCancelled(r)
    BY <2>1 DEF FetchRejects, ReaderCancelled, Answer, IInv, Shape, Place
  <2>2. CASE \E accepted \in BOOLEAN, declared \in {None, MaximumBytes, MaximumBytes + 1} :
               FetchResponds(r, accepted, declared)
    BY <2>2 DEF FetchResponds, Answer, Await, IInv, Shape, Place
  <2>3. CASE \E code \in {"module-fetch-failed", "module-fetch-response-invalid"} : ReadFails(r, code)
    BY <2>3 DEF ReadFails, Catch, Await, IInv, Shape, Place
  <2>4. CASE \E bytes \in ChunkSizes : ChunkArrives(r, bytes)
    BY <2>4, <1>1 DEF ChunkArrives, Catch, Await, IInv, Shape, Place
  <2>5. CASE \E content \in Contents : StreamEnds(r, content)
    BY <2>5 DEF StreamEnds, Catch, Await, IInv, Shape, Place
  <2>6. CASE Hydrated(r)
    BY <2>6 DEF Hydrated, Put, Answer, IInv, Shape, Place
  <2> QED BY <2>1, <2>2, <2>3, <2>4, <2>5, <2>6 DEF Network
<1>3. DOMAIN entries' = Keys
  BY DEF Network, FetchRejects, FetchResponds, ReadFails, ChunkArrives, StreamEnds,
         ReaderCancelled, Hydrated, Put, Answer, storeVars, IInv, Shape
<1> QED BY <1>1, <1>2, <1>3, HandlerInv

LEMMA OwnerInv == ASSUME IInv, Owner PROVE IInv'
<1>1. /\ UNCHANGED <<plan, sent, clicked, inbox, input, fetches, pc, result>>
      /\ DOMAIN entries' = Keys
  BY DEF Owner, Abort, Purge, PurgeAnalysis, Close, Forget, pageVars, storeVars, IInv, Shape
<1> QED BY <1>1 DEF IInv, Shape, MessageInv, ConsentInv

LEMMA NextInv == ASSUME IInv, [Next]_vars PROVE IInv'
<1>1. CASE UNCHANGED vars
  BY <1>1 DEF vars, pageVars, storeVars, IInv, Shape, MessageInv, ConsentInv
<1>2. CASE \E r \in Requests : Page(r)
  BY <1>2, PlanInv, SelectInv, BeginIngestionInv, AcceptInv DEF Page
<1> QED BY <1>1, <1>2, ReceiveInv, NetworkInv, OwnerInv DEF Next

\* The inductive invariant of the intake.
THEOREM Invariance == Safety => []IInv
<1>1. IInv /\ [Next]_vars => IInv'
  BY NextInv
<1> QED BY <1>1, InitInv, PTL DEF Safety

\* The route is told to the network once at most, and only after a trusted activation of
\* the consent control of a page that was online and had no archive (public-module-consent.mjs:26).
THEOREM NoFetchWithoutConsent == Safety => []ConsentComesFirst
<1>1. IInv => ConsentComesFirst
  <2> SUFFICES ASSUME IInv, NEW r \in Public, fetches[r] > 0
               PROVE  fetches[r] = 1 /\ clicked[r] /\ plan[r] = "consent"
    BY DEF ConsentComesFirst
  <2>1. fetches[r] = 1 /\ plan[r] = "consent" /\ pc[r] # "none"
    BY DEF IInv, ConsentInv
  <2>2. sent[r]
    BY <2>1 DEF IInv, MessageInv, Requests
  <2> QED BY <2>1, <2>2 DEF IInv, ConsentInv
<1> QED BY <1>1, Invariance, PTL

----------------------------------------------------------------------------
LEMMA AbortedStep ==
  ASSUME IInv, [Next]_vars, aborted
  PROVE  /\ fetches' = fetches
         /\ \A k \in Keys : entries'[k] \in {entries[k], None}
         /\ \A r \in Public : pc[r] \in {"fetch", "read", "cancelReader"} /\ pc'[r] = "done"
                                => result'[r] = "input-cancelled"
<1>1. CASE \E q \in Requests : Page(q)
  BY <1>1 DEF Page, Plan, Select, BeginIngestion, Accept, storeVars
<1>2. CASE Owner
  <2>1. \A k \in Keys : entries'[k] \in {entries[k], None}
    BY <1>2 DEF Owner, Abort, Purge, PurgeAnalysis, Close, Forget, storeVars
  <2> QED BY <1>2, <2>1 DEF Owner, Abort, Purge, PurgeAnalysis, Close, Forget, pageVars
<1>3. CASE UNCHANGED vars
  BY <1>3 DEF vars, storeVars
<1>4. CASE \E q \in Requests : Receive(q)
  <2>1. PICK q \in Requests : Receive(q)
    BY <1>4
  <2>2. fetches' = fetches /\ entries' = entries /\ Answer(q, "input-cancelled")
    BY <2>1 DEF Receive, storeVars
  <2>3. /\ result'[q] = "input-cancelled"
        /\ \A r \in Requests : r # q => pc'[r] = pc[r]
    BY <2>2 DEF Answer, IInv, Shape
  <2> QED BY <2>2, <2>3 DEF Requests
<1>5. CASE \E q \in Requests : Hydrated(q)
  <2>1. PICK q \in Requests : Hydrated(q)
    BY <1>5
  <2>2. fetches' = fetches /\ entries' = entries /\ pc[q] = "hydrate"
    BY <2>1 DEF Hydrated
  <2>3. \A r \in Requests : r # q => pc'[r] = pc[r]
    BY <2>1 DEF Hydrated, Answer, IInv, Shape
  <2> QED BY <2>2, <2>3 DEF Requests
<1>6. CASE \E q \in Requests : Network(q)
  <2>1. PICK q \in Requests : Network(q)
    BY <1>6
  <2>2. fetches' = fetches /\ entries' = entries
    BY <2>1 DEF Network, FetchRejects, FetchResponds, ReadFails, ChunkArrives, StreamEnds,
                ReaderCancelled, storeVars
  <2>3. pc'[q] = "done" => result'[q] = "input-cancelled"
    BY <2>1 DEF Network, FetchRejects, FetchResponds, ReadFails, ChunkArrives, StreamEnds,
                ReaderCancelled, Answer, Await, Catch, Unless, IInv, Shape
  <2>4. \A r \in Requests : r # q => pc'[r] = pc[r]
    BY <2>1 DEF Network, FetchRejects, FetchResponds, ReadFails, ChunkArrives, StreamEnds,
                ReaderCancelled, Answer, Await, Catch, IInv, Shape
  <2> QED BY <2>2, <2>3, <2>4 DEF Requests
<1> QED BY <1>1, <1>2, <1>3, <1>4, <1>5, <1>6 DEF Next

\* After the abort no request goes out and nothing is stored, and a retrieval ends as
\* cancelled (public-module-fetch.mjs, ingestion-worker.mjs).
THEOREM AbortIsFinal == Safety => AbortStopsTheWork
<1>1. IInv /\ [Next]_vars =>
        [aborted =>
           /\ fetches' = fetches
           /\ \A k \in Keys : entries'[k] \in {entries[k], None}
           /\ \A r \in Public : pc[r] \in {"fetch", "read", "cancelReader"} /\ pc'[r] = "done"
                                  => result'[r] = "input-cancelled"]_vars
  BY AbortedStep
<1> QED BY <1>1, Invariance, PTL DEF Safety, AbortStopsTheWork

----------------------------------------------------------------------------
\* A sum of sizes counts something: the units of every size, told apart.  The fold
\* that FiniteSetsExt sums with is recursive, so that it counts is proved once, in
\* FoldIsCount; all else about sums is about finite sets.
Sized(f, S) == IsFiniteSet(S) /\ \A x \in S : f[x] \in Nat
Units(f, S) == UNION {{x} \X (1 .. f[x]) : x \in S}
Count(f, S) == Cardinality(Units(f, S))

\* One thing has as many units as its size.
LEMMA UnitsOfOne ==
  ASSUME NEW x, NEW n \in Nat
  PROVE  IsFiniteSet({x} \X (1 .. n)) /\ Cardinality({x} \X (1 .. n)) = n
<1> DEFINE one == {x}
           I == 1 .. n
<1>1. IsFiniteSet(I) /\ Cardinality(I) = n
  <2>1. Cardinality(I) = IF 1 > n THEN 0 ELSE n - 1 + 1
    BY FS_Interval
  <2> QED BY <2>1, FS_Interval
<1>2. IsFiniteSet(one) /\ Cardinality(one) = 1
  BY FS_Singleton
<1> HIDE DEF one, I
<1>3. IsFiniteSet(one \X I) /\ Cardinality(one \X I) = Cardinality(one) * Cardinality(I)
  BY <1>1, <1>2, FS_Product
<1>4. 1 * n = n
  OBVIOUS
<1> QED BY <1>1, <1>2, <1>3, <1>4 DEF one, I

\* Finitely many things have finitely many units.
LEMMA UnitsFinite ==
  ASSUME NEW S, IsFiniteSet(S), NEW f, \A x \in S : f[x] \in Nat
  PROVE  IsFiniteSet(Units(f, S))
<1> DEFINE T == {{x} \X (1 .. f[x]) : x \in S}
           of == [x \in S |-> {x} \X (1 .. f[x])]
<1>1. of \in Surjection(S, T)
  BY DEF Surjection
<1>2. IsFiniteSet(T)
  <2> HIDE DEF T, of
  <2> QED BY <1>1, FS_Surjection
<1>3. ASSUME NEW x \in S PROVE IsFiniteSet({x} \X (1 .. f[x]))
  <2>1. f[x] \in Nat
    OBVIOUS
  <2> QED BY <2>1, UnitsOfOne
<1> QED BY <1>2, <1>3, FS_UNION DEF Units

\* What every step of the fold adds.
LEMMA CountStep ==
  ASSUME NEW S, IsFiniteSet(S), NEW f, \A x \in S : f[x] \in Nat, NEW x \in S
  PROVE  Count(f, S) = f[x] + Count(f, S \ {x}) /\ Count(f, S) \in Nat
<1> DEFINE A == Units(f, S \ {x})
           B == {x} \X (1 .. f[x])
<1>1. IsFiniteSet(A) /\ IsFiniteSet(S \ {x}) /\ IsFiniteSet(Units(f, S))
  BY FS_RemoveElement, UnitsFinite
<1>2. IsFiniteSet(B) /\ Cardinality(B) = f[x]
  BY f[x] \in Nat, UnitsOfOne
<1>3. Units(f, S) = A \cup B /\ A \cap B = {}
  BY DEF Units
<1>4. Cardinality(A) \in Nat /\ Cardinality(Units(f, S)) \in Nat
  BY <1>1, FS_CardinalityType
<1> HIDE DEF A, B
<1>5. Cardinality(A \cup B) = Cardinality(A) + Cardinality(B) - Cardinality(A \cap B)
  BY <1>1, <1>2, FS_Union
<1>6. Cardinality(A \cap B) = 0
  BY <1>3, FS_EmptySet
<1> QED BY <1>2, <1>3, <1>4, <1>5, <1>6 DEF Count, A

\* The equation of the fold has one solution, since two would differ on a smallest set.
Folded(f, S, h) ==
  [s \in SUBSET S |-> IF s = {} THEN 0
                      ELSE LET x == CHOOSE x \in s : TRUE IN f[x] + h[s \ {x}]]
Counts(f, S) == [s \in SUBSET S |-> Count(f, s)]

LEMMA FoldIsCount ==
  ASSUME NEW f, NEW S, Sized(f, S)
  PROVE  \A h : h = Folded(f, S, h) <=> h = Counts(f, S)
<1>1. Count(f, {}) = 0
  BY FS_EmptySet DEF Count, Units
<1>2. ASSUME NEW s \in SUBSET S, s # {}, NEW x, x = CHOOSE y \in s : TRUE
      PROVE  /\ x \in s /\ s \ {x} \in SUBSET S
             /\ Counts(f, S)[s] = f[x] + Counts(f, S)[s \ {x}]
  <2>1. x \in s /\ IsFiniteSet(s)
    BY <1>2, FS_Subset DEF Sized
  <2>2. Count(f, s) = f[x] + Count(f, s \ {x})
    BY <2>1, CountStep DEF Sized
  <2> QED BY <2>1, <2>2 DEF Counts
<1>3. Counts(f, S) = Folded(f, S, Counts(f, S))
  BY <1>1, <1>2 DEF Counts, Folded
<1>4. ASSUME NEW h, h = Folded(f, S, h), NEW s \in SUBSET S, h[s] # Counts(f, S)[s] PROVE FALSE
  <2> DEFINE Bad == {t \in SUBSET S : h[t] # Counts(f, S)[t]}
  <2>1. PICK t \in Bad : \A u \in Bad : <<u, t>> \notin StrictSubsetOrdering(S)
    <3>1. Bad \subseteq SUBSET S /\ s \in Bad
      BY <1>4
    <3>2. IsWellFoundedOn(StrictSubsetOrdering(S), SUBSET S)
      BY FS_StrictSubsetOrderingWellFounded, FS_FiniteSubsetsOfFinite DEF Sized
    <3> HIDE DEF Bad
    <3> QED BY <3>1, <3>2, WFMin
  <2>2. t # {}
    BY <2>1, <1>1, <1>4 DEF Counts, Folded
  <2> DEFINE x == CHOOSE y \in t : TRUE
  <2>3. x \in t /\ t \ {x} \in SUBSET S /\ Counts(f, S)[t] = f[x] + Counts(f, S)[t \ {x}]
    BY <2>2, <1>2
  <2>4. h[t] = f[x] + h[t \ {x}]
    BY <2>2, <1>4 DEF Folded
  <2>5. h[t \ {x}] = Counts(f, S)[t \ {x}]
    <3>1. <<t \ {x}, t>> \in StrictSubsetOrdering(S)
      BY <2>1, <2>3 DEF StrictSubsetOrdering
    <3> QED BY <2>1, <2>3, <3>1
  <2> QED BY <2>1, <2>3, <2>4, <2>5
<1>5. ASSUME NEW h, h = Folded(f, S, h) PROVE h = Counts(f, S)
  BY <1>4, <1>5 DEF Folded, Counts
<1> QED BY <1>3, <1>5

LEMMA CountType == ASSUME NEW f, NEW S, Sized(f, S) PROVE Count(f, S) \in Nat
BY UnitsFinite, FS_CardinalityType DEF Sized, Count

LEMMA CountOfNone == ASSUME NEW f PROVE Count(f, {}) = 0
BY FS_EmptySet DEF Count, Units

LEMMA CountOfSame ==
  ASSUME NEW f, NEW g, NEW S, \A x \in S : f[x] = g[x]
  PROVE  Count(f, S) = Count(g, S)
<1>1. Units(f, S) = Units(g, S)
  BY DEF Units
<1> QED BY <1>1 DEF Count

\* A set and what is left of it have the units of the whole.
LEMMA CountSplit ==
  ASSUME NEW f, NEW S, Sized(f, S), NEW T \in SUBSET S
  PROVE  Count(f, S) = Count(f, T) + Count(f, S \ T) /\ Count(f, T) \in Nat /\ Count(f, S \ T) \in Nat
<1> DEFINE A == Units(f, T)
           B == Units(f, S \ T)
<1>1. IsFiniteSet(T) /\ IsFiniteSet(S \ T)
  BY FS_Subset, S \ T \subseteq S DEF Sized
<1>2. IsFiniteSet(A) /\ IsFiniteSet(B)
  BY <1>1, UnitsFinite DEF Sized
<1>3. Units(f, S) = A \cup B /\ A \cap B = {}
  BY DEF Units
<1> HIDE DEF A, B
<1>4. Cardinality(A \cup B) = Cardinality(A) + Cardinality(B) - Cardinality(A \cap B)
  BY <1>2, FS_Union
<1>5. Cardinality(A \cap B) = 0
  BY <1>3, FS_EmptySet
<1>6. Cardinality(A) \in Nat /\ Cardinality(B) \in Nat
  BY <1>2, FS_CardinalityType
<1> QED BY <1>3, <1>4, <1>5, <1>6 DEF Count, A, B

----------------------------------------------------------------------------
\* The bytes of a store.

File == [by : Requests, size : Nat]
Store == [Keys -> File \cup {None}]
SizeOf(e) == [k \in Keys |-> IF e[k] = None THEN 0 ELSE e[k].size]

LEMMA KeysFinite == IsFiniteSet(Keys)
<1> DEFINE of == [r \in Requests |-> Key(r)]
<1>1. of \in Surjection(Requests, Keys)
  BY DEF Keys, Surjection
<1>2. IsFiniteSet(Requests)
  BY IngestionAssumption
<1> HIDE DEF of
<1> QED BY <1>1, <1>2, FS_Surjection

LEMMA SizeOfType ==
  ASSUME NEW e \in Store
  PROVE  Sized(SizeOf(e), Keys) /\ \A k \in Keys : SizeOf(e)[k] \in Nat
<1>1. \A k \in Keys : SizeOf(e)[k] \in Nat
  BY DEF SizeOf, Store, File
<1> QED BY <1>1, KeysFinite DEF Sized

\* The sum that the store subtracts when it forgets keys.
SizeSum(keys) == MapThenSumSet(LAMBDA k : entries[k].size, {k \in keys : entries[k] # None})

LEMMA SizeSumIs ==
  ASSUME entries \in Store, NEW keys \in SUBSET Keys
  PROVE  SizeSum(keys) = Count(SizeOf(entries), keys)
<1> DEFINE full == {k \in keys : entries[k] # None}
           size == [k \in full |-> entries[k].size]
           Step(h) == [s \in SUBSET full |-> IF s = {} THEN 0
                         ELSE LET k == CHOOSE k \in s : TRUE IN entries[k].size + h[s \ {k}]]
           fold == CHOOSE h : h = Step(h)
<1>1. Sized(size, full)
  <2>1. full \in SUBSET Keys
    OBVIOUS
  <2>2. IsFiniteSet(full)
    BY <2>1, KeysFinite, FS_Subset
  <2>3. \A k \in full : size[k] \in Nat
    BY DEF Store, File
  <2> QED BY <2>2, <2>3 DEF Sized
<1>2. \A h : Folded(size, full, h) = Step(h)
  BY DEF Folded
<1>3. SizeSum(keys) = fold[full]
  BY Zenon DEF SizeSum, MapThenSumSet, MapThenFoldSet
<1>4. Units(size, full) = Units(SizeOf(entries), keys)
  <2>1. \A k \in full : 1 .. size[k] = 1 .. SizeOf(entries)[k]
    BY DEF SizeOf
  <2>2. \A k \in keys \ full : 1 .. SizeOf(entries)[k] = {}
    BY DEF SizeOf
  <2> HIDE DEF size
  <2>3. ASSUME NEW u \in Units(size, full) PROVE u \in Units(SizeOf(entries), keys)
    BY <2>1, <2>3 DEF Units
  <2>4. ASSUME NEW u \in Units(SizeOf(entries), keys) PROVE u \in Units(size, full)
    <3>1. PICK k \in keys : u \in {k} \X (1 .. SizeOf(entries)[k])
      BY <2>4 DEF Units
    <3>2. k \in full
      BY <2>2, <3>1
    <3> QED BY <2>1, <3>1, <3>2 DEF Units
  <2> QED BY <2>3, <2>4
<1> HIDE DEF size, Step, full
<1>5. \A h : h = Step(h) <=> h = Counts(size, full)
  BY <1>1, <1>2, FoldIsCount
<1>6. fold = Counts(size, full)
  BY <1>5
<1>7. SizeSum(keys) = Count(size, full)
  BY <1>3, <1>6 DEF Counts
<1> QED BY <1>4, <1>7 DEF Count

\* A file put under a key takes the place of what was there.
LEMMA PutCounts ==
  ASSUME NEW e \in Store, NEW k \in Keys, NEW file \in File
  PROVE  LET new == [e EXCEPT ![k] = file]
         IN  /\ new \in Store
             /\ Count(SizeOf(new), Keys) = Count(SizeOf(e), Keys) - SizeOf(e)[k] + file.size
             /\ file.size <= Count(SizeOf(new), Keys) /\ Count(SizeOf(new), Keys) \in Nat
<1> DEFINE new == [e EXCEPT ![k] = file]
           rest == Keys \ {k}
<1>1. new \in Store
  BY DEF Store
<1>2. SizeOf(new)[k] = file.size /\ \A i \in rest : SizeOf(new)[i] = SizeOf(e)[i]
  BY NoneAssumption DEF SizeOf, Store, File
<1> HIDE DEF new
<1>3. /\ Count(SizeOf(new), Keys) = SizeOf(new)[k] + Count(SizeOf(new), rest)
      /\ Count(SizeOf(e), Keys) = SizeOf(e)[k] + Count(SizeOf(e), rest)
      /\ Count(SizeOf(new), Keys) \in Nat
  BY <1>1, SizeOfType, CountStep DEF Sized
<1>4. Count(SizeOf(new), rest) = Count(SizeOf(e), rest)
  BY <1>2, CountOfSame
<1>5. Count(SizeOf(e), rest) \in Nat
  <2>1. Sized(SizeOf(e), rest)
    BY SizeOfType, FS_RemoveElement DEF Sized
  <2> QED BY <2>1, CountType
<1>6. SizeOf(e)[k] \in Nat /\ file.size \in Nat
  BY SizeOfType DEF File
<1>7. /\ Count(SizeOf(new), Keys) = Count(SizeOf(e), Keys) - SizeOf(e)[k] + file.size
      /\ file.size <= Count(SizeOf(new), Keys)
  BY <1>2, <1>3, <1>4, <1>5, <1>6
<1> QED BY <1>1, <1>3, <1>7 DEF new

\* Keys that are forgotten no longer count.
LEMMA ForgetCounts ==
  ASSUME NEW e \in Store, NEW keys \in SUBSET Keys
  PROVE  LET new == [k \in Keys |-> IF k \in keys THEN None ELSE e[k]]
         IN  /\ new \in Store
             /\ Count(SizeOf(new), Keys) = Count(SizeOf(e), Keys) - Count(SizeOf(e), keys)
             /\ Count(SizeOf(new), Keys) \in 0 .. Count(SizeOf(e), Keys)
<1> DEFINE new == [k \in Keys |-> IF k \in keys THEN None ELSE e[k]]
<1>1. new \in Store
  BY DEF Store
<1>2. /\ \A k \in keys : SizeOf(new)[k] = 0
      /\ \A k \in Keys \ keys : SizeOf(new)[k] = SizeOf(e)[k]
  BY DEF SizeOf
<1> HIDE DEF new
<1>3. Units(SizeOf(new), Keys) = Units(SizeOf(e), Keys \ keys)
  <2>1. ASSUME NEW u \in Units(SizeOf(new), Keys) PROVE u \in Units(SizeOf(e), Keys \ keys)
    <3>1. PICK k \in Keys : u \in {k} \X (1 .. SizeOf(new)[k])
      BY <2>1 DEF Units
    <3>2. k \notin keys
      <4>1. 1 .. 0 = {}
        OBVIOUS
      <4> QED BY <1>2, <3>1, <4>1
    <3> QED BY <1>2, <3>1, <3>2 DEF Units
  <2>2. ASSUME NEW u \in Units(SizeOf(e), Keys \ keys) PROVE u \in Units(SizeOf(new), Keys)
    BY <1>2, <2>2 DEF Units
  <2> QED BY <2>1, <2>2
<1>4. Count(SizeOf(new), Keys) = Count(SizeOf(e), Keys \ keys)
  BY <1>3 DEF Count
<1>5. /\ Count(SizeOf(e), Keys) = Count(SizeOf(e), keys) + Count(SizeOf(e), Keys \ keys)
      /\ Count(SizeOf(e), keys) \in Nat /\ Count(SizeOf(e), Keys \ keys) \in Nat
  BY SizeOfType, CountSplit
<1> QED BY <1>1, <1>4, <1>5 DEF new

----------------------------------------------------------------------------
\* The store: a second layer on the invariant.

\* What the handler of a request has made of it so far.
Handled(r) ==
  /\ r \notin Public => /\ input[r] \in LocalArchive \cup {None}
                        /\ sent[r] => input[r] \in LocalArchive
  /\ pc[r] \in {"fetch", "read", "cancelReader"} => r \in Public
  /\ pc[r] = "cancelReader" => cause[r] \in Codes
  /\ pc[r] = "hydrate" => archive[r] \in [content : Contents, size : Nat]
  /\ r \in Public /\ pc[r] \in {"none", "fetch", "read", "hydrate"} =>
       received[r] <= MaximumBytes
  /\ r \in Public /\ pc[r] = "hydrate" => archive[r].size = received[r]
  /\ result[r] # None => pc[r] = "done"

HandlersInv == \A r \in Requests : Handled(r)

\* What is stored is the archive of who was last answered so, and was validated.
StoredBy(k, r) ==
  /\ result[r] = "validated" /\ entries[k] = [by |-> r, size |-> archive[r].size]
  /\ Valid(r)
  /\ r \in Public => archive[r].size = received[r] /\ received[r] <= MaximumBytes

EntryInv ==
  \A k \in Keys : IF latest[k] = None THEN entries[k] = None ELSE StoredBy(k, latest[k])

StoreInv ==
  /\ TypeOK
  /\ HandlersInv
  /\ EntryInv
  /\ usedBytes = Count(SizeOf(entries), Keys)

LEMMA StoreTyped ==
  ASSUME TypeOK
  PROVE  /\ entries \in Store
         /\ \A k \in Keys : entries[k] # None => entries[k].by \in Requests
                                                 /\ entries[k].size \in Nat
BY IngestionAssumption DEF TypeOK, Store, File

LEMMA InitStore == Init => StoreInv
<1> SUFFICES ASSUME Init PROVE StoreInv
  OBVIOUS
<1>1. TypeOK
  <2>1. inbox \in Seq(Requests)
    BY DEF Init
  <2>2. 0 \in 0 .. QuotaBytes
    BY IngestionAssumption
  <2> QED BY <2>1, <2>2 DEF Init, TypeOK
<1>2. HandlersInv
  BY IngestionAssumption DEF Init, HandlersInv, Handled
<1>3. EntryInv
  BY NoneAssumption DEF Init, EntryInv, Types
<1>4. Count(SizeOf(entries), Keys) = 0
  <2>1. \A k \in Keys : 1 .. SizeOf(entries)[k] = {}
    BY DEF Init, SizeOf
  <2>2. Units(SizeOf(entries), Keys) = {}
    BY <2>1 DEF Units
  <2> QED BY <2>2, FS_EmptySet DEF Count
<1> QED BY <1>1, <1>2, <1>3, <1>4 DEF Init, StoreInv

\* A request that a step does not touch is as far as it was.
LEMMA Untouched ==
  ASSUME NEW q \in Requests, Handled(q), input'[q] = input[q], sent'[q] = sent[q],
         pc'[q] = pc[q], archive'[q] = archive[q], result'[q] = result[q],
         q \in Public => cause'[q] = cause[q] /\ received'[q] = received[q]
  PROVE  Handled(q)'
BY DEF Handled

\* A step that neither stores nor validates keeps what is said of the store.
LEMMA StoreKept ==
  ASSUME StoreInv, UNCHANGED <<entries, latest>>,
         \A q \in Requests : result'[q] = "validated" <=> result[q] = "validated",
         \A q \in Requests : result[q] = "validated" =>
           archive'[q] = archive[q] /\ (q \in Public => received'[q] = received[q])
  PROVE  EntryInv'
<1> SUFFICES ASSUME NEW k \in Keys
             PROVE  (IF latest[k] = None THEN entries[k] = None ELSE StoredBy(k, latest[k]))'
  BY DEF EntryInv
<1>1. IF latest[k] = None THEN entries[k] = None
      ELSE latest[k] \in Requests /\ StoredBy(k, latest[k])
  BY DEF StoreInv, EntryInv, TypeOK
<1>2. CASE latest[k] = None
  BY <1>1, <1>2
<1>3. CASE latest[k] # None
  <2>1. StoredBy(k, latest[k])'
    BY <1>1, <1>3 DEF StoredBy, Valid
  <2> QED BY <1>3, <2>1
<1> QED BY <1>2, <1>3

LEMMA CountKept ==
  ASSUME entries' = entries
  PROVE  Count(SizeOf(entries), Keys)' = Count(SizeOf(entries), Keys)
<1>1. SizeOf(entries)' = SizeOf(entries)
  BY DEF SizeOf
<1> QED BY <1>1 DEF Count, Units

\* One step of the handler of r that stores nothing.
LEMMA HandlerStep ==
  ASSUME StoreInv, NEW r \in Requests, pc[r] # "done",
         UNCHANGED <<pageVars, storeVars, latest, aborted>>, TypeOK',
         \A q \in Requests : q # r =>
           /\ pc'[q] = pc[q] /\ archive'[q] = archive[q] /\ result'[q] = result[q]
           /\ q \in Public => cause'[q] = cause[q] /\ received'[q] = received[q],
         Handled(r)', result'[r] # "validated"
  PROVE  StoreInv'
<1>1. result[r] # "validated"
  BY NoneAssumption DEF StoreInv, HandlersInv, Handled, Types
<1>2. HandlersInv'
  BY Untouched DEF StoreInv, HandlersInv, pageVars
<1>3. EntryInv'
  BY <1>1, StoreKept DEF storeVars
<1>4. usedBytes' = Count(SizeOf(entries), Keys)'
  BY CountKept DEF StoreInv, storeVars
<1> QED BY <1>2, <1>3, <1>4 DEF StoreInv

\* The page.
LEMMA PageStore ==
  ASSUME IInv, StoreInv, NEW r \in Requests, Page(r)
  PROVE  StoreInv'
<1>1. UNCHANGED <<pc, cause, received, archive, result, fetches, aborted, storeVars, latest>>
  BY DEF Page, Plan, Select, BeginIngestion, Accept
<1>2. /\ plan' \in [Public -> {None, "cached", "unavailable", "consent"}]
      /\ input' \in [Requests -> LocalArchive \cup {Coordinate, None}]
      /\ sent' \in [Requests -> BOOLEAN] /\ clicked' \in [Public -> BOOLEAN]
      /\ inbox' \in Seq(Requests)
  <2>1. IInv'
    BY PlanInv, SelectInv, BeginIngestionInv, AcceptInv DEF Page
  <2>2. input' \in [Requests -> LocalArchive \cup {Coordinate, None}]
    <3>1. \/ input' = input
          \/ \E value \in LocalArchive \cup {Coordinate} : input' = [input EXCEPT ![r] = value]
      BY DEF Page, Plan, Select, BeginIngestion, Accept
    <3>2. input \in [Requests -> LocalArchive \cup {Coordinate, None}]
      BY DEF StoreInv, TypeOK
    <3> QED BY <3>1, <3>2
  <2> QED BY <2>1, <2>2 DEF IInv, Shape
<1>3. TypeOK'
  BY <1>1, <1>2 DEF StoreInv, TypeOK, storeVars
<1>4. HandlersInv'
  <2> SUFFICES ASSUME NEW q \in Requests PROVE Handled(q)'
    BY DEF HandlersInv
  <2>1. Handled(q)
    BY DEF StoreInv, HandlersInv
  <2>2. q \notin Public => /\ input'[q] \in LocalArchive \cup {None}
                           /\ sent'[q] => input'[q] \in LocalArchive
    <3>1. CASE \E cached, offline \in BOOLEAN : r \in Public /\ Plan(r, cached, offline)
      BY <2>1, <3>1 DEF Plan, Handled
    <3>2. CASE \E value \in LocalArchive \cup {Coordinate} : Select(r, value)
      <4>1. PICK value \in LocalArchive \cup {Coordinate} : Select(r, value)
        BY <3>2
      <4>2. /\ sent' = sent /\ input'[r] = value
            /\ q # r => input'[q] = input[q]
            /\ r \notin Public => value \in LocalArchive
        BY <4>1 DEF Select, StoreInv, TypeOK
      <4> QED BY <2>1, <4>2 DEF Handled
    <3>3. CASE BeginIngestion(r)
      <4>1. /\ input' = input /\ input[r] # None
            /\ q # r => sent'[q] = sent[q]
        BY <3>3 DEF BeginIngestion, Post, StoreInv, TypeOK
      <4> QED BY <2>1, <4>1 DEF Handled
    <3>4. CASE r \in Public /\ \E isTrusted \in BOOLEAN : Accept(r, isTrusted)
      <4>1. input' = input /\ (q # r => sent'[q] = sent[q])
        BY <3>4 DEF Accept, Post, StoreInv, TypeOK
      <4> QED BY <2>1, <3>4, <4>1 DEF Handled
    <3> QED BY <3>1, <3>2, <3>3, <3>4 DEF Page
  <2> QED BY <1>1, <2>1, <2>2 DEF Handled
<1>5. EntryInv'
  BY <1>1, StoreKept DEF storeVars
<1>6. usedBytes' = Count(SizeOf(entries), Keys)'
  BY <1>1, CountKept DEF StoreInv, storeVars
<1> QED BY <1>3, <1>4, <1>5, <1>6 DEF StoreInv

\* The places and answers of a step of the handler of r.
LEMMA AnswerIs ==
  ASSUME TypeOK, NEW r \in Requests, NEW outcome \in Types \cup Codes, Answer(r, outcome)
  PROVE  /\ pc' \in [Requests -> Place] /\ pc'[r] = "done"
         /\ result' \in [Requests -> Types \cup Codes \cup {None}] /\ result'[r] = outcome
         /\ \A q \in Requests : q # r => pc'[q] = pc[q] /\ result'[q] = result[q]
BY DEF Answer, TypeOK, Place

LEMMA AwaitIs ==
  ASSUME TypeOK, NEW r \in Requests, NEW place \in Place, Await(r, place)
  PROVE  /\ pc' \in [Requests -> Place] /\ pc'[r] = place /\ result' = result
         /\ \A q \in Requests : q # r => pc'[q] = pc[q]
BY DEF Await, TypeOK, Place

LEMMA CatchIs ==
  ASSUME TypeOK, NEW r \in Public, NEW code \in Codes, Catch(r, code)
  PROVE  /\ pc' \in [Requests -> Place] /\ pc'[r] = "cancelReader" /\ result' = result
         /\ cause' \in [Public -> Codes \cup {None}] /\ cause'[r] = code
         /\ \A q \in Requests : q # r => pc'[q] = pc[q]
         /\ \A q \in Public : q # r => cause'[q] = cause[q]
<1>1. Await(r, "cancelReader") /\ r \in Requests /\ "cancelReader" \in Place
  BY DEF Catch, Requests, Place
<1>2. /\ cause' \in [Public -> Codes \cup {None}] /\ cause'[r] = code
      /\ \A q \in Public : q # r => cause'[q] = cause[q]
  BY DEF Catch, TypeOK
<1> QED BY <1>1, <1>2, AwaitIs

\* A step that only answers, with a code.
LEMMA CodeAnswered ==
  ASSUME StoreInv, NEW r \in Requests, pc[r] # "done", NEW code \in Codes \cup {"module-view-planned"},
         Answer(r, code), inbox' \in Seq(Requests),
         UNCHANGED <<pageVars, storeVars, latest, aborted, cause, received, archive, fetches>>
  PROVE  StoreInv'
<1>1. /\ pc' \in [Requests -> Place] /\ pc'[r] = "done"
      /\ result' \in [Requests -> Types \cup Codes \cup {None}] /\ result'[r] = code
      /\ \A q \in Requests : q # r => pc'[q] = pc[q] /\ result'[q] = result[q]
  <2>1. code \in Types \cup Codes
    BY DEF Types
  <2> QED BY <2>1, AnswerIs DEF StoreInv
<1>2. TypeOK'
  BY <1>1 DEF StoreInv, TypeOK, Place, pageVars, storeVars
<1>3. Handled(r) /\ code # "validated"
  BY DEF StoreInv, HandlersInv, Codes
<1>4. Handled(r)'
  BY <1>1, <1>3 DEF Handled, pageVars
<1> QED BY <1>1, <1>2, <1>3, <1>4, HandlerStep

\* A step that only goes on waiting.
LEMMA Awaited ==
  ASSUME StoreInv, NEW r \in Requests, pc[r] # "done", NEW place \in Place \ {"done"}, Await(r, place),
         UNCHANGED <<pageVars, storeVars, latest, aborted>>, inbox' \in Seq(Requests),
         cause' \in [Public -> Codes \cup {None}], received' \in [Public -> Nat],
         fetches' \in [Public -> Nat],
         archive' \in [Requests -> [content : Contents, size : Nat] \cup {None}],
         \A q \in Requests : q # r =>
           /\ archive'[q] = archive[q]
           /\ q \in Public => cause'[q] = cause[q] /\ received'[q] = received[q],
         place \in {"fetch", "read", "cancelReader"} => r \in Public,
         place = "cancelReader" => cause'[r] \in Codes,
         place = "hydrate" => archive'[r] \in [content : Contents, size : Nat],
         r \in Public /\ place \in {"none", "fetch", "read", "hydrate"} =>
           received'[r] <= MaximumBytes,
         r \in Public /\ place = "hydrate" => archive'[r].size = received'[r]
  PROVE  StoreInv'
<1>1. /\ pc' \in [Requests -> Place] /\ pc'[r] = place /\ result' = result
      /\ \A q \in Requests : q # r => pc'[q] = pc[q]
  BY AwaitIs DEF StoreInv
<1>2. TypeOK'
  BY <1>1 DEF StoreInv, TypeOK, Place, pageVars, storeVars
<1>3. Handled(r) /\ result[r] = None
  BY DEF StoreInv, HandlersInv, Handled
<1>4. Handled(r)'
  BY <1>1, <1>3 DEF Handled, pageVars
<1>5. result'[r] # "validated"
  BY <1>1, <1>3, NoneAssumption DEF Types
<1> QED BY <1>1, <1>2, <1>4, <1>5, HandlerStep

LEMMA ReceiveStore ==
  ASSUME IInv, StoreInv, NEW r \in Requests, Receive(r)
  PROVE  StoreInv'
<1>1. /\ inbox \in Seq(Requests) /\ inbox # <<>> /\ r = Head(inbox) /\ inbox' = Tail(inbox)
      /\ UNCHANGED <<pageVars, cause, received, aborted, storeVars, latest>>
  BY DEF Receive, IInv, Shape
<1>2. inbox' \in Seq(Requests) /\ sent[r] /\ pc[r] = "none"
  <2>1. 1 \in DOMAIN inbox /\ r = inbox[1] /\ inbox' \in Seq(Requests)
    BY <1>1, HeadTailProperties, EmptySeq, LenProperties
  <2> QED BY <2>1 DEF IInv, MessageInv
<1>3. Handled(r) /\ TypeOK
  BY DEF StoreInv, HandlersInv
<1>4. CASE aborted
  BY <1>1, <1>2, <1>4, CodeAnswered DEF Receive, Codes
<1>5. CASE ~aborted /\ r \in Public /\ fetches' = [fetches EXCEPT ![r] = @ + 1]
           /\ Await(r, "fetch") /\ UNCHANGED archive
  <2>1. fetches' \in [Public -> Nat]
    BY <1>3, <1>5 DEF TypeOK
  <2>2. received[r] <= MaximumBytes
    BY <1>2, <1>3, <1>5 DEF Handled
  <2>3. /\ cause' \in [Public -> Codes \cup {None}] /\ received' \in [Public -> Nat]
        /\ archive' \in [Requests -> [content : Contents, size : Nat] \cup {None}]
    BY <1>1, <1>3, <1>5 DEF TypeOK
  <2> QED BY <1>1, <1>2, <1>5, <2>1, <2>2, <2>3, Awaited DEF Place
<1>6. CASE ~aborted /\ Answer(r, "module-view-planned") /\ UNCHANGED <<fetches, archive>>
  BY <1>1, <1>2, <1>6, CodeAnswered
<1>7. CASE ~aborted /\ r \notin Public /\ archive' = [archive EXCEPT ![r] = input[r]]
           /\ Await(r, "hydrate") /\ UNCHANGED fetches
  <2>1. input[r] \in [content : Contents, size : Nat]
    <3>1. input[r] \in LocalArchive
      BY <1>2, <1>3, <1>7 DEF Handled
    <3> QED BY <3>1, IngestionAssumption DEF LocalArchive
  <2>2. /\ archive' \in [Requests -> [content : Contents, size : Nat] \cup {None}]
        /\ archive'[r] = input[r]
        /\ \A q \in Requests : q # r => archive'[q] = archive[q]
    BY <1>3, <1>7, <2>1 DEF TypeOK
  <2>3. /\ cause' \in [Public -> Codes \cup {None}] /\ received' \in [Public -> Nat]
        /\ fetches' \in [Public -> Nat]
    BY <1>1, <1>3, <1>7 DEF TypeOK
  <2> QED BY <1>1, <1>2, <1>7, <2>1, <2>2, <2>3, Awaited DEF Place
<1> QED BY <1>4, <1>5, <1>6, <1>7 DEF Receive, Handle

LEMMA NetworkStore ==
  ASSUME IInv, StoreInv, NEW r \in Requests, Network(r)
  PROVE  StoreInv'
<1>1. /\ UNCHANGED <<pageVars, inbox, fetches, aborted, storeVars, latest>>
      /\ inbox' \in Seq(Requests) /\ fetches' \in [Public -> Nat]
      /\ pc[r] \in {"fetch", "read", "cancelReader"}
  BY DEF Network, FetchRejects, FetchResponds, ReadFails, ChunkArrives, StreamEnds,
         ReaderCancelled, StoreInv, TypeOK
<1>2. Handled(r) /\ TypeOK /\ pc[r] # "done" /\ r \in Public
  BY <1>1 DEF StoreInv, HandlersInv, Handled
<1>3. /\ \A code \in {"module-fetch-failed", "module-fetch-response-invalid"} :
           code \in Codes /\ Unless(code) \in Codes
      /\ "module-fetch-limit" \in Codes /\ "input-cancelled" \in Codes
      /\ \A code \in Codes : Unless(code) \in Codes
  BY DEF Codes, Unless
<1>4. /\ cause \in [Public -> Codes \cup {None}] /\ received \in [Public -> Nat]
      /\ archive \in [Requests -> [content : Contents, size : Nat] \cup {None}]
  BY <1>2 DEF TypeOK
<1>5. ASSUME NEW code \in Codes, Catch(r, code), archive' = archive,
             received' \in [Public -> Nat],
             \A q \in Public : q # r => received'[q] = received[q]
      PROVE  StoreInv'
  <2>1. /\ cause' \in [Public -> Codes \cup {None}] /\ cause'[r] = code
        /\ \A q \in Public : q # r => cause'[q] = cause[q]
    BY <1>2, <1>5, CatchIs
  <2>2. Await(r, "cancelReader") /\ "cancelReader" \in Place
    BY <1>5 DEF Catch, Place
  <2> QED BY <1>1, <1>2, <1>4, <1>5, <2>1, <2>2, Awaited
<1>6. CASE FetchRejects(r)
  BY <1>1, <1>2, <1>3, <1>6, CodeAnswered DEF FetchRejects
<1>7. CASE \E accepted \in BOOLEAN, declared \in {None, MaximumBytes, MaximumBytes + 1} :
             FetchResponds(r, accepted, declared)
  <2>1. UNCHANGED <<cause, received, archive>>
    BY <1>7 DEF FetchResponds
  <2>2. CASE Answer(r, Unless("module-fetch-response-invalid"))
    BY <1>1, <1>2, <1>3, <2>1, <2>2, CodeAnswered
  <2>3. CASE Answer(r, "module-fetch-limit")
    BY <1>1, <1>2, <1>3, <2>1, <2>3, CodeAnswered
  <2>4. CASE pc[r] = "fetch" /\ Await(r, "read")
    BY <1>1, <1>2, <1>4, <2>1, <2>4, Awaited DEF Handled, Place
  <2> QED BY <1>7, <2>2, <2>3, <2>4 DEF FetchResponds
<1>8. CASE \E code \in {"module-fetch-failed", "module-fetch-response-invalid"} : ReadFails(r, code)
  BY <1>3, <1>4, <1>5, <1>8 DEF ReadFails
<1>9. CASE \E bytes \in ChunkSizes : ChunkArrives(r, bytes)
  <2>1. PICK bytes \in ChunkSizes : ChunkArrives(r, bytes)
    BY <1>9
  <2>2. /\ received' \in [Public -> Nat] /\ archive' = archive /\ pc[r] = "read"
        /\ \A q \in Public : q # r => received'[q] = received[q]
    BY <1>2, <1>4, <2>1, IngestionAssumption DEF ChunkArrives
  <2>3. CASE Catch(r, "module-fetch-limit") \/ Catch(r, "input-cancelled")
    BY <1>3, <1>5, <2>2, <2>3
  <2>4. CASE received'[r] <= MaximumBytes /\ UNCHANGED <<pc, result, cause>>
    <3>1. Await(r, "read")
      BY <1>2, <2>2, <2>4 DEF Await, TypeOK
    <3> QED BY <1>1, <1>2, <1>4, <2>2, <2>4, <3>1, Awaited DEF Place
  <2>5. \/ Catch(r, "module-fetch-limit") \/ Catch(r, "input-cancelled")
        \/ received'[r] <= MaximumBytes /\ UNCHANGED <<pc, result, cause>>
    <3>1. received'[r] \in Nat
      BY <1>2, <2>2
    <3> QED BY <2>1, <3>1, IngestionAssumption DEF ChunkArrives
  <2> QED BY <2>3, <2>4, <2>5
<1>10. CASE \E content \in Contents : StreamEnds(r, content)
  <2>1. PICK content \in Contents : StreamEnds(r, content)
    BY <1>10
  <2>2. received' = received /\ pc[r] = "read"
    BY <2>1 DEF StreamEnds
  <2>3. CASE Catch(r, "input-cancelled") /\ UNCHANGED archive
    BY <1>3, <1>4, <1>5, <2>2, <2>3
  <2>4. CASE /\ archive' = [archive EXCEPT ![r] = [content |-> content, size |-> received[r]]]
             /\ Await(r, "hydrate") /\ UNCHANGED cause
    <3>1. /\ [content |-> content, size |-> received[r]] \in [content : Contents, size : Nat]
          /\ archive'[r] = [content |-> content, size |-> received[r]]
          /\ archive' \in [Requests -> [content : Contents, size : Nat] \cup {None}]
          /\ \A q \in Requests : q # r => archive'[q] = archive[q]
      BY <1>2, <1>4, <2>4
    <3>2. received[r] <= MaximumBytes
      BY <1>2, <2>2 DEF Handled
    <3> QED BY <1>1, <1>2, <1>4, <2>2, <2>4, <3>1, <3>2, Awaited DEF Place
  <2> QED BY <2>1, <2>3, <2>4 DEF StreamEnds
<1>11. CASE ReaderCancelled(r)
  <2>1. Unless(cause[r]) \in Codes
    BY <1>2, <1>3, <1>11 DEF ReaderCancelled, Handled
  <2> QED BY <1>1, <1>2, <1>11, <2>1, CodeAnswered DEF ReaderCancelled
<1> QED BY <1>6, <1>7, <1>8, <1>9, <1>10, <1>11 DEF Network

\* A put that the quota allows.
LEMMA PutStore ==
  ASSUME IInv, StoreInv, NEW r \in Requests, pc[r] = "hydrate", Valid(r), Answer(r, "validated"),
         NextUsedBytes(r) <= QuotaBytes, usedBytes' = NextUsedBytes(r),
         entries' = [entries EXCEPT ![Key(r)] = [by |-> r, size |-> archive[r].size]],
         latest' = [latest EXCEPT ![Key(r)] = r],
         UNCHANGED <<pageVars, inbox, cause, received, archive, fetches, aborted, closed>>
  PROVE  StoreInv'
<1> DEFINE k == Key(r)
           file == [by |-> r, size |-> archive[r].size]
<1>1. Handled(r) /\ TypeOK /\ entries \in Store /\ k \in Keys /\ archive[r].size \in Nat
  BY StoreTyped DEF StoreInv, HandlersInv, Handled, Keys
<1>2. file \in File /\ file # None /\ file.size = archive[r].size /\ file.by = r
  BY <1>1, NoneAssumption DEF File
<1> HIDE DEF file, k
<1>3. entries' = [entries EXCEPT ![k] = file]
  BY DEF k, file
<1>4. /\ Count(SizeOf([entries EXCEPT ![k] = file]), Keys) =
           Count(SizeOf(entries), Keys) - SizeOf(entries)[k] + file.size
      /\ file.size <= Count(SizeOf([entries EXCEPT ![k] = file]), Keys)
      /\ Count(SizeOf([entries EXCEPT ![k] = file]), Keys) \in Nat
  BY <1>1, <1>2, PutCounts
<1>5. usedBytes' = Count(SizeOf([entries EXCEPT ![k] = file]), Keys)
  <2>1. SizeOf(entries)[k] = IF entries[k] = None THEN 0 ELSE entries[k].size
    BY <1>1 DEF SizeOf
  <2> QED BY <1>2, <1>4, <2>1 DEF NextUsedBytes, StoreInv, k
<1>6. usedBytes' = Count(SizeOf(entries), Keys)'
  <2>1. SizeOf(entries)' = SizeOf([entries EXCEPT ![k] = file])
    BY <1>3 DEF SizeOf
  <2> QED BY <1>5, <2>1 DEF Count, Units
<1>7. /\ pc' \in [Requests -> Place] /\ pc'[r] = "done"
      /\ result' \in [Requests -> Types \cup Codes \cup {None}] /\ result'[r] = "validated"
      /\ \A q \in Requests : q # r => pc'[q] = pc[q] /\ result'[q] = result[q]
  BY <1>1, AnswerIs DEF Types
<1>8. TypeOK'
  <2>1. usedBytes' \in 0 .. QuotaBytes /\ file.size \in 0 .. QuotaBytes
    BY <1>1, <1>2, <1>4, <1>5, IngestionAssumption
  <2>2. file \in [by : Requests, size : 0 .. QuotaBytes]
    BY <1>2, <2>1 DEF File
  <2>3. entries' \in [Keys -> [by : Requests, size : 0 .. QuotaBytes] \cup {None}]
    BY <1>1, <1>3, <2>2 DEF TypeOK
  <2> QED BY <1>1, <1>7, <2>1, <2>3 DEF TypeOK, Place, pageVars
<1>9. HandlersInv'
  <2>1. Handled(r)'
    BY <1>1, <1>7 DEF Handled, pageVars
  <2>2. \A q \in Requests : q # r => Handled(q)'
    BY <1>7, Untouched DEF StoreInv, HandlersInv, pageVars
  <2> QED BY <2>1, <2>2 DEF HandlersInv
<1>10. EntryInv'
  <2>1. /\ entries'[k] = file /\ latest'[k] = r
        /\ \A i \in Keys : i # k => entries'[i] = entries[i] /\ latest'[i] = latest[i]
    BY <1>1, <1>3 DEF Store, TypeOK, k
  <2>2. result[r] # "validated"
    BY <1>1, NoneAssumption DEF Handled, Types
  <2>3. ASSUME NEW i \in Keys
        PROVE  (IF latest[i] = None THEN entries[i] = None ELSE StoredBy(i, latest[i]))'
    <3>1. CASE i = k
      <4>1. entries'[i] = [by |-> r, size |-> archive[r].size] /\ latest'[i] = r
        BY <2>1, <3>1 DEF file
      <4>2. r \in Public => received[r] <= MaximumBytes /\ archive[r].size = received[r]
        BY <1>1 DEF Handled
      <4> QED BY <1>7, <4>1, <4>2, NoneAssumption DEF StoredBy, Valid
    <3>2. CASE i # k
      <4>1. entries'[i] = entries[i] /\ latest'[i] = latest[i]
        BY <2>1, <3>2
      <4>2. latest[i] # None => latest[i] \in Requests /\ latest[i] # r /\ StoredBy(i, latest[i])
        BY <1>1, <2>2 DEF StoreInv, EntryInv, StoredBy, TypeOK
      <4>3. latest[i] = None => entries[i] = None
        BY DEF StoreInv, EntryInv
      <4> QED BY <1>7, <4>1, <4>2, <4>3 DEF StoredBy, Valid
    <3> QED BY <3>1, <3>2
  <2> QED BY <2>3 DEF EntryInv
<1> QED BY <1>6, <1>8, <1>9, <1>10 DEF StoreInv

LEMMA HydratedStore ==
  ASSUME IInv, StoreInv, NEW r \in Requests, Hydrated(r)
  PROVE  StoreInv'
<1>1. /\ pc[r] = "hydrate" /\ inbox' \in Seq(Requests)
      /\ UNCHANGED <<pageVars, inbox, cause, received, archive, fetches, aborted, closed>>
      /\ DOMAIN result = Requests /\ DOMAIN latest = Keys /\ Key(r) \in Keys
      /\ Credited(r)
  BY DEF Hydrated, StoreInv, TypeOK, Keys
<1>2. CASE UNCHANGED <<entries, usedBytes>> /\ \E code \in Codes : Answer(r, code)
  <2>1. result'[r] # "validated"
    BY <1>1, <1>2 DEF Answer, Codes
  <2>2. latest' = latest
    BY <1>1, <2>1 DEF Credited, StoreInv, TypeOK
  <2> QED BY <1>1, <1>2, <2>2, CodeAnswered DEF storeVars
<1>3. CASE /\ Valid(r) /\ Answer(r, "validated") /\ NextUsedBytes(r) <= QuotaBytes
           /\ usedBytes' = NextUsedBytes(r)
           /\ entries' = [entries EXCEPT ![Key(r)] = [by |-> r, size |-> archive[r].size]]
  <2>1. latest' = [latest EXCEPT ![Key(r)] = r]
    BY <1>1, <1>3 DEF Answer, Credited
  <2> QED BY <1>1, <1>3, <2>1, PutStore
<1>4. CASE Valid(r) /\ Put(r)
  <2>1. CASE closed
    BY <1>2, <1>4, <2>1 DEF Put, Codes
  <2>2. CASE ~closed /\ NextUsedBytes(r) > QuotaBytes
    BY <1>2, <1>4, <2>2 DEF Put, Codes
  <2>3. CASE ~closed /\ ~(NextUsedBytes(r) > QuotaBytes)
    <3>1. NextUsedBytes(r) \in Int
      <4>1. /\ archive[r].size \in Nat /\ usedBytes \in Nat /\ Key(r) \in Keys
            /\ entries[Key(r)] # None => entries[Key(r)].size \in Nat
        BY <1>1, StoreTyped, IngestionAssumption
          DEF StoreInv, HandlersInv, Handled, Keys, TypeOK
      <4> QED BY <4>1 DEF NextUsedBytes
    <3>2. NextUsedBytes(r) <= QuotaBytes
      BY <2>3, <3>1, IngestionAssumption
    <3> QED BY <1>3, <1>4, <2>3, <3>2 DEF Put
  <2> QED BY <2>1, <2>2, <2>3
<1> QED BY <1>2, <1>4 DEF Hydrated, Codes

LEMMA OwnerStore ==
  ASSUME IInv, StoreInv, Owner
  PROVE  StoreInv'
<1>1. UNCHANGED <<pageVars, inbox, pc, cause, received, archive, result, fetches>>
  BY DEF Owner, Abort, Purge, PurgeAnalysis, Close, Forget
<1>2. HandlersInv'
  BY <1>1, Untouched DEF StoreInv, HandlersInv, pageVars
<1>3. CASE Abort
  <2>1. TypeOK'
    BY <1>1, <1>3 DEF Abort, StoreInv, TypeOK, pageVars, storeVars
  <2>2. EntryInv'
    BY <1>1, <1>3, StoreKept DEF Abort, storeVars
  <2>3. usedBytes' = Count(SizeOf(entries), Keys)'
    BY <1>3, CountKept DEF Abort, StoreInv, storeVars
  <2> QED BY <1>2, <2>1, <2>2, <2>3 DEF StoreInv
<1>4. ASSUME NEW keys \in SUBSET Keys, Forget(keys), closed' \in BOOLEAN PROVE StoreInv'
  <2> DEFINE new == [k \in Keys |-> IF k \in keys THEN None ELSE entries[k]]
  <2>1. entries \in Store /\ TypeOK
    BY StoreTyped DEF StoreInv
  <2>2. /\ entries' = new /\ aborted' = aborted
        /\ latest' = [k \in Keys |-> IF k \in keys THEN None ELSE latest[k]]
    BY <1>4 DEF Forget
  <2>3. usedBytes' = usedBytes - SizeSum(keys)
    BY <1>4, Zenon DEF Forget, SizeSum
  <2>4. \A k \in Keys : new[k] = IF k \in keys THEN None ELSE entries[k]
    OBVIOUS
  <2>5. /\ Count(SizeOf(new), Keys) = Count(SizeOf(entries), Keys) - Count(SizeOf(entries), keys)
        /\ Count(SizeOf(new), Keys) \in 0 .. Count(SizeOf(entries), Keys)
    BY <2>1, ForgetCounts
  <2>6. new \in [Keys -> [by : Requests, size : 0 .. QuotaBytes] \cup {None}]
    BY <2>1 DEF TypeOK
  <2> HIDE DEF new
  <2>7. SizeSum(keys) = Count(SizeOf(entries), keys)
    BY <2>1, SizeSumIs
  <2>8. usedBytes' = Count(SizeOf(new), Keys) /\ usedBytes' \in 0 .. QuotaBytes
    <3>1. usedBytes = Count(SizeOf(entries), Keys) /\ usedBytes \in 0 .. QuotaBytes
      BY DEF StoreInv, TypeOK
    <3>2. usedBytes' = Count(SizeOf(new), Keys)
      BY <2>3, <2>5, <2>7, <3>1
    <3> QED BY <2>5, <3>1, <3>2, IngestionAssumption
  <2>9. usedBytes' = Count(SizeOf(entries), Keys)'
    <3>1. SizeOf(entries)' = SizeOf(new)
      BY <2>2 DEF SizeOf
    <3> QED BY <2>8, <3>1 DEF Count, Units
  <2>10. TypeOK'
    BY <1>1, <1>4, <2>1, <2>2, <2>6, <2>8 DEF TypeOK, pageVars
  <2>11. EntryInv'
    BY <1>1, <2>1, <2>2, <2>4 DEF StoreInv, EntryInv, StoredBy, Valid, TypeOK
  <2> QED BY <1>2, <2>9, <2>10, <2>11 DEF StoreInv
<1>5. CASE Purge
  BY <1>4, <1>5 DEF Purge, StoreInv, TypeOK
<1>6. CASE \E id \in {Analysis[r] : r \in Requests} : PurgeAnalysis(id)
  BY <1>4, <1>6 DEF PurgeAnalysis, StoreInv, TypeOK
<1>7. CASE Close
  BY <1>4, <1>7 DEF Close
<1> QED BY <1>3, <1>5, <1>6, <1>7 DEF Owner

LEMMA NextStore ==
  ASSUME IInv, StoreInv, [Next]_vars
  PROVE  StoreInv'
<1>1. CASE UNCHANGED vars
  <2>1. /\ UNCHANGED <<pageVars, inbox, pc, cause, received, archive, result, fetches, aborted>>
        /\ UNCHANGED <<storeVars, latest>>
    BY <1>1 DEF vars
  <2>2. TypeOK'
    BY <2>1 DEF StoreInv, TypeOK, pageVars, storeVars
  <2>3. HandlersInv'
    BY <2>1, Untouched DEF StoreInv, HandlersInv, pageVars
  <2>4. EntryInv'
    BY <2>1, StoreKept DEF storeVars
  <2>5. usedBytes' = Count(SizeOf(entries), Keys)'
    BY <2>1, CountKept DEF StoreInv, storeVars
  <2> QED BY <2>2, <2>3, <2>4, <2>5 DEF StoreInv
<1> QED BY <1>1, PageStore, ReceiveStore, NetworkStore, HydratedStore, OwnerStore DEF Next

\* The second layer: what every handler has made of its request so far, and what the
\* store has of it.
THEOREM StoreInvariance == Safety => [](IInv /\ StoreInv)
<1>1. IInv /\ StoreInv /\ [Next]_vars => StoreInv'
  BY NextStore
<1> QED BY <1>1, InitStore, Invariance, PTL DEF Safety

\* Whatever is sent, fetched and stored, in any order, all is of its type, and the store
\* is within its quota (memory-storage.mjs).
THEOREM TypeCorrect == Safety => []TypeOK
<1>1. StoreInv => TypeOK
  BY DEF StoreInv
<1> QED BY <1>1, StoreInvariance, PTL

\* Under each key is the archive last answered as stored there, whole, for as long as the
\* owner does not empty it, and nothing else; that archive was validated for its request
\* and is within the limit that was disclosed; and the books are right (ingestion-worker.mjs,
\* memory-storage.mjs).
THEOREM StoredIsVouchedFor == Safety => []VouchedFor
<1>1. StoreInv => VouchedFor
  <2> SUFFICES ASSUME StoreInv PROVE VouchedFor
    OBVIOUS
  <2>1. usedBytes = SizeSum(Keys)
    BY StoreTyped, SizeSumIs DEF StoreInv
  <2>2. usedBytes = MapThenSumSet(LAMBDA k : entries[k].size, {k \in Keys : entries[k] # None})
    BY <2>1, Zenon DEF SizeSum
  <2> QED BY <2>2, Zenon DEF VouchedFor, StoreInv, EntryInv, StoredBy
<1> QED BY <1>1, StoreInvariance, PTL
=============================================================================
