------------------------- MODULE ArchiveReaderProofs -------------------------
(***************************************************************************)
(* What readStrictZip promises, for archives, budgets and names of any size. *)
(* The inductive invariant IInv says how far the reading has come: the local *)
(* entries tile the bytes up to the read that is waited for (Placed), what   *)
(* is kept is what they declare, the directory has listed each at most once. *)
(***************************************************************************)
EXTENDS ArchiveReader, FiniteSetTheorems, SequenceTheorems, TLAPS

\* Where the local entries ls end.
EndOf(ls) == IF ls = <<>> THEN 0 ELSE ls[Len(ls)].at + 1 + ls[Len(ls)].header.csize

\* The entries ls lie end to end, under names of their own.
Layout(ls) ==
  /\ \A i \in DOMAIN ls :
       ls[i].at = (IF i = 1 THEN 0 ELSE ls[i - 1].at + 1 + ls[i - 1].header.csize)
  /\ \A i, k \in DOMAIN ls : ls[i].header.path.name = ls[k].header.path.name => i = k

\* The contents that the files among ls declare.
Declared(ls) ==
  {[path |-> r.header.path, length |-> r.header.usize, crc |-> r.header.crc] :
     r \in {l \in Entries(ls) : ~l.header.path.directory}}

\* The records cs are entries of ls, none of them twice.
Listing(cs, ls) ==
  /\ Entries(cs) \subseteq Entries(ls)
  /\ \A i, k \in DOMAIN cs : cs[i].header.path = cs[k].header.path => i = k

\* The entry whose body is waited for may still be added to the local ones.
PendingFits ==
  /\ pending \in Header
  /\ ~pending.path.directory
  /\ offset + 1 + pending.csize <= end.start
  /\ totals.observed + pending.usize <= Allowance
  /\ \A r \in Entries(locals) : r.header.path.name # pending.path.name

\* How far the reading has come.
Placed ==
  /\ pc \in {"start", "footer"} => locals = <<>>
  /\ pc \in {"local", "body", "stream"} => offset = EndOf(locals)
  /\ pc = "central" => end.start = EndOf(locals)
  /\ pc \in {"body", "stream"} => PendingFits
  /\ pc \notin {"stream", "settled"} => inflated = 0
  /\ pc # "settled" => outcome = "none"
  /\ end.start <= end.limit

\* What publication rests on when it has happened.
PublishedInFull ==
  outcome = "published" =>
    /\ end.start = EndOf(locals)
    /\ Len(listed) = Len(locals) /\ Len(locals) = end.entries

IInv ==
  /\ TypeOK
  /\ Placed
  /\ Layout(locals)
  /\ Entries(kept) = Declared(locals)
  /\ Listing(listed, locals)
  /\ PublishedInFull
  /\ MemoryIsBounded

----------------------------------------------------------------------------
LEMMA AllowanceType == Allowance \in Nat
  BY BudgetAssumption DEF Allowance

LEMMA HeaderSizes ==
  ASSUME NEW h \in Header
  PROVE  /\ h.csize \in Nat /\ h.usize \in Nat /\ h.crc \in Crc
         /\ h.path \in Path /\ h.path.directory \in BOOLEAN
  BY BudgetAssumption DEF Header, Path

LEMMA CountedType ==
  ASSUME NEW h \in Header, totals \in [files : Nat, compressed : Nat, observed : Nat]
  PROVE  /\ Counted(h) \in [files : Nat, compressed : Nat, observed : Nat]
         /\ Counted(h).observed = totals.observed
<1>1. h.csize \in Nat
  BY HeaderSizes
<1>2. Counted(h) = [f \in {"files", "compressed", "observed"} |->
                     IF f = "files" THEN totals.files + 1
                     ELSE IF f = "compressed" THEN totals.compressed + h.csize
                     ELSE totals.observed]
  BY DEF Counted
<1> QED BY <1>1, <1>2

\* Entries of a sequence with one more element.
LEMMA EntriesOfAppend ==
  ASSUME NEW S, NEW seq \in Seq(S), NEW e \in S
  PROVE  /\ Entries(Append(seq, e)) = Entries(seq) \cup {e}
         /\ DOMAIN Append(seq, e) = DOMAIN seq \cup {Len(seq) + 1}
         /\ Append(seq, e)[Len(seq) + 1] = e
         /\ \A i \in DOMAIN seq : Append(seq, e)[i] = seq[i]
         /\ Len(seq) + 1 \notin DOMAIN seq
         /\ Entries(seq) \subseteq S
<1>1. /\ DOMAIN Append(seq, e) = DOMAIN seq \cup {Len(seq) + 1}
      /\ Append(seq, e)[Len(seq) + 1] = e
      /\ \A i \in DOMAIN seq : Append(seq, e)[i] = seq[i]
      /\ Len(seq) + 1 \notin DOMAIN seq
  OBVIOUS
<1>2. Entries(Append(seq, e)) = Entries(seq) \cup {e}
  BY <1>1, Zenon DEF Entries
<1>3. Entries(seq) \subseteq S
  BY DEF Entries
<1> QED BY <1>1, <1>2, <1>3

\* One more entry behind the others keeps the layout.
LEMMA LayoutOfAppend ==
  ASSUME NEW ls \in Seq(Record), NEW h \in Header, Layout(ls),
         \A r \in Entries(ls) : r.header.path.name # h.path.name
  PROVE  LET e == [header |-> h, at |-> EndOf(ls)]
         IN  /\ e \in Record
             /\ Layout(Append(ls, e))
             /\ EndOf(Append(ls, e)) = EndOf(ls) + 1 + h.csize
<1> DEFINE e == [header |-> h, at |-> EndOf(ls)]
           new == Append(ls, e)
<1>1. EndOf(ls) \in Nat
  <2>1. CASE ls = <<>>
    BY <2>1 DEF EndOf
  <2>2. CASE ls # <<>>
    <3>1. ls[Len(ls)] \in Record
      BY <2>2
    <3>2. ls[Len(ls)].header.csize \in Nat /\ ls[Len(ls)].at \in Nat
      BY <3>1, HeaderSizes DEF Record
    <3> QED BY <2>2, <3>2 DEF EndOf
  <2> QED BY <2>1, <2>2
<1>2. e \in Record
  BY <1>1 DEF Record
<1> HIDE DEF e
<1>3. /\ DOMAIN new = DOMAIN ls \cup {Len(ls) + 1} /\ new[Len(ls) + 1] = e
      /\ \A i \in DOMAIN ls : new[i] = ls[i]
      /\ DOMAIN ls = 1 .. Len(ls) /\ Len(ls) \in Nat /\ new \in Seq(Record)
      /\ Len(new) = Len(ls) + 1
  BY <1>2, EntriesOfAppend
<1> HIDE DEF new
<1>4. ASSUME NEW i \in DOMAIN new
      PROVE  new[i].at = (IF i = 1 THEN 0 ELSE new[i - 1].at + 1 + new[i - 1].header.csize)
  <2>1. CASE i \in DOMAIN ls
    <3>1. new[i] = ls[i]
          /\ ls[i].at = (IF i = 1 THEN 0 ELSE ls[i - 1].at + 1 + ls[i - 1].header.csize)
      BY <2>1, <1>3 DEF Layout
    <3>2. CASE i = 1
      BY <3>1, <3>2
    <3>3. CASE i # 1
      <4>1. new[i - 1] = ls[i - 1]
        BY <2>1, <3>3, <1>3
      <4> QED BY <3>1, <3>3, <4>1
    <3> QED BY <3>2, <3>3
  <2>2. CASE i = Len(ls) + 1 /\ ls = <<>>
    BY <2>2, <1>3 DEF e, EndOf
  <2>3. CASE i = Len(ls) + 1 /\ ls # <<>>
    <3>1. Len(ls) \in DOMAIN ls /\ i # 1 /\ i - 1 = Len(ls)
      <4>1. Len(ls) # 0
        BY <2>3, EmptySeq
      <4> QED BY <4>1, <2>3, <1>3
    <3>2. new[i - 1] = ls[Len(ls)] /\ new[i] = e
      BY <3>1, <2>3, <1>3
    <3>3. e.at = ls[Len(ls)].at + 1 + ls[Len(ls)].header.csize
      BY <2>3 DEF e, EndOf
    <3> QED BY <3>1, <3>2, <3>3
  <2> QED BY <2>1, <2>2, <2>3, <1>3
<1>5. ASSUME NEW i \in DOMAIN new, NEW k \in DOMAIN new,
             new[i].header.path.name = new[k].header.path.name
      PROVE  i = k
  <2>1. \A m \in DOMAIN ls : ls[m].header.path.name # h.path.name
    BY DEF Entries
  <2>2. e.header = h
    BY DEF e
  <2> QED BY <1>3, <1>5, <2>1, <2>2 DEF Layout
<1>6. EndOf(new) = EndOf(ls) + 1 + h.csize
  <2>1. new # <<>>
    BY <1>3
  <2>2. new[Len(new)] = e
    BY <1>3
  <2>3. e.at = EndOf(ls) /\ e.header = h
    BY DEF e
  <2> QED BY <2>1, <2>2, <2>3 DEF EndOf
<1> QED BY <1>2, <1>4, <1>5, <1>6 DEF Layout, new, e

\* A listing as long as what it lists is complete.
LEMMA FullListing ==
  ASSUME NEW cs \in Seq(Record), NEW ls \in Seq(Record), Listing(cs, ls),
         Len(cs) = Len(ls)
  PROVE  Entries(cs) = Entries(ls)
<1> DEFINE D == 1 .. Len(ls)
<1>1. /\ IsFiniteSet(D) /\ Len(ls) \in Nat
      /\ DOMAIN ls = D /\ DOMAIN cs = D
  BY FS_Interval
<1>2. ls \in Surjection(D, Entries(ls))
  <2>1. ls \in [D -> Entries(ls)]
    BY <1>1 DEF Entries
  <2> QED BY <1>1, <2>1 DEF Surjection, Entries
<1>3. cs \in Surjection(D, Entries(cs))
  <2>1. cs \in [D -> Entries(cs)]
    BY <1>1 DEF Entries
  <2> QED BY <1>1, <2>1 DEF Surjection, Entries
<1>4. cs \in Injection(D, Entries(cs))
  BY <1>1, <1>3 DEF Injection, IsInjective, Surjection, Listing
<1> HIDE DEF D
<1>5. /\ IsFiniteSet(Entries(ls)) /\ Cardinality(Entries(ls)) <= Cardinality(D)
  BY <1>1, <1>2, FS_Surjection
<1>6. Cardinality(Entries(cs)) = Cardinality(D)
  BY <1>1, <1>3, <1>4, FS_Surjection
<1>7. Entries(cs) \in SUBSET Entries(ls)
  BY DEF Listing
<1>8. Cardinality(Entries(cs)) <= Cardinality(Entries(ls))
  BY <1>5, <1>7, FS_Subset
<1>9. Cardinality(D) \in Nat /\ Cardinality(Entries(ls)) \in Nat
  BY <1>1, <1>5, FS_CardinalityType
<1>10. Cardinality(Entries(ls)) = Cardinality(Entries(cs))
  BY <1>5, <1>6, <1>8, <1>9
<1> QED BY <1>5, <1>7, <1>10, FS_Subset

----------------------------------------------------------------------------
\* How the reading goes on behind the central directory: nothing is published
\* beyond the limits, after an abort, or when the three counts differ.
LEMMA PublishesEffect ==
  ASSUME NEW t, NEW ls, NEW cs, Publishes(t, ls, cs)
  PROVE  /\ pc' = "settled"
         /\ \/ outcome' \in {"cancelled", "limit", "invalid"}
            \/ /\ outcome' = "published" /\ ~aborted /\ ~late
               /\ Len(cs) = end'.entries /\ Len(ls) = Len(cs)
  BY DEF Publishes, Checked, Settles, OverBudget

\* How it goes on behind an entry.
LEMMA GoesOnEffect ==
  ASSUME NEW t, NEW ls, GoesOn(t, ls), outcome = "none",
         offset' \in Nat, end'.start \in Nat, end'.limit \in Nat,
         offset' <= end'.start, end'.start <= end'.limit
  PROVE  /\ \/ pc' = "local" /\ outcome' = "none"
            \/ pc' = "central" /\ outcome' = "none" /\ offset' = end'.start
            \/ pc' = "settled" /\ outcome' \in {"cancelled", "limit", "invalid"}
            \/ /\ pc' = "settled" /\ outcome' = "published" /\ ~aborted /\ ~late
               /\ offset' = end'.start
               /\ Len(listed) = end'.entries /\ Len(ls) = Len(listed)
         /\ aborted => pc' = "settled"
<1>1. CASE aborted /\ Settles("cancelled")
  BY <1>1 DEF Settles
<1>2. CASE ~aborted /\ Settles("limit")
  BY <1>2 DEF Settles
<1>3. CASE ~aborted /\ offset' < end'.start /\ ReadsNext("local")
  BY <1>3 DEF ReadsNext
<1>4. CASE ~aborted /\ offset' = end'.start /\ ReadsNext("central")
  BY <1>4 DEF ReadsNext
<1>5. CASE ~aborted /\ offset' = end'.limit /\ Publishes(t, ls, listed)
  <2>1. offset' = end'.start
    BY <1>5
  <2> QED BY <1>5, <2>1, PublishesEffect
<1> QED BY <1>1, <1>2, <1>3, <1>4, <1>5 DEF GoesOn, Checked

LEMMA InitInv == Init => IInv
<1> SUFFICES ASSUME Init PROVE IInv
  OBVIOUS
<1>1. TypeOK
  <2>1. /\ end \in [start : Nat, limit : Nat, entries : Nat]
        /\ totals \in [files : Nat, compressed : Nat, observed : Nat]
    BY DEF Init, NoEnd
  <2>2. locals \in Seq(Record) /\ listed \in Seq(Record) /\ kept \in Seq(Content)
    BY DEF Init
  <2>3. aborted \in BOOLEAN /\ late \in BOOLEAN
    BY Zenon DEF Init
  <2>4. pc \in {"start"} /\ outcome \in Outcome /\ offset \in Nat /\ inflated \in Nat
    BY DEF Init, Outcome
  <2> QED BY <2>1, <2>2, <2>3, <2>4 DEF Init, TypeOK
<1>2. Placed
  BY DEF Init, Placed, NoEnd
<1>3. Layout(locals) /\ Entries(kept) = Declared(locals) /\ Listing(listed, locals)
  BY DEF Init, Layout, Declared, Listing, Entries
<1>4. PublishedInFull
  BY DEF Init, PublishedInFull
<1>5. MemoryIsBounded
  BY AllowanceType DEF Init, MemoryIsBounded
<1> QED BY <1>1, <1>2, <1>3, <1>4, <1>5 DEF IInv

\* What was read stays as it is.
LEMMA SameContents ==
  ASSUME IInv, UNCHANGED <<locals, kept, listed>>
  PROVE  Layout(locals)' /\ (Entries(kept) = Declared(locals))' /\ Listing(listed, locals)'
<1>1. locals' = locals /\ kept' = kept /\ listed' = listed
  OBVIOUS
<1>2. Layout(locals)'
  BY <1>1 DEF IInv, Layout
<1>3. Entries(kept)' = Entries(kept) /\ Entries(locals)' = Entries(locals)
  BY <1>1 DEF Entries
<1>4. Declared(locals)' = Declared(locals)
  BY <1>3 DEF Declared
<1>5. Listing(listed, locals)'
  BY <1>1 DEF IInv, Listing, Entries
<1> QED BY <1>2, <1>3, <1>4, <1>5 DEF IInv

\* A reading that is settled without publication needs nothing more than types
\* and what was there.
LEMMA SettledInv ==
  ASSUME IInv, TypeOK', pc' = "settled", outcome' # "published",
         UNCHANGED <<end, locals, kept, listed>>,
         totals'.observed + inflated' <= Allowance
  PROVE  IInv'
<1>1. Placed'
  BY DEF IInv, Placed
<1>2. Layout(locals)' /\ (Entries(kept) = Declared(locals))' /\ Listing(listed, locals)'
  BY SameContents
<1>3. PublishedInFull'
  BY DEF PublishedInFull
<1>4. MemoryIsBounded'
  BY DEF MemoryIsBounded, Allowance
<1> QED BY <1>1, <1>2, <1>3, <1>4 DEF IInv

LEMMA StartInv ==
  ASSUME IInv, Start, UNCHANGED <<size, aborted, late>>
  PROVE  IInv'
<1>1. pc' \in {"footer", "settled"} /\ outcome' \in Outcome /\ outcome' # "published"
  BY DEF IInv, Placed, Start, Checked, Settles, ReadsNext, Outcome
<1>2. pc' = "footer" => outcome' = "none"
  BY DEF IInv, Placed, Start, Checked, Settles, ReadsNext
<1>3. UNCHANGED <<size, end, offset, totals, pending, inflated, locals, kept, listed, aborted, late>>
  BY DEF Start
<1>4. TypeOK'
  BY <1>1, <1>3 DEF IInv, TypeOK
<1>5. Placed'
  BY <1>1, <1>2, <1>3 DEF IInv, Placed, Start
<1>6. Layout(locals)' /\ (Entries(kept) = Declared(locals))' /\ Listing(listed, locals)'
  BY <1>3, SameContents
<1>7. PublishedInFull'
  BY <1>1 DEF PublishedInFull
<1>8. MemoryIsBounded'
  BY <1>3 DEF IInv, MemoryIsBounded, Allowance
<1> QED BY <1>4, <1>5, <1>6, <1>7, <1>8 DEF IInv

\* A read that fails settles the reading and nothing else.
LEMMA ReadFailsInv ==
  ASSUME IInv, ReadFails, UNCHANGED <<size, aborted, late>>
  PROVE  IInv'
<1>1. pc' = "settled" /\ outcome' \in {"cancelled", "invalid"}
  BY DEF ReadFails, Settles
<1>2. UNCHANGED <<size, end, offset, totals, pending, inflated, locals, kept, listed, aborted, late>>
  BY DEF ReadFails
<1>3. TypeOK'
  BY <1>1, <1>2 DEF IInv, TypeOK, Outcome
<1>4. totals'.observed + inflated' <= Allowance
  BY <1>2 DEF IInv, MemoryIsBounded
<1> QED BY <1>1, <1>2, <1>3, <1>4, SettledInv

LEMMA FooterInv ==
  ASSUME IInv, Footer, UNCHANGED <<size, aborted, late>>
  PROVE  IInv'
<1>1. CASE ReadFails
  BY <1>1, ReadFailsInv
<1>2. CASE ~ReadFails
  <2>1. PICK e \in [start : 0 .. size, limit : 0 .. size, entries : Counts] :
          e.start <= e.limit /\ e.limit < size /\ end' = e /\ offset' = 0
          /\ GoesOn(totals, locals)
    BY <1>2 DEF Footer
  <2>2. UNCHANGED <<size, totals, pending, inflated, locals, kept, listed, aborted, late>>
    BY <1>2 DEF Footer
  <2>3. /\ size \in Nat /\ e.start \in Nat /\ e.limit \in Nat /\ e.entries \in Nat
        /\ e \in [start : Nat, limit : Nat, entries : Nat]
    BY BudgetAssumption DEF IInv, TypeOK
  <2>4. pc = "footer" /\ outcome = "none" /\ locals = <<>> /\ inflated = 0
    BY DEF Footer, IInv, Placed
  <2>5. /\ \/ pc' = "local" /\ outcome' = "none"
           \/ pc' = "central" /\ outcome' = "none" /\ offset' = end'.start
           \/ pc' = "settled" /\ outcome' \in {"cancelled", "limit", "invalid"}
           \/ /\ pc' = "settled" /\ outcome' = "published"
              /\ offset' = end'.start
              /\ Len(listed) = end'.entries /\ Len(locals) = Len(listed)
    BY <2>1, <2>3, <2>4, GoesOnEffect
  <2>6. EndOf(locals') = 0
    BY <2>2, <2>4 DEF EndOf
  <2>7. TypeOK'
    BY <2>1, <2>2, <2>3, <2>5 DEF IInv, TypeOK, Outcome
  <2>8. Placed'
    BY <2>1, <2>2, <2>3, <2>4, <2>5, <2>6 DEF Placed, EndOf
  <2>9. Layout(locals)' /\ (Entries(kept) = Declared(locals))' /\ Listing(listed, locals)'
    BY <2>2, SameContents
  <2>10. PublishedInFull'
    BY <2>1, <2>2, <2>5, <2>6 DEF PublishedInFull, EndOf
  <2>11. MemoryIsBounded'
    BY <2>2 DEF IInv, MemoryIsBounded, Allowance
  <2> QED BY <2>7, <2>8, <2>9, <2>10, <2>11 DEF IInv
<1> QED BY <1>1, <1>2

\* A complete entry is added to the local ones and the reading goes on.
LEMMA AppendsEffect ==
  ASSUME IInv, UNCHANGED <<size, end, listed, aborted, late>>,
         pc \in {"local", "body", "stream"},
         NEW h \in Header, offset + 1 + h.csize <= end.start,
         \A r \in Entries(locals) : r.header.path.name # h.path.name,
         NEW t \in [files : Nat, compressed : Nat, observed : Nat],
         Appends(h, t)
  PROVE  /\ locals' \in Seq(Record) /\ totals' = t /\ offset' \in Nat
         /\ Layout(locals') /\ Listing(listed', locals')
         /\ Declared(locals') = Declared(locals) \cup
              (IF h.path.directory THEN {}
               ELSE {[path |-> h.path, length |-> h.usize, crc |-> h.crc]})
         /\ PublishedInFull'
         /\ pc' \in {"local", "central", "settled"} /\ outcome' \in Outcome
         /\ inflated' = 0 => Placed'
         /\ outcome' = "published" => ~aborted /\ ~late
         /\ aborted => pc' = "settled"
<1> DEFINE e == [header |-> h, at |-> EndOf(locals)]
<1>1. /\ offset = EndOf(locals) /\ outcome = "none" /\ end.start <= end.limit
      /\ locals \in Seq(Record) /\ offset \in Nat /\ listed \in Seq(Record)
      /\ end.start \in Nat /\ end.limit \in Nat
  BY DEF IInv, Placed, TypeOK
<1>2. locals' = Append(locals, e) /\ offset' = EndOf(locals) + 1 + h.csize /\ totals' = t
  BY <1>1 DEF Appends
<1>3. h.csize \in Nat
  BY HeaderSizes
<1>4. /\ e \in Record /\ Layout(locals') /\ EndOf(locals') = offset'
  BY <1>1, <1>2, LayoutOfAppend DEF IInv
<1>5. offset' \in Nat /\ offset' <= end'.start /\ end' = end
  BY <1>1, <1>2, <1>3
<1>6. /\ \/ pc' = "local" /\ outcome' = "none"
         \/ pc' = "central" /\ outcome' = "none" /\ offset' = end'.start
         \/ pc' = "settled" /\ outcome' \in {"cancelled", "limit", "invalid"}
         \/ /\ pc' = "settled" /\ outcome' = "published" /\ ~aborted /\ ~late
            /\ offset' = end'.start
            /\ Len(listed) = end'.entries /\ Len(locals') = Len(listed)
      /\ aborted => pc' = "settled"
  BY <1>1, <1>5, GoesOnEffect DEF Appends
<1>7. /\ Entries(locals') = Entries(locals) \cup {e} /\ e.header = h
  <2>1. Entries(Append(locals, e)) = Entries(locals) \cup {e}
    BY <1>1, <1>4, EntriesOfAppend
  <2> QED BY <2>1, <1>2
<1>8. locals' \in Seq(Record)
  BY <1>1, <1>2, <1>4
<1> HIDE DEF e
<1>9. Listing(listed', locals')
  BY <1>7 DEF IInv, Listing, Entries
<1>10. Declared(locals') = Declared(locals) \cup
              (IF h.path.directory THEN {}
               ELSE {[path |-> h.path, length |-> h.usize, crc |-> h.crc]})
  <2>1. CASE h.path.directory
    <3>1. {l \in Entries(locals') : ~l.header.path.directory} =
          {l \in Entries(locals) : ~l.header.path.directory}
      BY <1>7, <2>1
    <3> QED BY <3>1, <2>1 DEF Declared
  <2>2. CASE ~h.path.directory
    <3>1. {l \in Entries(locals') : ~l.header.path.directory} =
          {l \in Entries(locals) : ~l.header.path.directory} \cup {e}
      BY <1>7, <2>2
    <3> QED BY <3>1, <2>2, <1>7 DEF Declared
  <2> QED BY <2>1, <2>2
<1>11. PublishedInFull'
  BY <1>4, <1>5, <1>6 DEF PublishedInFull, EndOf
<1>12. ASSUME inflated' = 0 PROVE Placed'
  BY <1>1, <1>4, <1>5, <1>6, <1>12 DEF Placed, EndOf
<1> QED BY <1>2, <1>4, <1>5, <1>6, <1>8, <1>9, <1>10, <1>11, <1>12 DEF Outcome

LEMMA LocalHeaderInv ==
  ASSUME IInv, LocalHeader, UNCHANGED <<size, aborted, late>>
  PROVE  IInv'
<1>1. CASE ReadFails
  BY <1>1, ReadFailsInv
<1>2. CASE ~ReadFails
  <2>1. UNCHANGED <<size, end, inflated, kept, listed, aborted, late>>
    BY <1>2 DEF LocalHeader
  <2>2. PICK h \in Header :
             /\ Accepts(h)
             /\ \/ /\ Settles("limit")
                   /\ UNCHANGED <<offset, totals, pending, locals>>
                \/ /\ h.path.directory
                   /\ Appends(h, Counted(h))
                   /\ pending' = pending
                \/ /\ ~h.path.directory
                   /\ totals.observed + h.usize <= Allowance
                   /\ pending' = h
                   /\ totals' = Counted(h)
                   /\ ReadsNext("body")
                   /\ UNCHANGED <<offset, locals>>
    BY <1>2 DEF LocalHeader
  <2>3. /\ pc = "local" /\ inflated = 0 /\ outcome = "none" /\ offset = EndOf(locals)
        /\ end.start <= end.limit
        /\ offset + 1 + h.csize <= end.start
        /\ \A r \in Entries(locals) : r.header.path.name # h.path.name
    BY <2>2 DEF LocalHeader, IInv, Placed, Accepts
  <2>4. /\ totals \in [files : Nat, compressed : Nat, observed : Nat]
        /\ totals.observed <= Allowance
    BY <2>3, AllowanceType DEF IInv, TypeOK, MemoryIsBounded
  <2>5. /\ Counted(h) \in [files : Nat, compressed : Nat, observed : Nat]
        /\ Counted(h).observed = totals.observed
    BY <2>4, CountedType
  <2>6. CASE Settles("limit") /\ UNCHANGED <<offset, totals, pending, locals>>
    <3>1. TypeOK'
      BY <2>1, <2>6 DEF IInv, TypeOK, Settles, Outcome
    <3> QED BY <2>1, <2>3, <2>4, <2>6, <3>1, SettledInv DEF Settles
  <2>7. CASE h.path.directory /\ Appends(h, Counted(h)) /\ pending' = pending
    <3>1. /\ locals' \in Seq(Record) /\ totals' = Counted(h) /\ offset' \in Nat
          /\ Layout(locals') /\ Listing(listed', locals')
          /\ Declared(locals') = Declared(locals)
          /\ PublishedInFull'
          /\ pc' \in {"local", "central", "settled"} /\ outcome' \in Outcome
          /\ inflated' = 0 => Placed'
      <4>1. pc \in {"local", "body", "stream"}
        BY <2>3
      <4> QED BY <4>1, <2>1, <2>3, <2>5, <2>7, AppendsEffect
    <3>2. TypeOK'
      BY <2>1, <2>5, <2>7, <3>1 DEF IInv, TypeOK
    <3>3. (Entries(kept) = Declared(locals))'
      BY <2>1, <3>1 DEF IInv, Entries
    <3>4. MemoryIsBounded'
      BY <2>1, <2>3, <2>4, <2>5, <3>1 DEF MemoryIsBounded, Allowance
    <3> QED BY <2>1, <2>3, <3>1, <3>2, <3>3, <3>4 DEF IInv
  <2>8. CASE /\ ~h.path.directory
             /\ totals.observed + h.usize <= Allowance
             /\ pending' = h
             /\ totals' = Counted(h)
             /\ ReadsNext("body")
             /\ UNCHANGED <<offset, locals>>
    <3>1. pc' = "body" /\ outcome' = "none"
      BY <2>3, <2>8 DEF ReadsNext
    <3>2. TypeOK'
      BY <2>1, <2>5, <2>8, <3>1 DEF IInv, TypeOK, Outcome
    <3>3. PendingFits'
      BY <2>1, <2>3, <2>5, <2>8 DEF PendingFits, Entries, Allowance
    <3>4. Placed'
      BY <2>1, <2>3, <2>8, <3>1, <3>3 DEF Placed, EndOf
    <3>5. Layout(locals)' /\ (Entries(kept) = Declared(locals))' /\ Listing(listed, locals)'
      BY <2>1, <2>8, SameContents
    <3>6. PublishedInFull'
      BY <3>1 DEF PublishedInFull
    <3>7. MemoryIsBounded'
      BY <2>1, <2>3, <2>4, <2>5, <2>8 DEF MemoryIsBounded, Allowance
    <3> QED BY <3>2, <3>4, <3>5, <3>6, <3>7 DEF IInv
  <2> QED BY <2>2, <2>6, <2>7, <2>8
<1> QED BY <1>1, <1>2

\* The content of the pending entry is complete: n bytes, of which the entry's
\* stream has produced all or, for a stored one, none is counted yet.
LEMMA KeepInv ==
  ASSUME IInv, UNCHANGED <<size, end, listed, aborted, late>>,
         pc \in {"body", "stream"}, NEW n \in Nat, NEW crc \in Crc, Keep(n, crc),
         pending' = NoRecord, inflated' = 0
  PROVE  /\ IInv'
         /\ outcome' = "published" => ~aborted /\ ~late
         /\ aborted => pc' = "settled"
<1>1. /\ PendingFits /\ pending \in Header /\ outcome = "none" /\ pc \in {"local", "body", "stream"}
  BY DEF IInv, Placed, PendingFits
<1>2. /\ totals \in [files : Nat, compressed : Nat, observed : Nat]
      /\ pending.usize \in Nat /\ Allowance \in Nat
      /\ totals.observed + pending.usize <= Allowance
  BY <1>1, HeaderSizes, AllowanceType DEF IInv, TypeOK, PendingFits
<1>3. CASE Settles("invalid") /\ UNCHANGED <<offset, totals, locals, kept>>
  <2>1. TypeOK'
    BY <1>3 DEF IInv, TypeOK, Settles, Outcome
  <2>2. totals'.observed + inflated' <= Allowance
    BY <1>2, <1>3
  <2> QED BY <1>3, <2>1, <2>2, SettledInv DEF Settles
<1>4. CASE /\ n = pending.usize /\ crc = pending.crc
           /\ kept' = Append(kept, [path |-> pending.path, length |-> n, crc |-> crc])
           /\ Appends(pending, [totals EXCEPT !.observed = @ + n])
  <2> DEFINE t == [totals EXCEPT !.observed = @ + n]
             c == [path |-> pending.path, length |-> n, crc |-> crc]
  <2>1. t \in [files : Nat, compressed : Nat, observed : Nat] /\ t.observed = totals.observed + n
    BY <1>2
  <2>2. c \in Content /\ kept \in Seq(Content)
    BY <1>1, HeaderSizes DEF Content, IInv, TypeOK
  <2> HIDE DEF t, c
  <2>3. /\ kept' = Append(kept, c) /\ c = [path |-> pending.path, length |-> n, crc |-> crc]
        /\ Appends(pending, t)
    BY <1>4 DEF t, c
  <2>4. /\ locals' \in Seq(Record) /\ totals' = t /\ offset' \in Nat
        /\ Layout(locals') /\ Listing(listed', locals')
        /\ Declared(locals') = Declared(locals) \cup
             {[path |-> pending.path, length |-> pending.usize, crc |-> pending.crc]}
        /\ PublishedInFull'
        /\ pc' \in {"local", "central", "settled"} /\ outcome' \in Outcome
        /\ Placed'
        /\ outcome' = "published" => ~aborted /\ ~late
        /\ aborted => pc' = "settled"
    BY <1>1, <2>1, <2>3, AppendsEffect DEF PendingFits
  <2>5. kept' \in Seq(Content) /\ Entries(kept') = Entries(kept) \cup {c}
    BY <2>2, <2>3, EntriesOfAppend
  <2>6. (Entries(kept) = Declared(locals))'
    BY <1>4, <2>3, <2>4, <2>5 DEF IInv
  <2>7. TypeOK'
    BY <2>1, <2>4, <2>5 DEF IInv, TypeOK
  <2>8. MemoryIsBounded'
    BY <1>2, <1>4, <2>1, <2>4 DEF MemoryIsBounded, Allowance
  <2> QED BY <2>4, <2>6, <2>7, <2>8 DEF IInv
<1> QED BY <1>3, <1>4 DEF Keep, Settles

LEMMA BodyInv ==
  ASSUME IInv, Body, UNCHANGED <<size, aborted, late>>
  PROVE  IInv'
<1>1. /\ pc = "body" /\ inflated = 0 /\ pending \in Header /\ PendingFits /\ outcome = "none"
  BY DEF Body, IInv, Placed, PendingFits
<1>2. CASE ReadFails
  BY <1>2, ReadFailsInv
<1>3. ASSUME NEW crc \in Crc, Keep(pending.csize, crc), pending' = NoRecord,
             UNCHANGED <<end, inflated, listed>>
      PROVE  IInv'
  BY <1>1, <1>3, HeaderSizes, KeepInv
<1>4. CASE /\ ReadsNext("stream")
           /\ UNCHANGED <<end, offset, totals, pending, inflated, locals, kept, listed>>
  <2>1. pc' = "stream" /\ outcome' = "none"
    BY <1>1, <1>4 DEF ReadsNext
  <2>2. TypeOK'
    BY <1>4, <2>1 DEF IInv, TypeOK, Outcome
  <2>3. PendingFits'
    BY <1>1, <1>4 DEF PendingFits, Entries, Allowance
  <2>4. Placed'
    BY <1>1, <1>4, <2>1, <2>3 DEF IInv, Placed, EndOf
  <2>5. Layout(locals)' /\ (Entries(kept) = Declared(locals))' /\ Listing(listed, locals)'
    BY <1>4, SameContents
  <2>6. PublishedInFull'
    BY <2>1 DEF PublishedInFull
  <2>7. MemoryIsBounded'
    BY <1>4 DEF IInv, MemoryIsBounded, Allowance
  <2> QED BY <2>2, <2>4, <2>5, <2>6, <2>7 DEF IInv
<1> QED BY <1>2, <1>3, <1>4 DEF Body

LEMMA StreamInv ==
  ASSUME IInv, Stream, UNCHANGED <<size, aborted, late>>
  PROVE  IInv'
<1>1. /\ pc = "stream" /\ pending \in Header /\ PendingFits /\ outcome = "none"
      /\ inflated \in Nat /\ totals.observed \in Nat /\ pending.usize \in Nat
      /\ totals.observed + inflated <= Allowance
  BY HeaderSizes DEF Stream, IInv, Placed, PendingFits, TypeOK, MemoryIsBounded
<1>2. CASE /\ Settles("invalid")
           /\ UNCHANGED <<end, offset, totals, pending, inflated, locals, kept, listed>>
  <2>1. TypeOK'
    BY <1>2 DEF IInv, TypeOK, Settles, Outcome
  <2> QED BY <1>1, <1>2, <2>1, SettledInv DEF Settles
<1>3. ASSUME NEW n \in 1 .. pending.usize + 1 - inflated, Chunk(n),
             UNCHANGED <<end, offset, totals, pending, locals, kept, listed>>
      PROVE  IInv'
  <2>1. /\ n \in Nat /\ inflated' \in Nat
        /\ totals'.observed + inflated' <= Allowance
        /\ \/ pc' = "settled" /\ outcome' \in {"limit", "cancelled"}
           \/ pc' = "stream" /\ outcome' = "none"
    <3>1. n \in Nat
      BY <1>1
    <3>2. CASE Settles("limit") /\ inflated' = inflated
      BY <1>1, <1>3, <3>1, <3>2 DEF Settles
    <3>3. CASE /\ inflated + n <= Allowance - totals.observed
               /\ inflated' = inflated + n
               /\ IF aborted THEN Settles("cancelled") ELSE ReadsNext("stream")
      BY <1>1, <1>3, <3>1, <3>3, AllowanceType DEF Settles, ReadsNext
    <3> QED BY <1>1, <1>3, <3>1, <3>2, <3>3, AllowanceType DEF Chunk
  <2>2. TypeOK'
    BY <1>3, <2>1 DEF IInv, TypeOK, Outcome
  <2>3. CASE pc' = "settled"
    BY <1>3, <2>1, <2>2, <2>3, SettledInv
  <2>4. CASE pc' = "stream" /\ outcome' = "none"
    <3>1. PendingFits'
      BY <1>1, <1>3 DEF PendingFits, Entries, Allowance
    <3>2. Placed'
      BY <1>1, <1>3, <2>4, <3>1 DEF IInv, Placed, EndOf
    <3>3. Layout(locals)' /\ (Entries(kept) = Declared(locals))' /\ Listing(listed, locals)'
      BY <1>3, SameContents
    <3>4. PublishedInFull'
      BY <2>4 DEF PublishedInFull
    <3>5. MemoryIsBounded'
      BY <2>1 DEF MemoryIsBounded, Allowance
    <3> QED BY <2>2, <3>2, <3>3, <3>4, <3>5 DEF IInv
  <2> QED BY <2>1, <2>3, <2>4
<1>4. ASSUME NEW crc \in Crc, Keep(inflated, crc), pending' = NoRecord, inflated' = 0,
             UNCHANGED <<end, listed>>
      PROVE  IInv'
  BY <1>1, <1>4, KeepInv
<1> QED BY <1>2, <1>3, <1>4 DEF Stream

LEMMA CentralInv ==
  ASSUME IInv, Central, UNCHANGED <<size, aborted, late>>
  PROVE  IInv'
<1>1. CASE ReadFails
  BY <1>1, ReadFailsInv
<1>2. CASE ~ReadFails
  <2>1. PICK c \in [header : Header, at : 0 .. end.start] :
             /\ Describes(c) /\ offset' = offset + 1 /\ listed' = Append(listed, c)
    BY <1>2 DEF Central
  <2>2. UNCHANGED <<size, end, totals, pending, inflated, locals, kept, aborted, late>>
    BY <1>2 DEF Central
  <2>3. /\ pc = "central" /\ outcome = "none" /\ inflated = 0 /\ end.start = EndOf(locals)
        /\ end.start <= end.limit
        /\ offset \in Nat /\ listed \in Seq(Record) /\ locals \in Seq(Record)
    BY DEF Central, IInv, Placed, TypeOK
  <2>4. /\ \/ pc' = "central" /\ outcome' = "none"
           \/ /\ pc' = "settled"
              /\ \/ outcome' \in {"cancelled", "limit", "invalid"}
                 \/ /\ outcome' = "published"
                    /\ Len(listed') = end'.entries /\ Len(locals) = Len(listed')
    <3>1. CASE ReadsNext("central")
      BY <2>3, <3>1 DEF ReadsNext
    <3>2. CASE Publishes(totals, locals, listed')
      BY <3>2, PublishesEffect
    <3> QED BY <1>2, <3>1, <3>2 DEF Central
  <2>5. c \in Entries(locals) /\ c \in Record
    <3>1. c \in Entries(locals)
      BY <2>1 DEF Describes
    <3> QED BY <2>3, <3>1 DEF Entries
  <2>6. /\ listed' \in Seq(Record) /\ Entries(listed') = Entries(listed) \cup {c}
        /\ DOMAIN listed' = DOMAIN listed \cup {Len(listed) + 1}
        /\ listed'[Len(listed) + 1] = c
        /\ \A i \in DOMAIN listed : listed'[i] = listed[i]
    BY <2>1, <2>3, <2>5, EntriesOfAppend
  <2>7. TypeOK'
    BY <2>1, <2>2, <2>3, <2>4, <2>6 DEF IInv, TypeOK, Outcome
  <2>8. Placed'
    BY <2>2, <2>3, <2>4 DEF Placed, EndOf
  <2>9. Listing(listed', locals')
    <3>1. \A i \in DOMAIN listed : listed[i].header.path # c.header.path
      BY <2>1 DEF Describes, Entries
    <3>2. Entries(listed') \subseteq Entries(locals')
      BY <2>2, <2>5, <2>6 DEF IInv, Listing
    <3> QED BY <2>6, <3>1, <3>2 DEF IInv, Listing
  <2>10. Layout(locals)'
    BY <2>2 DEF IInv, Layout
  <2>11. (Entries(kept) = Declared(locals))'
    <3>1. Entries(kept') = Entries(kept) /\ Entries(locals') = Entries(locals)
      BY <2>2
    <3> QED BY <3>1 DEF IInv, Declared
  <2>12. PublishedInFull'
    BY <2>2, <2>3, <2>4 DEF PublishedInFull, EndOf
  <2>13. MemoryIsBounded'
    BY <2>2 DEF IInv, MemoryIsBounded, Allowance
  <2> QED BY <2>7, <2>8, <2>9, <2>10, <2>11, <2>12, <2>13 DEF IInv
<1> QED BY <1>1, <1>2

\* The clock and the caller change nothing of the reading.
LEMMA OutsideInv ==
  ASSUME IInv, UNCHANGED <<size, progress>>, aborted' \in BOOLEAN, late' \in BOOLEAN
  PROVE  IInv'
<1>1. UNCHANGED <<size, end, pc, offset, totals, pending, inflated, locals, kept, listed, outcome>>
  BY DEF progress
<1>2. TypeOK'
  <2>1. aborted' \in BOOLEAN /\ late' \in BOOLEAN
    BY Zenon
  <2> QED BY <1>1, <2>1 DEF IInv, TypeOK
<1>3. Placed'
  BY <1>1 DEF IInv, Placed, EndOf, PendingFits, Entries, Allowance
<1>4. Layout(locals)' /\ (Entries(kept) = Declared(locals))' /\ Listing(listed, locals)'
  BY <1>1, SameContents
<1>5. PublishedInFull'
  BY <1>1 DEF IInv, PublishedInFull, EndOf
<1>6. MemoryIsBounded'
  BY <1>1 DEF IInv, MemoryIsBounded, Allowance
<1> QED BY <1>2, <1>3, <1>4, <1>5, <1>6 DEF IInv

LEMMA StepInv ==
  ASSUME IInv, [Next]_vars
  PROVE  IInv'
<1>1. CASE Step /\ UNCHANGED <<size, aborted, late>>
  BY <1>1, StartInv, FooterInv, LocalHeaderInv, BodyInv, StreamInv, CentralInv DEF Step
<1>2. aborted \in BOOLEAN /\ late \in BOOLEAN
  BY DEF IInv, TypeOK
<1>3. CASE Abort
  BY <1>2, <1>3, OutsideInv DEF Abort
<1>4. CASE Clock
  BY <1>2, <1>4, OutsideInv DEF Clock
<1>5. CASE UNCHANGED vars
  BY <1>2, <1>5, OutsideInv DEF vars
<1> QED BY <1>1, <1>3, <1>4, <1>5 DEF Next

----------------------------------------------------------------------------
\* The reading of every archive stays inside IInv.
THEOREM Invariance == Spec => []IInv
<1>1. Init => IInv
  BY InitInv
<1>2. IInv /\ [Next]_vars => IInv'
  BY StepInv
<1> QED BY <1>1, <1>2, PTL DEF Spec

\* The variables keep their types, for any budget, names and checksums.
THEOREM TypeCorrect == Spec => []TypeOK
<1>1. IInv => TypeOK
  BY DEF IInv
<1> QED BY <1>1, Invariance, PTL

\* The bytes that readStrictZip holds never exceed the budget, however large the
\* archive and whatever its headers and streams say.
THEOREM MemoryStaysBounded == Spec => []MemoryIsBounded
<1>1. IInv => MemoryIsBounded
  BY DEF IInv
<1> QED BY <1>1, Invariance, PTL

\* Entries that are handed out are all of the archive, each once, with the sizes
\* and checksums it declares.
THEOREM PublishedWhole == Spec => []PublishedIsWhole
<1>1. IInv => PublishedIsWhole
  <2> SUFFICES ASSUME IInv, outcome = "published" PROVE PublishedIsWhole
    BY DEF PublishedIsWhole
  <2>1. /\ end.start = EndOf(locals) /\ Len(listed) = Len(locals) /\ Len(locals) = end.entries
    BY DEF IInv, PublishedInFull
  <2>2. locals \in Seq(Record) /\ listed \in Seq(Record)
    BY DEF IInv, TypeOK
  <2>3. Entries(listed) = Entries(locals)
    BY <2>1, <2>2, FullListing DEF IInv
  <2>4. \A i \in DOMAIN locals :
          /\ locals[i].at = (IF i = 1 THEN 0
                             ELSE locals[i - 1].at + 1 + locals[i - 1].header.csize)
          /\ i = Len(locals) => locals[i].at + 1 + locals[i].header.csize = end.start
    <3> SUFFICES ASSUME NEW i \in DOMAIN locals
                 PROVE  /\ locals[i].at = (IF i = 1 THEN 0
                             ELSE locals[i - 1].at + 1 + locals[i - 1].header.csize)
                        /\ i = Len(locals) =>
                             locals[i].at + 1 + locals[i].header.csize = end.start
      OBVIOUS
    <3>1. locals # <<>>
      BY <2>2
    <3> QED BY <2>1, <3>1 DEF IInv, Layout, EndOf
  <2>5. \A i, k \in DOMAIN locals :
          locals[i].header.path.name = locals[k].header.path.name => i = k
    BY DEF IInv, Layout
  <2> QED BY <2>1, <2>3, <2>4, <2>5 DEF IInv, Declared, PublishedIsWhole
<1> QED BY <1>1, Invariance, PTL

\* No step publishes after an abort or beyond the time limit, and after an abort
\* the reading takes no step but the one that settles it.
THEOREM Obedience == Spec => StopsOnTime
<1> DEFINE OnTime ==
      /\ outcome' # outcome /\ outcome' = "published" => ~aborted /\ ~late
      /\ aborted /\ progress' # progress => pc' = "settled"
<1>1. ASSUME IInv, Step, UNCHANGED <<size, aborted, late>> PROVE OnTime
  <2>1. CASE Start
    BY <2>1 DEF Start, Checked, Settles, ReadsNext, IInv, Placed
  <2>2. CASE ReadFails
    BY <2>2 DEF ReadFails, Settles
  <2>3. CASE Footer /\ ~ReadFails
    <3>1. PICK e \in [start : 0 .. size, limit : 0 .. size, entries : Counts] :
            ~aborted /\ e.start <= e.limit /\ e.limit < size /\ end' = e /\ offset' = 0
            /\ GoesOn(totals, locals)
      BY <2>3 DEF Footer
    <3>2. size \in Nat /\ e.start \in Nat /\ e.limit \in Nat /\ outcome = "none"
      BY <1>1, <2>3, BudgetAssumption DEF IInv, TypeOK, Placed, Footer
    <3> QED BY <3>1, <3>2, GoesOnEffect
  <2>4. CASE LocalHeader /\ ~ReadFails
    <3>1. ~aborted
      BY <2>4 DEF LocalHeader
    <3>2. PICK h \in Header :
            /\ Accepts(h)
            /\ \/ Settles("limit")
               \/ Appends(h, Counted(h))
               \/ ReadsNext("body")
      BY <2>4 DEF LocalHeader
    <3>3. CASE Settles("limit") \/ ReadsNext("body")
      BY <3>1, <3>3 DEF Settles, ReadsNext
    <3>4. CASE Appends(h, Counted(h))
      <4>1. /\ totals \in [files : Nat, compressed : Nat, observed : Nat] /\ h.csize \in Nat
            /\ UNCHANGED <<end, listed>> /\ pc \in {"local", "body", "stream"}
        BY <1>1, <2>4, HeaderSizes DEF LocalHeader, IInv, TypeOK
      <4>2. Counted(h) \in [files : Nat, compressed : Nat, observed : Nat]
        BY <4>1, CountedType
      <4> QED BY <1>1, <3>1, <3>2, <3>4, <4>1, <4>2, AppendsEffect DEF Accepts
    <3> QED BY <3>2, <3>3, <3>4
  <2>5. CASE Body /\ ~ReadFails
    <3>1. ~aborted /\ pc = "body" /\ inflated = 0 /\ pending.csize \in Nat
      BY <1>1, <2>5, HeaderSizes DEF Body, IInv, Placed, PendingFits
    <3>2. CASE ReadsNext("stream")
      BY <3>1, <3>2 DEF ReadsNext
    <3>3. ASSUME NEW crc \in Crc, Keep(pending.csize, crc), pending' = NoRecord,
                 UNCHANGED <<end, inflated, listed>>
          PROVE  OnTime
      BY <1>1, <3>1, <3>3, KeepInv
    <3> QED BY <2>5, <3>2, <3>3 DEF Body
  <2>6. CASE Stream
    <3>1. pc = "stream" /\ inflated \in Nat /\ outcome = "none"
      BY <1>1, <2>6 DEF Stream, IInv, Placed, TypeOK
    <3>2. CASE Settles("invalid")
      BY <3>2 DEF Settles
    <3>3. ASSUME NEW n, Chunk(n) PROVE OnTime
      BY <3>1, <3>3 DEF Chunk, Settles, ReadsNext
    <3>4. ASSUME NEW crc \in Crc, Keep(inflated, crc), pending' = NoRecord, inflated' = 0,
                 UNCHANGED <<end, listed>>
          PROVE  OnTime
      BY <1>1, <3>1, <3>4, KeepInv
    <3> QED BY <2>6, <3>2, <3>3, <3>4 DEF Stream
  <2>7. CASE Central /\ ~ReadFails
    <3>1. ~aborted
      BY <2>7 DEF Central
    <3>2. CASE ReadsNext("central")
      BY <3>1, <3>2 DEF ReadsNext
    <3>3. CASE Publishes(totals, locals, listed')
      BY <3>3, PublishesEffect
    <3> QED BY <2>7, <3>2, <3>3 DEF Central
  <2> QED BY <1>1, <2>1, <2>2, <2>3, <2>4, <2>5, <2>6, <2>7 DEF Step
<1>2. IInv /\ [Next]_vars => [OnTime]_vars
  <2>1. CASE Abort \/ Clock
    BY <2>1 DEF Abort, Clock, progress
  <2> QED BY <1>1, <2>1 DEF Next
<1> QED BY <1>2, Invariance, PTL DEF Spec, StopsOnTime
=============================================================================
