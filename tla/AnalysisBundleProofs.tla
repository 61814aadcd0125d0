------------------------ MODULE AnalysisBundleProofs ------------------------
(***************************************************************************)
(* Theorems about AnalysisBundle, for any project, edits and alterations:   *)
(* what hydrates is closed, and what hydrates under the captured digest is  *)
(* the captured bundle.                                                     *)
(***************************************************************************)
EXTENDS AnalysisBundle, FiniteSetTheorems, FunctionTheorems, TLAPS

Names == {"header", "roots", "requirements", "packages", "content", "unknown",
          "source_digest", "bundle_digest"}

Shaped(m) == DOMAIN m = Names /\ m = [n \in Names |-> m[n]]

\* What CaptureBundle made is sealed and has the content it captured.
Made ==
  /\ Shaped(manifest)
  /\ manifest.bundle_digest = BundleDigest(manifest)
  /\ manifest.content = {[path |-> f, digest |-> captured[f]] : f \in DOMAIN captured}

CaptureInv ==
  /\ pc \in {"modules", "packages", "files"} => manifest = None
  /\ pc \in {"create", "manifest", "write"} => Made
  /\ manifest # None => Made

\* Whatever became of the archive, its manifest has the fields of one.
ArchiveShaped(a) ==
  /\ a = [footer |-> a.footer, manifest |-> a.manifest, files |-> a.files]
  /\ a.manifest \notin {None, Torn} =>
       Shaped(a.manifest) /\ a.manifest.content \subseteq ContentEntry

IInv == TypeOK /\ CaptureInv /\ ArchiveShaped(archive)

----------------------------------------------------------------------------
\* Entries that are all declared, as many as are declared, and none twice: none
\* is missing.
LEMMA NoneIsMissing ==
  ASSUME NEW files, files \subseteq [path : File, data : Text \cup {Torn}],
         NEW content, content \subseteq ContentEntry,
         UniquePaths(files), UniquePaths(content),
         {[path |-> e.path, digest |-> e.data] : e \in files} \subseteq content,
         Cardinality(files) = Cardinality(content)
  PROVE  {[path |-> e.path, digest |-> e.data] : e \in files} = content
<1> DEFINE entry == [e \in files |-> [path |-> e.path, digest |-> e.data]]
           path == [c \in content |-> c.path]
<1>1. IsFiniteSet(content)
  <2>1. path \in Injection(content, File)
    BY DEF Injection, UniquePaths, ContentEntry, IsInjective
  <2> QED BY <2>1, FS_Injection, PathAssumption
<1>2. entry \in Injection(files, content)
  <2>1. entry \in [files -> content]
    OBVIOUS
  <2>2. ASSUME NEW x \in files, NEW y \in files, entry[x] = entry[y] PROVE x = y
    <3>1. entry[x].path = x.path /\ entry[y].path = y.path
      OBVIOUS
    <3> QED BY <2>2, <3>1 DEF UniquePaths
  <2> QED BY <2>1, <2>2 DEF Injection, IsInjective
<1>3. entry \in Surjection(files, content)
  BY <1>1, <1>2, FS_Injection
<1>4. ASSUME NEW c \in content PROVE \E e \in files : c = [path |-> e.path, digest |-> e.data]
  BY <1>3 DEF Surjection
<1> QED BY <1>4

\* An archive that hydrates holds exactly the content its manifest declares.
LEMMA HydratedContent ==
  ASSUME IInv, Hydrates(archive)
  PROVE  /\ Shaped(archive.manifest) /\ Parses(archive.manifest)
         /\ ParsesPackages(archive.manifest)
         /\ archive.manifest.content =
              {[path |-> e.path, digest |-> e.data] : e \in archive.files}
         /\ archive.manifest.bundle_digest =
              BundleDigest([archive.manifest EXCEPT !.content = archive.manifest.content])
<1>1. /\ archive.manifest # None /\ archive.manifest # Torn
      /\ UniquePaths(archive.files)
      /\ Parses(archive.manifest) /\ ParsesPackages(archive.manifest)
      /\ ContentFits(archive.manifest, archive.files)
  BY DEF Hydrates, Readable
<1>2. /\ Shaped(archive.manifest) /\ archive.manifest.content \subseteq ContentEntry
      /\ archive.files \subseteq [path : File, data : Text \cup {Torn}]
  BY <1>1 DEF IInv, ArchiveShaped, TypeOK
<1>3. UniquePaths(archive.manifest.content)
  BY <1>1 DEF Parses
<1>4. archive.manifest.content =
        {[path |-> e.path, digest |-> e.data] : e \in archive.files}
  BY <1>1, <1>2, <1>3, NoneIsMissing DEF ContentFits
<1> QED BY <1>1, <1>2, <1>4 DEF ContentFits

LEMMA HydratedIsClosed == IInv => SnapshotIsClosed
<1> SUFFICES ASSUME IInv, Hydrates(archive)
             PROVE  LET m == archive.manifest
                    IN  /\ \A p \in m.packages : \A f \in p.files :
                             \E e \in archive.files :
                               /\ e.path = f
                               /\ [path |-> f, digest |-> e.data] \in m.content
                        /\ \A p \in m.packages :
                             p.module = Main \/ \E r \in m.requirements : r.ref = p.module
                        /\ \A i \in m.roots \cup UNION {p.imports : p \in m.packages} :
                             i \in Inside => \E p \in m.packages : p.path = i
  BY DEF SnapshotIsClosed
<1> DEFINE m == archive.manifest
<1>1. /\ ParsesPackages(m)
      /\ m.content = {[path |-> e.path, digest |-> e.data] : e \in archive.files}
  BY HydratedContent
<1> HIDE DEF m
<1>2. ASSUME NEW p \in m.packages, NEW f \in p.files
      PROVE  \E e \in archive.files :
               e.path = f /\ [path |-> f, digest |-> e.data] \in m.content
  <2>1. PICK c \in m.content : c.path = f
    BY <1>1 DEF ParsesPackages
  <2>2. PICK e \in archive.files : c = [path |-> e.path, digest |-> e.data]
    BY <1>1
  <2>3. e.path = f
    BY <2>1, <2>2
  <2> QED BY <2>2, <2>3
<1>3. ASSUME NEW p \in m.packages
      PROVE  p.module = Main \/ \E r \in m.requirements : r.ref = p.module
  BY <1>1 DEF ParsesPackages
<1>4. ASSUME NEW i \in m.roots \cup UNION {p.imports : p \in m.packages}, i \in Inside
      PROVE  \E p \in m.packages : p.path = i
  BY <1>1, <1>4 DEF ParsesPackages
<1> QED BY <1>2, <1>3, <1>4 DEF m

\* The digest is what it covers: manifests with one digest differ in unknown
\* fields only.
LEMMA DigestCovers ==
  ASSUME NEW m, NEW n, Shaped(m), Shaped(n),
         m.bundle_digest = BundleDigest(m), n.bundle_digest = BundleDigest(n),
         m.bundle_digest = n.bundle_digest
  PROVE  Said(m) = Said(n) /\ m.content = n.content
<1>1. ASSUME NEW k, Shaped(k)
      PROVE  /\ BundleDigest(k) =
                  [x \in Names |-> IF x = "unknown" THEN {}
                                   ELSE IF x = "bundle_digest" THEN Zero ELSE k[x]]
             /\ Said(k) = [x \in Names |-> IF x = "unknown" THEN {} ELSE k[x]]
  BY <1>1 DEF Shaped, BundleDigest, Said, Names
<1>2. \A x \in Names \ {"unknown", "bundle_digest"} : m[x] = n[x]
  <2> SUFFICES ASSUME NEW x \in Names, x # "unknown", x # "bundle_digest"
               PROVE  m[x] = n[x]
    OBVIOUS
  <2>1. ASSUME NEW k, Shaped(k) PROVE BundleDigest(k)[x] = k[x]
    <3>1. BundleDigest(k) = [y \in Names |-> IF y = "unknown" THEN {}
                              ELSE IF y = "bundle_digest" THEN Zero ELSE k[y]]
      BY <1>1, <2>1
    <3> HIDE DEF Names
    <3> QED BY <3>1
  <2>2. BundleDigest(m)[x] = m[x] /\ BundleDigest(n)[x] = n[x]
    BY <2>1
  <2> QED BY <2>2
<1>3. Said(m) = Said(n)
  <2>1. \A x \in Names : (IF x = "unknown" THEN {} ELSE m[x]) =
                         (IF x = "unknown" THEN {} ELSE n[x])
    BY <1>2
  <2> QED BY <1>1, <2>1
<1> QED BY <1>2, <1>3 DEF Names

LEMMA HydratedIsCaptured == IInv => TamperEvident
<1> SUFFICES ASSUME IInv, Hydrates(archive), manifest # None,
                    archive.manifest.bundle_digest = manifest.bundle_digest
             PROVE  /\ Said(archive.manifest) = Said(manifest)
                    /\ archive.files = {[path |-> f, data |-> captured[f]] : f \in DOMAIN captured}
  BY DEF TamperEvident
<1>1. Shaped(manifest) /\ manifest.bundle_digest = BundleDigest(manifest)
  BY DEF IInv, CaptureInv, Made
<1>2. manifest.content = {[path |-> f, digest |-> captured[f]] : f \in DOMAIN captured}
  BY DEF IInv, CaptureInv, Made
<1>3. [archive.manifest EXCEPT !.content = archive.manifest.content] = archive.manifest
  BY HydratedContent DEF Shaped
<1>4. /\ Shaped(archive.manifest)
      /\ archive.manifest.bundle_digest = BundleDigest(archive.manifest)
  BY <1>3, HydratedContent
<1>5. Said(archive.manifest) = Said(manifest) /\ archive.manifest.content = manifest.content
  BY <1>1, <1>4, DigestCovers
<1>6. {[path |-> e.path, digest |-> e.data] : e \in archive.files} =
        {[path |-> f, digest |-> captured[f]] : f \in DOMAIN captured}
  BY <1>2, <1>5, HydratedContent
<1>7. archive.files \subseteq [path : File, data : Text \cup {Torn}]
  BY DEF IInv, TypeOK
<1>8. ASSUME NEW e \in archive.files
      PROVE  e \in {[path |-> f, data |-> captured[f]] : f \in DOMAIN captured}
  <2>1. PICK f \in DOMAIN captured :
          [path |-> e.path, digest |-> e.data] = [path |-> f, digest |-> captured[f]]
    BY <1>6
  <2>2. e.path = f /\ e.data = captured[f]
    BY <2>1
  <2>3. e = [path |-> f, data |-> captured[f]]
    BY <1>7, <2>2
  <2> QED BY <2>3
<1>9. ASSUME NEW f \in DOMAIN captured
      PROVE  [path |-> f, data |-> captured[f]] \in archive.files
  <2>1. PICK e \in archive.files :
          [path |-> e.path, digest |-> e.data] = [path |-> f, digest |-> captured[f]]
    BY <1>6
  <2>2. e.path = f /\ e.data = captured[f]
    BY <2>1
  <2>3. e = [path |-> f, data |-> captured[f]]
    BY <1>7, <2>2
  <2> QED BY <2>3
<1> QED BY <1>5, <1>8, <1>9

----------------------------------------------------------------------------
\* The steps of a capture.  Those before the archive is made leave it alone.
LEMMA ArchiveFields ==
  ASSUME NEW a, ArchiveShaped(a), NEW v
  PROVE  /\ [a EXCEPT !.manifest = v] =
              [footer |-> a.footer, manifest |-> v, files |-> a.files]
         /\ [a EXCEPT !.files = v] =
              [footer |-> a.footer, manifest |-> a.manifest, files |-> v]
         /\ [a EXCEPT !.footer = v] =
              [footer |-> v, manifest |-> a.manifest, files |-> a.files]
BY DEF ArchiveShaped

LEMMA EndsKeeps ==
  ASSUME IInv, pc' \in Ended, UNCHANGED <<inventory, captured, manifest>>,
         UNCHANGED <<project, tampers>>,
         archive'.footer \in BOOLEAN, ArchiveShaped(archive'),
         archive'.files \subseteq [path : File, data : Text \cup {Torn}]
  PROVE  IInv'
BY DEF IInv, TypeOK, CaptureInv, Made, Ended, project

LEMMA ListModulesKeeps ==
  ASSUME IInv, ListModules, UNCHANGED <<project, tampers>>
  PROVE  IInv'
BY DEF IInv, TypeOK, CaptureInv, Made, ListModules, project, Ended

LEMMA ListPackagesKeeps ==
  ASSUME IInv, ListPackages, UNCHANGED <<project, tampers>>
  PROVE  IInv'
<1>1. ASSUME NEW p \in Listed
      PROVE  /\ p \in Package
             /\ GoFiles(p) \in SUBSET File
             /\ ImportsOf(p) \in SUBSET UNION {Imports[t] : t \in Text}
  BY PathAssumption DEF Listed, Package, GoFiles, ImportsOf
<1>2. inventory' \subseteq PackageEntry
  BY <1>1 DEF ListPackages, PackageEntry
<1> QED BY <1>2 DEF IInv, TypeOK, CaptureInv, Made, ListPackages, project, Ended

LEMMA ReadSourceKeeps ==
  ASSUME IInv, NEW f \in File, ReadSource(f), UNCHANGED <<project, tampers>>
  PROVE  IInv'
<1>1. /\ DOMAIN captured' \subseteq File
      /\ \A g \in DOMAIN captured' : captured'[g] \in Text
  BY DEF ReadSource, IInv, TypeOK
<1> QED BY <1>1 DEF IInv, TypeOK, CaptureInv, Made, ReadSource, project, Ended

\* Sealing keeps the shape and makes the digest fit.
LEMMA SealedFits ==
  ASSUME NEW m, Shaped(m)
  PROVE  /\ Shaped(Sealed(m)) /\ Sealed(m).bundle_digest = BundleDigest(Sealed(m))
         /\ \A x \in Names \ {"source_digest", "bundle_digest"} : Sealed(m)[x] = m[x]
<1> DEFINE s == [m EXCEPT !.source_digest = SourceDigest(m.content)]
           d == BundleDigest(s)
           t == [s EXCEPT !.bundle_digest = d]
<1>1. Sealed(m) = t
  BY DEF Sealed
<1>2. Shaped(s) /\ \A x \in Names \ {"source_digest"} : s[x] = m[x]
  BY DEF Shaped, Names
<1> HIDE DEF s, d
<1>3. /\ Shaped(t) /\ t.bundle_digest = d
      /\ \A x \in Names \ {"bundle_digest"} : t[x] = s[x]
  BY <1>2 DEF Shaped, Names
<1> HIDE DEF t
<1>4. BundleDigest(t) = BundleDigest(s)
  <2>1. ASSUME NEW k, Shaped(k)
        PROVE  BundleDigest(k) =
                 [x \in Names |-> IF x = "unknown" THEN {}
                                  ELSE IF x = "bundle_digest" THEN Zero ELSE k[x]]
    BY <2>1 DEF Shaped, BundleDigest, Names
  <2>2. \A x \in Names :
          (IF x = "unknown" THEN {} ELSE IF x = "bundle_digest" THEN Zero ELSE t[x]) =
          (IF x = "unknown" THEN {} ELSE IF x = "bundle_digest" THEN Zero ELSE s[x])
    BY <1>3
  <2> QED BY <1>2, <1>3, <2>1, <2>2
<1> QED BY <1>1, <1>2, <1>3, <1>4 DEF d

\* What CaptureBundle assembles is a manifest.
LEMMA DraftType ==
  ASSUME IInv, Assemble
  PROVE  /\ Shaped(Draft) /\ Shaped(Sealed(Draft)) /\ Sealed(Draft) \in Manifests
         /\ Sealed(Draft).content = {[path |-> f, digest |-> captured[f]] : f \in DOMAIN captured}
<1> DEFINE sourced == [Draft EXCEPT !.source_digest = SourceDigest(Draft.content)]
<1>0. /\ Shaped(Draft)
      /\ Draft.content = {[path |-> f, digest |-> captured[f]] : f \in Selected}
      /\ sourced = [Draft EXCEPT !.source_digest =
                      {[path |-> f, digest |-> captured[f]] : f \in Selected}]
  BY DEF Shaped, Names, Draft, SourceDigest
<1>1. /\ Shaped(Draft)
      /\ sourced = [header |-> Options, roots |-> {p.path : p \in inventory},
                    requirements |-> requires, packages |-> inventory,
                    content |-> {[path |-> f, digest |-> captured[f]] : f \in Selected},
                    unknown |-> {},
                    source_digest |-> {[path |-> f, digest |-> captured[f]] : f \in Selected},
                    bundle_digest |-> Zero]
  <2> HIDE DEF sourced
  <2> QED BY <1>0 DEF Draft
<1>2. /\ Options \in Header /\ {p.path : p \in inventory} \in SUBSET Package
      /\ requires \in SUBSET Requirement /\ inventory \in SUBSET PackageEntry
      /\ {[path |-> f, digest |-> captured[f]] : f \in Selected} \in SUBSET ContentEntry
  BY ValueAssumption DEF Assemble, IInv, TypeOK, PackageEntry, ContentEntry
<1>3. sourced \in Manifest({Zero})
  BY <1>1, <1>2 DEF Manifest
<1>4. BundleDigest(sourced) = sourced
  BY <1>1 DEF BundleDigest
<1>5. Sealed(Draft) = [sourced EXCEPT !.bundle_digest = sourced]
  BY <1>4 DEF Sealed
<1>6. [sourced EXCEPT !.bundle_digest = sourced] \in Manifests
  <2> HIDE DEF sourced
  <2> QED BY <1>3 DEF Manifests, Manifest
<1>7. Shaped(Sealed(Draft)) /\ Sealed(Draft).content = Draft.content
  BY <1>1, SealedFits DEF Names
<1> QED BY <1>1, <1>5, <1>6, <1>7 DEF Assemble, Draft

LEMMA AssembleKeeps ==
  ASSUME IInv, Assemble, UNCHANGED <<project, tampers>>
  PROVE  IInv'
<1>1. /\ manifest' = Sealed(Draft) /\ manifest' \in Manifests /\ Shaped(manifest')
      /\ manifest'.bundle_digest = BundleDigest(manifest')
      /\ manifest'.content = {[path |-> f, digest |-> captured[f]] : f \in DOMAIN captured}
  BY DraftType, SealedFits DEF Assemble
<1>2. /\ pc' = "create"
      /\ UNCHANGED <<inventory, captured, archive, source, edits, requires, tampers>>
  BY DEF Assemble, project
<1>3. TypeOK'
  BY <1>1, <1>2 DEF IInv, TypeOK, Ended
<1>4. CaptureInv'
  BY <1>1, <1>2 DEF CaptureInv, Made
<1> QED BY <1>2, <1>3, <1>4 DEF IInv

----------------------------------------------------------------------------
\* The steps of writeBundle write entries of the manifest and of what is captured.
LEMMA WritingKeeps ==
  ASSUME IInv, pc' \in {"manifest", "write"}, pc \in {"create", "manifest", "write"},
         UNCHANGED <<inventory, captured, manifest>>,
         UNCHANGED <<project, tampers>>,
         archive'.footer \in BOOLEAN, ArchiveShaped(archive'),
         archive'.files \subseteq [path : File, data : Text \cup {Torn}]
  PROVE  IInv'
BY DEF IInv, TypeOK, CaptureInv, Made, project

LEMMA CreateKeeps ==
  ASSUME IInv, Create, UNCHANGED <<project, tampers>>
  PROVE  IInv'
<1>1. ArchiveShaped(NoArchive) /\ NoArchive.footer \in BOOLEAN /\ NoArchive.files = {}
  BY DEF ArchiveShaped, NoArchive
<1> QED BY <1>1, WritingKeeps DEF Create

\* What is declared was read.
LEMMA MadeContent ==
  ASSUME IInv, pc \in {"create", "manifest", "write"}
  PROVE  /\ Shaped(manifest) /\ manifest.content \subseteq ContentEntry
         /\ \A c \in manifest.content : c.path \in File /\ captured[c.path] \in Text
BY DEF IInv, TypeOK, CaptureInv, Made, ContentEntry

LEMMA WriteManifestKeeps ==
  ASSUME IInv, WriteManifest, UNCHANGED <<project, tampers>>
  PROVE  IInv'
<1>1. archive' = [footer |-> archive.footer, manifest |-> manifest, files |-> archive.files]
  BY ArchiveFields DEF IInv, WriteManifest
<1>2. ArchiveShaped(archive')
  BY <1>1, MadeContent DEF ArchiveShaped, WriteManifest
<1> QED BY <1>1, <1>2, WritingKeeps DEF WriteManifest, IInv, TypeOK

LEMMA WriteFileKeeps ==
  ASSUME IInv, pc = "write", NEW c \in Unwritten, WriteFile(c), UNCHANGED <<project, tampers>>
  PROVE  IInv'
<1> DEFINE e == [path |-> c.path, data |-> captured[c.path]]
<1>1. e \in [path : File, data : Text \cup {Torn}]
  BY MadeContent DEF Unwritten
<1> HIDE DEF e
<1>2. archive' = [footer |-> archive.footer, manifest |-> archive.manifest,
                  files |-> archive.files \cup {e}]
  BY ArchiveFields DEF IInv, WriteFile, e
<1>3. ArchiveShaped(archive')
  BY <1>2 DEF IInv, ArchiveShaped
<1> QED BY <1>1, <1>2, <1>3, WritingKeeps DEF WriteFile, IInv, TypeOK, capture

LEMMA CloseKeeps ==
  ASSUME IInv, Close, UNCHANGED <<project, tampers>>
  PROVE  IInv'
<1>1. archive' = [footer |-> TRUE, manifest |-> archive.manifest, files |-> archive.files]
  BY ArchiveFields DEF IInv, Close
<1>2. ArchiveShaped(archive')
  BY <1>1 DEF IInv, ArchiveShaped
<1> QED BY <1>1, <1>2, EndsKeeps DEF Close, Ends, Ended, IInv, TypeOK

LEMMA WriteFailsKeeps ==
  ASSUME IInv, WriteFails, UNCHANGED <<project, tampers>>
  PROVE  IInv'
<1>1. pc' \in Ended /\ UNCHANGED <<inventory, captured, manifest>>
  BY DEF WriteFails, Ends, Ended
<1>2. archive.files \subseteq [path : File, data : Text \cup {Torn}] /\ ArchiveShaped(archive)
      /\ archive.footer \in BOOLEAN
  BY DEF IInv, TypeOK
<1> SUFFICES /\ ArchiveShaped(archive') /\ archive'.footer \in BOOLEAN
             /\ archive'.files \subseteq [path : File, data : Text \cup {Torn}]
  BY <1>1, EndsKeeps
<1>3. CASE archive' \in [footer : BOOLEAN, manifest : {Torn}, files : {{}}]
  <2>1. ArchiveShaped(archive')
    BY <1>3 DEF ArchiveShaped
  <2> QED BY <1>3, <2>1
<1>4. CASE pc = "write" /\ \E c \in Unwritten :
             archive' \in [footer : BOOLEAN, manifest : {archive.manifest},
                           files : {archive.files \cup {[path |-> c.path, data |-> Torn]}}]
  <2>1. PICK c \in Unwritten :
             archive' \in [footer : BOOLEAN, manifest : {archive.manifest},
                           files : {archive.files \cup {[path |-> c.path, data |-> Torn]}}]
    BY <1>4
  <2>2. c.path \in File
    BY <1>4, MadeContent DEF Unwritten
  <2>3. ArchiveShaped(archive') /\ archive'.footer \in BOOLEAN
    BY <1>2, <2>1 DEF ArchiveShaped
  <2>4. archive'.files \subseteq [path : File, data : Text \cup {Torn}]
    BY <1>2, <2>1, <2>2
  <2> QED BY <2>3, <2>4
<1>5. CASE archive' \in {archive, [archive EXCEPT !.footer = TRUE]}
  <2>1. CASE archive' = archive
    BY <1>2, <2>1
  <2>2. CASE archive' = [footer |-> TRUE, manifest |-> archive.manifest,
                         files |-> archive.files]
    <3>1. ArchiveShaped(archive')
      BY <1>2, <2>2 DEF ArchiveShaped
    <3> QED BY <1>2, <2>2, <3>1
  <2> QED BY <1>2, <1>5, <2>1, <2>2, ArchiveFields
<1> QED BY <1>3, <1>4, <1>5 DEF WriteFails

----------------------------------------------------------------------------
\* An altered manifest is still one, of whatever content.
LEMMA AlteredManifestShape ==
  ASSUME IInv, archive.manifest \notin {None, Torn}, NEW m \in AlteredManifests
  PROVE  Shaped(m) /\ m.content \subseteq ContentEntry
<1> DEFINE a == archive.manifest
<1>1. Shaped(a) /\ a.content \subseteq ContentEntry
  BY DEF IInv, ArchiveShaped
<1> HIDE DEF a
<1>2. ASSUME NEW v
      PROVE  /\ Shaped([a EXCEPT !.header = v]) /\ [a EXCEPT !.header = v].content = a.content
             /\ Shaped([a EXCEPT !.roots = v]) /\ [a EXCEPT !.roots = v].content = a.content
             /\ Shaped([a EXCEPT !.requirements = v])
             /\ [a EXCEPT !.requirements = v].content = a.content
             /\ Shaped([a EXCEPT !.packages = v]) /\ [a EXCEPT !.packages = v].content = a.content
             /\ Shaped([a EXCEPT !.unknown = v]) /\ [a EXCEPT !.unknown = v].content = a.content
             /\ Shaped([a EXCEPT !.content = v]) /\ [a EXCEPT !.content = v].content = v
  BY <1>1 DEF Shaped, Names
<1>3. CASE m \in {[a EXCEPT !.header = h] : h \in Header}
  <2>1. PICK h \in Header : m = [a EXCEPT !.header = h]
    BY <1>3
  <2> QED BY <1>1, <1>2, <2>1
<1>4. CASE m \in {[a EXCEPT !.roots = r] : r \in SUBSET Package}
  <2>1. PICK r \in SUBSET Package : m = [a EXCEPT !.roots = r]
    BY <1>4
  <2> QED BY <1>1, <1>2, <2>1
<1>5. CASE \/ m \in {[a EXCEPT !.requirements = @ \ {r}] : r \in a.requirements}
           \/ m \in {[a EXCEPT !.requirements = @ \cup {r}] : r \in Requirement}
  <2>1. ASSUME NEW r, m = [a EXCEPT !.requirements = a.requirements \ {r}]
        PROVE  Shaped(m) /\ m.content \subseteq ContentEntry
    BY <1>1, <1>2, <2>1
  <2>2. ASSUME NEW r, m = [a EXCEPT !.requirements = a.requirements \cup {r}]
        PROVE  Shaped(m) /\ m.content \subseteq ContentEntry
    BY <1>1, <1>2, <2>2
  <2> QED BY <1>5, <2>1, <2>2
<1>6. CASE m \in {[a EXCEPT !.packages = @ \ {p}] : p \in a.packages}
  <2>1. PICK p \in a.packages : m = [a EXCEPT !.packages = a.packages \ {p}]
    BY <1>6
  <2> QED BY <1>1, <1>2, <2>1
<1>7. CASE m \in UNION {{[a EXCEPT !.packages = (@ \ {p}) \cup {q}] : q \in AlteredPackages(p)}
                          : p \in a.packages}
  <2>1. PICK p \in a.packages :
          m \in {[a EXCEPT !.packages = (@ \ {p}) \cup {q}] : q \in AlteredPackages(p)}
    BY <1>7
  <2>2. PICK q \in AlteredPackages(p) : m = [a EXCEPT !.packages = (@ \ {p}) \cup {q}]
    BY <2>1
  <2> QED BY <1>1, <1>2, <2>2
<1>8. CASE m \in {[a EXCEPT !.content = @ \ {c}] : c \in a.content}
  <2>1. PICK c \in a.content : m = [a EXCEPT !.content = a.content \ {c}]
    BY <1>8
  <2> QED BY <1>1, <1>2, <2>1
<1>9. CASE m \in {[a EXCEPT !.content = @ \cup {c}] : c \in Likely}
  <2>1. PICK c \in ContentEntry : m = [a EXCEPT !.content = a.content \cup {c}]
    BY <1>9 DEF Likely
  <2>2. a.content \cup {c} \subseteq ContentEntry
    BY <1>1
  <2> QED BY <1>2, <2>1, <2>2
<1>10. CASE m = [a EXCEPT !.unknown = {"field"}]
  BY <1>1, <1>2, <1>10
<1> QED BY <1>3, <1>4, <1>5, <1>6, <1>7, <1>8, <1>9, <1>10 DEF AlteredManifests, a

LEMMA TamperKeeps ==
  ASSUME IInv, Tamper
  PROVE  IInv'
<1>1. /\ archive.manifest \notin {None, Torn}
      /\ tampers' \in 0 .. MaxTampers
      /\ UNCHANGED <<source, edits, requires, pc, inventory, captured, manifest>>
  BY BoundAssumption DEF Tamper, IInv, TypeOK, project, capture
<1>2. /\ archive.files \subseteq [path : File, data : Text \cup {Torn}]
      /\ ArchiveShaped(archive) /\ archive.footer \in BOOLEAN
  BY DEF IInv, TypeOK
<1>3. /\ ArchiveShaped(archive') /\ archive'.footer = archive.footer
      /\ archive'.files \subseteq [path : File, data : Text \cup {Torn}]
  <2>1. CASE \E files \in AlteredFiles : archive' = [archive EXCEPT !.files = files]
    <3>1. PICK files \in AlteredFiles : archive' = [archive EXCEPT !.files = files]
      BY <2>1
    <3>2. files \subseteq [path : File, data : Text \cup {Torn}]
      BY <1>2 DEF AlteredFiles, Likely, ContentEntry
    <3>3. archive' = [footer |-> archive.footer, manifest |-> archive.manifest, files |-> files]
      BY <1>2, <3>1, ArchiveFields
    <3> QED BY <1>2, <3>2, <3>3 DEF ArchiveShaped
  <2>2. ASSUME NEW m, Shaped(m), m.content \subseteq ContentEntry,
               archive' = [archive EXCEPT !.manifest = m]
        PROVE  /\ ArchiveShaped(archive') /\ archive'.footer = archive.footer
               /\ archive'.files = archive.files
    <3>1. archive' = [footer |-> archive.footer, manifest |-> m, files |-> archive.files]
      BY <1>2, <2>2, ArchiveFields
    <3> QED BY <2>2, <3>1 DEF ArchiveShaped
  <2>3. ASSUME NEW m \in AlteredManifests,
               archive' \in {[archive EXCEPT !.manifest = m],
                             [archive EXCEPT !.manifest = Sealed(m)]}
        PROVE  /\ ArchiveShaped(archive') /\ archive'.footer = archive.footer
               /\ archive'.files = archive.files
    <3>1. Shaped(m) /\ m.content \subseteq ContentEntry
      BY <1>1, AlteredManifestShape
    <3>2. Shaped(Sealed(m)) /\ Sealed(m).content \subseteq ContentEntry
      BY <3>1, SealedFits DEF Names
    <3> QED BY <2>2, <2>3, <3>1, <3>2
  <2> QED BY <1>2, <2>1, <2>3 DEF Tamper
<1> QED BY <1>1, <1>2, <1>3 DEF IInv, TypeOK, CaptureInv, Made

LEMMA EditKeeps ==
  ASSUME IInv, NEW f \in File, Edit(f)
  PROVE  IInv'
<1>1. edits' \in 0 .. MaxEdits /\ source' \in [File -> Text \cup {Absent, OnlyTests}]
  BY BoundAssumption, ValueAssumption DEF Edit, IInv, TypeOK
<1> QED BY <1>1 DEF Edit, IInv, TypeOK, CaptureInv, Made, capture

----------------------------------------------------------------------------
LEMMA InitInv == Init => IInv
<1> SUFFICES ASSUME Init PROVE IInv
  OBVIOUS
<1>1. requires \subseteq Requirement
  <2>1. (CHOOSE s \in Sum : TRUE) \in Sum
    BY ValueAssumption
  <2> QED BY <2>1 DEF Init, Requirement
<1>2. /\ archive.footer = FALSE /\ archive.files = {} /\ archive.manifest = None
      /\ ArchiveShaped(archive)
  BY DEF Init, NoArchive, ArchiveShaped
<1>3. /\ inventory = {} /\ captured = <<>> /\ DOMAIN captured = {}
      /\ manifest = None /\ pc = "modules"
  BY DEF Init
<1>4. edits \in 0 .. MaxEdits /\ tampers \in 0 .. MaxTampers
  BY BoundAssumption DEF Init
<1>5. TypeOK
  BY <1>1, <1>2, <1>3, <1>4 DEF Init, TypeOK
<1> QED BY <1>2, <1>3, <1>5 DEF IInv, CaptureInv

LEMMA NextInv == IInv /\ [Next]_vars => IInv'
<1> SUFFICES ASSUME IInv, [Next]_vars PROVE IInv'
  OBVIOUS
<1>1. CASE Step /\ UNCHANGED <<project, tampers>>
  <2>0. /\ ArchiveShaped(archive) /\ archive.footer \in BOOLEAN
        /\ archive.files \subseteq [path : File, data : Text \cup {Torn}]
    BY DEF IInv, TypeOK
  <2>1. CASE GivesUp
    BY <1>1, <2>0, <2>1, EndsKeeps DEF GivesUp, Ends, Ended
  <2>2. CASE ListModules
    BY <1>1, <2>2, ListModulesKeeps
  <2>3. CASE ListPackages
    BY <1>1, <2>3, ListPackagesKeeps
  <2>4. CASE Assemble
    BY <1>1, <2>4, AssembleKeeps
  <2>5. CASE \E f \in File : ReadSource(f)
    BY <1>1, <2>5, ReadSourceKeeps
  <2>6. CASE Create
    BY <1>1, <2>6, CreateKeeps
  <2>7. CASE WriteManifest
    BY <1>1, <2>7, WriteManifestKeeps
  <2>8. CASE Close
    BY <1>1, <2>8, CloseKeeps
  <2>9. CASE WriteFails
    BY <1>1, <2>9, WriteFailsKeeps
  <2>10. CASE Crash
    BY <1>1, <2>0, <2>10, EndsKeeps DEF Crash, Ends, Ended
  <2>11. CASE pc = "write" /\ \E c \in Unwritten : WriteFile(c)
    BY <1>1, <2>11, WriteFileKeeps
  <2> QED BY <1>1, <2>1, <2>2, <2>3, <2>4, <2>5, <2>6, <2>7, <2>8, <2>9, <2>10, <2>11
          DEF Step
<1>2. CASE \E f \in File : Edit(f)
  BY <1>2, EditKeeps
<1>3. CASE Tamper
  BY <1>3, TamperKeeps
<1>4. CASE UNCHANGED vars
  BY <1>4 DEF vars, project, capture, IInv, TypeOK, CaptureInv, Made
<1> QED BY <1>1, <1>2, <1>3, <1>4 DEF Next

\* The manifest of a capture is sealed over the files it read, and an altered one
\* is still a manifest (CaptureBundle, capture.go:143).
THEOREM Invariance == Spec => []IInv
<1> QED BY InitInv, NextInv, PTL DEF Spec

\* Type correctness: the fields of a capture, its manifest and its archive have
\* the types TypeOK gives them.
THEOREM TypeCorrect == Spec => []TypeOK
<1>1. IInv => TypeOK
  BY DEF IInv
<1> QED BY <1>1, Invariance, PTL

\* Whatever an archive claims, the snapshot hydrated of it is closed: roots and
\* imports of the main module are in it, and so is each file of each package
\* (hydrateAnalysisBundle and parseManifest, analysis-bundle.mjs).
THEOREM SnapshotsAreClosed == Spec => []SnapshotIsClosed
<1> QED BY HydratedIsClosed, Invariance, PTL

\* What hydrates under the digest the capture reported is the captured bundle,
\* whole, however it was written and altered (computeBundleDigest, capture.go:410, and
\* hydrateAnalysisBundle, analysis-bundle.mjs:533).
THEOREM TamperingShows == Spec => []TamperEvident
<1> QED BY HydratedIsCaptured, Invariance, PTL

----------------------------------------------------------------------------
\* From the project to a bundle that hydrates.

\* What is written is what was captured.
Copied == \A e \in archive.files : e.path \in DOMAIN captured /\ e.data = captured[e.path]

\* The capture's lists are in order, the manifest is made of them, and the archive comes to
\* hold the manifest and every file it declares.
WriteInv ==
  /\ UniqueModules(requires)
  /\ pc \notin {"modules", "failed"} => Cardinality(requires) <= MaxFiles
  /\ UniquePaths(inventory) /\ \A p \in inventory : p.module = MainRef
  /\ pc \in {"create", "manifest", "write", "done"} =>
       /\ inventory # {} /\ DOMAIN captured = Selected
       /\ Cardinality(inventory) <= MaxFiles
       /\ manifest = Sealed(Draft) /\ manifest # None
  /\ pc = "manifest" => archive = NoArchive
  /\ pc = "write" => archive.manifest = manifest /\ Copied
  /\ pc = "done" /\ tampers = 0 =>
       /\ archive.manifest = manifest /\ archive.footer = TRUE /\ Copied
       /\ \A f \in Selected : \E e \in archive.files : e.path = f

LEMMA WriteInit == Init => WriteInv
<1> SUFFICES ASSUME Init PROVE WriteInv
  OBVIOUS
<1>1. UniqueModules(requires)
  <2>1. PICK s : requires \in SUBSET [ref : Ref, sum : {s}]
    BY DEF Init
  <2>2. ASSUME NEW x \in requires, NEW y \in requires, x.ref = y.ref PROVE x = y
    <3>1. x \in [ref : Ref, sum : {s}] /\ y \in [ref : Ref, sum : {s}]
      BY <2>1
    <3> QED BY <2>2, <3>1
  <2> QED BY <2>2 DEF UniqueModules
<1> QED BY <1>1 DEF Init, WriteInv, UniquePaths

\* Steps that end the capture without success, or come before the files are read.
LEMMA EarlyWrite ==
  ASSUME WriteInv, pc' \in {"packages", "files", "failed"},
         pc' # "failed" => Cardinality(requires) <= MaxFiles,
         UNCHANGED <<requires, inventory>>
  PROVE  WriteInv'
BY DEF WriteInv, UniqueModules, UniquePaths

LEMMA ListPackagesWrite ==
  ASSUME WriteInv, ListPackages, UNCHANGED requires
  PROVE  WriteInv'
<1>1. UniquePaths(inventory') /\ \A p \in inventory' : p.module = MainRef
  BY DEF ListPackages, UniquePaths
<1> QED BY <1>1 DEF WriteInv, UniqueModules, ListPackages

LEMMA AssembleWrite ==
  ASSUME IInv, WriteInv, Assemble, UNCHANGED requires
  PROVE  WriteInv'
<1>1. UNCHANGED <<inventory, captured>> /\ Draft' = Draft /\ Selected' = Selected
  BY DEF Assemble, Draft, Selected
<1>2. manifest' = Sealed(Draft) /\ manifest' # None
  BY DraftType, ManifestAssumption DEF Assemble
<1> QED BY <1>1, <1>2 DEF WriteInv, UniqueModules, UniquePaths, Assemble

\* Steps of writeBundle leave what was captured alone.
LEMMA WritingWrite ==
  ASSUME WriteInv, pc \in {"create", "manifest", "write"}, pc' \in {"manifest", "write", "done"},
         UNCHANGED <<requires, inventory, captured, manifest>>,
         pc' = "manifest" => archive' = NoArchive,
         pc' \in {"write", "done"} => archive'.manifest = manifest /\ Copied',
         pc' = "done" => /\ archive'.footer = TRUE
                         /\ \A f \in Selected : \E e \in archive'.files : e.path = f
  PROVE  WriteInv'
<1>1. Draft' = Draft /\ Selected' = Selected
  BY DEF Draft, Selected
<1> QED BY <1>1 DEF WriteInv, UniqueModules, UniquePaths

LEMMA WriteManifestWrite ==
  ASSUME IInv, WriteInv, WriteManifest, UNCHANGED requires
  PROVE  WriteInv'
<1>1. archive'.manifest = manifest /\ archive'.files = {}
  BY DEF WriteManifest, WriteInv, NoArchive
<1> QED BY <1>1, WritingWrite DEF WriteManifest, Copied

LEMMA WriteFileWrite ==
  ASSUME IInv, WriteInv, pc = "write", NEW c \in Unwritten, WriteFile(c), UNCHANGED requires
  PROVE  WriteInv'
<1>1. archive' = [footer |-> archive.footer, manifest |-> archive.manifest,
                  files |-> archive.files \cup {[path |-> c.path, data |-> captured[c.path]]}]
  BY ArchiveFields DEF IInv, WriteFile
<1>2. c.path \in DOMAIN captured
  BY DEF Unwritten, IInv, CaptureInv, Made
<1>3. archive'.manifest = manifest /\ UNCHANGED <<pc, inventory, captured, manifest>>
  BY <1>1 DEF WriteInv, WriteFile, capture
<1>4. Copied'
  BY <1>1, <1>2, <1>3 DEF WriteInv, Copied
<1> QED BY <1>3, <1>4, WritingWrite

LEMMA CloseWrite ==
  ASSUME IInv, WriteInv, Close, UNCHANGED requires
  PROVE  WriteInv'
<1>1. archive' = [footer |-> TRUE, manifest |-> archive.manifest, files |-> archive.files]
  BY ArchiveFields DEF IInv, Close
<1>2. /\ pc = "write" /\ pc' = "done" /\ UNCHANGED <<inventory, captured, manifest>>
      /\ Unwritten = {}
  BY DEF Close, Ends
<1>3. archive'.manifest = manifest /\ Copied'
  BY <1>1, <1>2 DEF WriteInv, Copied
<1>4. ASSUME NEW f \in Selected PROVE \E e \in archive'.files : e.path = f
  <2>1. [path |-> f, digest |-> captured[f]] \in manifest.content
    BY <1>2 DEF IInv, CaptureInv, Made, WriteInv
  <2>2. \E e \in archive.files : e.path = f
    BY <1>2, <2>1 DEF Unwritten
  <2> QED BY <1>1, <2>2
<1> QED BY <1>1, <1>2, <1>3, <1>4, WritingWrite

LEMMA TamperWrite == ASSUME IInv, WriteInv, Tamper PROVE WriteInv'
<1>1. tampers' # 0 /\ pc \in Ended /\ UNCHANGED <<requires, pc, inventory, captured, manifest>>
  BY BoundAssumption DEF Tamper, IInv, TypeOK, project, capture
<1>2. Draft' = Draft /\ Selected' = Selected
  BY <1>1 DEF Draft, Selected
<1> QED BY <1>1, <1>2 DEF WriteInv, UniqueModules, UniquePaths, Ended

LEMMA SameWrite ==
  ASSUME WriteInv, UNCHANGED <<requires, pc, inventory, captured, manifest, archive, tampers>>
  PROVE  WriteInv'
<1>1. Draft' = Draft /\ Selected' = Selected /\ Copied' = Copied
  BY DEF Draft, Selected, Copied
<1> QED BY <1>1 DEF WriteInv, UniqueModules, UniquePaths

LEMMA NextWrite == IInv /\ WriteInv /\ [Next]_vars => WriteInv'
<1> SUFFICES ASSUME IInv, WriteInv, [Next]_vars PROVE WriteInv'
  OBVIOUS
<1>1. CASE Step /\ UNCHANGED <<project, tampers>>
  <2>0. requires' = requires
    BY <1>1 DEF project
  <2>1. CASE GivesUp \/ WriteFails \/ Crash
    BY <2>0, <2>1, EarlyWrite DEF GivesUp, WriteFails, Crash, Ends
  <2>2. CASE ListModules \/ \E f \in File : ReadSource(f)
    BY <2>0, <2>2, EarlyWrite DEF ListModules, ReadSource, WriteInv
  <2>3. CASE ListPackages
    BY <2>0, <2>3, ListPackagesWrite
  <2>4. CASE Assemble
    BY <2>0, <2>4, AssembleWrite
  <2>5. CASE Create
    BY <2>0, <2>5, WritingWrite DEF Create
  <2>6. CASE WriteManifest
    BY <2>0, <2>6, WriteManifestWrite
  <2>7. CASE pc = "write" /\ \E c \in Unwritten : WriteFile(c)
    BY <2>0, <2>7, WriteFileWrite
  <2>8. CASE Close
    BY <2>0, <2>8, CloseWrite
  <2> QED BY <1>1, <2>1, <2>2, <2>3, <2>4, <2>5, <2>6, <2>7, <2>8 DEF Step
<1>2. CASE \E f \in File : Edit(f)
  BY <1>2, SameWrite DEF Edit, capture
<1>3. CASE Tamper
  BY <1>3, TamperWrite
<1>4. CASE UNCHANGED vars
  BY <1>4, SameWrite DEF vars, project, capture
<1> QED BY <1>1, <1>2, <1>3, <1>4 DEF Next

\* As many files are written as are declared: both lists have one entry for each file
\* that was captured.
LEMMA AsManyAsDeclared ==
  ASSUME NEW S, IsFiniteSet(S), NEW T, NEW path \in [T -> S],
         \A x, y \in T : path[x] = path[y] => x = y, \A s \in S : \E x \in T : path[x] = s
  PROVE  Cardinality(T) = Cardinality(S)
<1>1. path \in Bijection(T, S)
  BY DEF Bijection, Injection, Surjection, IsInjective
<1>2. ExistsBijection(S, T)
  BY <1>1, Fun_ExistsBijSymmetric DEF ExistsBijection
<1> QED BY <1>2, FS_Bijection

LEMMA CapturedIsComplete == IInv /\ WriteInv => CapturesHydrate
<1> SUFFICES ASSUME IInv, WriteInv, pc = "done", tampers = 0,
                    Options \in Supported, MainRef = Main, ~Nested, ~Misnamed,
                    Selected # {}, Cardinality(Selected) < MaxFiles
             PROVE  Hydrates(archive)
  BY DEF CapturesHydrate
<1> DEFINE content == {[path |-> f, digest |-> captured[f]] : f \in Selected}
           m == Sealed(Draft)
           files == archive.files
<1>1. /\ archive.manifest = m /\ archive.footer = TRUE /\ inventory # {}
      /\ manifest = m /\ DOMAIN captured = Selected
      /\ \A e \in files : e.path \in Selected /\ e.data = captured[e.path]
      /\ \A f \in Selected : \E e \in files : e.path = f
  BY DEF WriteInv, Copied
<1>2. /\ Shaped(Draft) /\ Shaped(m) /\ m.bundle_digest = BundleDigest(m)
      /\ m.header = Options /\ m.roots = {p.path : p \in inventory}
      /\ m.requirements = requires /\ m.packages = inventory /\ m.content = content
      /\ m.source_digest = content
  <2>1. Shaped(Draft)
    BY DEF Draft, Shaped, Names
  <2>2. /\ Shaped(m) /\ m.bundle_digest = BundleDigest(m)
        /\ \A x \in Names \ {"source_digest", "bundle_digest"} : m[x] = Draft[x]
    BY <2>1, SealedFits
  <2>3. m.source_digest = content
    BY <2>1 DEF Sealed, Draft, SourceDigest, Shaped, Names
  <2> QED BY <2>1, <2>2, <2>3 DEF Draft, Names
<1>3. m # None /\ m # Torn
  <2>1. manifest # None /\ manifest \in Manifests \cup {None}
    BY DEF WriteInv, IInv, TypeOK
  <2> QED BY <1>1, <2>1, ManifestAssumption
<1> HIDE DEF m
<1>4. /\ files \subseteq [path : File, data : Text \cup {Torn}]
      /\ Selected \subseteq File /\ \A f \in Selected : captured[f] \in Text
  BY <1>1 DEF IInv, TypeOK
<1>5. UniquePaths(files) /\ \A e \in files : e.path \in Fits.file /\ e.data # Torn
  BY <1>1, <1>4, ValueAssumption DEF UniquePaths, Misnamed
<1> DEFINE entry(f) == [path |-> f, digest |-> captured[f]]
<1>a. /\ \A f \in Selected : entry(f) \in content /\ entry(f).path = f
      /\ \A c \in content : c.path \in Selected /\ c = entry(c.path)
  OBVIOUS
<1>6. UniquePaths(content) /\ content # {}
  <2> HIDE DEF content, entry
  <2> QED BY <1>a DEF UniquePaths
<1>b. Cardinality(files) = Cardinality(Selected) /\ Cardinality(content) = Cardinality(Selected)
  <2>1. IsFiniteSet(Selected)
    BY <1>4, PathAssumption, FS_Subset
  <2>2. Cardinality(files) = Cardinality(Selected)
    <3> DEFINE path == [e \in files |-> e.path]
    <3>1. path \in [files -> Selected]
      BY <1>1
    <3>2. \A x, y \in files : path[x] = path[y] => x = y
      BY <1>5 DEF UniquePaths
    <3>3. \A s \in Selected : \E x \in files : path[x] = s
      BY <1>1
    <3> HIDE DEF path
    <3> QED BY <2>1, <3>1, <3>2, <3>3, AsManyAsDeclared
  <2>3. Cardinality(content) = Cardinality(Selected)
    <3> DEFINE path == [c \in content |-> c.path]
    <3>1. path \in [content -> Selected]
      OBVIOUS
    <3>2. \A x, y \in content : path[x] = path[y] => x = y
      BY <1>6 DEF UniquePaths
    <3>3. \A s \in Selected : \E x \in content : path[x] = s
      <4> HIDE DEF content, entry
      <4> QED BY <1>a
    <3> HIDE DEF path
    <3> QED BY <2>1, <3>1, <3>2, <3>3, AsManyAsDeclared
  <2> QED BY <2>2, <2>3
<1>7. Parses(m)
  <2>1. m.roots # {} /\ m.roots \subseteq Fits.root
    BY <1>1, <1>2 DEF Misnamed
  <2>2. /\ Cardinality(m.requirements) <= MaxFiles /\ UniqueModules(m.requirements)
        /\ \A r \in m.requirements : r.ref \in Fits.module /\ r.sum \in Fits.sum
    BY <1>2 DEF WriteInv, Misnamed
  <2>3. Cardinality(content) <= MaxFiles
    <3>1. IsFiniteSet(Selected)
      BY <1>4, PathAssumption, FS_Subset
    <3>2. Cardinality(Selected) \in Nat
      BY <3>1, FS_CardinalityType
    <3> QED BY <1>b, <3>2, BoundAssumption
  <2> QED BY <1>2, <1>6, <2>1, <2>2, <2>3 DEF Parses
<1>8. ParsesPackages(m)
  <2>1. \A p \in inventory : p.module = MainRef /\ p.files \subseteq {c.path : c \in content}
    <3> HIDE DEF content, entry
    <3>1. Selected \subseteq {c.path : c \in content}
      BY <1>a
    <3> QED BY <3>1 DEF WriteInv, Selected
  <2>2. \A p \in inventory : /\ p.imports \cap Inside \subseteq {q.path : q \in inventory}
                              /\ p.imports \cup {p.path} \subseteq Fits.path
    BY DEF Nested, Misnamed
  <2>3. UniquePaths(inventory) /\ Cardinality(inventory) <= MaxFiles
    BY DEF WriteInv
  <2> QED BY <1>1, <1>2, <2>1, <2>2, <2>3 DEF ParsesPackages
<1>9. {[path |-> e.path, digest |-> e.data] : e \in files} = content
  BY <1>1
<1>11. [m EXCEPT !.content = content] = m
  BY <1>2 DEF Shaped
<1>12. ContentFits(m, files)
  BY <1>2, <1>9, <1>b, <1>11 DEF ContentFits, SourceDigest
<1> QED BY <1>1, <1>3, <1>5, <1>b, <1>7, <1>8, <1>12 DEF Hydrates, Readable

\* What a capture reports as done hydrates, however often its project was edited while it
\* ran, for any project but those that Nested, Misnamed and CapturesHydrate name:
\* addSourceFile (capture.go) keeps the bytes it hashed, writeBundle writes those, and all
\* that the reader asks for (analysis-bundle.mjs, zip-reader.mjs) is there.
THEOREM CapturesAreGood == Spec => []CapturesHydrate
<1>1. IInv /\ WriteInv /\ [Next]_vars => WriteInv'
  BY NextWrite
<1> QED BY <1>1, WriteInit, CapturedIsComplete, Invariance, PTL DEF Spec
=============================================================================
