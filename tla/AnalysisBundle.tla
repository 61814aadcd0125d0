---------------------------- MODULE AnalysisBundle ----------------------------
(***************************************************************************)
(* The way of an analysis bundle: internal/analysisbundle/capture.go makes  *)
(* it of a Go project that may be edited meanwhile, with a disk that may    *)
(* fail under it; the archive may be altered on its way; and                *)
(* src/web/analysis-bundle.mjs hydrates it, or not.                         *)
(*                                                                         *)
(* The go command is external: it lists what is there when it runs.  A      *)
(* package of the project is the directory of its files; what is captured   *)
(* of a dependency is its place in the module graph.  Lists are sets: both  *)
(* sides sort them before they hash.  Digests are ideal: a digest is what   *)
(* it covers.  A file's size and its length-prefixed digest follow from its *)
(* digest.  Toolchain, build profile, producer, time, schema and the main   *)
(* module's path are one header.  A name is in order or not for what it     *)
(* names: Fits has those that are.  ArchiveReader says what readStrictZip   *)
(* lets through, and when it runs out of time or space.                     *)
(***************************************************************************)
EXTENDS Naturals, FiniteSets, Functions

CONSTANTS
  File, PackageOf,    \* source paths, and the package each belongs to
  Found,              \* what may be at each
  Text, Imports,      \* contents of Go files, and the paths each imports
  Inside,             \* import paths that are, or start with, the main module's
  Ref, Sum,           \* path@version of modules, checksums
  Provides,           \* the packages a module of the graph has
  Header, Supported,  \* headers of manifests, the ones a reader accepts,
  Options,            \* and the one of this capture
  Main, MainRef,      \* the main module at version devel, and as go list has it
  Fits,               \* the names a reader accepts, for each role of a name
  MaxFiles,           \* maxBundleFileCount, and maxFiles of the reader's budget
  MaxEdits, MaxTampers,    \* bounds
  Absent, OnlyTests,  \* no such file; none but test files in its place
  Torn, Zero, None

Package == {PackageOf[f] : f \in File}

ASSUME PathAssumption ==
  /\ PackageOf \in [File -> Package] /\ Package \subseteq Inside
  /\ DOMAIN Imports = Text /\ DOMAIN Provides = Ref /\ IsFiniteSet(File)
ASSUME ValueAssumption ==
  /\ {Absent, OnlyTests, Torn} \cap Text = {} /\ Main \notin Ref
  /\ Found \in [File -> SUBSET (Text \cup {Absent, OnlyTests})]
  /\ Supported \subseteq Header /\ Options \in Header /\ Sum # {}
  /\ DOMAIN Fits = {"file", "root", "path", "module", "sum"}
ASSUME BoundAssumption == MaxFiles \in Nat /\ MaxEdits \in Nat /\ MaxTampers \in Nat

VARIABLES
  source,      \* the project's files
  edits,
  requires,    \* the modules of its graph, with their checksums
  pc,          \* where the capture is
  inventory,   \* package_inventory
  captured,    \* contentFiles: the files read so far
  manifest,    \* what CaptureBundle returns
  archive,     \* the file at OutputPath
  tampers      \* alterations of it

project == <<source, edits, requires>>
capture == <<pc, inventory, captured, manifest>>
vars == <<project, capture, archive, tampers>>

----------------------------------------------------------------------------
Requirement == [ref : Ref, sum : Sum]
PackageEntry == [path : Package, module : Ref \cup {Main, MainRef}, files : SUBSET File,
                 imports : SUBSET UNION {Imports[t] : t \in Text}]
ContentEntry == [path : File, digest : Text]
\* Manifests, with the digests there are of them.
Manifest(digests) ==
  [header : Header, roots : SUBSET Package, requirements : SUBSET Requirement,
   packages : SUBSET PackageEntry, content : SUBSET ContentEntry,
   unknown : SUBSET {"field"}, source_digest : SUBSET ContentEntry,
   bundle_digest : digests]
Manifests == Manifest(Manifest({Zero}))

ASSUME ManifestAssumption == None \notin Manifests /\ Torn \notin Manifests

NoArchive == [footer |-> FALSE, manifest |-> None, files |-> {}]

Ended == {"done", "failed"}

TypeOK ==
  /\ source \in [File -> Text \cup {Absent, OnlyTests}]
  /\ edits \in 0 .. MaxEdits /\ tampers \in 0 .. MaxTampers
  /\ requires \subseteq Requirement
  /\ pc \in {"modules", "packages", "files", "create", "manifest", "write"} \cup Ended
  /\ inventory \subseteq PackageEntry
  /\ DOMAIN captured \subseteq File /\ \A f \in DOMAIN captured : captured[f] \in Text
  /\ manifest \in Manifests \cup {None}
  /\ archive.footer \in BOOLEAN
  /\ archive.files \subseteq [path : File, data : Text \cup {Torn}]

Init ==
  /\ source \in [File -> Text \cup {Absent, OnlyTests}] /\ \A f \in File : source[f] \in Found[f]
  /\ requires \in SUBSET [ref : Ref, sum : {CHOOSE s \in Sum : TRUE}]
  /\ edits = 0 /\ tampers = 0
  /\ pc = "modules"
  /\ inventory = {} /\ captured = <<>> /\ manifest = None
  /\ archive = NoArchive

----------------------------------------------------------------------------
\* The digests, computed alike by both sides.
SourceDigest(content) == content

\* Broken variants of a definition stand before it, each named for its bug.
BundleDigestWithoutGraph(m) ==    \* leaves the module graph out
  [m EXCEPT !.bundle_digest = Zero, !.unknown = {}, !.requirements = {}]

\* Over everything that is known of a manifest, with a placeholder for itself.
BundleDigest(m) == [m EXCEPT !.bundle_digest = Zero, !.unknown = {}]

Sealed(m) ==
  LET sourced == [m EXCEPT !.source_digest = SourceDigest(m.content)]
  IN  [sourced EXCEPT !.bundle_digest = BundleDigest(sourced)]

----------------------------------------------------------------------------
\* CaptureBundle.

Ends(how) == pc' = how /\ UNCHANGED <<inventory, captured, manifest>>

\* A go command, a check or a read fails before there is an output file.
GivesUp ==
  /\ pc \in {"modules", "packages", "files", "create"}
  /\ Ends("failed")
  /\ archive' = archive

\* captureModules: nothing of it depends on the sources.
ListModules ==
  /\ pc = "modules"
  /\ Cardinality(requires) <= MaxFiles
  /\ pc' = "packages"
  /\ UNCHANGED <<inventory, captured, manifest, archive>>

GoFiles(package) == {f \in File : PackageOf[f] = package /\ source[f] \in Text}

ImportsOf(package) == UNION {Imports[source[f]] : f \in GoFiles(package)}

\* capturePackages: go list ./... finds every package, and resolves every import,
\* or fails.  Packages of other modules are left out.
Listed == {PackageOf[f] : f \in {g \in File : source[g] # Absent}}

Resolves(imported) ==
  imported \in Inside =>
    \/ imported \in Listed
    \/ \E r \in requires : imported \in Provides[r.ref]

ListPackages ==
  /\ pc = "packages"
  /\ \A p \in Listed : \A i \in ImportsOf(p) : Resolves(i)
  /\ inventory' = {[path |-> p, module |-> MainRef, files |-> GoFiles(p),
                    imports |-> ImportsOf(p)] : p \in Listed}
  /\ pc' = "files"
  /\ UNCHANGED <<captured, manifest, archive>>

Selected == UNION {p.files : p \in inventory}

\* addSourceFile reads the bytes once: they are hashed, and kept to be written.
ReadSource(f) ==
  /\ pc = "files"
  /\ f \in Selected \ DOMAIN captured
  /\ source[f] \in Text
  /\ captured' = [g \in DOMAIN captured \cup {f} |->
                    IF g = f THEN source[f] ELSE captured[g]]
  /\ UNCHANGED <<pc, inventory, manifest, archive>>

\* captureContentEntries, the manifest and its digests.
Draft ==
  [header |-> Options,
   roots |-> {p.path : p \in inventory},
   requirements |-> requires,
   packages |-> inventory,
   content |-> {[path |-> f, digest |-> captured[f]] : f \in Selected},
   unknown |-> {}, source_digest |-> Zero, bundle_digest |-> Zero]

Assemble ==
  /\ pc = "files" /\ DOMAIN captured = Selected
  /\ inventory # {} /\ Cardinality(inventory) <= MaxFiles
  /\ Cardinality(Selected) <= MaxFiles
  /\ manifest' = Sealed(Draft)
  /\ pc' = "create"
  /\ UNCHANGED <<inventory, captured, archive>>

----------------------------------------------------------------------------
\* writeBundle.

Create ==
  /\ pc = "create"
  /\ archive' = NoArchive
  /\ pc' = "manifest"
  /\ UNCHANGED <<inventory, captured, manifest>>

WriteManifest ==
  /\ pc = "manifest"
  /\ archive' = [archive EXCEPT !.manifest = manifest]
  /\ pc' = "write"
  /\ UNCHANGED <<inventory, captured, manifest>>

Unwritten == {c \in manifest.content : \A e \in archive.files : e.path # c.path}

WriteFileRereading(c) ==    \* opens the source again
  /\ pc = "write" /\ c \in Unwritten
  /\ source[c.path] \in Text
  /\ archive' = [archive EXCEPT !.files = @ \cup {[path |-> c.path, data |-> source[c.path]]}]
  /\ UNCHANGED capture

WriteFile(c) ==
  /\ pc = "write" /\ c \in Unwritten
  /\ archive' = [archive EXCEPT !.files = @ \cup {[path |-> c.path, data |-> captured[c.path]]}]
  /\ UNCHANGED capture

Close ==
  /\ pc = "write" /\ Unwritten = {}
  /\ archive' = [archive EXCEPT !.footer = TRUE]
  /\ Ends("done")

\* A write fails: its entry is torn, and the deferred Close still writes the
\* directory, if it can.  A failing Close of the file may have lost nothing.
WriteFails ==
  /\ \/ /\ pc = "manifest"
        /\ archive' \in [footer : BOOLEAN, manifest : {Torn}, files : {{}}]
     \/ /\ pc = "write"
        /\ \E c \in Unwritten :
             archive' \in [footer : BOOLEAN, manifest : {archive.manifest},
                           files : {archive.files \cup {[path |-> c.path, data |-> Torn]}}]
     \/ /\ pc = "write" /\ Unwritten = {}
        /\ archive' \in {archive, [archive EXCEPT !.footer = TRUE]}
  /\ Ends("failed")

\* The process ends: no deferred call runs.
Crash ==
  /\ pc \notin Ended
  /\ Ends("failed")
  /\ archive' = archive

----------------------------------------------------------------------------
\* hydrateAnalysisBundle, of an archive that stays as it is while it is read.

UniquePaths(entries) == \A x, y \in entries : x.path = y.path => x = y
UniqueModules(requirements) == \A x, y \in requirements : x.ref = y.ref => x = y

\* parseManifest but for the packages.  Readable has looked at the paths of content.
Parses(m) ==
  /\ m.header \in Supported
  /\ m.roots # {} /\ m.roots \subseteq Fits.root
  /\ Cardinality(m.requirements) <= MaxFiles /\ UniqueModules(m.requirements)
  /\ \A r \in m.requirements : r.ref \in Fits.module /\ r.sum \in Fits.sum
  /\ m.content # {} /\ Cardinality(m.content) <= MaxFiles /\ UniquePaths(m.content)

ParsesPackagesAlone(m) ==    \* does not ask whether files are declared
  /\ m.packages # {} /\ Cardinality(m.packages) <= MaxFiles /\ UniquePaths(m.packages)
  /\ \A p \in m.packages :
       /\ p.module \in {Main} \cup {r.ref : r \in m.requirements}
       /\ p.imports \cup {p.path} \subseteq Fits.path
  /\ LET paths == {p.path : p \in m.packages}
     IN  m.roots \subseteq paths /\ \A p \in m.packages : p.imports \cap Inside \subseteq paths

\* parsePackageInventory, and the files parseManifest looks up in the content.  The
\* paths of modules are looked at in the header and the graph.
ParsesPackages(m) ==
  /\ m.packages # {} /\ Cardinality(m.packages) <= MaxFiles /\ UniquePaths(m.packages)
  /\ \A p \in m.packages :
       /\ p.module \in {Main} \cup {r.ref : r \in m.requirements}
       /\ p.imports \cup {p.path} \subseteq Fits.path
       /\ p.files \subseteq {c.path : c \in m.content}
  /\ LET paths == {p.path : p \in m.packages}
     IN  m.roots \subseteq paths /\ \A p \in m.packages : p.imports \cap Inside \subseteq paths

\* Every entry is declared, none is missing, and all digests fit.
ContentFits(m, files) ==
  LET content == {[path |-> e.path, digest |-> e.data] : e \in files}
  IN  /\ Cardinality(files) = Cardinality(m.content)
      /\ content \subseteq m.content
      /\ m.source_digest = SourceDigest(content)
      /\ m.bundle_digest = BundleDigest([m EXCEPT !.content = content])

\* The manifest is an entry like the others, and counts.
Readable(a) ==
  /\ a.footer
  /\ a.manifest # Torn
  /\ Cardinality(a.files) < MaxFiles
  /\ UniquePaths(a.files) /\ \A e \in a.files : e.path \in Fits.file /\ e.data # Torn

Hydrates(a) ==
  /\ Readable(a)
  /\ a.manifest # None
  /\ Parses(a.manifest) /\ ParsesPackages(a.manifest)
  /\ ContentFits(a.manifest, a.files)

----------------------------------------------------------------------------
\* On its way an entry may be lost, replaced or added, or the manifest edited,
\* and the digests recomputed to fit.
Likely == {c \in ContentEntry : c.digest \in Found[c.path]}

AlteredFiles ==
  LET files == archive.files
  IN  {files \ {e} : e \in files}
      \cup {files \cup {[path |-> c.path, data |-> c.digest]} : c \in Likely}

AlteredPackages(p) ==
  {[p EXCEPT !.imports = {}], [p EXCEPT !.files = {}]}
  \cup {[p EXCEPT !.module = r] : r \in Ref}
  \cup {[p EXCEPT !.files = @ \cup {f}] : f \in File}

AlteredManifests ==
  LET m == archive.manifest
  IN  {[m EXCEPT !.header = h] : h \in Header}
      \cup {[m EXCEPT !.roots = r] : r \in SUBSET Package}
      \cup {[m EXCEPT !.requirements = @ \ {r}] : r \in m.requirements}
      \cup {[m EXCEPT !.requirements = @ \cup {r}] : r \in Requirement}
      \cup {[m EXCEPT !.packages = @ \ {p}] : p \in m.packages}
      \cup (UNION {{[m EXCEPT !.packages = (@ \ {p}) \cup {q}] : q \in AlteredPackages(p)}
                     : p \in m.packages})
      \cup {[m EXCEPT !.content = @ \ {c}] : c \in m.content}
      \cup {[m EXCEPT !.content = @ \cup {c}] : c \in Likely}
      \cup {[m EXCEPT !.unknown = {"field"}]}

Tamper ==
  /\ archive.manifest \notin {None, Torn}
  /\ pc \in Ended
  /\ tampers < MaxTampers /\ tampers' = tampers + 1
  /\ \/ \E files \in AlteredFiles : archive' = [archive EXCEPT !.files = files]
     \/ \E m \in AlteredManifests :
          archive' \in {[archive EXCEPT !.manifest = m],
                        [archive EXCEPT !.manifest = Sealed(m)]}
  /\ UNCHANGED <<project, capture>>

Edit(f) ==
  /\ pc \notin Ended
  /\ edits < MaxEdits /\ edits' = edits + 1
  /\ source' \in {[source EXCEPT ![f] = t] : t \in Found[f]}
  /\ UNCHANGED <<requires, capture, archive, tampers>>

Step ==
  \/ GivesUp \/ ListModules \/ ListPackages \/ Assemble
  \/ \E f \in File : ReadSource(f)
  \/ Create \/ WriteManifest \/ Close \/ WriteFails \/ Crash
  \/ pc = "write" /\ \E c \in Unwritten : WriteFile(c)

Next ==
  \/ Step /\ UNCHANGED <<project, tampers>>
  \/ \E f \in File : Edit(f)
  \/ Tamper

Spec == Init /\ [][Next]_vars

----------------------------------------------------------------------------
\* What a hydrated bundle says, but for the fields its digest does not cover.
Said(m) == [m EXCEPT !.unknown = {}]

\* A bundle that hydrates under the digest the capture reported is the captured
\* one, whole: whatever failed while it was written and whatever was done to it
\* since ("includes every length-prefixed content digest",
\* docs/features/02-go-wasm-analysis-core.md:73).  Unknown fields are not covered.
TamperEvident ==
  Hydrates(archive) /\ manifest # None
    /\ archive.manifest.bundle_digest = manifest.bundle_digest =>
      /\ Said(archive.manifest) = Said(manifest)
      /\ archive.files = {[path |-> f, data |-> captured[f]] : f \in DOMAIN captured}

\* Whatever an archive claims, the snapshot made of it is closed: its roots and
\* what its packages import of the main module are in it, and each file of each
\* package is in the archive with the content the manifest says ("BundleReader
\* validates ... every content hash, module and package reference", the same
\* document, line 28).
SnapshotIsClosed ==
  Hydrates(archive) =>
    LET m == archive.manifest
    IN  /\ \A p \in m.packages : \A f \in p.files :
             \E e \in archive.files : /\ e.path = f
                                      /\ [path |-> f, digest |-> e.data] \in m.content
        /\ \A p \in m.packages : p.module = Main \/ \E r \in m.requirements : r.ref = p.module
        /\ \A i \in m.roots \cup UNION {p.imports : p \in m.packages} :
             i \in Inside => \E p \in m.packages : p.path = i

\* A package imports one below the main module's path that another module has:
\* capturePackages leaves the packages of other modules out (capture.go:336), and
\* the reader misses it (analysis-bundle.mjs:369).
Nested == \E p \in inventory : (p.imports \cap Inside) \ {q.path : q \in inventory} # {}

\* A name of the project does not fit the reader, and the capture takes it: a module
\* with a path like git.sr.ht/~x/y (analysis-bundle.mjs:18), a package whose path has
\* more than 256 characters (analysis-bundle.mjs:277), an import of more than 1,024, a
\* file that is not named in ASCII (CreateRaw sets no flag for it, zip-reader.mjs:218), a
\* checksum that is not all base64 (analysis-bundle.mjs:183).
Misnamed ==
  \/ \E r \in requires : r.ref \notin Fits.module \/ r.sum \notin Fits.sum
  \/ \E p \in inventory : p.path \notin Fits.root \/ ~(p.imports \cup {p.path} \subseteq Fits.path)
  \/ \E f \in Selected : f \notin Fits.file

\* What a capture reports as done hydrates, though its project was edited while
\* it ran ("the supported Project Evidence producer is the local native-go-list
\* companion capture", the same document, line 94).  It is not so where the project
\*   - has a nested module, or names that do not fit (above);
\*   - has no Go file that is not a test: the reader refuses an empty content;
\*   - has as many files as there may be: the reader counts the manifest as well;
\*   - is of a main module that go list has at another version than devel
\*     (analysis-bundle.mjs:311), or at a path that does not fit, or was captured with
\*     options the reader refuses, a blank producer: a header that is not Supported.
CapturesHydrate ==
  /\ pc = "done" /\ tampers = 0
  /\ Options \in Supported /\ MainRef = Main
  /\ Selected # {} /\ Cardinality(Selected) < MaxFiles
  /\ ~Nested /\ ~Misnamed
  => Hydrates(archive)
=============================================================================
