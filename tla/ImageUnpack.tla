----------------------------- MODULE ImageUnpack -----------------------------
(***************************************************************************)
(* unpackImage of pkg/registry and the tar extraction it uses: the layers  *)
(* of an image are scanned, newest first, and those that hold something    *)
(* under the wanted prefixes are extracted, whole, over one directory.     *)
(*                                                                         *)
(* A path is the sequence of its components.  fs is the target directory,  *)
(* a function from the paths in it to what is there.  Nothing is extracted *)
(* beneath a symbolic link, and links point to a file beside them.         *)
(***************************************************************************)
EXTENDS Naturals, Sequences

CONSTANTS Images,      \* images: sequences of layers, the oldest first
          PrefixSets,  \* the sets of top-level directories callers ask for
          Hides,       \* whiteout names, each with the name it hides
          Privileged   \* the process may write files without write permission

Path == Seq(STRING)

\* form is how the archive spells the path: "a/b", "./a/b", "/a/b", or outside, a name
\* that begins like the path and then leads out of the target: "a/b/../../../c".
\* content is what a file holds, or the name a link points to.
Entry == [form : {"plain", "dotted", "absolute", "outside"}, path : Path,
          type : {"dir", "file", "link", "other"}, content : STRING, writable : BOOLEAN]

Node == [type : {"dir", "file", "link"}, content : STRING, writable : BOOLEAN]

\* What a file holds that was cut short; no file of an archive is that.
Truncated == "truncated"

ASSUME ImagesAssumption == Images \subseteq Seq(Seq(Entry))
ASSUME PrefixSetsAssumption == PrefixSets \subseteq (SUBSET STRING) \ {{}}
ASSUME HidesAssumption == DOMAIN Hides \subseteq STRING
ASSUME PrivilegedAssumption == Privileged \in BOOLEAN
ASSUME WholeAssumption ==
  \A img \in Images : \A l \in DOMAIN img : \A i \in DOMAIN img[l] :
    img[l][i].content # Truncated
ASSUME LiteralsAreStrings == {"", Truncated} \subseteq STRING

VARIABLES image, prefixes,  \* the arguments
          pc,               \* "layers", "scan", "extract", "done" or "failed"
          layer,            \* the layer being looked at; 0 when all have been
          entry,            \* the entry of it that comes next
          extracted,        \* the layers extracted; extractedCount is their number
          fs                \* the target directory

vars == <<image, prefixes, pc, layer, entry, extracted, fs>>

Init ==
  /\ image \in Images
  /\ prefixes \in PrefixSets
  /\ pc = "layers"
  /\ layer = 0
  /\ entry = 1
  /\ extracted = {}
  /\ fs = <<>>

-----------------------------------------------------------------------------
(* layerContainsRelevantPaths: names that start with "./" are not recognised. *)

Relevant(e) ==
  /\ e.form # "dotted"
  /\ e.path # <<>>
  /\ e.path[1] \in prefixes
  /\ Len(e.path) > 1 \/ e.type = "dir"

HasContent(l) == \E i \in DOMAIN image[l] : Relevant(image[l][i])

\* Mutant: one prefix is enough.
hasAllRequiredContent_Any == \E prefix \in prefixes : <<prefix>> \in DOMAIN fs

\* hasAllRequiredContent: the prefix exists, whatever it is and holds.
hasAllRequiredContent == \A prefix \in prefixes : <<prefix>> \in DOMAIN fs

-----------------------------------------------------------------------------
(* ExtractEntry. *)

Beside(path, name) == [path EXCEPT ![Len(path)] = name]

\* Opening a path follows a link that is there.
Real(path) ==
  IF path \in DOMAIN fs /\ fs[path].type = "link" THEN Beside(path, fs[path].content) ELSE path

Parents(path) == {SubSeq(path, 1, n) : n \in 1 .. Len(path) - 1}

\* MkdirAll for each of the paths.
CanMakeDirs(paths) ==
  \A p \in paths \cap DOMAIN fs : Real(p) \in DOMAIN fs /\ fs[Real(p)].type = "dir"

WithDirs(paths) ==
  [p \in DOMAIN fs \cup paths |->
     IF p \in DOMAIN fs THEN fs[p] ELSE [type |-> "dir", content |-> "", writable |-> TRUE]]

Put(tree, path, node) ==
  [p \in DOMAIN tree \cup {path} |-> IF p = path THEN node ELSE tree[p]]

CanOpen(path) ==
  path \in DOMAIN fs => fs[path].type = "file" /\ (fs[path].writable \/ Privileged)

\* os.Remove leaves a directory that is not empty.
CanRemove(path) == path \in DOMAIN fs => \A p \in DOMAIN fs : path \notin Parents(p)

Accepted(e) ==
  /\ e.form \notin {"absolute", "outside"}
  /\ e.type = "dir"  => CanMakeDirs(Parents(e.path) \cup ({e.path} \ {<<>>}))
  /\ e.type = "file" => CanMakeDirs(Parents(e.path)) /\ CanOpen(Real(e.path))
  /\ e.type = "link" => CanMakeDirs(Parents(e.path)) /\ CanRemove(e.path)

\* Mutant: a directory is made anew.
ExtractDirectory_Fresh(e) ==
  [p \in {q \in DOMAIN fs : e.path \notin Parents(q)} \cup Parents(e.path) \cup {e.path} |->
     IF p \in DOMAIN fs THEN fs[p] ELSE [type |-> "dir", content |-> "", writable |-> TRUE]]

ExtractDirectory(e) == WithDirs(Parents(e.path) \cup ({e.path} \ {<<>>}))

\* The mode of the archive is used when the file is created, not when it is there.
ExtractFile(e, content) ==
  LET at == Real(e.path)
  IN  Put(WithDirs(Parents(e.path)), at,
        [type |-> "file", content |-> content,
         writable |-> IF at \in DOMAIN fs THEN fs[at].writable ELSE e.writable])

ExtractSymlink(e) ==
  Put(WithDirs(Parents(e.path)), e.path, [type |-> "link", content |-> e.content, writable |-> TRUE])

\* Entries of any other type, hard links among them, are passed over.
Extracted(e) ==
  CASE e.type = "dir"  -> ExtractDirectory(e)
    [] e.type = "file" -> ExtractFile(e, e.content)
    [] e.type = "link" -> ExtractSymlink(e)
    [] OTHER           -> fs

-----------------------------------------------------------------------------
(* unpackImage.  Reading a layer may fail whenever it is done. *)

\* Mutant: the scan starts one layer late.
ListLayers_Past ==
  /\ pc = "layers"
  /\ pc' = "scan"
  /\ layer' = Len(image) + 1
  /\ UNCHANGED <<image, prefixes, entry, extracted, fs>>

ListLayers ==
  /\ pc = "layers"
  /\ pc' = "scan"
  /\ layer' = Len(image)
  /\ UNCHANGED <<image, prefixes, entry, extracted, fs>>

ReadFails ==
  /\ pc \in {"layers", "extract"} \/ (pc = "scan" /\ layer # 0)
  /\ pc' = "failed"
  /\ UNCHANGED <<image, prefixes, layer, entry, extracted, fs>>

\* Mutant: the layer is not left.
SkipLayer_Stays ==
  /\ pc = "scan"
  /\ layer # 0
  /\ ~HasContent(layer)
  /\ UNCHANGED vars

SkipLayer ==
  /\ pc = "scan"
  /\ layer # 0
  /\ ~HasContent(layer)
  /\ layer' = layer - 1
  /\ UNCHANGED <<image, prefixes, pc, entry, extracted, fs>>

\* Mutant: every layer is extracted.
OpenLayer_Any ==
  /\ pc = "scan"
  /\ layer # 0
  /\ pc' = "extract"
  /\ entry' = 1
  /\ UNCHANGED <<image, prefixes, layer, extracted, fs>>

OpenLayer ==
  /\ pc = "scan"
  /\ layer # 0
  /\ HasContent(layer)
  /\ pc' = "extract"
  /\ entry' = 1
  /\ UNCHANGED <<image, prefixes, layer, extracted, fs>>

Current == image[layer][entry]

ExtractEntry ==
  /\ pc = "extract"
  /\ entry \in DOMAIN image[layer]
  /\ Accepted(Current)
  /\ fs' = Extracted(Current)
  /\ entry' = entry + 1
  /\ UNCHANGED <<image, prefixes, pc, layer, extracted>>

\* Parent directories made before the refusal are left out: nothing reads them.
EntryRefused ==
  /\ pc = "extract"
  /\ entry \in DOMAIN image[layer]
  /\ ~Accepted(Current)
  /\ pc' = "failed"
  /\ UNCHANGED <<image, prefixes, layer, entry, extracted, fs>>

\* Mutant: the error of the copy is dropped.
CopyFails_Ignored ==
  /\ pc = "extract"
  /\ entry \in DOMAIN image[layer]
  /\ Accepted(Current) /\ Current.type = "file"
  /\ fs' = ExtractFile(Current, Truncated)
  /\ entry' = entry + 1
  /\ UNCHANGED <<image, prefixes, pc, layer, extracted>>

\* The stream ends while a file is written.
CopyFails ==
  /\ pc = "extract"
  /\ entry \in DOMAIN image[layer]
  /\ Accepted(Current) /\ Current.type = "file"
  /\ fs' = ExtractFile(Current, Truncated)
  /\ pc' = "failed"
  /\ UNCHANGED <<image, prefixes, layer, entry, extracted>>

LayerDone ==
  /\ pc = "extract"
  /\ entry = Len(image[layer]) + 1
  /\ extracted' = extracted \cup {layer}
  /\ \/ hasAllRequiredContent /\ pc' = "done" /\ layer' = layer
     \/ ~hasAllRequiredContent /\ pc' = "scan" /\ layer' = layer - 1
  /\ UNCHANGED <<image, prefixes, entry, fs>>

Exhausted ==
  /\ pc = "scan"
  /\ layer = 0
  /\ pc' = IF extracted = {} THEN "failed" ELSE "done"
  /\ UNCHANGED <<image, prefixes, layer, entry, extracted, fs>>

Advance ==
  \/ ListLayers
  \/ SkipLayer
  \/ OpenLayer
  \/ ExtractEntry
  \/ EntryRefused
  \/ LayerDone
  \/ Exhausted

Next == Advance \/ ReadFails \/ CopyFails

Spec == Init /\ [][Next]_vars

\* The loop runs on; nothing makes a read fail.
FairSpec == Spec /\ WF_vars(Advance)

-----------------------------------------------------------------------------
(* Properties. *)

\* The scan stays within the image and the directory is one: what is in it has
\* its parents in it.
TypeOK ==
  /\ image \in Images
  /\ prefixes \in PrefixSets
  /\ pc \in {"layers", "scan", "extract", "done", "failed"}
  /\ layer \in 0 .. Len(image)
  /\ pc = "extract" => layer # 0 /\ entry \in 1 .. Len(image[layer]) + 1
  /\ extracted \subseteq DOMAIN image
  /\ DOMAIN fs \subseteq Path
  /\ \A p \in DOMAIN fs : fs[p] \in Node /\ Parents(p) \subseteq DOMAIN fs

EntriesOf(l) == {image[l][i] : i \in DOMAIN image[l]}

\* The scan ends early only when there is something under every prefix, and then
\* or at its end no layer it passed holds anything wanted that was not extracted
\* (unpackImage, hasAllRequiredContent).
CompleteOrExhausted ==
  pc = "done" =>
    /\ layer # 0 => \A prefix \in prefixes : \E p \in DOMAIN fs : p[1] = prefix
    /\ \A l \in DOMAIN image : l >= layer /\ HasContent(l) => l \in extracted

\* What is in the directory comes from a layer with something wanted in it: a
\* layer of the base system is never extracted.
OnlyRelevantLayers ==
  \A p \in DOMAIN fs :
    \E l \in DOMAIN image :
      /\ HasContent(l)
      /\ \E e \in EntriesOf(l) :
           \/ p = e.path
           \/ p \in Parents(e.path)
           \/ e.type = "link" /\ p = Beside(e.path, e.content)

Writes(e, path) == e.path = path /\ e.type = "file"

\* Some link was, or led to, the path.
Linked(path) ==
  \E l \in extracted : \E e \in EntriesOf(l) :
    e.type = "link" /\ (e.path = path \/ Beside(e.path, e.content) = path)

\* Nothing extracted after this entry writes the same path.
LastToWrite(l, i) ==
  /\ \A j \in DOMAIN image[l] : j > i => ~Writes(image[l][j], image[l][i].path)
  /\ \A k \in extracted : k < l => \A d \in EntriesOf(k) : ~Writes(d, image[l][i].path)

\* When the extraction succeeds every file that the extracted layers bring is
\* there, whole, however often it was written and whatever was extracted over
\* its directory; of several versions it is the oldest (extractLayer runs newest
\* layer first and truncates).
OldestExtractedWins ==
  pc = "done" =>
    \A l \in extracted : \A i \in DOMAIN image[l] :
      LET e == image[l][i]
      IN  e.type = "file" /\ ~Linked(e.path) /\ LastToWrite(l, i)
            => e.path \in DOMAIN fs /\ fs[e.path].content = e.content

\* A file cut short by a failing stream is never part of a successful result
\* (ExtractFile returns the error of io.Copy).
FilesAreWhole ==
  pc = "done" => \A p \in DOMAIN fs : fs[p].type = "file" => fs[p].content # Truncated

\* Layers and entries are finite: the extraction ends.
Ends == <>(pc \in {"done", "failed"})

-----------------------------------------------------------------------------
(* What the comments say and the code does not do. *)

Erases(e, path) ==
  /\ e.path # <<>> /\ e.path[Len(e.path)] \in DOMAIN Hides
  /\ path = Beside(e.path, Hides[e.path[Len(e.path)]])

\* The file that the image has at a path: no newer layer writes or hides it.
InImage(e) ==
  \E l \in DOMAIN image :
    /\ e \in EntriesOf(l)
    /\ e.type = "file" /\ e.form # "outside"
    /\ \A k \in DOMAIN image :
         k > l => \A d \in EntriesOf(k) : d.path # e.path /\ ~Erases(d, e.path)

\* unpackImage: the reverse order of the scan is for efficiency; what is wanted of
\* the image is extracted.
SameAsImage ==
  pc = "done" =>
    \A e \in UNION {EntriesOf(l) : l \in DOMAIN image} :
      Relevant(e) /\ InImage(e) => e.path \in DOMAIN fs /\ fs[e.path].content = e.content
=============================================================================
