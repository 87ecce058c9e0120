--------------------------- MODULE ImageUnpackProofs ---------------------------
(***************************************************************************)
(* Theorems about ImageUnpack, for every set of images and prefixes, with  *)
(* and without the right to write what is read-only.                       *)
(***************************************************************************)
EXTENDS ImageUnpack, TLAPS

-----------------------------------------------------------------------------
(* Paths and directories.                                                    *)

LEMMA ParentPaths ==
  ASSUME NEW path \in Path, NEW q \in Parents(path)
  PROVE  q \in Path /\ Parents(q) \subseteq Parents(path)
<1>1. PICK n \in 1 .. Len(path) - 1 : q = SubSeq(path, 1, n)
  BY DEF Parents
<1>2. path \in Seq(STRING) /\ Len(path) \in Nat
  BY DEF Path
<1>3. q \in Seq(STRING) /\ Len(q) = n /\ \A i \in 1 .. n : q[i] = path[i]
  BY <1>1, <1>2
<1>4. ASSUME NEW m \in 1 .. n - 1
      PROVE  SubSeq(q, 1, m) = SubSeq(path, 1, m)
  <2>1. \A i \in 1 .. m : q[i] = path[i]
    BY <1>3, <1>1
  <2>2. SubSeq(q, 1, m) = [i \in 1 .. m |-> q[i]] /\ SubSeq(path, 1, m) = [i \in 1 .. m |-> path[i]]
    BY <1>2, <1>3
  <2> QED
    BY <2>1, <2>2
<1>5. \A m \in 1 .. n - 1 : m \in 1 .. Len(path) - 1
  BY <1>2
<1> QED
  BY <1>3, <1>4, <1>5 DEF Parents, Path

\* What lies beside a path has the parents of the path.
LEMMA BesideParents ==
  ASSUME NEW path \in Path, NEW name \in STRING
  PROVE  Beside(path, name) \in Path /\ Parents(Beside(path, name)) = Parents(path)
<1> DEFINE b == Beside(path, name)
<1>1. path \in Seq(STRING) /\ Len(path) \in Nat /\ DOMAIN path = 1 .. Len(path)
  BY DEF Path
<1>2. b = [i \in 1 .. Len(path) |-> IF i = Len(path) THEN name ELSE path[i]]
  BY <1>1 DEF Beside
<1> HIDE DEF b
<1>3. \A i \in 1 .. Len(path) : path[i] \in STRING
  BY <1>1
<1>4. b \in Seq(STRING) /\ Len(b) = Len(path)
  <2>1. \A i \in 1 .. Len(path) : b[i] \in STRING
    BY <1>2, <1>3
  <2>2. DOMAIN b = 1 .. Len(path) /\ b = [i \in 1 .. Len(path) |-> b[i]]
    BY <1>2
  <2> QED
    BY <1>1, <2>1, <2>2
<1>5. ASSUME NEW n \in 1 .. Len(path) - 1
      PROVE  SubSeq(b, 1, n) = SubSeq(path, 1, n)
  <2>1. n \in Nat /\ n < Len(path)
    BY <1>1
  <2>2. \A i \in 1 .. n : i \in 1 .. Len(path) /\ i < Len(path)
    BY <2>1, <1>1
  <2>3. ASSUME NEW i \in 1 .. n
        PROVE  b[i] = path[i]
    <3>1. i \in 1 .. Len(path) /\ i \in Nat /\ i < Len(path)
      BY <2>1, <2>2
    <3>2. Len(path) \in Nat
      BY <1>1
    <3>3. i # Len(path)
      BY <3>1, <3>2
    <3> QED
      BY <1>2, <3>1, <3>3
  <2>4. SubSeq(b, 1, n) = [i \in 1 .. n |-> b[i]]
    BY <1>4, <1>1, <2>1
  <2>5. SubSeq(path, 1, n) = [i \in 1 .. n |-> path[i]]
    BY <1>1, <2>1
  <2> QED
    BY <2>3, <2>4, <2>5
<1>6. Parents(b) = Parents(path)
  BY <1>4, <1>5 DEF Parents
<1> QED
  BY <1>4, <1>6 DEF Path, b

\* The directory holds the parents of what it holds.
Tree(f) ==
  /\ DOMAIN f \subseteq Path
  /\ \A p \in DOMAIN f : f[p] \in Node /\ Parents(p) \subseteq DOMAIN f

ClosedPaths(paths) == paths \subseteq Path /\ \A p \in paths : Parents(p) \subseteq paths

Dir == [type |-> "dir", content |-> "", writable |-> TRUE]

LEMMA DirIsNode == Dir \in Node /\ Dir.type = "dir"
BY LiteralsAreStrings DEF Dir, Node

LEMMA WithDirsMeans ==
  ASSUME NEW paths
  PROVE  /\ DOMAIN WithDirs(paths) = DOMAIN fs \cup paths
         /\ \A p \in DOMAIN fs : WithDirs(paths)[p] = fs[p]
         /\ \A p \in paths \ DOMAIN fs : WithDirs(paths)[p] = Dir
BY DEF WithDirs, Dir

LEMMA WithDirsTree ==
  ASSUME Tree(fs), NEW paths, ClosedPaths(paths)
  PROVE  Tree(WithDirs(paths))
BY WithDirsMeans, DirIsNode DEF Tree, ClosedPaths

LEMMA PutMeans ==
  ASSUME NEW tree, NEW path, NEW node
  PROVE  /\ DOMAIN Put(tree, path, node) = DOMAIN tree \cup {path}
         /\ Put(tree, path, node)[path] = node
         /\ \A p \in DOMAIN tree : p # path => Put(tree, path, node)[p] = tree[p]
BY DEF Put

LEMMA PutTree ==
  ASSUME NEW tree, Tree(tree), NEW path \in Path, Parents(path) \subseteq DOMAIN tree,
         NEW node \in Node
  PROVE  Tree(Put(tree, path, node))
<1>1. DOMAIN Put(tree, path, node) = DOMAIN tree \cup {path}
  BY PutMeans
<1>2. Put(tree, path, node)[path] = node
  BY DEF Put
<1>3. \A p \in DOMAIN tree : p # path => Put(tree, path, node)[p] = tree[p]
  BY DEF Put
<1> QED
  BY <1>1, <1>2, <1>3 DEF Tree

LEMMA ParentsClosed ==
  ASSUME NEW path \in Path
  PROVE  ClosedPaths(Parents(path)) /\ ClosedPaths(Parents(path) \cup ({path} \ {<<>>}))
BY ParentPaths DEF ClosedPaths

LEMMA RealPath ==
  ASSUME Tree(fs), NEW path \in Path
  PROVE  Real(path) \in Path /\ Parents(Real(path)) = Parents(path)
<1>1. CASE path \in DOMAIN fs /\ fs[path].type = "link"
  <2>1. fs[path].content \in STRING
    BY <1>1 DEF Tree, Node
  <2> QED
    BY <1>1, <2>1, BesideParents DEF Real
<1>2. CASE ~(path \in DOMAIN fs /\ fs[path].type = "link")
  BY <1>2 DEF Real
<1> QED
  BY <1>1, <1>2

FileNode(e, content) ==
  [type |-> "file", content |-> content,
   writable |-> IF Real(e.path) \in DOMAIN fs THEN fs[Real(e.path)].writable ELSE e.writable]

LEMMA ExtractFileTree ==
  ASSUME Tree(fs), NEW e \in Entry, NEW content \in STRING
  PROVE  Tree(ExtractFile(e, content))
<1>1. e.path \in Path /\ e.writable \in BOOLEAN
  BY DEF Entry
<1>2. Real(e.path) \in Path /\ Parents(Real(e.path)) = Parents(e.path)
  BY <1>1, RealPath
<1>3. Tree(WithDirs(Parents(e.path)))
  BY <1>1, ParentsClosed, WithDirsTree
<1>4. Parents(Real(e.path)) \subseteq DOMAIN WithDirs(Parents(e.path))
  BY <1>2, WithDirsMeans
<1>5. FileNode(e, content) \in Node
  BY <1>1 DEF FileNode, Node, Tree
<1>6. ExtractFile(e, content) = Put(WithDirs(Parents(e.path)), Real(e.path), FileNode(e, content))
  BY DEF ExtractFile, FileNode
<1> QED
  BY <1>2, <1>3, <1>4, <1>5, <1>6, PutTree

LEMMA ExtractedTree ==
  ASSUME Tree(fs), NEW e \in Entry
  PROVE  Tree(Extracted(e))
<1>1. e.path \in Path /\ e.content \in STRING /\ e.type \in {"dir", "file", "link", "other"}
  BY DEF Entry
<1>2. CASE e.type = "dir"
  <2>1. Extracted(e) = WithDirs(Parents(e.path) \cup ({e.path} \ {<<>>}))
    BY <1>2 DEF Extracted, ExtractDirectory
  <2> QED
    BY <2>1, <1>1, ParentsClosed, WithDirsTree
<1>3. CASE e.type = "file"
  <2>1. Extracted(e) = ExtractFile(e, e.content)
    BY <1>3 DEF Extracted
  <2> QED
    BY <2>1, <1>1, ExtractFileTree
<1>4. CASE e.type = "link"
  <2> DEFINE node == [type |-> "link", content |-> e.content, writable |-> TRUE]
  <2>1. Extracted(e) = Put(WithDirs(Parents(e.path)), e.path, node)
    BY <1>4 DEF Extracted, ExtractSymlink
  <2>2. node \in Node
    BY <1>1 DEF Node
  <2>3. Tree(WithDirs(Parents(e.path)))
    BY <1>1, ParentsClosed, WithDirsTree
  <2>4. Parents(e.path) \subseteq DOMAIN WithDirs(Parents(e.path))
    BY WithDirsMeans
  <2> HIDE DEF node
  <2> QED
    BY <2>1, <2>2, <2>3, <2>4, <1>1, PutTree
<1>5. CASE e.type = "other"
  BY <1>5 DEF Extracted
<1> QED
  BY <1>1, <1>2, <1>3, <1>4, <1>5

-----------------------------------------------------------------------------
(* Types.                                                                    *)

LEMMA TypeOKTree == TypeOK => Tree(fs)
BY DEF TypeOK, Tree

LEMMA ImageTypes ==
  ASSUME TypeOK
  PROVE  /\ image \in Seq(Seq(Entry)) /\ Len(image) \in Nat /\ DOMAIN image = 1 .. Len(image)
         /\ \A l \in DOMAIN image :
              /\ image[l] \in Seq(Entry) /\ Len(image[l]) \in Nat
              /\ DOMAIN image[l] = 1 .. Len(image[l])
              /\ \A i \in DOMAIN image[l] : image[l][i] \in Entry
<1>1. image \in Seq(Seq(Entry))
  BY ImagesAssumption DEF TypeOK
<1>2. \A l \in DOMAIN image : image[l] \in Seq(Entry)
  BY <1>1
<1> QED
  BY <1>1, <1>2

LEMMA CurrentTypes ==
  ASSUME TypeOK, pc = "extract"
  PROVE  /\ layer \in DOMAIN image /\ layer \in Nat
         /\ entry \in Nat
         /\ entry \in DOMAIN image[layer] =>
              Current \in Entry /\ Current.content # Truncated
<1>1. layer \in DOMAIN image
  BY ImageTypes DEF TypeOK
<1>2. layer \in Nat /\ entry \in Nat
  BY <1>1, ImageTypes DEF TypeOK
<1>3. image \in Images
  BY DEF TypeOK
<1> QED
  BY <1>1, <1>2, <1>3, ImageTypes, WholeAssumption DEF Current

\* The scan stays within the image and the directory is one, for any images
\* (unpackImage, extractLayer).
THEOREM TypeCorrect == Spec => []TypeOK
<1>1. Init => TypeOK
  <2> SUFFICES ASSUME Init PROVE TypeOK
    OBVIOUS
  <2>1. DOMAIN fs = {}
    BY DEF Init
  <2>2. image \in Seq(Seq(Entry))
    BY ImagesAssumption DEF Init
  <2> QED
    BY <2>1, <2>2 DEF Init, TypeOK
<1>2. TypeOK /\ [Next]_vars => TypeOK'
  <2> SUFFICES ASSUME TypeOK, [Next]_vars PROVE TypeOK'
    OBVIOUS
  <2>1. CASE ListLayers
    BY <2>1, ImageTypes DEF ListLayers, TypeOK
  <2>2. CASE SkipLayer
    BY <2>2, ImageTypes DEF SkipLayer, TypeOK
  <2>3. CASE OpenLayer
    BY <2>3, ImageTypes DEF OpenLayer, TypeOK
  <2>4. CASE ExtractEntry
    <3>1. Tree(fs')
      BY <2>4, CurrentTypes, TypeOKTree, ExtractedTree DEF ExtractEntry
    <3>2. layer \in DOMAIN image /\ entry \in 1 .. Len(image[layer]) /\ Len(image[layer]) \in Nat
      BY <2>4, CurrentTypes, ImageTypes DEF ExtractEntry
    <3>3. entry' \in 1 .. Len(image[layer]) + 1
      BY <3>2, <2>4 DEF ExtractEntry
    <3> QED
      BY <2>4, <3>1, <3>3 DEF ExtractEntry, TypeOK, Tree
  <2>5. CASE EntryRefused
    BY <2>5 DEF EntryRefused, TypeOK
  <2>6. CASE LayerDone
    <3>1. layer \in DOMAIN image /\ layer \in Nat /\ layer # 0
      BY <2>6, CurrentTypes DEF LayerDone, TypeOK
    <3> QED
      BY <2>6, <3>1, ImageTypes DEF LayerDone, TypeOK
  <2>7. CASE Exhausted
    BY <2>7 DEF Exhausted, TypeOK
  <2>8. CASE ReadFails
    BY <2>8 DEF ReadFails, TypeOK
  <2>9. CASE CopyFails
    <3>1. Tree(fs')
      BY <2>9, CurrentTypes, TypeOKTree, ExtractFileTree, LiteralsAreStrings DEF CopyFails
    <3> QED
      BY <2>9, <3>1 DEF CopyFails, TypeOK, Tree
  <2>10. CASE UNCHANGED vars
    BY <2>10 DEF vars, TypeOK
  <2> QED
    BY <2>1, <2>2, <2>3, <2>4, <2>5, <2>6, <2>7, <2>8, <2>9, <2>10 DEF Next, Advance
<1> QED
  BY <1>1, <1>2, PTL DEF Spec

-----------------------------------------------------------------------------
(* What an entry does to the directory.                                      *)

\* f is the directory with more directories in it, and with the node at a path.
Extended(f, paths) ==
  /\ DOMAIN f = DOMAIN fs \cup paths
  /\ \A p \in DOMAIN f : f[p] = IF p \in DOMAIN fs THEN fs[p] ELSE Dir

Grown(f, paths, at, node) ==
  /\ DOMAIN f = DOMAIN fs \cup paths \cup {at}
  /\ \A p \in DOMAIN f :
       f[p] = IF p = at THEN node ELSE IF p \in DOMAIN fs THEN fs[p] ELSE Dir

LinkNode(e) == [type |-> "link", content |-> e.content, writable |-> TRUE]

OwnPath(e) == {e.path} \ {<<>>}

LEMMA DirMeans ==
  ASSUME NEW e
  PROVE  Extended(ExtractDirectory(e), Parents(e.path) \cup OwnPath(e))
BY DEF Extended, ExtractDirectory, WithDirs, OwnPath, Dir

LEMMA FileMeans ==
  ASSUME NEW e, NEW content
  PROVE  Grown(ExtractFile(e, content), Parents(e.path), Real(e.path), FileNode(e, content))
<1>1. ExtractFile(e, content) = Put(WithDirs(Parents(e.path)), Real(e.path), FileNode(e, content))
  BY DEF ExtractFile, FileNode
<1> QED
  BY <1>1 DEF Put, WithDirs, Grown, Dir

LEMMA LinkMeans ==
  ASSUME NEW e
  PROVE  Grown(ExtractSymlink(e), Parents(e.path), e.path, LinkNode(e))
<1>1. ExtractSymlink(e) = Put(WithDirs(Parents(e.path)), e.path, LinkNode(e))
  BY DEF ExtractSymlink, LinkNode
<1> QED
  BY <1>1 DEF Put, WithDirs, Grown, Dir

LEMMA ExtractedMeans ==
  ASSUME NEW e \in Entry
  PROVE  \/ e.type = "dir" /\ Extended(Extracted(e), Parents(e.path) \cup OwnPath(e))
         \/ /\ e.type = "file"
            /\ Grown(Extracted(e), Parents(e.path), Real(e.path), FileNode(e, e.content))
         \/ e.type = "link" /\ Grown(Extracted(e), Parents(e.path), e.path, LinkNode(e))
         \/ e.type = "other" /\ Extracted(e) = fs
<1>1. e.type \in {"dir", "file", "link", "other"}
  BY DEF Entry
<1> QED
  BY <1>1, DirMeans, FileMeans, LinkMeans DEF Extracted

-----------------------------------------------------------------------------
(* Files are whole.                                                          *)

AllWhole(f) == \A p \in DOMAIN f : f[p].type = "file" => f[p].content # Truncated

LEMMA ExtendedWhole ==
  ASSUME AllWhole(fs), NEW f, NEW paths, Extended(f, paths)
  PROVE  AllWhole(f)
<1> SUFFICES ASSUME NEW p \in DOMAIN f, f[p].type = "file"
             PROVE  f[p].content # Truncated
  BY DEF AllWhole
<1>1. p \in DOMAIN fs
  BY DirIsNode DEF Extended
<1> QED
  BY <1>1 DEF Extended, AllWhole

LEMMA GrownWhole ==
  ASSUME AllWhole(fs), NEW f, NEW paths, NEW at, NEW node, Grown(f, paths, at, node),
         node.type = "file" => node.content # Truncated
  PROVE  AllWhole(f)
<1> SUFFICES ASSUME NEW p \in DOMAIN f, f[p].type = "file"
             PROVE  f[p].content # Truncated
  BY DEF AllWhole
<1>1. CASE p = at
  <2>1. f[p] = node
    BY <1>1 DEF Grown
  <2> QED
    BY <2>1
<1>2. CASE p # at
  <2>1. p \in DOMAIN fs
    BY <1>2, DirIsNode DEF Grown
  <2>2. f[p] = fs[p]
    BY <1>2, <2>1 DEF Grown
  <2> QED
    BY <2>1, <2>2 DEF AllWhole
<1> QED
  BY <1>1, <1>2

LEMMA ExtractedWhole ==
  ASSUME NEW e \in Entry, e.content # Truncated, AllWhole(fs)
  PROVE  AllWhole(Extracted(e))
<1>1. FileNode(e, e.content).content # Truncated
  BY DEF FileNode
<1>2. LinkNode(e).type # "file"
  BY DEF LinkNode
<1> QED
  BY <1>1, <1>2, ExtractedMeans, ExtendedWhole, GrownWhole

WholeSoFar == pc # "failed" => AllWhole(fs)

\* Wherever the stream of a layer ends, an extraction that succeeds left no file
\* that is cut short (ExtractFile returns the error of io.Copy, unpackImage stops
\* at it).
THEOREM NothingCutShort == Spec => []FilesAreWhole
<1>1. Init => WholeSoFar
  <2> SUFFICES ASSUME Init PROVE WholeSoFar
    OBVIOUS
  <2>1. DOMAIN fs = {}
    BY DEF Init
  <2> QED
    BY <2>1 DEF WholeSoFar, AllWhole
<1>2. TypeOK /\ WholeSoFar /\ [Next]_vars => WholeSoFar'
  <2> SUFFICES ASSUME TypeOK, WholeSoFar, [Next]_vars PROVE WholeSoFar'
    OBVIOUS
  <2>1. CASE ExtractEntry
    <3>1. Current \in Entry /\ Current.content # Truncated
      BY <2>1, CurrentTypes DEF ExtractEntry
    <3> QED
      BY <2>1, <3>1, ExtractedWhole DEF ExtractEntry, WholeSoFar
  <2>2. CASE CopyFails \/ ReadFails \/ EntryRefused
    BY <2>2 DEF CopyFails, ReadFails, EntryRefused, WholeSoFar
  <2>3. CASE ListLayers \/ SkipLayer \/ OpenLayer
    BY <2>3 DEF ListLayers, SkipLayer, OpenLayer, WholeSoFar, AllWhole
  <2>4. CASE LayerDone \/ Exhausted
    BY <2>4 DEF LayerDone, Exhausted, WholeSoFar, AllWhole
  <2>5. CASE UNCHANGED vars
    BY <2>5 DEF vars, WholeSoFar, AllWhole
  <2> QED
    BY <2>1, <2>2, <2>3, <2>4, <2>5 DEF Next, Advance
<1>3. WholeSoFar => FilesAreWhole
  BY DEF WholeSoFar, AllWhole, FilesAreWhole
<1> QED
  BY <1>1, <1>2, <1>3, TypeCorrect, PTL DEF Spec

-----------------------------------------------------------------------------
(* The scan is complete.                                                     *)

\* The layers behind the scan that hold something wanted are those extracted.
Passed ==
  /\ pc = "layers" => extracted = {}
  /\ pc \in {"scan", "extract"} => \A l \in DOMAIN image : l > layer =>
       (l \in extracted <=> HasContent(l))
  /\ pc \in {"scan", "extract"} => \A l \in extracted : l > layer
  /\ \A l \in extracted : HasContent(l)
  /\ pc = "extract" => HasContent(layer)

LEMMA ContentStays ==
  ASSUME UNCHANGED <<image, prefixes>>, NEW l
  PROVE  HasContent(l)' <=> HasContent(l)
BY DEF HasContent, Relevant

CompleteInv == Passed /\ CompleteOrExhausted

LEMMA PassedStep ==
  ASSUME TypeOK, CompleteInv, [Next]_vars
  PROVE  CompleteInv'
<1>0. UNCHANGED <<image, prefixes>>
  BY DEF Next, Advance, ListLayers, SkipLayer, OpenLayer, ExtractEntry, EntryRefused, LayerDone,
         Exhausted, ReadFails, CopyFails, vars
<1>1. \A l : HasContent(l)' <=> HasContent(l)
  BY <1>0, ContentStays
<1>2. layer \in Nat /\ Len(image) \in Nat /\ DOMAIN image = 1 .. Len(image)
  BY ImageTypes DEF TypeOK
<1>3. extracted \subseteq DOMAIN image
  BY DEF TypeOK
<1>4. CASE ListLayers
  <2>1. pc' = "scan" /\ layer' = Len(image) /\ extracted' = {} /\ image' = image
    BY <1>4 DEF ListLayers, CompleteInv, Passed
  <2>2. \A l \in DOMAIN image : ~(l > layer')
    BY <1>2, <2>1
  <2> QED
    BY <2>1, <2>2 DEF CompleteInv, Passed, CompleteOrExhausted
<1>5. CASE SkipLayer
  <2>1. pc = "scan" /\ pc' = "scan" /\ layer' = layer - 1 /\ extracted' = extracted
          /\ image' = image /\ ~HasContent(layer)
    BY <1>5 DEF SkipLayer
  <2>2. \A l \in DOMAIN image : l > layer' => l > layer \/ l = layer
    BY <1>2, <2>1
  <2>3. \A l \in DOMAIN image : l > layer => l > layer'
    BY <1>2, <2>1
  <2>4. layer \notin extracted
    BY <2>1 DEF CompleteInv, Passed
  <2> QED
    BY <1>1, <1>3, <2>1, <2>2, <2>3, <2>4 DEF CompleteInv, Passed, CompleteOrExhausted
<1>6. CASE OpenLayer
  BY <1>6, <1>1 DEF OpenLayer, CompleteInv, Passed, CompleteOrExhausted
<1>7. CASE ExtractEntry
  BY <1>7, <1>1 DEF ExtractEntry, CompleteInv, Passed, CompleteOrExhausted
<1>8. CASE EntryRefused \/ CopyFails \/ ReadFails
  BY <1>8, <1>1 DEF EntryRefused, CopyFails, ReadFails, CompleteInv, Passed, CompleteOrExhausted
<1>9. CASE LayerDone
  <2>1. pc = "extract" /\ extracted' = extracted \cup {layer} /\ HasContent(layer)
          /\ image' = image /\ prefixes' = prefixes /\ fs' = fs /\ layer \in DOMAIN image
    BY <1>9, CurrentTypes DEF LayerDone, CompleteInv, Passed
  <2>2. \A l \in DOMAIN image : l >= layer => l > layer \/ l = layer
    BY <1>2
  <2>3. CASE hasAllRequiredContent /\ pc' = "done" /\ layer' = layer
    <3>1. \A prefix \in prefixes : <<prefix>> \in DOMAIN fs /\ <<prefix>>[1] = prefix
      BY <2>3 DEF hasAllRequiredContent
    <3> QED
      BY <1>1, <2>1, <2>2, <2>3, <3>1 DEF CompleteInv, Passed, CompleteOrExhausted
  <2>4. CASE ~hasAllRequiredContent /\ pc' = "scan" /\ layer' = layer - 1
    <3>1. \A l \in DOMAIN image : l > layer' <=> l > layer \/ l = layer
      BY <1>2, <2>4
    <3> QED
      BY <1>1, <1>3, <2>1, <2>4, <3>1 DEF CompleteInv, Passed, CompleteOrExhausted
  <2> QED
    BY <1>9, <2>3, <2>4 DEF LayerDone
<1>10. CASE Exhausted
  <2>1. \A l \in DOMAIN image : l > 0
    BY <1>2
  <2> QED
    BY <1>10, <1>1, <2>1 DEF Exhausted, CompleteInv, Passed, CompleteOrExhausted
<1>11. CASE UNCHANGED vars
  BY <1>11, <1>1 DEF vars, CompleteInv, Passed, CompleteOrExhausted
<1> QED
  BY <1>4, <1>5, <1>6, <1>7, <1>8, <1>9, <1>10, <1>11 DEF Next, Advance

LEMMA PassedFirst == Init => CompleteInv
BY DEF Init, CompleteInv, Passed, CompleteOrExhausted

LEMMA AlwaysComplete == Spec => []CompleteInv
BY PassedFirst, PassedStep, TypeCorrect, PTL DEF Spec

\* For any image: the scan ends early only when there is something under every
\* prefix, and no layer it passed holds anything wanted that was not extracted
\* (unpackImage, hasAllRequiredContent).
THEOREM ScanIsComplete == Spec => []CompleteOrExhausted
BY AlwaysComplete, PTL DEF CompleteInv

-----------------------------------------------------------------------------
(* Links, and what they lead to.                                             *)

\* The entry was extracted.
Processed(l, i) == l \in extracted \/ (pc = "extract" /\ l = layer /\ i < entry)

\* The link at the path is one that was extracted.
LinkAt(p) ==
  \E l \in DOMAIN image : \E i \in DOMAIN image[l] :
    /\ Processed(l, i)
    /\ image[l][i].type = "link"
    /\ image[l][i].path = p
    /\ image[l][i].content = fs[p].content

LinksAreSeen == pc # "failed" => \A p \in DOMAIN fs : fs[p].type = "link" => LinkAt(p)

\* The steps that leave the directory alone and do not fail.
Between == ListLayers \/ SkipLayer \/ OpenLayer \/ LayerDone \/ Exhausted

LEMMA BetweenStep ==
  ASSUME TypeOK, Between \/ UNCHANGED vars
  PROVE  /\ UNCHANGED <<image, prefixes, fs>>
         /\ pc' # "failed" => pc # "failed"
         /\ \A l \in DOMAIN image : \A i \in DOMAIN image[l] : Processed(l, i)' <=> Processed(l, i)
<1>1. CASE ListLayers \/ SkipLayer \/ Exhausted
  BY <1>1 DEF ListLayers, SkipLayer, Exhausted, Processed
<1>2. CASE OpenLayer
  <2>1. \A l \in DOMAIN image : \A i \in DOMAIN image[l] : ~(i < 1)
    BY ImageTypes
  <2> QED
    BY <1>2, <2>1 DEF OpenLayer, Processed
<1>3. CASE LayerDone
  <2>1. layer \in DOMAIN image /\ entry = Len(image[layer]) + 1
    BY <1>3, CurrentTypes DEF LayerDone
  <2>2. \A i \in DOMAIN image[layer] : i < entry
    BY <2>1, ImageTypes
  <2>3. pc = "extract" /\ pc' # "extract" /\ extracted' = extracted \cup {layer}
          /\ UNCHANGED <<image, prefixes, fs>>
    BY <1>3 DEF LayerDone
  <2> QED
    BY <2>2, <2>3 DEF Processed
<1>4. CASE UNCHANGED vars
  BY <1>4 DEF vars, Processed
<1> QED
  BY <1>1, <1>2, <1>3, <1>4 DEF Between

LEMMA EntryStep ==
  ASSUME TypeOK, ExtractEntry
  PROVE  /\ UNCHANGED <<image, prefixes>>
         /\ layer \in DOMAIN image /\ entry \in DOMAIN image[layer]
         /\ Current = image[layer][entry] /\ Current \in Entry
         /\ fs' = Extracted(Current)
         /\ \A l \in DOMAIN image : \A i \in DOMAIN image[l] :
              Processed(l, i)' <=> Processed(l, i) \/ (l = layer /\ i = entry)
<1>1. layer \in DOMAIN image /\ entry \in DOMAIN image[layer] /\ Current \in Entry /\ entry \in Nat
  BY CurrentTypes DEF ExtractEntry
<1>2. \A i \in DOMAIN image[layer] : i < entry + 1 <=> i < entry \/ i = entry
  BY <1>1, ImageTypes
<1> QED
  BY <1>1, <1>2 DEF ExtractEntry, Processed, Current

LEMMA EntryLinks ==
  ASSUME TypeOK, LinksAreSeen, ExtractEntry
  PROVE  LinksAreSeen'
<1> DEFINE c == Current
<1>1. SUFFICES ASSUME NEW p \in DOMAIN fs', fs'[p].type = "link"
               PROVE  LinkAt(p)'
  BY DEF LinksAreSeen
<1>2. ASSUME p \in DOMAIN fs, fs'[p] = fs[p]
      PROVE  LinkAt(p)'
  <2>1. pc # "failed"
    BY DEF ExtractEntry
  <2>2. LinkAt(p)
    BY <1>1, <1>2, <2>1 DEF LinksAreSeen
  <2>3. PICK l \in DOMAIN image : \E i \in DOMAIN image[l] :
          /\ Processed(l, i) /\ image[l][i].type = "link" /\ image[l][i].path = p
          /\ image[l][i].content = fs[p].content
    BY <2>2 DEF LinkAt
  <2>4. PICK i \in DOMAIN image[l] :
          /\ Processed(l, i) /\ image[l][i].type = "link" /\ image[l][i].path = p
          /\ image[l][i].content = fs[p].content
    BY <2>3
  <2>5. Processed(l, i)' /\ image' = image
    BY <2>4, EntryStep
  <2> QED
    BY <1>2, <2>4, <2>5 DEF LinkAt
<1>3. ASSUME p = c.path, fs'[p] = LinkNode(c), c.type = "link"
      PROVE  LinkAt(p)'
  <2>1. fs'[p].content = c.content
    BY <1>3 DEF LinkNode
  <2>2. PICK l \in DOMAIN image : l = layer
    BY EntryStep
  <2>3. PICK i \in DOMAIN image[l] : i = entry
    BY <2>2, EntryStep
  <2>4. Processed(l, i)' /\ image' = image /\ c = image[l][i]
    BY <2>2, <2>3, EntryStep
  <2> QED
    BY <1>3, <2>1, <2>4 DEF LinkAt
<1>4. fs' = Extracted(c) /\ c \in Entry
  BY EntryStep
<1>5. Dir.type # "link" /\ FileNode(c, c.content).type # "link"
  BY DirIsNode DEF FileNode
<1> HIDE DEF c
<1>6. CASE Extended(fs', Parents(c.path) \cup OwnPath(c))
  BY <1>1, <1>2, <1>5, <1>6 DEF Extended
<1>7. CASE Grown(fs', Parents(c.path), Real(c.path), FileNode(c, c.content))
  BY <1>1, <1>2, <1>5, <1>7 DEF Grown
<1>8. CASE c.type = "link" /\ Grown(fs', Parents(c.path), c.path, LinkNode(c))
  BY <1>1, <1>2, <1>3, <1>5, <1>8 DEF Grown
<1>9. CASE fs' = fs
  BY <1>1, <1>2, <1>9
<1> QED
  BY <1>4, <1>6, <1>7, <1>8, <1>9, ExtractedMeans

LEMMA LinksStep ==
  ASSUME TypeOK, LinksAreSeen, [Next]_vars
  PROVE  LinksAreSeen'
<1>1. CASE ExtractEntry
  BY <1>1, EntryLinks
<1>2. CASE EntryRefused \/ CopyFails \/ ReadFails
  BY <1>2 DEF EntryRefused, CopyFails, ReadFails, LinksAreSeen
<1>3. CASE Between \/ UNCHANGED vars
  <2>1. UNCHANGED <<image, fs>> /\ (pc' # "failed" => pc # "failed")
    BY <1>3, BetweenStep
  <2>2. \A l \in DOMAIN image : \A i \in DOMAIN image[l] : Processed(l, i)' <=> Processed(l, i)
    BY <1>3, BetweenStep
  <2>3. \A p : LinkAt(p)' <=> LinkAt(p)
    BY <2>1, <2>2 DEF LinkAt
  <2> QED
    BY <2>1, <2>3 DEF LinksAreSeen
<1> QED
  BY <1>1, <1>2, <1>3 DEF Next, Advance, Between

LEMMA LinksFirst == Init => LinksAreSeen
<1> SUFFICES ASSUME Init PROVE LinksAreSeen
  OBVIOUS
<1>1. DOMAIN fs = {}
  BY DEF Init
<1> QED
  BY <1>1 DEF LinksAreSeen

\* A file is opened at its path or at what an extracted link leads to.
LEMMA RealMeans ==
  ASSUME LinksAreSeen, pc # "failed", NEW path, Real(path) # path
  PROVE  \E l \in DOMAIN image : \E i \in DOMAIN image[l] :
           /\ Processed(l, i)
           /\ image[l][i].type = "link"
           /\ image[l][i].path = path
           /\ Real(path) = Beside(path, image[l][i].content)
<1>1. path \in DOMAIN fs /\ fs[path].type = "link" /\ Real(path) = Beside(path, fs[path].content)
  BY DEF Real
<1>2. LinkAt(path)
  BY <1>1 DEF LinksAreSeen
<1> QED
  BY <1>1, <1>2 DEF LinkAt

-----------------------------------------------------------------------------
(* Only layers with something wanted are extracted.                          *)

Origin(p) ==
  \E l \in DOMAIN image :
    /\ HasContent(l)
    /\ \E e \in EntriesOf(l) :
         \/ p = e.path
         \/ p \in Parents(e.path)
         \/ e.type = "link" /\ p = Beside(e.path, e.content)

LEMMA OriginsMean == OnlyRelevantLayers <=> \A p \in DOMAIN fs : Origin(p)
BY DEF OnlyRelevantLayers, Origin

LEMMA OriginStays ==
  ASSUME UNCHANGED <<image, prefixes>>, NEW p
  PROVE  Origin(p)' <=> Origin(p)
BY ContentStays DEF Origin, EntriesOf

LEMMA EntryOrigins ==
  ASSUME Passed, LinksAreSeen, pc = "extract", NEW l \in DOMAIN image, l = layer,
         NEW c \in EntriesOf(l)
  PROVE  /\ Origin(c.path) /\ Origin(Real(c.path))
         /\ \A p \in Parents(c.path) : Origin(p)
<1>1. HasContent(l)
  BY DEF Passed
<1>2. Origin(c.path) /\ \A p \in Parents(c.path) : Origin(p)
  BY <1>1 DEF Origin
<1>3. ASSUME Real(c.path) # c.path
      PROVE  Origin(Real(c.path))
  <2>1. PICK k \in DOMAIN image : \E j \in DOMAIN image[k] :
          /\ Processed(k, j) /\ image[k][j].type = "link" /\ image[k][j].path = c.path
          /\ Real(c.path) = Beside(c.path, image[k][j].content)
    BY <1>3, RealMeans
  <2>2. PICK j \in DOMAIN image[k] :
          /\ Processed(k, j) /\ image[k][j].type = "link" /\ image[k][j].path = c.path
          /\ Real(c.path) = Beside(c.path, image[k][j].content)
    BY <2>1
  <2>3. HasContent(k)
    BY <2>2, <1>1 DEF Processed, Passed
  <2>4. image[k][j] \in EntriesOf(k)
    BY DEF EntriesOf
  <2> QED
    BY <2>2, <2>3, <2>4 DEF Origin
<1> QED
  BY <1>2, <1>3

LEMMA OriginsStep ==
  ASSUME TypeOK, Passed, LinksAreSeen, OnlyRelevantLayers, [Next]_vars
  PROVE  OnlyRelevantLayers'
<1>0. ASSUME UNCHANGED <<image, prefixes>>, \A p \in DOMAIN fs' : Origin(p)
      PROVE  OnlyRelevantLayers'
  BY <1>0, OriginStays, OriginsMean DEF OnlyRelevantLayers, Origin
<1>1. \A p \in DOMAIN fs : Origin(p)
  BY OriginsMean
<1>2. CASE ExtractEntry \/ CopyFails
  <2>1. /\ UNCHANGED <<image, prefixes>> /\ pc = "extract"
        /\ fs' = Extracted(Current) \/ fs' = ExtractFile(Current, Truncated)
        /\ entry \in DOMAIN image[layer]
    BY <1>2 DEF ExtractEntry, CopyFails
  <2>2. layer \in DOMAIN image /\ Current \in Entry
    BY <2>1, CurrentTypes
  <2>3. PICK l \in DOMAIN image : l = layer
    BY <2>2
  <2>4. PICK c \in EntriesOf(l) : c = Current
    BY <2>1, <2>3 DEF EntriesOf, Current
  <2>5. Origin(c.path) /\ Origin(Real(c.path)) /\ \A p \in Parents(c.path) : Origin(p)
    BY <2>1, <2>3, EntryOrigins
  <2>6. fs' = Extracted(c) \/ Grown(fs', Parents(c.path), Real(c.path), FileNode(c, Truncated))
    BY <2>1, <2>4, FileMeans
  <2>7. \/ Extended(fs', Parents(c.path) \cup OwnPath(c))
        \/ \E node : Grown(fs', Parents(c.path), Real(c.path), node)
        \/ \E node : Grown(fs', Parents(c.path), c.path, node)
        \/ fs' = fs
    BY <2>2, <2>4, <2>6, ExtractedMeans
  <2>8. DOMAIN fs' \subseteq DOMAIN fs \cup Parents(c.path) \cup {c.path, Real(c.path)}
    BY <2>7 DEF Extended, Grown, OwnPath
  <2>9. \A p \in DOMAIN fs' : Origin(p)
    BY <1>1, <2>5, <2>8
  <2> QED
    BY <1>0, <2>1, <2>9
<1>3. CASE EntryRefused \/ ReadFails
  BY <1>0, <1>1, <1>3 DEF EntryRefused, ReadFails
<1>4. CASE Between \/ UNCHANGED vars
  BY <1>0, <1>1, <1>4, BetweenStep
<1> QED
  BY <1>2, <1>3, <1>4 DEF Next, Advance, Between

\* Whatever the layers are and wherever the extraction stops, nothing of a layer
\* without anything wanted is in the directory (layerContainsRelevantPaths,
\* unpackImage).
THEOREM BaseLayersStayOut == Spec => []OnlyRelevantLayers
<1>1. Init => OnlyRelevantLayers
  <2> SUFFICES ASSUME Init PROVE OnlyRelevantLayers
    OBVIOUS
  <2>1. DOMAIN fs = {}
    BY DEF Init
  <2> QED
    BY <2>1 DEF OnlyRelevantLayers
<1>2. TypeOK /\ CompleteInv /\ LinksAreSeen /\ OnlyRelevantLayers /\ [Next]_vars
        => LinksAreSeen' /\ OnlyRelevantLayers'
  BY LinksStep, OriginsStep DEF CompleteInv
<1> QED
  BY <1>1, <1>2, LinksFirst, TypeCorrect, AlwaysComplete, PTL DEF Spec

-----------------------------------------------------------------------------
(* The last version that is extracted stays.                                 *)

Unlinked(path) ==
  \A k \in DOMAIN image : \A j \in DOMAIN image[k] :
    Processed(k, j) /\ image[k][j].type = "link" =>
      image[k][j].path # path /\ Beside(image[k][j].path, image[k][j].content) # path

NothingLater(l, i) ==
  \A k \in DOMAIN image : \A j \in DOMAIN image[k] :
    Processed(k, j) /\ (k < l \/ (k = l /\ j > i)) => ~Writes(image[k][j], image[l][i].path)

Holds(e) ==
  e.path \in DOMAIN fs /\ fs[e.path].type = "file" /\ fs[e.path].content = e.content

\* What OldestExtractedWins says at the end holds of the entries extracted so far.
LastStays ==
  pc # "failed" => \A l \in DOMAIN image : \A i \in DOMAIN image[l] :
    /\ Processed(l, i)
    /\ image[l][i].type = "file"
    /\ Unlinked(image[l][i].path)
    /\ NothingLater(l, i)
    => Holds(image[l][i])

\* The extraction of c touches no other path than c's own, unless a link leads there.
LEMMA OpensItself ==
  ASSUME LinksAreSeen, pc # "failed", NEW c, NEW path, Unlinked(path),
         Real(c.path) = path \/ c.path = path
  PROVE  c.path = path /\ Real(c.path) = path
<1>1. SUFFICES ASSUME Real(c.path) # c.path PROVE FALSE
  OBVIOUS
<1>2. PICK k \in DOMAIN image : \E j \in DOMAIN image[k] :
        /\ Processed(k, j) /\ image[k][j].type = "link" /\ image[k][j].path = c.path
        /\ Real(c.path) = Beside(c.path, image[k][j].content)
  BY <1>1, RealMeans
<1> QED
  BY <1>2 DEF Unlinked

LEMMA EntryLast ==
  ASSUME TypeOK, Passed, LinksAreSeen, LastStays, ExtractEntry
  PROVE  LastStays'
<1>1. /\ UNCHANGED <<image, prefixes>> /\ pc = "extract" /\ pc' = "extract"
      /\ layer \in DOMAIN image /\ entry \in DOMAIN image[layer]
      /\ Current = image[layer][entry] /\ Current \in Entry /\ fs' = Extracted(Current)
  BY EntryStep DEF ExtractEntry
<1>2. PICK n \in DOMAIN image : n = layer
  BY <1>1
<1>3. PICK m \in DOMAIN image[n] : m = entry
  BY <1>1, <1>2
<1>4. \A l \in DOMAIN image : \A i \in DOMAIN image[l] :
        Processed(l, i)' <=> Processed(l, i) \/ (l = n /\ i = m)
  BY <1>2, <1>3, EntryStep
<1> SUFFICES ASSUME NEW l \in DOMAIN image, NEW i \in DOMAIN image[l],
                    Processed(l, i)', image[l][i].type = "file",
                    Unlinked(image[l][i].path)', NothingLater(l, i)'
             PROVE  Holds(image[l][i])'
  BY <1>1 DEF LastStays
<1> DEFINE e == image[l][i]
           c == image[n][m]
<1>5. c = Current /\ c \in Entry /\ image' = image
  BY <1>1, <1>2, <1>3
<1>6. Unlinked(e.path) /\ (c.type = "link" => c.path # e.path)
  BY <1>4, <1>5 DEF Unlinked
<1>7. NothingLater(l, i)
  BY <1>4, <1>5 DEF NothingLater
<1>8. n < l \/ (n = l /\ m > i) => ~Writes(c, e.path)
  BY <1>4, <1>5 DEF NothingLater
<1>9. ASSUME Processed(l, i), c.type = "file"
      PROVE  c.path # e.path
  <2>1. n < l \/ (n = l /\ m > i)
    <3>1. CASE l \in extracted
      <4>1. l > layer
        BY <1>1, <3>1 DEF Passed
      <4>2. layer \in Nat /\ l \in Nat
        BY <1>1, CurrentTypes, ImageTypes
      <4> QED
        BY <4>1, <4>2, <1>2
    <3>2. CASE l = layer /\ i < entry
      <4>1. i \in Nat /\ entry \in Nat
        BY <1>1, CurrentTypes, ImageTypes
      <4> QED
        BY <3>2, <4>1, <1>2, <1>3
    <3> QED
      BY <1>9, <3>1, <3>2 DEF Processed
  <2> QED
    BY <1>8, <1>9, <2>1 DEF Writes
<1>10. CASE Processed(l, i)
  <2>1. e.path \in DOMAIN fs /\ fs[e.path].type = "file" /\ fs[e.path].content = e.content
    BY <1>1, <1>6, <1>7, <1>10 DEF LastStays, Holds
  <2>2. c.type = "file" => Real(c.path) # e.path
    BY <1>1, <1>6, <1>9, <1>10, OpensItself
  <2>3. e.path \in DOMAIN fs' /\ fs'[e.path] = fs[e.path]
    <3> HIDE DEF e, c
    <3>1. CASE Extended(fs', Parents(c.path) \cup OwnPath(c))
      BY <2>1, <3>1 DEF Extended
    <3>2. CASE c.type = "file" /\ Grown(fs', Parents(c.path), Real(c.path), FileNode(c, c.content))
      BY <2>1, <2>2, <3>2 DEF Grown
    <3>3. CASE c.type = "link" /\ Grown(fs', Parents(c.path), c.path, LinkNode(c))
      BY <1>6, <2>1, <3>3 DEF Grown
    <3>4. CASE fs' = fs
      BY <2>1, <3>4
    <3>5. fs' = Extracted(c)
      BY <1>1, <1>5
    <3> QED
      BY <1>5, <3>1, <3>2, <3>3, <3>4, <3>5, ExtractedMeans
  <2> QED
    BY <1>5, <2>1, <2>3 DEF Holds
<1>11. CASE l = n /\ i = m
  <2>1. e = c /\ c.type = "file"
    BY <1>11
  <2>2. Real(c.path) = c.path
    BY <1>1, <1>6, <2>1, OpensItself
  <2>3. Grown(fs', Parents(c.path), c.path, FileNode(c, c.content))
    BY <1>1, <1>5, <2>1, <2>2, ExtractedMeans
  <2>4. c.path \in DOMAIN fs' /\ fs'[c.path] = FileNode(c, c.content)
    BY <2>3 DEF Grown
  <2> QED
    BY <1>5, <2>1, <2>4 DEF Holds, FileNode
<1> QED
  BY <1>4, <1>10, <1>11

LEMMA LastStep ==
  ASSUME TypeOK, Passed, LinksAreSeen, LastStays, [Next]_vars
  PROVE  LastStays'
<1>1. CASE ExtractEntry
  BY <1>1, EntryLast
<1>2. CASE EntryRefused \/ CopyFails \/ ReadFails
  BY <1>2 DEF EntryRefused, CopyFails, ReadFails, LastStays
<1>3. CASE Between \/ UNCHANGED vars
  <2>1. UNCHANGED <<image, fs>> /\ (pc' # "failed" => pc # "failed")
    BY <1>3, BetweenStep
  <2>2. \A l \in DOMAIN image : \A i \in DOMAIN image[l] : Processed(l, i)' <=> Processed(l, i)
    BY <1>3, BetweenStep
  <2>3. \A path : Unlinked(path)' <=> Unlinked(path)
    BY <2>1, <2>2 DEF Unlinked
  <2>4. \A l \in DOMAIN image : \A i \in DOMAIN image[l] : NothingLater(l, i)' <=> NothingLater(l, i)
    BY <2>1, <2>2 DEF NothingLater
  <2>5. \A l \in DOMAIN image : \A i \in DOMAIN image[l] : Holds(image[l][i])' <=> Holds(image[l][i])
    BY <2>1 DEF Holds
  <2> QED
    BY <2>1, <2>2, <2>3, <2>4, <2>5 DEF LastStays
<1> QED
  BY <1>1, <1>2, <1>3 DEF Next, Advance, Between

LEMMA LastMeans == TypeOK /\ LastStays => OldestExtractedWins
<1> SUFFICES ASSUME TypeOK, LastStays, pc = "done", NEW l \in extracted,
                    NEW i \in DOMAIN image[l], image[l][i].type = "file",
                    ~Linked(image[l][i].path), LastToWrite(l, i)
             PROVE  image[l][i].path \in DOMAIN fs
                      /\ fs[image[l][i].path].content = image[l][i].content
  BY DEF OldestExtractedWins
<1>1. l \in DOMAIN image /\ Processed(l, i)
  BY DEF TypeOK, Processed
<1>2. \A k, j : Processed(k, j) <=> k \in extracted
  BY DEF Processed
<1>3. Unlinked(image[l][i].path)
  BY <1>2 DEF Unlinked, Linked, EntriesOf
<1>4. NothingLater(l, i)
  BY <1>2 DEF NothingLater, LastToWrite, EntriesOf
<1>5. Holds(image[l][i])
  BY <1>1, <1>3, <1>4 DEF LastStays
<1> QED
  BY <1>5 DEF Holds

\* Whatever the layers hold and in whatever order the scan meets them, a file that
\* an extracted layer brings and no link touches is there at the end with the
\* content of the last entry extracted for its path (extractLayer, ExtractFile).
THEOREM LastExtractedStays == Spec => []OldestExtractedWins
<1>1. Init => LastStays
  BY DEF Init, LastStays, Processed
<1>2. TypeOK /\ CompleteInv /\ LinksAreSeen /\ LastStays /\ [Next]_vars
        => LinksAreSeen' /\ LastStays'
  BY LinksStep, LastStep DEF CompleteInv
<1> QED
  BY <1>1, <1>2, LinksFirst, LastMeans, TypeCorrect, AlwaysComplete, PTL DEF Spec
=============================================================================
