----------------------------- MODULE ImageSource -----------------------------
(***************************************************************************)
(* Where a bundle comes from: catalog.ResolveBundleSource and bundle.Load, *)
(* as the run command and the KRM function call them, one after the other. *)
(* Several invocations share a directory for temporary files; each may be  *)
(* stopped at any point.                                                   *)
(*                                                                         *)
(* A reference (a directory, an image, a package with its version) is the  *)
(* sequence of its colon-separated parts.                                  *)
(***************************************************************************)
EXTENDS Integers, Sequences, Functions

CONSTANTS Processes,  \* the invocations, which may run at the same time
          Requests,   \* what they may be asked for
          UserDirs,   \* directories that are there from the start
          TempDirs,   \* the names os.MkdirTemp may pick
          Catalogs    \* the content of catalog images, by reference

Ref == Seq(STRING)
NoRef == <<>>

\* What a catalog says of its packages, channels and bundles; the program reads
\* neither what an entry replaces nor the version of a bundle.
ChannelEntry == [name : Ref, replaces : Ref]
Catalog ==
  [packages : Seq([name : STRING, default : STRING]),
   channels : Seq([package : STRING, name : STRING, entries : Seq(ChannelEntry)]),
   bundles  : Seq([name : Ref, package : STRING, version : Ref, image : Ref])]

\* catalog is NoRef in direct mode, channel "" when it is not given.
Request == [input : Ref \ {NoRef}, catalog : Ref, channel : STRING]

ASSUME CatalogsAssumption ==
  \A image \in DOMAIN Catalogs : image \in Ref /\ Catalogs[image] \in Catalog
ASSUME RequestsAssumption ==
  /\ Requests \subseteq Request
  /\ \A r \in Requests : r.catalog \in DOMAIN Catalogs \cup {NoRef}
ASSUME DirsAssumption ==
  /\ UserDirs \subseteq Ref \ {NoRef}
  /\ TempDirs \subseteq Ref \ {NoRef}
  /\ UserDirs \cap TempDirs = {}
\* References are not the names of temporary directories.
ASSUME RefsAssumption ==
  /\ \A r \in Requests : {r.input, r.catalog} \cap TempDirs = {}
  /\ \A image \in DOMAIN Catalogs :
       \A i \in DOMAIN Catalogs[image].bundles : Catalogs[image].bundles[i].image \notin TempDirs

VARIABLES request,  \* by process: what it was asked for
          pc,       \* where it is, or how it ended
          stage,    \* "catalog" or "bundle": which image it works on
          ref,      \* the image or directory it works on
          dir,      \* BundleResource.dir
          tmp,      \* BundleResource.tmpDir, NoRef when there is none to remove
          outcome,  \* of reading dir: "found", "missing" or "broken"
          dirs,     \* the directories that exist
          holds,    \* what was extracted into a temporary directory
          left      \* history, by temporary directory: why nobody will remove it

procVars == <<request, pc, stage, ref, dir, tmp, outcome>>
vars == <<procVars, dirs, holds, left>>

Terminal == {"done", "failed", "crashed"}

\* The resource was dropped, its removal was refused, or the process was stopped.
Reasons == {"dropped", "refused", "stopped"}
Left(p, why) == [d \in TempDirs |-> IF d = tmp[p] THEN why ELSE left[d]]

Init ==
  /\ request \in [Processes -> Requests]
  /\ pc = [p \in Processes |-> "start"]
  /\ stage = [p \in Processes |-> "catalog"]
  /\ ref = [p \in Processes |-> NoRef]
  /\ dir = [p \in Processes |-> NoRef]
  /\ tmp = [p \in Processes |-> NoRef]
  /\ outcome = [p \in Processes |-> "broken"]
  /\ dirs = UserDirs
  /\ holds = [d \in TempDirs |-> NoRef]
  /\ left = [d \in TempDirs |-> "no"]

-----------------------------------------------------------------------------
(* ResolveBundleImage: lists are searched front to back. *)

Package(r) == r.input[1]
\* "package:" is "package".
Version(r) == IF Tail(r.input) = <<"">> THEN NoRef ELSE Tail(r.input)

First(list, Test(_)) ==
  {list[i] : i \in {j \in DOMAIN list : Test(list[j]) /\ \A k \in 1 .. j - 1 : ~Test(list[k])}}

\* First and the searches give the set of what is found: one element or none.
findPackage(cat, name) == First(cat.packages, LAMBDA p : p.name = name)

ChannelName(r, pkg) == IF r.channel = "" THEN pkg.default ELSE r.channel

\* Mutant: the first channel of the name, whatever its package.
findChannel_AnyPackage(cat, pkg, name) == First(cat.channels, LAMBDA c : c.name = name)

findChannel(cat, pkg, name) ==
  First(cat.channels, LAMBDA c : c.package = pkg /\ c.name = name)

\* A version is compared with the names of the entries.
findBundleInChannel(channel, version) ==
  IF version # NoRef
    THEN First(channel.entries, LAMBDA e : e.name = version)
    ELSE First(channel.entries, LAMBDA e : TRUE)

\* Mutant: a bundle without an image is taken.
extractBundleImage_Unchecked(cat, name) ==
  {b.image : b \in First(cat.bundles, LAMBDA b : b.name = name)}

extractBundleImage(cat, name) ==
  {b.image : b \in First(cat.bundles, LAMBDA b : b.name = name)} \ {NoRef}

Resolved(cat, r) ==
  LET pkgs == {pkg \in findPackage(cat, Package(r)) : ChannelName(r, pkg) # ""}
      channels == UNION {findChannel(cat, Package(r), ChannelName(r, pkg)) : pkg \in pkgs}
      entries == UNION {findBundleInChannel(c, Version(r)) : c \in channels}
  IN  UNION {extractBundleImage(cat, e.name) : e \in entries}

-----------------------------------------------------------------------------
(* One invocation. *)

At(p, where) == pc[p] = where
Goto(p, where) == pc' = [pc EXCEPT ![p] = where]

Start(p) ==
  /\ At(p, "start")
  /\ \/ /\ request[p].catalog = NoRef
        /\ stage' = [stage EXCEPT ![p] = "bundle"]
        /\ ref' = [ref EXCEPT ![p] = request[p].input]
        /\ Goto(p, "stat")
     \/ /\ request[p].catalog # NoRef
        /\ stage' = [stage EXCEPT ![p] = "catalog"]
        /\ ref' = [ref EXCEPT ![p] = request[p].catalog]
        /\ Goto(p, "make")
  /\ UNCHANGED <<request, dir, tmp, outcome, dirs, holds, left>>

\* Mutant: the user's directory is taken for a temporary one.
Stat_Owns(p) ==
  /\ At(p, "stat")
  /\ \/ /\ ref[p] \in dirs
        /\ dir' = [dir EXCEPT ![p] = ref[p]]
        /\ tmp' = [tmp EXCEPT ![p] = ref[p]]
        /\ Goto(p, "read")
     \/ /\ ref[p] \notin dirs
        /\ Goto(p, "make")
        /\ UNCHANGED <<dir, tmp>>
  /\ UNCHANGED <<request, stage, ref, outcome, dirs, holds, left>>

\* resolve: what is a directory is not pulled.
Stat(p) ==
  /\ At(p, "stat")
  /\ \/ /\ ref[p] \in dirs
        /\ dir' = [dir EXCEPT ![p] = ref[p]]
        /\ Goto(p, "read")
     \/ /\ ref[p] \notin dirs
        /\ Goto(p, "make")
        /\ UNCHANGED dir
  /\ UNCHANGED <<request, stage, ref, tmp, outcome, dirs, holds, left>>

\* Mutant: the name is not a new one.
MakeTemp_AnyName(p, d) ==
  /\ At(p, "make")
  /\ dirs' = dirs \cup {d}
  /\ holds' = [holds EXCEPT ![d] = NoRef]
  /\ left' = [left EXCEPT ![d] = "no"]
  /\ dir' = [dir EXCEPT ![p] = d]
  /\ tmp' = [tmp EXCEPT ![p] = d]
  /\ Goto(p, "extract")
  /\ UNCHANGED <<request, stage, ref, outcome>>

MakeTemp(p, d) ==
  /\ At(p, "make")
  /\ d \notin dirs
  /\ dirs' = dirs \cup {d}
  /\ holds' = [holds EXCEPT ![d] = NoRef]
  /\ left' = [left EXCEPT ![d] = "no"]
  /\ dir' = [dir EXCEPT ![p] = d]
  /\ tmp' = [tmp EXCEPT ![p] = d]
  /\ Goto(p, "extract")
  /\ UNCHANGED <<request, stage, ref, outcome>>

\* The directory for temporary files, or one in it, cannot be made.
MakeFails(p) ==
  /\ At(p, "start") \/ At(p, "make")
  /\ Goto(p, "failed")
  /\ UNCHANGED <<request, stage, ref, dir, tmp, outcome, dirs, holds, left>>

\* The image is pulled and unpacked.
Extract(p) ==
  /\ At(p, "extract")
  /\ holds' = [holds EXCEPT ![dir[p]] = ref[p]]
  /\ Goto(p, "read")
  /\ UNCHANGED <<request, stage, ref, dir, tmp, outcome, dirs, left>>

\* The reference is malformed, the pull or the unpacking fails: ExtractImage of
\* pkg/bundle drops the resource it was given and returns an empty one.
ExtractFails(p) ==
  /\ At(p, "extract")
  /\ dir' = [dir EXCEPT ![p] = NoRef]
  /\ tmp' = [tmp EXCEPT ![p] = NoRef]
  /\ left' = Left(p, "dropped")
  /\ Goto(p, "failed")
  /\ UNCHANGED <<request, stage, ref, outcome, dirs, holds>>

\* What is in the directory may not be a catalog, or a bundle, that can be read.
ReadBroken(p) ==
  /\ At(p, "read")
  /\ outcome' = [outcome EXCEPT ![p] = "broken"]
  /\ Goto(p, "cleanup")
  /\ UNCHANGED <<request, stage, ref, dir, tmp, dirs, holds, left>>

ReadCatalog(p) ==
  /\ At(p, "read")
  /\ stage[p] = "catalog"
  /\ ref[p] \in DOMAIN Catalogs
  /\ LET images == Resolved(Catalogs[ref[p]], request[p])
     IN  \/ /\ images = {}
            /\ outcome' = [outcome EXCEPT ![p] = "missing"]
            /\ UNCHANGED ref
         \/ \E image \in images :
              /\ ref' = [ref EXCEPT ![p] = image]
              /\ outcome' = [outcome EXCEPT ![p] = "found"]
  /\ Goto(p, "cleanup")
  /\ UNCHANGED <<request, stage, dir, tmp, dirs, holds, left>>

\* Mutant: the bundle is returned before the clean-up is deferred.
ReadBundle_KeepsDir(p) ==
  /\ At(p, "read")
  /\ stage[p] = "bundle"
  /\ tmp' = [tmp EXCEPT ![p] = NoRef]
  /\ outcome' = [outcome EXCEPT ![p] = "found"]
  /\ Goto(p, "cleanup")
  /\ UNCHANGED <<request, stage, ref, dir, dirs, holds, left>>

ReadBundle(p) ==
  /\ At(p, "read")
  /\ stage[p] = "bundle"
  /\ outcome' = [outcome EXCEPT ![p] = "found"]
  /\ Goto(p, "cleanup")
  /\ UNCHANGED <<request, stage, ref, dir, tmp, dirs, holds, left>>

\* Mutant: nothing follows the clean-up when nothing was found.
Leave_Waits(p) ==
  /\ tmp' = [tmp EXCEPT ![p] = NoRef]
  /\ dir' = [dir EXCEPT ![p] = NoRef]
  /\ \/ outcome[p] # "found" /\ Goto(p, "cleanup") /\ UNCHANGED stage
     \/ /\ outcome[p] = "found" /\ stage[p] = "bundle"
        /\ Goto(p, "done") /\ UNCHANGED stage
     \/ /\ outcome[p] = "found" /\ stage[p] = "catalog"
        /\ stage' = [stage EXCEPT ![p] = "bundle"]
        /\ Goto(p, "stat")
  /\ UNCHANGED <<request, ref, outcome, holds>>

\* The function returns, and the resource with it.
Leave(p) ==
  /\ tmp' = [tmp EXCEPT ![p] = NoRef]
  /\ dir' = [dir EXCEPT ![p] = NoRef]
  /\ \/ outcome[p] # "found" /\ Goto(p, "failed") /\ UNCHANGED stage
     \/ /\ outcome[p] = "found" /\ stage[p] = "bundle"
        /\ Goto(p, "done") /\ UNCHANGED stage
     \/ /\ outcome[p] = "found" /\ stage[p] = "catalog"
        /\ stage' = [stage EXCEPT ![p] = "bundle"]
        /\ Goto(p, "stat")
  /\ UNCHANGED <<request, ref, outcome, holds>>

\* Cleanup, run by the defer of ResolveBundleImage and of Load.
Cleanup(p) ==
  /\ At(p, "cleanup")
  /\ dirs' = dirs \ {tmp[p]}
  /\ Leave(p)
  /\ UNCHANGED left

\* Its error is dropped.
CleanupFails(p) ==
  /\ At(p, "cleanup")
  /\ tmp[p] # NoRef
  /\ left' = Left(p, "refused")
  /\ Leave(p)
  /\ UNCHANGED dirs

\* The process is stopped: nothing it deferred is run.
Crash(p) ==
  /\ pc[p] \notin Terminal
  /\ tmp' = [tmp EXCEPT ![p] = NoRef]
  /\ dir' = [dir EXCEPT ![p] = NoRef]
  /\ left' = Left(p, "stopped")
  /\ Goto(p, "crashed")
  /\ UNCHANGED <<request, stage, ref, outcome, dirs, holds>>

Progress(p) ==
  \/ Start(p)
  \/ Stat(p)
  \/ \E d \in TempDirs : MakeTemp(p, d)
  \/ Extract(p)
  \/ ReadCatalog(p)
  \/ ReadBundle(p)
  \/ Cleanup(p)

Failure(p) == MakeFails(p) \/ ExtractFails(p) \/ ReadBroken(p) \/ CleanupFails(p)

Next == \E p \in Processes : Progress(p) \/ Failure(p) \/ Crash(p)

Spec == Init /\ [][Next]_vars

\* Every call returns, the pull of an image included; no call has to fail, but
\* that MkdirTemp does when it finds no name.
FairSpec == Spec /\ \A p \in Processes : WF_vars(Progress(p) \/ MakeFails(p))

-----------------------------------------------------------------------------
(* Properties. *)

TypeOK ==
  /\ request \in [Processes -> Requests]
  /\ pc \in [Processes -> {"start", "stat", "make", "extract", "read", "cleanup"} \cup Terminal]
  /\ stage \in [Processes -> {"catalog", "bundle"}]
  /\ ref \in [Processes -> Ref]
  /\ dir \in [Processes -> UserDirs \cup TempDirs \cup {NoRef}]
  /\ tmp \in [Processes -> TempDirs \cup {NoRef}]
  /\ outcome \in [Processes -> {"found", "missing", "broken"}]
  /\ dirs \subseteq UserDirs \cup TempDirs
  /\ holds \in [TempDirs -> Ref]
  /\ left \in [TempDirs -> Reasons \cup {"no"}]

\* Whatever the other invocations create and remove in the shared directory, the
\* directory a process reads is there and holds the image it asked for, or is the
\* directory it was given (MkdirTemp, Cleanup).
ReadsItsOwn ==
  \A p \in Processes :
    pc[p] = "read" =>
      /\ dir[p] \in dirs
      /\ \/ tmp[p] = NoRef /\ dir[p] = ref[p]
         \/ tmp[p] = dir[p] /\ holds[dir[p]] = ref[p]

\* A directory that the user named is never removed (BundleResource without
\* tmpDir), however an invocation ends.
UserDirsKept == UserDirs \subseteq dirs

Held(d) == \E p \in Processes : tmp[p] = d /\ pc[p] \notin Terminal

\* A temporary directory that exists has one invocation that will remove it, or a
\* failure or a stop took that from it: an invocation that got its bundle leaves
\* nothing, the directory of the catalog included (the deferred Cleanup).
OnlyFailuresLeave ==
  /\ \A d \in dirs \cap TempDirs : Held(d) \/ left[d] \in Reasons
  /\ \A p, q \in Processes : tmp[p] = tmp[q] => p = q \/ tmp[p] = NoRef

\* The image a package resolves to is that of a bundle which an entry of the
\* channel names, and this is the channel asked for or the default one, of this
\* package and no other, whatever names other packages give their channels
\* (findChannel, findBundleInChannel, extractBundleImage).
ResolvedFromChannel ==
  \A p \in Processes : pc[p] = "cleanup" /\ stage[p] = "catalog" /\ outcome[p] = "found" =>
    LET r == request[p]
        cat == Catalogs[r.catalog]
    IN  \E pkg \in Range(cat.packages), c \in Range(cat.channels), b \in Range(cat.bundles) :
          /\ pkg.name = Package(r) /\ c.package = Package(r) /\ c.name = ChannelName(r, pkg)
          /\ \E e \in Range(c.entries) : e.name = b.name
          /\ Version(r) \in {NoRef, b.name}
          /\ ref[p] = b.image /\ b.image # NoRef

\* Every invocation ends, whatever the others do (resolve, ExtractImage, Cleanup).
Ends == <>[](\A p \in Processes : pc[p] \in Terminal)

-----------------------------------------------------------------------------
(* What the comments and the documentation say and the code does not do. *)

\* bundle.go: temporary files are cleaned up automatically, and on error what is
\* returned can be cleaned up (Load, ExtractImage). Only a stop of the process and
\* a removal the system refuses leave a directory.
FailuresCleanUp ==
  \A d \in dirs \cap TempDirs : Held(d) \/ left[d] \in {"refused", "stopped"}

\* docs/spec.md: package:version resolves to the bundle of that version, and a
\* package alone to the latest in the channel, the entry that no other replaces.
ResolvesAsDocumented ==
  \A p \in Processes : pc[p] = "cleanup" /\ stage[p] = "catalog" /\ outcome[p] # "broken" =>
    LET r == request[p]
        cat == Catalogs[r.catalog]
        Wanted(entries, b) ==
          /\ \E e \in Range(entries) : e.name = b.name
          /\ IF Version(r) # NoRef THEN b.version = Version(r)
                                   ELSE \A e \in Range(entries) : e.replaces # b.name
    IN  \A pkg \in Range(cat.packages), c \in Range(cat.channels), b \in Range(cat.bundles) :
          /\ pkg.name = Package(r) /\ c.package = Package(r) /\ c.name = ChannelName(r, pkg)
          /\ Wanted(c.entries, b)
          => outcome[p] = "found" /\ ref[p] = b.image
=============================================================================
