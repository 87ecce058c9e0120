-------------------------- MODULE ImageSourceProofs --------------------------
(***************************************************************************)
(* Theorems of ImageSource, for any number of invocations, any requests,   *)
(* catalogs and names of temporary directories.                            *)
(***************************************************************************)
EXTENDS ImageSource, TLAPS

-----------------------------------------------------------------------------
(* The lookup. *)

\* An image is that of a bundle of the name.
LEMMA BundleImages ==
  ASSUME NEW cat, NEW name, NEW image \in extractBundleImage(cat, name)
  PROVE  /\ image # NoRef
         /\ \E k \in DOMAIN cat.bundles :
              cat.bundles[k].name = name /\ cat.bundles[k].image = image
BY DEF extractBundleImage, First

\* An entry is one of the channel, and the one that was asked for.
LEMMA EntryFound ==
  ASSUME NEW channel, NEW version, NEW e \in findBundleInChannel(channel, version)
  PROVE  /\ \E k \in DOMAIN channel.entries : channel.entries[k] = e
         /\ version \in {NoRef, e.name}
BY DEF findBundleInChannel, First

\* A channel is of the package and has the name.
LEMMA ChannelFound ==
  ASSUME NEW cat, NEW pkg, NEW name, NEW c \in findChannel(cat, pkg, name)
  PROVE  /\ \E k \in DOMAIN cat.channels : cat.channels[k] = c
         /\ c.package = pkg /\ c.name = name
BY DEF findChannel, First

\* A package has the name.
LEMMA PackageFound ==
  ASSUME NEW cat, NEW name, NEW pkg \in findPackage(cat, name)
  PROVE  /\ \E k \in DOMAIN cat.packages : cat.packages[k] = pkg
         /\ pkg.name = name
BY DEF findPackage, First

\* What ResolvedFromChannel asks of an image, for a catalog and a request.
Backed(cat, r, image) ==
  \E pkg \in Range(cat.packages), c \in Range(cat.channels), b \in Range(cat.bundles) :
    /\ pkg.name = Package(r) /\ c.package = Package(r) /\ c.name = ChannelName(r, pkg)
    /\ \E e \in Range(c.entries) : e.name = b.name
    /\ Version(r) \in {NoRef, b.name}
    /\ image = b.image /\ b.image # NoRef

\* The lookup in its steps (ResolveBundleImage) finds nothing else.
LEMMA ResolvedIsBacked ==
  ASSUME NEW cat, NEW r, NEW image \in Resolved(cat, r)
  PROVE  Backed(cat, r, image)
<1> DEFINE pkgs == {pkg \in findPackage(cat, Package(r)) : ChannelName(r, pkg) # ""}
           channels == UNION {findChannel(cat, Package(r), ChannelName(r, pkg)) : pkg \in pkgs}
           entries == UNION {findBundleInChannel(c, Version(r)) : c \in channels}
<1>0. image \in UNION {extractBundleImage(cat, e.name) : e \in entries}
  BY Zenon DEF Resolved
<1>1. PICK e \in entries : image \in extractBundleImage(cat, e.name)
  BY <1>0, Zenon
<1>2. PICK c \in channels : e \in findBundleInChannel(c, Version(r))
  BY Zenon
<1>3. PICK pkg \in findPackage(cat, Package(r)) :
        c \in findChannel(cat, Package(r), ChannelName(r, pkg))
  BY Zenon
<1> HIDE DEF pkgs, channels, entries
<1>4. pkg \in Range(cat.packages) /\ pkg.name = Package(r)
  BY PackageFound DEF Range
<1>5. c \in Range(cat.channels) /\ c.package = Package(r) /\ c.name = ChannelName(r, pkg)
  BY <1>3, ChannelFound DEF Range
<1>6. e \in Range(c.entries) /\ Version(r) \in {NoRef, e.name}
  BY <1>2, EntryFound DEF Range
<1>7. image # NoRef /\ \E k \in DOMAIN cat.bundles :
        cat.bundles[k].name = e.name /\ cat.bundles[k].image = image
  BY <1>1, BundleImages
<1>8. PICK b \in Range(cat.bundles) : b.name = e.name /\ b.image = image
  BY <1>7 DEF Range
<1> QED
  BY <1>4, <1>5, <1>6, <1>7, <1>8, Zenon DEF Backed

\* What stands in a list is of its kind.
LEMMA ElementOfSeq ==
  ASSUME NEW S, NEW s \in Seq(S), NEW i \in DOMAIN s
  PROVE  s[i] \in S
OBVIOUS

\* In a catalog of the constants it is a reference and no temporary directory.
\* In a catalog of the constants it is a reference and no temporary directory.
LEMMA ResolvedType ==
  ASSUME NEW name \in DOMAIN Catalogs, NEW r, NEW image \in Resolved(Catalogs[name], r)
  PROVE  image \in Ref /\ image \notin TempDirs
<1>1. PICK k \in DOMAIN Catalogs[name].bundles : Catalogs[name].bundles[k].image = image
  BY ResolvedIsBacked DEF Backed, Range
<1>2. Catalogs[name].bundles \in Seq([name : Ref, package : STRING, version : Ref, image : Ref])
  BY CatalogsAssumption DEF Catalog
<1>3. Catalogs[name].bundles[k] \in [name : Ref, package : STRING, version : Ref, image : Ref]
  BY <1>2, ElementOfSeq, Zenon
<1> QED
  BY <1>1, <1>3, RefsAssumption

-----------------------------------------------------------------------------
(* Types. *)

LEMMA RefTypes ==
  /\ NoRef \in Ref /\ NoRef \notin TempDirs /\ NoRef \notin UserDirs
  /\ \A r \in Requests : /\ r.input \in Ref /\ r.catalog \in Ref
                        /\ r.input \notin TempDirs /\ r.catalog \notin TempDirs
  /\ \A d \in UserDirs : d \in Ref /\ d \notin TempDirs
  /\ \A d \in TempDirs : d \in Ref
<1>1. NoRef \in Ref
  BY DEF NoRef, Ref
<1> QED
  BY <1>1, DirsAssumption, RequestsAssumption, RefsAssumption DEF Request

\* No step changes what a process was asked for, and every step leaves the type
\* of the state as it was.
LEMMA InitTypeOK == Init => TypeOK
BY RefTypes DEF Init, TypeOK, Terminal, Reasons

LEMMA LeaveTypeOK ==
  ASSUME TypeOK, NEW p \in Processes, Leave(p)
  PROVE  /\ request' \in [Processes -> Requests]
         /\ pc' \in [Processes -> {"start", "stat", "make", "extract", "read", "cleanup"} \cup Terminal]
         /\ stage' \in [Processes -> {"catalog", "bundle"}]
         /\ ref' \in [Processes -> Ref]
         /\ dir' \in [Processes -> UserDirs \cup TempDirs \cup {NoRef}]
         /\ tmp' \in [Processes -> TempDirs \cup {NoRef}]
         /\ outcome' \in [Processes -> {"found", "missing", "broken"}]
         /\ holds' \in [TempDirs -> Ref]
BY DEF Leave, Goto, TypeOK, Terminal

LEMMA LeftType ==
  ASSUME TypeOK, NEW p \in Processes, NEW why \in Reasons
  PROVE  Left(p, why) \in [TempDirs -> Reasons \cup {"no"}]
BY DEF Left, TypeOK

LEMMA NextTypeOK == TypeOK /\ [Next]_vars => TypeOK'
<1> SUFFICES ASSUME TypeOK, [Next]_vars PROVE TypeOK'
  OBVIOUS
<1>1. ASSUME NEW p \in Processes, Start(p) PROVE TypeOK'
  <2>1. request[p].input \in Ref /\ request[p].catalog \in Ref
    BY RefTypes DEF TypeOK
  <2> QED
    BY <1>1, <2>1 DEF Start, Goto, TypeOK
<1>2. ASSUME NEW p \in Processes, Stat(p) PROVE TypeOK'
  BY <1>2 DEF Stat, Goto, TypeOK
<1>3. ASSUME NEW p \in Processes, NEW d \in TempDirs, MakeTemp(p, d) PROVE TypeOK'
  BY <1>3, RefTypes DEF MakeTemp, Goto, TypeOK
<1>4. ASSUME NEW p \in Processes, Extract(p) PROVE TypeOK'
  BY <1>4 DEF Extract, Goto, TypeOK
<1>5. ASSUME NEW p \in Processes, ReadCatalog(p) PROVE TypeOK'
  <2> DEFINE images == Resolved(Catalogs[ref[p]], request[p])
  <2>1. images \subseteq Ref
    BY <1>5, ResolvedType DEF ReadCatalog
  <2> HIDE DEF images
  <2>2. \/ ref' = ref
        \/ \E image \in images : ref' = [ref EXCEPT ![p] = image]
    BY <1>5 DEF ReadCatalog, images
  <2>3. ref' \in [Processes -> Ref]
    BY <2>1, <2>2 DEF TypeOK
  <2>4. outcome' \in [Processes -> {"found", "missing", "broken"}]
    BY <1>5 DEF ReadCatalog, TypeOK
  <2>5. pc' = [pc EXCEPT ![p] = "cleanup"]
        /\ UNCHANGED <<request, stage, dir, tmp, dirs, holds, left>>
    BY <1>5 DEF ReadCatalog, Goto
  <2> QED
    BY <2>3, <2>4, <2>5 DEF TypeOK
<1>6. ASSUME NEW p \in Processes, ReadBundle(p) PROVE TypeOK'
  BY <1>6 DEF ReadBundle, Goto, TypeOK
<1>7. ASSUME NEW p \in Processes, Cleanup(p) PROVE TypeOK'
  BY <1>7, LeaveTypeOK DEF Cleanup, TypeOK
<1>8. ASSUME NEW p \in Processes, MakeFails(p) PROVE TypeOK'
  BY <1>8 DEF MakeFails, Goto, TypeOK, Terminal
<1>9. ASSUME NEW p \in Processes, ExtractFails(p) PROVE TypeOK'
  BY <1>9, LeftType DEF ExtractFails, Goto, TypeOK, Terminal, Reasons
<1>10. ASSUME NEW p \in Processes, ReadBroken(p) PROVE TypeOK'
  BY <1>10 DEF ReadBroken, Goto, TypeOK
<1>11. ASSUME NEW p \in Processes, CleanupFails(p) PROVE TypeOK'
  BY <1>11, LeaveTypeOK, LeftType DEF CleanupFails, TypeOK, Reasons
<1>12. ASSUME NEW p \in Processes, Crash(p) PROVE TypeOK'
  BY <1>12, LeftType DEF Crash, Goto, TypeOK, Terminal, Reasons
<1>13. CASE UNCHANGED vars
  BY <1>13 DEF vars, procVars, TypeOK
<1> QED
  BY <1>1, <1>2, <1>3, <1>4, <1>5, <1>6, <1>7, <1>8, <1>9, <1>10, <1>11, <1>12, <1>13
  DEF Next, Progress, Failure

\* The type invariant holds for any constants.
THEOREM TypeCorrect == Spec => []TypeOK
BY InitTypeOK, NextTypeOK, PTL DEF Spec

-----------------------------------------------------------------------------
(* Whose directory is whose.  What an invocation is about to remove is its  *)
(* own because the name was new when it was made; that it is there, and is  *)
(* the directory being read, is kept from making it to removing it.         *)

HasReferences == \A p \in Processes : ref[p] \notin TempDirs

HoldsItsDirectory ==
  \A p \in Processes :
    /\ tmp[p] # NoRef => tmp[p] = dir[p] /\ tmp[p] \in dirs /\ pc[p] \in {"extract", "read", "cleanup"}
    /\ pc[p] = "extract" => tmp[p] # NoRef

DirInv ==
  /\ TypeOK
  /\ HasReferences
  /\ HoldsItsDirectory
  /\ ReadsItsOwn
  /\ UserDirsKept
  /\ OnlyFailuresLeave

LEMMA InitDirInv == Init => DirInv
BY InitTypeOK, RefTypes
DEF Init, DirInv, HasReferences, HoldsItsDirectory, ReadsItsOwn, UserDirsKept, OnlyFailuresLeave

USE DEF HasReferences, HoldsItsDirectory, ReadsItsOwn, UserDirsKept, OnlyFailuresLeave, Held

\* The steps that make, fill or remove a directory are the ones that could
\* disturb the others': the name is new, and the directory removed is one's own.
LEMMA NextDirInv == DirInv /\ [Next]_vars => DirInv'
<1> SUFFICES ASSUME DirInv, [Next]_vars PROVE DirInv'
  OBVIOUS
<1>0. TypeOK'
  BY NextTypeOK DEF DirInv
<1> USE <1>0, RefTypes DEF DirInv, TypeOK
<1>1. ASSUME NEW p \in Processes, Start(p) PROVE DirInv'
  BY <1>1 DEF Start, Goto, At, Terminal
<1>2. ASSUME NEW p \in Processes, Stat(p) PROVE DirInv'
  BY <1>2 DEF Stat, Goto, At, Terminal
<1>3. ASSUME NEW p \in Processes, NEW d \in TempDirs, MakeTemp(p, d) PROVE DirInv'
  <2>1. \A q \in Processes : tmp[q] # d
    BY <1>3 DEF MakeTemp
  <2>2. HoldsItsDirectory'
    BY <1>3 DEF MakeTemp, Goto, At
  <2>3. ReadsItsOwn'
    BY <1>3, <2>1 DEF MakeTemp, Goto
  <2>4. OnlyFailuresLeave'
    BY <1>3, <2>1 DEF MakeTemp, Goto, At, Terminal
  <2>5. HasReferences' /\ UserDirsKept'
    BY <1>3 DEF MakeTemp
  <2> QED
    BY <2>2, <2>3, <2>4, <2>5
<1>4. ASSUME NEW p \in Processes, Extract(p) PROVE DirInv'
  <2>1. \A q \in Processes : q # p => tmp[q] # dir[p]
    BY <1>4 DEF Extract, At
  <2>2. ReadsItsOwn'
    BY <1>4, <2>1 DEF Extract, Goto, At
  <2>3. OnlyFailuresLeave'
    BY <1>4 DEF Extract, Goto, At, Terminal
  <2>4. HasReferences' /\ HoldsItsDirectory' /\ UserDirsKept'
    BY <1>4 DEF Extract, Goto, At
  <2> QED
    BY <2>2, <2>3, <2>4
<1>5. ASSUME NEW p \in Processes, ReadCatalog(p) PROVE DirInv'
  BY <1>5, ResolvedType DEF ReadCatalog, Goto, At, Terminal
<1>6. ASSUME NEW p \in Processes, ReadBundle(p) PROVE DirInv'
  BY <1>6 DEF ReadBundle, Goto, At, Terminal
<1>7. ASSUME NEW p \in Processes, Cleanup(p) PROVE DirInv'
  <2>1. tmp[p] \notin UserDirs /\ \A q \in Processes : q # p /\ tmp[q] # NoRef => tmp[q] # tmp[p]
    OBVIOUS
  <2>2. HoldsItsDirectory'
    BY <1>7, <2>1 DEF Cleanup, Leave, Goto, At
  <2>3. ReadsItsOwn'
    BY <1>7, <2>1 DEF Cleanup, Leave, Goto, At
  <2>4. OnlyFailuresLeave'
    BY <1>7 DEF Cleanup, Leave, Goto, At, Terminal
  <2>5. HasReferences' /\ UserDirsKept'
    BY <1>7, <2>1 DEF Cleanup, Leave
  <2> QED
    BY <2>2, <2>3, <2>4, <2>5
<1>8. ASSUME NEW p \in Processes, MakeFails(p) PROVE DirInv'
  BY <1>8 DEF MakeFails, Goto, At, Terminal
<1>9. ASSUME NEW p \in Processes, ExtractFails(p) PROVE DirInv'
  BY <1>9 DEF ExtractFails, Left, Reasons, Goto, At, Terminal
<1>10. ASSUME NEW p \in Processes, ReadBroken(p) PROVE DirInv'
  BY <1>10 DEF ReadBroken, Goto, At, Terminal
<1>11. ASSUME NEW p \in Processes, CleanupFails(p) PROVE DirInv'
  BY <1>11 DEF CleanupFails, Leave, Left, Reasons, Goto, At, Terminal
<1>12. ASSUME NEW p \in Processes, Crash(p) PROVE DirInv'
  BY <1>12 DEF Crash, Left, Reasons, Goto, At, Terminal
<1>13. CASE UNCHANGED vars
  BY <1>13 DEF vars, procVars
<1> QED
  BY <1>1, <1>2, <1>3, <1>4, <1>5, <1>6, <1>7, <1>8, <1>9, <1>10, <1>11, <1>12, <1>13
  DEF Next, Progress, Failure

LEMMA DirInvHolds == Spec => []DirInv
BY InitDirInv, NextDirInv, PTL DEF Spec

\* The directory an invocation reads is there and holds what it asked for,
\* however many invocations share the directory for temporary files.
THEOREM DirectoriesAreRead == Spec => []ReadsItsOwn
<1>1. DirInv => ReadsItsOwn
  BY DEF DirInv
<1> QED
  BY <1>1, DirInvHolds, PTL

\* No step removes a directory that a user named.
THEOREM UserDirectoriesStay == Spec => []UserDirsKept
<1>1. DirInv => UserDirsKept
  BY DEF DirInv
<1> QED
  BY <1>1, DirInvHolds, PTL

\* A temporary directory that exists has one owner, or a failure took it from it.
THEOREM SuccessLeavesNothing == Spec => []OnlyFailuresLeave
<1>1. DirInv => OnlyFailuresLeave
  BY DEF DirInv
<1> QED
  BY <1>1, DirInvHolds, PTL

-----------------------------------------------------------------------------
(* The image of a package.  It was looked up in the catalog of the request: *)
(* the catalog is never worked on under another reference until it is read. *)

WorksOnCatalog ==
  \A p \in Processes :
    /\ pc[p] = "stat" => stage[p] = "bundle"
    /\ stage[p] = "catalog" /\ pc[p] \in {"make", "extract", "read"} => ref[p] = request[p].catalog

LookupInv == TypeOK /\ WorksOnCatalog /\ ResolvedFromChannel

\* ResolvedFromChannel for one process.
LookedUp(p) ==
  pc[p] = "cleanup" /\ stage[p] = "catalog" /\ outcome[p] = "found" =>
    Backed(Catalogs[request[p].catalog], request[p], ref[p])

LEMMA ResolvedFromChannelByProcess ==
  /\ ResolvedFromChannel <=> \A p \in Processes : LookedUp(p)
  /\ ResolvedFromChannel' <=> \A p \in Processes : LookedUp(p)'
<1>1. ResolvedFromChannel <=> \A p \in Processes : LookedUp(p)
  BY Zenon DEF ResolvedFromChannel, LookedUp, Backed
<1>2. ResolvedFromChannel' <=> \A p \in Processes : LookedUp(p)'
  BY Zenon DEF ResolvedFromChannel, LookedUp, Backed
<1> QED
  BY <1>1, <1>2

LEMMA InitLookupInv == Init => LookupInv
BY InitTypeOK DEF Init, LookupInv, WorksOnCatalog, ResolvedFromChannel

\* Only ReadCatalog ends a lookup; of the other steps none touches the request,
\* the reference or the outcome of a process that has.
LEMMA NextLookupInv == LookupInv /\ [Next]_vars => LookupInv'
<1> SUFFICES ASSUME LookupInv, [Next]_vars PROVE WorksOnCatalog' /\ \A p \in Processes : LookedUp(p)'
  BY NextTypeOK, ResolvedFromChannelByProcess DEF LookupInv
<1>0. TypeOK /\ WorksOnCatalog /\ \A q \in Processes : LookedUp(q)
  BY ResolvedFromChannelByProcess DEF LookupInv
<1> USE <1>0 DEF TypeOK, WorksOnCatalog, LookedUp
<1> DEFINE Goal == WorksOnCatalog' /\ \A q \in Processes : LookedUp(q)'
<1>1. ASSUME NEW p \in Processes, Start(p) PROVE Goal
  BY <1>1 DEF Start, Goto, At
<1>2. ASSUME NEW p \in Processes, Stat(p) PROVE Goal
  BY <1>2 DEF Stat, Goto, At
<1>3. ASSUME NEW p \in Processes, NEW d \in TempDirs, MakeTemp(p, d) PROVE Goal
  BY <1>3 DEF MakeTemp, Goto, At
<1>4. ASSUME NEW p \in Processes, Extract(p) PROVE Goal
  BY <1>4 DEF Extract, Goto, At
<1>5. ASSUME NEW p \in Processes, ReadCatalog(p) PROVE Goal
  <2>1. ref[p] = request[p].catalog
    BY <1>5 DEF ReadCatalog, At
  <2>2. LookedUp(p)'
    BY <1>5, <2>1, ResolvedIsBacked DEF ReadCatalog, Goto, At
  <2>3. \A q \in Processes : q # p => LookedUp(q)'
    BY <1>5 DEF ReadCatalog, Goto, At
  <2>4. WorksOnCatalog'
    BY <1>5 DEF ReadCatalog, Goto, At
  <2> QED
    BY <2>2, <2>3, <2>4
<1>6. ASSUME NEW p \in Processes, ReadBundle(p) PROVE Goal
  BY <1>6 DEF ReadBundle, Goto, At
<1>7. ASSUME NEW p \in Processes, Cleanup(p) PROVE Goal
  BY <1>7 DEF Cleanup, Leave, Goto, At
<1>8. ASSUME NEW p \in Processes, MakeFails(p) PROVE Goal
  BY <1>8 DEF MakeFails, Goto, At
<1>9. ASSUME NEW p \in Processes, ExtractFails(p) PROVE Goal
  BY <1>9 DEF ExtractFails, Goto, At
<1>10. ASSUME NEW p \in Processes, ReadBroken(p) PROVE Goal
  BY <1>10 DEF ReadBroken, Goto, At
<1>11. ASSUME NEW p \in Processes, CleanupFails(p) PROVE Goal
  BY <1>11 DEF CleanupFails, Leave, Goto, At
<1>12. ASSUME NEW p \in Processes, Crash(p) PROVE Goal
  BY <1>12 DEF Crash, Goto
<1>13. CASE UNCHANGED vars
  BY <1>13 DEF vars, procVars
<1> QED
  BY <1>1, <1>2, <1>3, <1>4, <1>5, <1>6, <1>7, <1>8, <1>9, <1>10, <1>11, <1>12, <1>13
  DEF Next, Progress, Failure

\* The image a package resolves to is that of a bundle in a channel of it, for
\* every catalog and request.
THEOREM ImageIsOfTheChannel == Spec => []ResolvedFromChannel
<1>1. LookupInv => ResolvedFromChannel
  BY DEF LookupInv
<1> QED
  BY <1>1, InitLookupInv, NextLookupInv, PTL DEF Spec
=============================================================================
