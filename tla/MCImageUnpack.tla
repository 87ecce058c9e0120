---------------------------- MODULE MCImageUnpack ----------------------------
(***************************************************************************)
(* Instances of ImageUnpack for TLC: images of up to MaxLayers layers from *)
(* a pool in which each layer brings one thing that can go wrong.          *)
(***************************************************************************)
EXTENDS ImageUnpack, SequencesExt

CONSTANTS MaxLayers

FileAt(path, content) ==
  [form |-> "plain", path |-> path, type |-> "file", content |-> content, writable |-> TRUE]
OfType(path, type, content) == [FileAt(path, content) EXCEPT !.type = type]

CSV == <<"manifests", "csv">>
CRD == <<"manifests", "crd">>
Annotations == <<"metadata", "annotations">>

\* The manifests, the metadata, both in one, a patch, and the base system.
Manifests_ == <<OfType(<<"manifests">>, "dir", ""), FileAt(CSV, "1"), FileAt(CRD, "1")>>
Metadata_ == <<FileAt(Annotations, "1")>>
Patch == <<FileAt(CSV, "2"), FileAt(Annotations, "2")>>
Base == <<OfType(<<>>, "dir", ""), FileAt(<<"etc", "passwd">>, "1")>>
\* A catalog, whose prefix is another.
Catalog_ == <<FileAt(<<"configs", "a">>, "1"), FileAt(<<"configs", "b">>, "1")>>

\* A whiteout, a link over a file, a hard link, a file without write permission, a
\* directory in place of a file, and paths spelt in the three other ways.
Whiteout == <<FileAt(<<"manifests", "wh.crd">>, "")>>
Link == <<OfType(CRD, "link", "csv"), FileAt(<<"metadata", "more">>, "1")>>
HardLink == <<OfType(CSV, "other", "")>>
ReadOnly == <<[FileAt(CSV, "3") EXCEPT !.writable = FALSE]>>
InTheWay == <<FileAt(<<"manifests", "crd", "deep">>, "1")>>
Dotted == <<[FileAt(CSV, "4") EXCEPT !.form = "dotted"]>>
Absolute == <<[FileAt(CSV, "5") EXCEPT !.form = "absolute"]>>
Outside == <<FileAt(CSV, "6"), [FileAt(CSV, "6") EXCEPT !.form = "outside"]>>

Layers == {Manifests_, Metadata_, Patch, Base, Catalog_, Whiteout, Link, HardLink, ReadOnly,
           InTheWay, Dotted, Absolute, Outside}

MCImages == UNION {[1 .. n -> Layers] : n \in 0 .. MaxLayers}
MCPrefixSets == {{"manifests", "metadata"}, {"configs"}}
MCHides == [name \in {"wh.crd"} |-> "crd"]
=============================================================================
