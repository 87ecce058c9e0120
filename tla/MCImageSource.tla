---------------------------- MODULE MCImageSource ----------------------------
(***************************************************************************)
(* Instances of ImageSource for TLC: two invocations over one directory    *)
(* for temporary files, and a catalog in which two packages have a channel *)
(* of the same name.                                                       *)
(***************************************************************************)
EXTENDS ImageSource, TLC

CONSTANTS p1, p2

MCProcesses == {p1, p2}
MCUserDirs == {<<"./bundle">>}
MCTempDirs == {<<"tmp1">>, <<"tmp2">>, <<"tmp3">>}

Entry(name, replaces) == [name |-> name, replaces |-> replaces]
BundleOf(name, package, version, image) ==
  [name |-> name, package |-> package, version |-> version, image |-> image]

Index == <<"index", "latest">>

\* op lists its oldest entry first; the bundle of its other channel comes without
\* an image; bare has no channel at all.
MCCatalogs == Index :> [
  packages |-> <<[name |-> "other", default |-> "stable"], [name |-> "op", default |-> "stable"],
                 [name |-> "bare", default |-> ""]>>,
  channels |-> <<
    [package |-> "other", name |-> "stable", entries |-> <<Entry(<<"other.v1">>, NoRef)>>],
    [package |-> "op", name |-> "stable",
     entries |-> <<Entry(<<"op.v1">>, NoRef), Entry(<<"op.v2">>, <<"op.v1">>)>>],
    [package |-> "op", name |-> "fast", entries |-> <<Entry(<<"op.v3">>, NoRef)>>]>>,
  bundles |-> <<
    BundleOf(<<"other.v1">>, "other", <<"1">>, <<"quay/other", "1">>),
    BundleOf(<<"op.v1">>, "op", <<"1">>, <<"quay/op", "1">>),
    BundleOf(<<"op.v2">>, "op", <<"2">>, <<"quay/op", "2">>),
    BundleOf(<<"op.v3">>, "op", <<"3">>, NoRef)>>]

Asked(input, catalog, channel) == [input |-> input, catalog |-> catalog, channel |-> channel]

\* A directory, an image, a package alone, with the name of a version, with its
\* number, in a channel whose bundle has no image, and without a channel.
MCRequests ==
  {Asked(<<"./bundle">>, NoRef, ""), Asked(<<"quay/op", "1">>, NoRef, ""),
   Asked(<<"op">>, Index, ""), Asked(<<"op", "op.v2">>, Index, "stable"),
   Asked(<<"op", "2">>, Index, ""), Asked(<<"op", "">>, Index, "fast"),
   Asked(<<"bare">>, Index, "")}
=============================================================================
