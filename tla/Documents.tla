------------------------------ MODULE Documents ------------------------------
(***************************************************************************)
(* What stands in the documents of an invocation: both front ends clean    *)
(* every manifest on its way out, so that fields without value do not show.*)
(* bundle.content is what a manifest holds that no phase looks into.       *)
(***************************************************************************)
EXTENDS Pipeline, Cleaning

\* A content is the value of an entry.
ASSUME ContentAssumption ==
  \A inv \in Invocations : inv.bundle.content \in NestedTo[MaxDepth - 1]

Uncleaned(obj) == ToUnstructured(obj, bundle.content)
Document(obj) == CleanUnstructured(Uncleaned(obj))

Delivered == {output[i] : i \in IF pc = "done" THEN DOMAIN output ELSE {}}

-----------------------------------------------------------------------------
(* Leaves: the texts and scalars of a value, by path.  A path is <<>> or    *)
(* pairs a key with the rest of it.  It does not say which item of a list   *)
(* is meant: the leaves along a list are a sequence, in the order of the    *)
(* items that have one there.                                               *)

AnyItem == "[]"

Bare(leaf) == [path \in {<<>>} |-> leaf]

\* under: the leaves of each entry.
LeavesOfMap(entries, under) ==
  [path \in UNION {{<<e.key, rest>> : rest \in DOMAIN under[e]} : e \in entries} |->
     under[CHOOSE e \in entries : e.key = path[1]][path[2]]]

\* along: the leaves of each item.
LeavesOfList(along) ==
  [path \in {<<AnyItem, rest>> : rest \in UNION {DOMAIN along[i] : i \in DOMAIN along}} |->
     LET with == {i \in DOMAIN along : path[2] \in DOMAIN along[i]}
     IN  [n \in 1 .. Cardinality(with) |-> along[Nth(with, n)][path[2]]]]

\* An empty text is a leaf as an item of a list, and nothing as a field.
leavesTo[n \in Nat] ==
  [value \in NestedTo[n] |->
     CASE value.t = "map" ->
            LeavesOfMap(value.entries, [e \in value.entries |-> leavesTo[n - 1][e.value]])
       [] value.t = "list" ->
            LeavesOfList([i \in DOMAIN value.items |->
                            IF value.items[i] = EmptyText
                              THEN Bare(EmptyText) ELSE leavesTo[n - 1][value.items[i]]])
       [] value \in {Null, EmptyText} -> <<>>
       [] OTHER -> Bare(value)]

Leaves(value) == leavesTo[MaxDepth][value]

\* However deep values are nested, cleaning takes no leaf away, adds none, and
\* leaves them at their path and in their order; the empty text in a list, the
\* core group of a role's rule, is one (cleanValue).
LeavesSurvive ==
  \A obj \in Delivered : Leaves(Document(obj)) = Leaves(Uncleaned(obj))

\* Nothing in a value nested at most n deep is empty.
fullTo[n \in Nat] ==
  [value \in NestedTo[n] |->
     CASE value.t = "map" ->
            value.entries # {} /\ \A e \in value.entries : fullTo[n - 1][e.value]
       [] value.t = "list" ->
            /\ value.items # <<>>
            /\ \A i \in DOMAIN value.items :
                 value.items[i] = EmptyText \/ fullTo[n - 1][value.items[i]]
       [] OTHER -> value \notin {Null, EmptyText}]

\* No field of a document is without value, not even one that lost its value to
\* the cleaning of what it held (cleanMap, cleanValue).
NothingEmptyIsWritten ==
  \A obj \in Delivered : \A e \in Document(obj).entries : fullTo[MaxDepth - 1][e.value]

-----------------------------------------------------------------------------
(* What the documentation says and the code does not do. *)

\* docs/spec.md: the auto-generated Issuer has the spec selfSigned: {}.
GeneratedIssuerIsSelfSigned ==
  \A obj \in Delivered :
    IsKind(obj, IssuerGVK) /\ obj \notin {kept[i] : i \in DOMAIN kept} =>
      \E field \in Document(obj).entries :
        /\ field.key = "spec"
        /\ \E e \in field.value.entries : e.key = "selfSigned"
=============================================================================
