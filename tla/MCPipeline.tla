------------------------------ MODULE MCPipeline ------------------------------
(***************************************************************************)
(* Instances of Pipeline and Documents for TLC.  A bundle is a sorted list *)
(* of manifests, as the extraction leaves it; manifests that no phase      *)
(* looks into all hold the same content.                                   *)
(***************************************************************************)
EXTENDS Documents, SequencesExt, FiniteSetsExt

CONSTANTS MaxObjects   \* longest bundle

-----------------------------------------------------------------------------
(* Bundles. *)

OpService == <<"op", "service">>

Deployment ==
  NewObject(DeploymentGVK, <<"op">>,
    [volumes |-> <<[secret |-> <<"op", "tls">>, volume |-> <<"cert">>]>>,
     selector |-> {}, ports |-> <<9443>>, account |-> NoName])

Service == NewObject(ServiceGVK, OpService, [selector |-> {}, ports |-> <<[port |-> 443, target |-> 443]>>])

Webhook(gvk, name, service, port) ==
  NewObject(gvk, name, [clients |-> <<[service |-> service, port |-> port]>>])

\* With a generated issuer it is what Configure makes.
BundleCertificate ==
  NewObject(CertificateGVK, <<"op", "service", "cert">>,
    [secret |-> <<"op", "tls">>, dns |-> OpService,
     issuer |-> [name |-> <<"op", "selfsigned">>, kind |-> "Issuer"]])

Settings_ == NewObject(Gvk("", "v1", "ConfigMap"), <<"settings">>, Opaque)

BadService == [NewObject(ServiceGVK, OpService, Opaque) EXCEPT !.valid = FALSE]

\* One of each that can stand in a bundle together.
Usable ==
  << NewObject(ServiceAccountGVK, <<"runner">>, Opaque), Deployment, Service, BundleCertificate,
     Webhook(ValidatingGVK, <<"v">>, OpService, 443), Webhook(MutatingGVK, <<"m">>, OpService, 8443),
     Webhook(MutatingGVK, <<"aux">>, <<"aux">>, 443), Settings_ >>

Pool ==
  Range(Usable) \cup {BadService, Webhook(MutatingGVK, <<"bare">>, <<"aux">>, NilPort)}

SortedLists ==
  LET lists == UNION {SetToSeqs(s) : s \in UNION {kSubset(k, Pool) : k \in 0 .. MaxObjects}}
  IN  {l \in lists : Ordered(l, getResourcePriority)}

-----------------------------------------------------------------------------
(* Contents: every kind of empty value, in maps, in lists and inside each other. *)

Empties == {Null, EmptyText, Map({}), List(<<>>)}
Smallest == Empties \cup {Text(<<"x">>), Scalar(0)}

MapsOf(values) ==
  {Map({})} \cup {Map({Entry("a", v)}) : v \in values}
  \cup {Map({Entry("a", v), Entry("b", w)}) : v, w \in values}
ListsOf(values) == {List(l) : l \in UNION {[1 .. n -> values] : n \in 0 .. 2}}

Shallow == Smallest \cup MapsOf(Smallest) \cup ListsOf(Smallest)

Deep ==
  {Map({Entry("a", v)}) : v \in Shallow} \cup {List(<<v>>) : v \in Shallow}
  \cup {List(<<v, Text(<<"x">>)>>) : v \in Shallow}
  \cup {Map({Entry("a", v), Entry("b", EmptyText)}) : v \in Shallow}

Contents == Shallow \cup Deep

\* A role's rule for the core group, with a field that has no value.
CoreRule == Map({Entry("a", List(<<EmptyText>>)), Entry("b", Null)})

-----------------------------------------------------------------------------
(* Expressions. *)

MCExpressions == {"service", "webhook or deployment", "fails on settings", "late", "malformed"}
MCMalformed == {"malformed"}

\* The second yields other values first; the last decides before it fails.
MCRun(expr, obj) ==
  CASE expr = "service" -> <<IF IsKind(obj, ServiceGVK) THEN "true" ELSE "other">>
    [] expr = "webhook or deployment" ->
         <<"other", IF IsWebhookConfiguration(obj) \/ IsKind(obj, DeploymentGVK) THEN "true" ELSE "other">>
    [] expr = "fails on settings" -> IF obj = Settings_ THEN <<"other", "error">> ELSE <<>>
    [] expr = "late" -> IF IsKind(obj, DeploymentGVK) THEN <<"error", "true">> ELSE <<"true", "error">>
    [] OTHER -> <<>>

FilterChoices ==
  { [include |-> <<>>, exclude |-> <<>>],
    [include |-> <<>>, exclude |-> <<"service">>],
    [include |-> <<"webhook or deployment">>, exclude |-> <<>>],
    [include |-> <<"webhook or deployment", "service">>, exclude |-> <<"fails on settings">>],
    [include |-> <<"fails on settings", "webhook or deployment">>, exclude |-> <<"service">>],
    [include |-> <<"service", "late">>, exclude |-> <<>>],
    [include |-> <<>>, exclude |-> <<"webhook or deployment", "late">>] }

CertManagerChoices ==
  { [enabled |-> "unset", name |-> NoName, kind |-> ""],
    [enabled |-> "true", name |-> <<"ca">>, kind |-> "ClusterIssuer"],
    [enabled |-> "false", name |-> NoName, kind |-> ""] }

Usual ==
  [front |-> "run", flag |-> TRUE, readable |-> TRUE, decodes |-> TRUE, valid |-> TRUE,
   tempDir |-> FALSE, include |-> <<>>, exclude |-> <<>>,
   certManager |-> [enabled |-> "unset", name |-> NoName, kind |-> ""], items |-> <<"item">>]

FrontEnds == {"run", "krm"}

UsableRequests ==
  {[Usual EXCEPT !.front = f, !.include = c.include, !.exclude = c.exclude, !.certManager = m] :
     f \in FrontEnds, c \in FilterChoices, m \in CertManagerChoices}

OddRequests ==
  {[r EXCEPT !.front = f] : f \in FrontEnds, r \in
     {[Usual EXCEPT !.flag = FALSE], [Usual EXCEPT !.readable = FALSE],
      [Usual EXCEPT !.decodes = FALSE], [Usual EXCEPT !.valid = FALSE],
      [Usual EXCEPT !.tempDir = TRUE], [Usual EXCEPT !.items = <<>>],
      [Usual EXCEPT !.include = <<"malformed">>],
      [Usual EXCEPT !.exclude = <<"service", "malformed">>]}}

Pair(requests, lists, contents) ==
  {[request |-> r, bundle |-> [objects |-> l, content |-> c]] :
     r \in requests, l \in lists, c \in contents}

MCInvocations ==
  Pair(UsableRequests, SortedLists \cup {sortKubernetesResources(Usable)}, {CoreRule})
  \cup Pair(OddRequests, {<<Deployment, Settings_>>}, {CoreRule})
  \cup Pair({Usual, [Usual EXCEPT !.front = "krm"]}, {<<Settings_>>}, Contents)

\* An operator with a webhook, under both front ends.
OperatorInvocations ==
  Pair({[Usual EXCEPT !.front = f] : f \in FrontEnds},
       {<<Deployment, Webhook(ValidatingGVK, <<"v">>, OpService, 443)>>}, {CoreRule})

MCKeywordWords == {"webhook", "cert", "tls", "serving"}
=============================================================================
