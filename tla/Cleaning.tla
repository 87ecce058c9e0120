------------------------------- MODULE Cleaning -------------------------------
(***************************************************************************)
(* The content of a manifest as a JSON value, and kube.CleanUnstructured,  *)
(* which both front ends apply to every manifest they write.               *)
(*                                                                         *)
(* A value has a type t and, by type, the entries of a map, the items of a *)
(* list, or the text of a string, which is a name like every other: <<>>   *)
(* is the empty string.  Numbers and booleans are scalars.  Decoding gives *)
(* no value nested deeper than MaxDepth.                                   *)
(***************************************************************************)
EXTENDS KubeObjects

CONSTANT MaxDepth   \* how deep maps and lists are nested in a document

\* The documents the program makes itself are nested five deep.
ASSUME MaxDepthAssumption == MaxDepth \in Nat /\ MaxDepth >= 5

\* As in KubeObjects: what the prover has no axiom for.
ASSUME FieldLiterals ==
  {"kind", "metadata", "spec", "status", "name", "creationTimestamp", "namespace", "target",
   "annotations", "inject", "port", "targetPort", "secret", "secretName", "clientConfig",
   "service", "selfSigned", "dnsNames", "issuerRef", "ports", "selector", "strategy",
   "volumes"} \subseteq STRING

Null == [t |-> "null"]
Text(name) == [t |-> "string", text |-> name]
Scalar(number) == [t |-> "scalar", value |-> number]
Entry(key, value) == [key |-> key, value |-> value]
Map(entries) == [t |-> "map", entries |-> entries]
List(items) == [t |-> "list", items |-> items]

EmptyText == Text(NoName)
Word(string) == IF string = "" THEN EmptyText ELSE Text(<<string>>)

-----------------------------------------------------------------------------
(* The values nested at most n deep. *)

Leaf == {Null} \cup [t : {"string"}, text : Name] \cup [t : {"scalar"}, value : Int]

Maps(values) ==
  {map \in [t : {"map"}, entries : SUBSET [key : STRING, value : values]] :
     \A d, e \in map.entries : d.key = e.key => d = e}

Lists(values) == [t : {"list"}, items : Seq(values)]

NestedTo[n \in Nat] ==
  Leaf \cup IF n = 0 THEN {}
            ELSE LET values == NestedTo[n - 1] IN Maps(values) \cup Lists(values)

-----------------------------------------------------------------------------
(* CleanUnstructured.  What an entry or an item was cleaned to is handed to  *)
(* the loops as a function.                                                  *)

\* Mutant: empty strings go wherever they stand.
cleanItems_NoEmptyStrings(items, cleaned) ==
  Chosen(cleaned, {i \in DOMAIN items : cleaned[i] # Null})

\* An empty string is kept as an item: apiGroups: [""] is the core group.
cleanItems(items, cleaned) ==
  Chosen([i \in DOMAIN items |-> IF items[i] = EmptyText THEN EmptyText ELSE cleaned[i]],
         {i \in DOMAIN items : items[i] = EmptyText \/ cleaned[i] # Null})

\* Mutant: an entry is looked at before it is cleaned, not after.
cleanMap_Before(entries, cleaned) ==
  {Entry(e.key, cleaned[e]) : e \in {x \in entries : x.value # Null}}

cleanMap(entries, cleaned) ==
  {Entry(e.key, cleaned[e]) : e \in {x \in entries : cleaned[x] # Null}}

\* cleanValue of the values nested at most n deep.
cleanTo[n \in Nat] ==
  [value \in NestedTo[n] |->
     CASE value.t = "map" ->
            LET entries == cleanMap(value.entries,
                                    [e \in value.entries |-> cleanTo[n - 1][e.value]])
            IN  IF entries = {} THEN Null ELSE Map(entries)
       [] value.t = "list" ->
            LET items == cleanItems(value.items,
                           [i \in DOMAIN value.items |-> cleanTo[n - 1][value.items[i]]])
            IN  IF items = <<>> THEN Null ELSE List(items)
       [] value = EmptyText -> Null
       [] OTHER -> value]

cleanValue(value) == cleanTo[MaxDepth - 1][value]

\* The object itself stays a map, be it empty.
CleanUnstructured(object) ==
  Map(cleanMap(object.entries, [e \in object.entries |-> cleanValue(e.value)]))

-----------------------------------------------------------------------------
(* ToUnstructured: the typed objects of client-go have fields without value, *)
(* an object that is unstructured already is copied.                         *)

\* Of the code's table, the kinds that occur in the models.
ClusterScoped ==
  {NamespaceGVK, CRDGVK, ClusterRoleGVK, ClusterRoleBindingGVK,
   Gvk("cert-manager.io", "v1", "ClusterIssuer"), ValidatingGVK, MutatingGVK}

IsNamespaced(gvk) == gvk \notin ClusterScoped

Optional(condition, entry) == IF condition THEN {entry} ELSE {}

Metadata(obj) ==
  Map({Entry("name", Text(obj.name)), Entry("creationTimestamp", Null)}
      \cup Optional(IsNamespaced(obj.gvk), Entry("namespace", Text(<<"target">>)))
      \cup Optional(obj.inject # NoName,
                    Entry("annotations", Map({Entry("inject", Text(obj.inject))}))))

Labels(selector) ==
  Map({Entry(key, Text((CHOOSE label \in selector : label.key = key).value)) :
         key \in {label.key : label \in selector}})

PortFields(port) ==
  Map({Entry("port", Scalar(port.port)), Entry("targetPort", Scalar(port.target))})

VolumeFields(volume) ==
  Map({Entry("name", Text(volume.volume)),
       Entry("secret", Map({Entry("secretName", Text(volume.secret))}))})

ServiceFields(client) ==
  Map({Entry("name", Text(client.service))}
      \cup Optional(client.port # NilPort, Entry("port", Scalar(client.port))))

ClientFields(client) ==
  Map({Entry("clientConfig",
             Map(Optional(client.service # NoName, Entry("service", ServiceFields(client)))))})

CertificateFields(spec) ==
  Map({Entry("secretName", Text(spec.secret)), Entry("dnsNames", List(<<Text(spec.dns)>>)),
       Entry("issuerRef", Map({Entry("name", Text(spec.issuer.name)),
                               Entry("kind", Word(spec.issuer.kind))}))})

\* content is what a manifest the program does not look into holds.
Spec_Fields(obj, content) ==
  CASE obj.spec \in IssuerSpec -> Map({Entry("selfSigned", Map({}))})
    [] obj.spec \in CertificateSpec -> CertificateFields(obj.spec)
    [] obj.valid /\ IsKind(obj, ServiceGVK) ->
         Map({Entry("ports", List(Each(obj.spec.ports, PortFields))),
              Entry("selector", Labels(obj.spec.selector))})
    [] obj.valid /\ IsKind(obj, DeploymentGVK) ->
         Map({Entry("selector", Labels(obj.spec.selector)), Entry("strategy", Map({})),
              Entry("volumes", List(Each(obj.spec.volumes, VolumeFields)))})
    [] obj.valid /\ IsWebhookConfiguration(obj) -> List(Each(obj.spec.clients, ClientFields))
    [] OTHER -> content

ToUnstructured(obj, content) ==
  Map({Entry("kind", Text(<<obj.gvk.group, obj.gvk.version, obj.gvk.kind>>)),
       Entry("metadata", Metadata(obj)), Entry("spec", Spec_Fields(obj, content)),
       Entry("status", Map({}))})

=============================================================================
