----------------------------- MODULE KubeObjects -----------------------------
(***************************************************************************)
(* The vocabulary of pkg/kube: what a manifest is, and the predicates and  *)
(* constructors that the rest of the program is written with.              *)
(*                                                                         *)
(* A name is the sequence of its dash-separated words, so "op-service" is  *)
(* <<"op", "service">> and the empty string is <<>>.  An object keeps its  *)
(* group, version and kind, its name, whether it converts to the typed Go  *)
(* struct of its kind (valid), the part of its spec that the program       *)
(* reads, and the value of the annotation cert-manager.io/inject-ca-from   *)
(* (inject, <<>> when it is absent).  The namespace is left out: every     *)
(* object these operators build goes to the one target namespace.          *)
(***************************************************************************)
EXTENDS Integers, Sequences, FiniteSets

Name == Seq(STRING)
NoName == <<>>

\* The prover has no axiom for the type of a string literal; these are the ones
\* that the objects the program builds are made of.
ASSUME LiteralsAreStrings ==
  {"", "v1", "apps", "Deployment", "Service", "cert-manager.io", "Issuer", "Certificate",
   "app.kubernetes.io/name", "service", "webhook", "cert", "tls", "operator",
   "selfsigned"} \subseteq STRING

\* strings.HasSuffix with the strict length test the source writes by hand.
HasSuffix(name, suffix) ==
  /\ Len(name) > Len(suffix)
  /\ SubSeq(name, Len(name) - Len(suffix) + 1, Len(name)) = suffix

TrimSuffix(name, suffix) ==
  IF HasSuffix(name, suffix)
    THEN SubSeq(name, 1, Len(name) - Len(suffix))
    ELSE name

-----------------------------------------------------------------------------
(* Group-version-kinds. *)

GVK == [group : STRING, version : STRING, kind : STRING]
Gvk(g, v, k) == [group |-> g, version |-> v, kind |-> k]

NamespaceGVK          == Gvk("", "v1", "Namespace")
CRDGVK                == Gvk("apiextensions.k8s.io", "v1", "CustomResourceDefinition")
CRDV1Beta1GVK         == Gvk("apiextensions.k8s.io", "v1beta1", "CustomResourceDefinition")
ServiceAccountGVK     == Gvk("", "v1", "ServiceAccount")
RoleGVK               == Gvk("rbac.authorization.k8s.io", "v1", "Role")
RoleBindingGVK        == Gvk("rbac.authorization.k8s.io", "v1", "RoleBinding")
ClusterRoleGVK        == Gvk("rbac.authorization.k8s.io", "v1", "ClusterRole")
ClusterRoleBindingGVK == Gvk("rbac.authorization.k8s.io", "v1", "ClusterRoleBinding")
DeploymentGVK         == Gvk("apps", "v1", "Deployment")
ServiceGVK            == Gvk("", "v1", "Service")
IssuerGVK             == Gvk("cert-manager.io", "v1", "Issuer")
CertificateGVK        == Gvk("cert-manager.io", "v1", "Certificate")
ValidatingGVK == Gvk("admissionregistration.k8s.io", "v1", "ValidatingWebhookConfiguration")
MutatingGVK   == Gvk("admissionregistration.k8s.io", "v1", "MutatingWebhookConfiguration")

Is(obj, gvk, name) == obj.gvk = gvk /\ obj.name = name

\* The version is ignored.
IsKind(obj, gvk) == obj.gvk.group = gvk.group /\ obj.gvk.kind = gvk.kind

IsWebhookConfiguration(obj) ==
  IsKind(obj, ValidatingGVK) \/ IsKind(obj, MutatingGVK)

IsBinding(obj) == IsKind(obj, RoleBindingGVK) \/ IsKind(obj, ClusterRoleBindingGVK)

-----------------------------------------------------------------------------
(* The parts of a spec that the program reads or writes. *)

Port == Int
NilPort == -1            \* a *int32 that is nil

Selector == SUBSET [key : STRING, value : Name]

\* Secret volumes only, and the ports of the first container.
SecretVolume == [secret : Name, volume : Name]
DeploymentSpec ==
  [volumes : Seq(SecretVolume), selector : Selector, ports : Seq(Port), account : Name]
ServicePort == [port : Port, target : Port]
ServiceSpec == [selector : Selector, ports : Seq(ServicePort)]
\* One client per webhook of the configuration; service is NoName when the
\* client is a URL.
Client == [service : Name, port : Port]
WebhookSpec == [clients : Seq(Client)]
\* conversion is the service of the conversion webhook, NoName without one.
CRDSpec == [conversion : Name, port : Port]
Rule == [apiGroups : SUBSET STRING, resources : SUBSET STRING]
RoleSpec == [rules : Seq(Rule)]
BindingSpec == [roleKind : {"Role", "ClusterRole"}, role : Name, accounts : SUBSET Name]
IssuerRef == [name : Name, kind : STRING]
CertificateSpec == [secret : Name, dns : Name, issuer : IssuerRef]
IssuerSpec == [selfSigned : {TRUE}]
OpaqueSpec == [opaque : {TRUE}]
Opaque == [opaque |-> TRUE]

Spec_ == DeploymentSpec \cup ServiceSpec \cup WebhookSpec \cup CertificateSpec
         \cup IssuerSpec \cup CRDSpec \cup RoleSpec \cup BindingSpec \cup OpaqueSpec

\* FromUnstructured succeeds exactly when the spec has the shape of the kind.
Converts(obj) ==
  /\ IsKind(obj, DeploymentGVK) => obj.spec \in DeploymentSpec
  /\ IsKind(obj, ServiceGVK) => obj.spec \in ServiceSpec
  /\ IsWebhookConfiguration(obj) => obj.spec \in WebhookSpec
  /\ IsBinding(obj) => obj.spec \in BindingSpec

Object ==
  {obj \in [gvk : GVK, name : Name, valid : BOOLEAN, spec : Spec_, inject : Name] :
     obj.valid => Converts(obj)}

NewObject(gvk, name, spec) ==
  [gvk |-> gvk, name |-> name, valid |-> TRUE, spec |-> spec, inject |-> NoName]

SetAnnotation(obj, value) == [obj EXCEPT !.inject = value]

-----------------------------------------------------------------------------
(* Lookup. *)

Earliest(positions) == CHOOSE i \in positions : \A j \in positions : i =< j

NamedPositions(objects, gvk, name) ==
  {i \in DOMAIN objects : Is(objects[i], gvk, name)}

KindPositions(objects, gvk) == {i \in DOMAIN objects : IsKind(objects[i], gvk)}

\* As NamedPositions, for any version.
KindNamed(objects, gvk, name) ==
  {i \in DOMAIN objects : IsKind(objects[i], gvk) /\ objects[i].name = name}

-----------------------------------------------------------------------------
(* The loops over a slice that fill another. *)

Each(list, F(_)) == [i \in DOMAIN list |-> F(list[i])]

Nth(positions, n) == CHOOSE i \in positions : Cardinality({j \in positions : j =< i}) = n

\* The elements at these positions, in their order.
Chosen(list, positions) == [n \in 1 .. Cardinality(positions) |-> list[Nth(positions, n)]]

-----------------------------------------------------------------------------
(* Webhook services. *)

\* The service of the first webhook of a configuration, NoName when it has none.
ServiceOf(obj) ==
  IF obj.valid /\ obj.spec.clients # <<>> THEN obj.spec.clients[1].service ELSE NoName

PortOf(obj) == obj.spec.clients[1].port

DefaultSelector(service) == {[key |-> "app.kubernetes.io/name", value |-> service]}

CreateService(service, port, target, selector) ==
  NewObject(ServiceGVK, service,
    [selector |-> IF selector = {} THEN DefaultSelector(service) ELSE selector,
     ports |-> <<[port |-> port, target |-> target]>>])

\* Mutant: a Service that has ports is left as it is.
UpdateServicePort_OnlyEmpty(svc, port) ==
  [svc EXCEPT !.spec.ports =
     IF @ = <<>> THEN <<[port |-> port, target |-> port]>> ELSE @]

\* Only the port number of the first port is brought in line.
UpdateServicePort(svc, port) ==
  [svc EXCEPT !.spec.ports =
     IF @ = <<>> THEN <<[port |-> port, target |-> port]>> ELSE [@ EXCEPT ![1].port = port]]

\* The deployment is looked up by the service name without "-webhook-service".
FindDeploymentInfo(objects, service, default, suffix) ==
  LET usable == {i \in NamedPositions(objects, DeploymentGVK, TrimSuffix(service, suffix)) :
                   objects[i].valid}
      found  == objects[Earliest(usable)].spec
  IN  IF usable = {}
        THEN [port |-> default, selector |-> {}]
        ELSE [port |-> IF found.ports = <<>> THEN default ELSE found.ports[1],
              selector |-> found.selector]

EnsureService(objects, service, port, suffix) ==
  LET existing == NamedPositions(objects, ServiceGVK, service)
      info     == FindDeploymentInfo(objects, service, port, suffix)
  IN  IF existing # {}
        THEN UpdateServicePort(objects[Earliest(existing)], port)
        ELSE CreateService(service, port, info.port, info.selector)

\* The only way EnsureService fails: the Service it found does not convert.
EnsureServiceFails(objects, service) ==
  LET existing == NamedPositions(objects, ServiceGVK, service)
  IN  existing # {} /\ ~objects[Earliest(existing)].valid
=============================================================================
