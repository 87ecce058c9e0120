-------------------------- MODULE KubeObjectsProofs --------------------------
(***************************************************************************)
(* Facts about the operators of KubeObjects: what the lookups find, and    *)
(* that the constructors build manifests.  The proofs of the components    *)
(* cite them by name.                                                      *)
(***************************************************************************)
EXTENDS KubeObjects, TLAPS, WellFoundedInduction, SequenceTheorems

\* Earliest, the "first match" of every lookup of the program, picks an element
\* of a set of positions and no smaller one is left.
LEMMA EarliestIsFirst ==
  ASSUME NEW S \in SUBSET Nat, S # {}
  PROVE  Earliest(S) \in S /\ \A j \in S : Earliest(S) =< j
<1>1. \E i \in S : \A j \in S : <<j, i>> \notin OpToRel(<, Nat)
  BY NatLessThanWellFounded, WFMin, Zenon
<1>2. PICK i \in S : \A j \in S : ~(j < i)
  BY <1>1 DEF OpToRel
<1>3. \A j \in S : i =< j
  BY <1>2
<1> QED
  BY <1>3 DEF Earliest

\* Sequences of a set whose structure does not matter.
LEMMA FirstElement ==
  ASSUME NEW S, NEW s \in Seq(S), s # <<>>
  PROVE  1 \in DOMAIN s /\ s[1] \in S
OBVIOUS

LEMMA ReplaceElement ==
  ASSUME NEW S, NEW s \in Seq(S), NEW i \in DOMAIN s, NEW x \in S
  PROVE  /\ [s EXCEPT ![i] = x] \in Seq(S)
         /\ Len([s EXCEPT ![i] = x]) = Len(s)
OBVIOUS

LEMMA AppendElements ==
  ASSUME NEW S, NEW s \in Seq(S), NEW x \in S, NEW i \in DOMAIN Append(s, x)
  PROVE  \/ i \in DOMAIN s /\ Append(s, x)[i] = s[i]
         \/ i = Len(s) + 1 /\ Append(s, x)[i] = x
OBVIOUS

\* Cutting a suffix off a name (the "-service" of a webhook service) leaves a name.
LEMMA TrimSuffixType ==
  ASSUME NEW name \in Name, NEW suffix \in Name
  PROVE  TrimSuffix(name, suffix) \in Name
<1>1. CASE ~HasSuffix(name, suffix)
  BY <1>1 DEF TrimSuffix
<1>2. CASE HasSuffix(name, suffix)
  <2>1. Len(name) \in Nat /\ Len(suffix) \in Nat /\ Len(name) > Len(suffix)
    BY <1>2 DEF HasSuffix, Name
  <2>2. \A i \in 1 .. Len(name) - Len(suffix) : name[i] \in STRING
    BY <2>1 DEF Name
  <2> QED
    BY <1>2, <2>1, <2>2 DEF TrimSuffix, Name
<1> QED
  BY <1>1, <1>2

\* A lookup by kind and name that finds anything finds a manifest of them.
LEMMA EarliestNamed ==
  ASSUME NEW objs \in Seq(Object), NEW gvk, NEW name,
         NamedPositions(objs, gvk, name) # {}
  PROVE  LET i == Earliest(NamedPositions(objs, gvk, name))
         IN  i \in DOMAIN objs /\ objs[i] \in Object /\ Is(objs[i], gvk, name)
<1>1. NamedPositions(objs, gvk, name) \in SUBSET Nat
  BY DEF NamedPositions
<1>2. Earliest(NamedPositions(objs, gvk, name)) \in NamedPositions(objs, gvk, name)
  BY <1>1, EarliestIsFirst
<1> QED
  BY <1>2 DEF NamedPositions

LEMMA EarliestOfKind ==
  ASSUME NEW objs \in Seq(Object), NEW gvk, KindPositions(objs, gvk) # {}
  PROVE  objs[Earliest(KindPositions(objs, gvk))] \in Object
<1>1. KindPositions(objs, gvk) \in SUBSET Nat
  BY DEF KindPositions
<1>2. Earliest(KindPositions(objs, gvk)) \in KindPositions(objs, gvk)
  BY <1>1, EarliestIsFirst
<1> QED
  BY <1>2 DEF KindPositions

\* The service a webhook configuration refers to is a name, and when it is not
\* empty the configuration converts and its port can be read.
LEMMA ServiceOfType ==
  ASSUME NEW obj \in Object, IsWebhookConfiguration(obj)
  PROVE  /\ ServiceOf(obj) \in Name
         /\ ServiceOf(obj) # NoName => PortOf(obj) \in Port
<1>1. CASE obj.valid /\ obj.spec.clients # <<>>
  <2>1. obj.spec \in WebhookSpec
    BY <1>1 DEF Object, Converts
  <2>2. obj.spec.clients \in Seq(Client)
    BY <2>1 DEF WebhookSpec
  <2>3. obj.spec.clients[1] \in Client
    BY <1>1, <2>2, FirstElement
  <2>4. obj.spec.clients[1].service \in Name /\ obj.spec.clients[1].port \in Port
    BY <2>3 DEF Client
  <2> QED
    BY <1>1, <2>4 DEF ServiceOf, PortOf
<1>2. CASE ~(obj.valid /\ obj.spec.clients # <<>>)
  <2>1. ServiceOf(obj) = NoName
    BY <1>2 DEF ServiceOf
  <2>2. NoName \in Name
    BY DEF NoName, Name
  <2> QED
    BY <2>1, <2>2
<1> QED
  BY <1>1, <1>2

\* Annotating a manifest leaves a manifest that differs in nothing else.
LEMMA SetAnnotationType ==
  ASSUME NEW obj \in Object, NEW value \in Name
  PROVE  /\ SetAnnotation(obj, value) \in Object
         /\ SetAnnotation(obj, value).gvk = obj.gvk
         /\ SetAnnotation(obj, value).name = obj.name
         /\ SetAnnotation(obj, value).valid = obj.valid
         /\ SetAnnotation(obj, value).spec = obj.spec
         /\ SetAnnotation(obj, value).inject = value
<1> DEFINE new == SetAnnotation(obj, value)
<1>1. /\ new \in [gvk : GVK, name : Name, valid : BOOLEAN, spec : Spec_, inject : Name]
      /\ new.gvk = obj.gvk /\ new.name = obj.name /\ new.valid = obj.valid
      /\ new.spec = obj.spec /\ new.inject = value
  BY DEF SetAnnotation, Object
<1>2. obj.valid => Converts(obj)
  BY DEF Object
<1> HIDE DEF new
<1>3. Converts(obj) => Converts(new)
  BY <1>1 DEF Converts, IsKind, IsWebhookConfiguration, IsBinding
<1> QED
  BY <1>1, <1>2, <1>3 DEF Object, new

\* The kinds that the program tells apart, spelled out.
LEMMA KindFields ==
  /\ ServiceGVK = [group |-> "", version |-> "v1", kind |-> "Service"]
  /\ IssuerGVK = [group |-> "cert-manager.io", version |-> "v1", kind |-> "Issuer"]
  /\ CertificateGVK = [group |-> "cert-manager.io", version |-> "v1", kind |-> "Certificate"]
  /\ DeploymentGVK = [group |-> "apps", version |-> "v1", kind |-> "Deployment"]
  /\ ValidatingGVK = [group |-> "admissionregistration.k8s.io", version |-> "v1",
                      kind |-> "ValidatingWebhookConfiguration"]
  /\ MutatingGVK = [group |-> "admissionregistration.k8s.io", version |-> "v1",
                    kind |-> "MutatingWebhookConfiguration"]
  /\ RoleBindingGVK.kind = "RoleBinding"
  /\ ClusterRoleBindingGVK.kind = "ClusterRoleBinding"
BY DEF ServiceGVK, IssuerGVK, CertificateGVK, DeploymentGVK, ValidatingGVK, MutatingGVK, Gvk,
       RoleBindingGVK, ClusterRoleBindingGVK

\* The kinds of the objects that the program constructs are kinds.
LEMMA ConstructedKinds ==
  ASSUME NEW gvk \in {ServiceGVK, IssuerGVK, CertificateGVK}
  PROVE  gvk \in GVK
<1>1. /\ "" \in STRING /\ "v1" \in STRING /\ "Service" \in STRING
      /\ "cert-manager.io" \in STRING /\ "Issuer" \in STRING /\ "Certificate" \in STRING
  BY LiteralsAreStrings
<1>2. CASE gvk = ServiceGVK
  BY <1>1, <1>2, KindFields DEF GVK
<1>3. CASE gvk = IssuerGVK
  BY <1>1, <1>3, KindFields DEF GVK
<1>4. CASE gvk = CertificateGVK
  BY <1>1, <1>4, KindFields DEF GVK
<1> QED
  BY <1>2, <1>3, <1>4

\* No object is of two of these kinds.
LEMMA KindsDiffer ==
  ASSUME NEW obj
  PROVE  /\ ~(IsKind(obj, ServiceGVK) /\ IsKind(obj, CertificateGVK))
         /\ ~(IsKind(obj, ServiceGVK) /\ IsKind(obj, IssuerGVK))
         /\ ~(IsKind(obj, CertificateGVK) /\ IsKind(obj, IssuerGVK))
         /\ ~(IsWebhookConfiguration(obj) /\ IsKind(obj, CertificateGVK))
         /\ ~(IsWebhookConfiguration(obj) /\ IsKind(obj, IssuerGVK))
         /\ ~(IsWebhookConfiguration(obj) /\ IsKind(obj, ServiceGVK))
         /\ obj.gvk \in {ServiceGVK, IssuerGVK, CertificateGVK} =>
              ~IsKind(obj, DeploymentGVK) /\ ~IsBinding(obj)
<1>1. IsKind(obj, ServiceGVK) => obj.gvk.kind = "Service"
  BY KindFields DEF IsKind
<1>2. IsKind(obj, CertificateGVK) => obj.gvk.kind = "Certificate"
  BY KindFields DEF IsKind
<1>3. IsKind(obj, IssuerGVK) => obj.gvk.kind = "Issuer"
  BY KindFields DEF IsKind
<1>4. IsWebhookConfiguration(obj) =>
        obj.gvk.kind \in {"ValidatingWebhookConfiguration", "MutatingWebhookConfiguration"}
  BY KindFields DEF IsKind, IsWebhookConfiguration
<1>5. IsKind(obj, DeploymentGVK) => obj.gvk.kind = "Deployment"
  BY KindFields DEF IsKind
<1>6. obj.gvk \in {ServiceGVK, IssuerGVK, CertificateGVK} =>
        obj.gvk.kind \in {"Service", "Issuer", "Certificate"}
  <2>1. /\ ServiceGVK.kind = "Service" /\ IssuerGVK.kind = "Issuer"
        /\ CertificateGVK.kind = "Certificate"
    BY KindFields
  <2> QED
    BY <2>1, Zenon
<1>7. IsBinding(obj) => obj.gvk.kind \in {"RoleBinding", "ClusterRoleBinding"}
  BY KindFields DEF IsKind, IsBinding
<1> QED
  BY <1>1, <1>2, <1>3, <1>4, <1>5, <1>6, <1>7

\* NewObject builds a manifest of the kinds that the program constructs.
LEMMA NewObjectType ==
  ASSUME NEW gvk \in {ServiceGVK, IssuerGVK, CertificateGVK}, NEW name \in Name,
         NEW spec \in Spec_, gvk = ServiceGVK => spec \in ServiceSpec
  PROVE  /\ NewObject(gvk, name, spec) \in Object
         /\ NewObject(gvk, name, spec).gvk = gvk
         /\ NewObject(gvk, name, spec).name = name
         /\ NewObject(gvk, name, spec).spec = spec
<1> DEFINE obj == NewObject(gvk, name, spec)
<1> HIDE DEF obj
<1>0. obj = [gvk |-> gvk, name |-> name, valid |-> TRUE, spec |-> spec, inject |-> <<>>]
  BY DEF NewObject, NoName, obj
<1>1. obj \in [gvk : GVK, name : Name, valid : BOOLEAN, spec : Spec_, inject : Name]
  <2>1. gvk \in GVK /\ <<>> \in Name
    BY ConstructedKinds DEF Name
  <2> QED
    BY <1>0, <2>1
<1>2. obj.gvk = gvk /\ obj.name = name /\ obj.spec = spec
  BY <1>0
<1>3. ~IsKind(obj, DeploymentGVK) /\ ~IsWebhookConfiguration(obj) /\ ~IsBinding(obj)
  BY <1>2, KindsDiffer DEF IsKind
<1>4. IsKind(obj, ServiceGVK) => gvk = ServiceGVK
  <2>1. /\ ServiceGVK.kind = "Service" /\ IssuerGVK.kind = "Issuer"
        /\ CertificateGVK.kind = "Certificate"
    BY KindFields
  <2> QED
    BY <1>2, <2>1 DEF IsKind
<1>5. obj \in Object
  BY <1>1, <1>2, <1>3, <1>4 DEF Object, Converts
<1> QED
  BY <1>2, <1>5 DEF obj

\* A Service brought in line keeps its kind and name and serves the port first.
LEMMA UpdateServicePortType ==
  ASSUME NEW svc \in Object, svc.spec \in ServiceSpec, svc.gvk = ServiceGVK, NEW port \in Port
  PROVE  /\ UpdateServicePort(svc, port) \in Object
         /\ UpdateServicePort(svc, port).gvk = svc.gvk
         /\ UpdateServicePort(svc, port).name = svc.name
<1> DEFINE ports == IF svc.spec.ports = <<>>
                      THEN <<[port |-> port, target |-> port]>>
                      ELSE [svc.spec.ports EXCEPT ![1].port = port]
           spec == [svc.spec EXCEPT !.ports = ports]
           new == [svc EXCEPT !.spec = spec]
<1>1. UpdateServicePort(svc, port) = new
  BY DEF UpdateServicePort, Object, ServiceSpec
<1>2. ports \in Seq(ServicePort)
  <2>1. svc.spec.ports \in Seq(ServicePort)
    BY DEF ServiceSpec
  <2>2. CASE svc.spec.ports = <<>>
    <3>1. [port |-> port, target |-> port] \in ServicePort
      BY DEF ServicePort
    <3> QED
      BY <2>2, <3>1
  <2>3. CASE svc.spec.ports # <<>>
    <3>1. svc.spec.ports[1] \in ServicePort /\ 1 \in DOMAIN svc.spec.ports
      BY <2>1, <2>3, FirstElement
    <3>2. [svc.spec.ports[1] EXCEPT !.port = port] \in ServicePort
      BY <3>1 DEF ServicePort
    <3>3. [svc.spec.ports EXCEPT ![1] = [svc.spec.ports[1] EXCEPT !.port = port]]
            \in Seq(ServicePort)
      BY <2>1, <3>1, <3>2, ReplaceElement
    <3>4. ports = [svc.spec.ports EXCEPT ![1] = [svc.spec.ports[1] EXCEPT !.port = port]]
      BY <2>3, <3>1, Zenon
    <3> QED
      BY <3>3, <3>4
  <2> QED
    BY <2>2, <2>3
<1>3. spec \in ServiceSpec
  BY <1>2 DEF ServiceSpec
<1>4. new.gvk = svc.gvk /\ new.name = svc.name /\ new.spec = spec
  BY DEF Object
<1>5. new \in [gvk : GVK, name : Name, valid : BOOLEAN, spec : Spec_, inject : Name]
  BY <1>3 DEF Object, Spec_
<1>6. Converts(new)
  <2>1. IsKind(new, ServiceGVK)
    BY <1>4, Zenon DEF IsKind
  <2>2. ~IsKind(new, DeploymentGVK) /\ ~IsWebhookConfiguration(new) /\ ~IsBinding(new)
    BY <1>4, <2>1, KindsDiffer, Zenon
  <2>3. new.spec \in ServiceSpec
    BY <1>3, <1>4, Zenon
  <2> QED
    BY <2>2, <2>3, Zenon DEF Converts
<1> QED
  BY <1>1, <1>4, <1>5, <1>6 DEF Object

LEMMA CreateServiceType ==
  ASSUME NEW service \in Name, NEW port \in Port, NEW target \in Port,
         NEW selector \in Selector
  PROVE  /\ CreateService(service, port, target, selector) \in Object
         /\ CreateService(service, port, target, selector).gvk = ServiceGVK
         /\ CreateService(service, port, target, selector).name = service
<1> DEFINE spec == [selector |-> IF selector = {} THEN DefaultSelector(service) ELSE selector,
                    ports |-> <<[port |-> port, target |-> target]>>]
<1>1. DefaultSelector(service) \in Selector
  <2>1. "app.kubernetes.io/name" \in STRING
    BY LiteralsAreStrings
  <2> QED
    BY <2>1 DEF DefaultSelector, Selector
<1>2. <<[port |-> port, target |-> target]>> \in Seq(ServicePort)
  <2>1. [port |-> port, target |-> target] \in ServicePort
    BY DEF ServicePort
  <2> QED
    BY <2>1
<1>3. spec \in ServiceSpec
  BY <1>1, <1>2 DEF ServiceSpec
<1> QED
  BY <1>3, NewObjectType DEF CreateService, Spec_

LEMMA FindDeploymentInfoType ==
  ASSUME NEW objs \in Seq(Object), NEW service, NEW default \in Port, NEW suffix
  PROVE  FindDeploymentInfo(objs, service, default, suffix) \in [port : Port, selector : Selector]
<1> DEFINE usable == {i \in NamedPositions(objs, DeploymentGVK, TrimSuffix(service, suffix)) :
                        objs[i].valid}
           found == objs[Earliest(usable)]
<1>1. CASE usable = {}
  BY <1>1 DEF FindDeploymentInfo, Selector
<1>2. CASE usable # {}
  <2>1. usable \in SUBSET Nat
    BY DEF NamedPositions
  <2>2. Earliest(usable) \in usable
    BY <1>2, <2>1, EarliestIsFirst
  <2>3. found \in Object /\ found.valid /\ IsKind(found, DeploymentGVK)
    BY <2>2 DEF NamedPositions, Is, IsKind
  <2>4. found.spec \in DeploymentSpec
    BY <2>3 DEF Object, Converts
  <2>5. found.spec.selector \in Selector /\ found.spec.ports \in Seq(Port)
    BY <2>4 DEF DeploymentSpec
  <2>6. found.spec.ports # <<>> => found.spec.ports[1] \in Port
    BY <2>5, FirstElement
  <2> QED
    BY <1>2, <2>5, <2>6 DEF FindDeploymentInfo
<1> QED
  BY <1>1, <1>2

\* EnsureService, when it does not fail, returns a Service of the asked name.
LEMMA EnsureServiceType ==
  ASSUME NEW objs \in Seq(Object), NEW service \in Name, NEW port \in Port, NEW suffix,
         ~EnsureServiceFails(objs, service)
  PROVE  /\ EnsureService(objs, service, port, suffix) \in Object
         /\ EnsureService(objs, service, port, suffix).gvk = ServiceGVK
         /\ EnsureService(objs, service, port, suffix).name = service
<1> DEFINE existing == NamedPositions(objs, ServiceGVK, service)
           svc == objs[Earliest(existing)]
<1>1. CASE existing = {}
  <2>1. PICK info \in [port : Port, selector : Selector] :
          info = FindDeploymentInfo(objs, service, port, suffix)
    BY FindDeploymentInfoType
  <2> QED
    BY <1>1, <2>1, CreateServiceType DEF EnsureService
<1>2. CASE existing # {}
  <2>1. svc \in Object /\ svc.gvk = ServiceGVK /\ svc.name = service
    BY <1>2, EarliestNamed DEF Is
  <2>2. svc.valid
    BY <1>2 DEF EnsureServiceFails
  <2>3. svc.spec \in ServiceSpec
    BY <2>1, <2>2 DEF Object, Converts, IsKind
  <2> QED
    BY <1>2, <2>1, <2>3, UpdateServicePortType DEF EnsureService
<1> QED
  BY <1>1, <1>2

-----------------------------------------------------------------------------
(* Where the objects of a kind and name are after a list has grown. *)

LEMMA KindNamedAppend ==
  ASSUME NEW S, NEW objs \in Seq(S), NEW o \in S, NEW gvk, NEW name
  PROVE  KindNamed(Append(objs, o), gvk, name) =
           KindNamed(objs, gvk, name)
             \cup (IF IsKind(o, gvk) /\ o.name = name THEN {Len(objs) + 1} ELSE {})
<1> DEFINE new == Append(objs, o)
           Named(obj) == IsKind(obj, gvk) /\ obj.name = name
<1>1. /\ Len(objs) \in Nat /\ DOMAIN objs = 1 .. Len(objs)
      /\ DOMAIN new = 1 .. Len(objs) + 1
      /\ new[Len(objs) + 1] = o
      /\ \A i \in 1 .. Len(objs) : new[i] = objs[i]
  OBVIOUS
<1>2. KindNamed(objs, gvk, name) = {i \in 1 .. Len(objs) : Named(objs[i])}
  BY <1>1, Zenon DEF KindNamed
<1>3. KindNamed(new, gvk, name) = {i \in 1 .. Len(objs) + 1 : Named(new[i])}
  BY <1>1, Zenon DEF KindNamed
<1> HIDE DEF new, Named
<1>4. {i \in 1 .. Len(objs) + 1 : Named(new[i])} =
        {i \in 1 .. Len(objs) : Named(objs[i])}
          \cup (IF Named(o) THEN {Len(objs) + 1} ELSE {})
  BY <1>1
<1> QED
  BY <1>2, <1>3, <1>4, Zenon DEF new, Named

LEMMA KindNamedPrepend ==
  ASSUME NEW S, NEW objs \in Seq(S), NEW o \in S, NEW gvk, NEW name, ~IsKind(o, gvk)
  PROVE  KindNamed(<<o>> \o objs, gvk, name) = {i + 1 : i \in KindNamed(objs, gvk, name)}
<1> DEFINE new == <<o>> \o objs
           Named(obj) == IsKind(obj, gvk) /\ obj.name = name
<1>1. /\ Len(objs) \in Nat /\ DOMAIN objs = 1 .. Len(objs)
      /\ DOMAIN new = 1 .. Len(objs) + 1
      /\ new[1] = o
      /\ \A i \in 1 .. Len(objs) : new[i + 1] = objs[i]
  OBVIOUS
<1>2. KindNamed(objs, gvk, name) = {i \in 1 .. Len(objs) : Named(objs[i])}
  BY <1>1, Zenon DEF KindNamed
<1>3. KindNamed(new, gvk, name) = {i \in 1 .. Len(objs) + 1 : Named(new[i])}
  BY <1>1, Zenon DEF KindNamed
<1>4. ~Named(o)
  OBVIOUS
<1> HIDE DEF new, Named
<1>5. ASSUME NEW i \in 1 .. Len(objs) + 1, Named(new[i])
      PROVE  i - 1 \in 1 .. Len(objs) /\ Named(objs[i - 1]) /\ i = (i - 1) + 1
  <2>1. i # 1
    BY <1>1, <1>4, <1>5
  <2>2. i - 1 \in 1 .. Len(objs) /\ i = (i - 1) + 1
    BY <1>1, <2>1
  <2>3. new[(i - 1) + 1] = objs[i - 1]
    BY <1>1, <2>2
  <2> QED
    BY <1>5, <2>2, <2>3
<1>6. ASSUME NEW i \in 1 .. Len(objs), Named(objs[i])
      PROVE  i + 1 \in 1 .. Len(objs) + 1 /\ Named(new[i + 1])
  BY <1>1, <1>6
<1>7. {i \in 1 .. Len(objs) + 1 : Named(new[i])} =
        {i + 1 : i \in {j \in 1 .. Len(objs) : Named(objs[j])}}
  BY <1>5, <1>6, Zenon
<1> QED
  BY <1>2, <1>3, <1>7, Zenon DEF new
=============================================================================
