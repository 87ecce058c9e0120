--------------------------- MODULE ManifestsProofs ---------------------------
(***************************************************************************)
(* Theorems of Manifests: what is collected, in whatever order of the      *)
(* permissions, and what the renaming and the sort make of it.             *)
(***************************************************************************)
EXTENDS Manifests, ApplyOrderProofs

-----------------------------------------------------------------------------
(* What a list holds. *)

Elements(list) == {list[i] : i \in DOMAIN list}

LEMMA ConcatElements ==
  ASSUME NEW T, NEW a \in Seq(T), NEW b \in Seq(T)
  PROVE  /\ a \o b \in Seq(T)
         /\ Elements(a \o b) = Elements(a) \cup Elements(b)
<1>1. /\ a \o b \in Seq(T) /\ Len(a \o b) = Len(a) + Len(b)
      /\ Len(a) \in Nat /\ Len(b) \in Nat
  OBVIOUS
<1>2. ASSUME NEW i \in DOMAIN (a \o b) PROVE (a \o b)[i] \in Elements(a) \cup Elements(b)
  BY <1>1 DEF Elements
<1>3. ASSUME NEW i \in DOMAIN a PROVE a[i] \in Elements(a \o b)
  <2>1. i \in DOMAIN (a \o b) /\ (a \o b)[i] = a[i]
    BY <1>1
  <2> QED
    BY <2>1, Zenon DEF Elements
<1>4. ASSUME NEW i \in DOMAIN b PROVE b[i] \in Elements(a \o b)
  <2>1. Len(a) + i \in DOMAIN (a \o b) /\ (a \o b)[Len(a) + i] = b[i]
    BY <1>1
  <2> QED
    BY <2>1, Zenon DEF Elements
<1>5. \A x \in Elements(a \o b) : x \in Elements(a) \cup Elements(b)
  BY <1>2, Zenon DEF Elements
<1>6. \A x \in Elements(a) \cup Elements(b) : x \in Elements(a \o b)
  BY <1>3, <1>4, Zenon DEF Elements
<1> QED
  BY <1>1, <1>5, <1>6

-----------------------------------------------------------------------------
(* Counting the manifests of a kind. *)

LEMMA CountType ==
  ASSUME NEW T, NEW list \in Seq(T), NEW gvk
  PROVE  /\ IsFiniteSet(OfExactKind(list, gvk))
         /\ CountOf(list, gvk) \in Nat /\ CountOf(list, gvk) =< Len(list)
<1>1. Len(list) \in Nat /\ \A i \in OfExactKind(list, gvk) : i \in 1 .. Len(list)
  BY DEF OfExactKind
<1> QED
  BY <1>1, NthEnumerates DEF CountOf

LEMMA CountConcat ==
  ASSUME NEW T, NEW a \in Seq(T), NEW b \in Seq(T), NEW gvk
  PROVE  CountOf(a \o b, gvk) = CountOf(a, gvk) + CountOf(b, gvk)
<1> DEFINE A == OfExactKind(a, gvk)
           B == OfExactKind(b, gvk)
           C == {i \in DOMAIN (a \o b) : i > Len(a) /\ (a \o b)[i].gvk = gvk}
           shift == [i \in B |-> Len(a) + i]
<1>1. /\ Len(a) \in Nat /\ Len(b) \in Nat /\ Len(a \o b) = Len(a) + Len(b)
      /\ DOMAIN a = 1 .. Len(a) /\ DOMAIN b = 1 .. Len(b)
      /\ DOMAIN (a \o b) = 1 .. Len(a) + Len(b)
  OBVIOUS
<1>2. \A i \in DOMAIN a : (a \o b)[i] = a[i]
  OBVIOUS
<1>3. \A i \in DOMAIN b : (a \o b)[Len(a) + i] = b[i]
  OBVIOUS
<1>4. IsFiniteSet(A) /\ IsFiniteSet(B) /\ Cardinality(A) = CountOf(a, gvk)
      /\ Cardinality(B) = CountOf(b, gvk) /\ CountOf(a, gvk) \in Nat /\ CountOf(b, gvk) \in Nat
  BY CountType DEF CountOf
<1>5. \A i \in B : i \in DOMAIN b /\ b[i].gvk = gvk
  BY DEF OfExactKind
<1>6. \A i \in DOMAIN b : b[i].gvk = gvk => i \in B
  BY DEF OfExactKind
<1>7. OfExactKind(a \o b, gvk) = A \cup C
  <2>1. ASSUME NEW i \in DOMAIN (a \o b), i \in OfExactKind(a \o b, gvk) PROVE i \in A \cup C
    BY <2>1, <1>1, <1>2 DEF OfExactKind
  <2>2. ASSUME NEW i \in A PROVE i \in OfExactKind(a \o b, gvk)
    BY <1>1, <1>2 DEF OfExactKind
  <2>3. ASSUME NEW i \in C PROVE i \in OfExactKind(a \o b, gvk)
    BY DEF OfExactKind
  <2>4. \A i \in OfExactKind(a \o b, gvk) : i \in DOMAIN (a \o b)
    BY DEF OfExactKind
  <2> QED
    BY <2>1, <2>2, <2>3, <2>4
<1>8. \A i \in A : i \notin C
  BY <1>1 DEF OfExactKind
<1>9. IsFiniteSet(C) /\ Cardinality(C) = Cardinality(B)
  <2>1. shift \in [B -> C]
    BY <1>1, <1>3, <1>5
  <2>2. \A i, k \in B : shift[i] = shift[k] => i = k
    BY <1>1, <1>5
  <2>3. ASSUME NEW u \in C PROVE \E i \in B : shift[i] = u
    <3>1. u \in Nat /\ u - Len(a) \in DOMAIN b /\ Len(a) + (u - Len(a)) = u
      BY <1>1
    <3>2. u - Len(a) \in B
      BY <3>1, <1>3, <1>6
    <3> QED
      BY <3>1, <3>2
  <2> HIDE DEF A, B, C, shift
  <2> QED
    BY <2>1, <2>2, <2>3, <1>4, SameSize, Zenon
<1> HIDE DEF A, B, C
<1>10. A \cap C = {}
  BY <1>8
<1>11. Cardinality(A \cup C) = Cardinality(A) + Cardinality(C) - Cardinality({})
  BY <1>4, <1>9, <1>10, FS_Union
<1> QED
  BY <1>4, <1>7, <1>9, <1>11, FS_EmptySet DEF CountOf

LEMMA CountAll ==
  ASSUME NEW T, NEW list \in Seq(T), NEW gvk, \A i \in DOMAIN list : list[i].gvk = gvk
  PROVE  CountOf(list, gvk) = Len(list)
<1>1. OfExactKind(list, gvk) = 1 .. Len(list) /\ Len(list) \in Nat
  BY DEF OfExactKind
<1> QED
  BY <1>1, FS_Interval DEF CountOf

LEMMA CountNone ==
  ASSUME NEW list, NEW gvk, \A i \in DOMAIN list : list[i].gvk # gvk
  PROVE  CountOf(list, gvk) = 0
<1>1. OfExactKind(list, gvk) = {}
  BY DEF OfExactKind
<1> QED
  BY <1>1, FS_EmptySet DEF CountOf

\* Neither renaming nor sorting changes how many there are of a kind.
LEMMA CountMoved ==
  ASSUME NEW T, NEW a \in Seq(T), NEW b, NEW from \in Bijection(DOMAIN b, DOMAIN a),
         \A i \in DOMAIN b : b[i].gvk = a[from[i]].gvk,
         NEW gvk, IsFiniteSet(DOMAIN b)
  PROVE  CountOf(b, gvk) = CountOf(a, gvk)
<1> DEFINE A == OfExactKind(a, gvk)
           B == OfExactKind(b, gvk)
           f == [i \in B |-> from[i]]
<1>1. /\ \A i \in DOMAIN b : from[i] \in DOMAIN a
      /\ \A i, k \in DOMAIN b : from[i] = from[k] => i = k
      /\ \A u \in DOMAIN a : \E i \in DOMAIN b : from[i] = u
  BY DEF Bijection, Injection, Surjection, IsInjective
<1>2. B \in SUBSET DOMAIN b /\ IsFiniteSet(B)
  <2>1. B \in SUBSET DOMAIN b
    BY DEF OfExactKind
  <2> HIDE DEF B
  <2> QED
    BY <2>1, FS_Subset
<1>3. f \in [B -> A]
  BY <1>1 DEF OfExactKind
<1>4. \A i, k \in B : f[i] = f[k] => i = k
  BY <1>1 DEF OfExactKind
<1>5. \A u \in A : \E i \in B : f[i] = u
  BY <1>1 DEF OfExactKind
<1>6. Cardinality(A) = Cardinality(B)
  <2> HIDE DEF A, B, f
  <2> QED
    BY <1>2, <1>3, <1>4, <1>5, SameSize, Zenon
<1> QED
  BY <1>6 DEF CountOf

\* The last of some positions, as Earliest is the first.
LEMMA LatestIsLast ==
  ASSUME NEW m \in Nat, NEW S, \A i \in S : i \in 1 .. m, S # {}
  PROVE  Latest(S) \in S /\ \A j \in S : j =< Latest(S)
<1> DEFINE c == Cardinality(S)
<1>1. /\ c \in Nat /\ IsFiniteSet(S)
      /\ \A n \in 1 .. c : Nth(S, n) \in S
      /\ \A i \in S : \E n \in 1 .. c : Nth(S, n) = i
      /\ \A n, k \in 1 .. c : n < k => Nth(S, n) < Nth(S, k)
  BY NthEnumerates
<1>2. c # 0
  BY <1>1, FS_EmptySet
<1> HIDE DEF c
<1>3. c \in 1 .. c /\ Nth(S, c) \in S
  BY <1>1, <1>2
<1>4. \A n \in 1 .. c : n = c \/ n < c
  BY <1>1
<1>5. \A j \in S : j =< Nth(S, c)
  BY <1>1, <1>3, <1>4
<1>6. \E i \in S : \A j \in S : j =< i
  BY <1>3, <1>5
<1> QED
  BY <1>6, Zenon DEF Latest

-----------------------------------------------------------------------------
(* The kinds and the constructors of manifests. *)

LEMMA ManifestKinds ==
  /\ NamespaceGVK.kind = "Namespace" /\ ServiceAccountGVK.kind = "ServiceAccount"
  /\ CRDGVK.kind = "CustomResourceDefinition" /\ CRDV1Beta1GVK.kind = "CustomResourceDefinition"
  /\ RoleGVK.kind = "Role" /\ RoleBindingGVK.kind = "RoleBinding"
  /\ ClusterRoleGVK.kind = "ClusterRole" /\ ClusterRoleBindingGVK.kind = "ClusterRoleBinding"
  /\ DeploymentGVK.kind = "Deployment" /\ ServiceGVK.kind = "Service"
  /\ ValidatingGVK.kind = "ValidatingWebhookConfiguration"
  /\ MutatingGVK.kind = "MutatingWebhookConfiguration"
  /\ ClusterServiceVersionGVK.kind = "ClusterServiceVersion"
  /\ CRDGVK.version = "v1" /\ CRDV1Beta1GVK.version = "v1beta1"
BY DEF NamespaceGVK, ServiceAccountGVK, CRDGVK, CRDV1Beta1GVK, RoleGVK, RoleBindingGVK,
       ClusterRoleGVK, ClusterRoleBindingGVK, DeploymentGVK, ServiceGVK, ValidatingGVK,
       MutatingGVK, ClusterServiceVersionGVK, Gvk

MadeGVKs ==
  {NamespaceGVK, ServiceAccountGVK, RoleGVK, RoleBindingGVK, ClusterRoleGVK,
   ClusterRoleBindingGVK, ServiceGVK, ValidatingGVK, MutatingGVK}

LEMMA MadeGVKsAreGVKs == \A gvk \in MadeGVKs : gvk \in GVK
<1>1. {"", "v1", "Service", "Namespace", "ServiceAccount", "Role", "RoleBinding",
       "ClusterRole", "ClusterRoleBinding", "ValidatingWebhookConfiguration",
       "MutatingWebhookConfiguration", "rbac.authorization.k8s.io",
       "admissionregistration.k8s.io"} \subseteq STRING
  BY LiteralsAreStrings, ManifestLiterals, Zenon
<1>2. NamespaceGVK \in GVK /\ ServiceAccountGVK \in GVK /\ ServiceGVK \in GVK
  BY <1>1 DEF NamespaceGVK, ServiceAccountGVK, ServiceGVK, Gvk, GVK
<1>3. RoleGVK \in GVK /\ RoleBindingGVK \in GVK
  BY <1>1 DEF RoleGVK, RoleBindingGVK, Gvk, GVK
<1>4. ClusterRoleGVK \in GVK /\ ClusterRoleBindingGVK \in GVK
  BY <1>1 DEF ClusterRoleGVK, ClusterRoleBindingGVK, Gvk, GVK
<1>5. ValidatingGVK \in GVK /\ MutatingGVK \in GVK
  BY <1>1 DEF ValidatingGVK, MutatingGVK, Gvk, GVK
<1> QED
  BY <1>2, <1>3, <1>4, <1>5, Zenon DEF MadeGVKs

\* The shape a manifest of these kinds must have to convert.
LEMMA ConvertsByKind ==
  ASSUME NEW obj
  PROVE  /\ obj.gvk \in {NamespaceGVK, ServiceAccountGVK, RoleGVK, ClusterRoleGVK, CRDGVK}
              => Converts(obj)
         /\ obj.gvk \in {RoleBindingGVK, ClusterRoleBindingGVK} /\ obj.spec \in BindingSpec
              => Converts(obj)
         /\ obj.gvk = ServiceGVK /\ obj.spec \in ServiceSpec => Converts(obj)
         /\ obj.gvk = DeploymentGVK /\ obj.spec \in DeploymentSpec => Converts(obj)
         /\ obj.gvk \in {ValidatingGVK, MutatingGVK} /\ obj.spec \in WebhookSpec => Converts(obj)
<1>1. /\ IsKind(obj, DeploymentGVK) => obj.gvk.kind = "Deployment"
      /\ IsKind(obj, ServiceGVK) => obj.gvk.kind = "Service"
      /\ IsWebhookConfiguration(obj) =>
           obj.gvk.kind \in {"ValidatingWebhookConfiguration", "MutatingWebhookConfiguration"}
      /\ IsBinding(obj) => obj.gvk.kind \in {"RoleBinding", "ClusterRoleBinding"}
  BY ManifestKinds DEF IsKind, IsWebhookConfiguration, IsBinding
<1>2. /\ obj.gvk \in {NamespaceGVK, ServiceAccountGVK, RoleGVK, ClusterRoleGVK, CRDGVK} =>
           obj.gvk.kind \in {"Namespace", "ServiceAccount", "Role", "ClusterRole",
                             "CustomResourceDefinition"}
      /\ obj.gvk \in {RoleBindingGVK, ClusterRoleBindingGVK} =>
           obj.gvk.kind \in {"RoleBinding", "ClusterRoleBinding"}
      /\ obj.gvk \in {ValidatingGVK, MutatingGVK} =>
           obj.gvk.kind \in {"ValidatingWebhookConfiguration", "MutatingWebhookConfiguration"}
      /\ obj.gvk = ServiceGVK => obj.gvk.kind = "Service"
      /\ obj.gvk = DeploymentGVK => obj.gvk.kind = "Deployment"
  <2>1. \A k \in {NamespaceGVK, ServiceAccountGVK, RoleGVK, ClusterRoleGVK, CRDGVK} :
          k.kind \in {"Namespace", "ServiceAccount", "Role", "ClusterRole",
                      "CustomResourceDefinition"}
    BY ManifestKinds, Zenon
  <2>2. \A k \in {RoleBindingGVK, ClusterRoleBindingGVK} :
          k.kind \in {"RoleBinding", "ClusterRoleBinding"}
    BY ManifestKinds, Zenon
  <2>3. \A k \in {ValidatingGVK, MutatingGVK} :
          k.kind \in {"ValidatingWebhookConfiguration", "MutatingWebhookConfiguration"}
    BY ManifestKinds, Zenon
  <2> QED
    BY <2>1, <2>2, <2>3, ManifestKinds, Zenon
<1> QED
  BY <1>1, <1>2 DEF Converts

LEMMA MadeManifest ==
  ASSUME NEW gvk \in MadeGVKs, NEW name \in Name, NEW spec \in Spec_,
         Converts(NewObject(gvk, name, spec))
  PROVE  /\ NewObject(gvk, name, spec) \in Object
         /\ NewObject(gvk, name, spec).gvk = gvk
         /\ NewObject(gvk, name, spec).name = name
         /\ NewObject(gvk, name, spec).spec = spec
         /\ NewObject(gvk, name, spec).valid = TRUE
<1> DEFINE obj == NewObject(gvk, name, spec)
<1>1. obj = [gvk |-> gvk, name |-> name, valid |-> TRUE, spec |-> spec, inject |-> <<>>]
  BY DEF NewObject, NoName
<1>2. Converts(obj)
  OBVIOUS
<1> HIDE DEF obj
<1>3. gvk \in GVK /\ <<>> \in Name
  BY MadeGVKsAreGVKs DEF Name
<1>4. obj \in [gvk : GVK, name : Name, valid : BOOLEAN, spec : Spec_, inject : Name]
  BY <1>1, <1>3
<1> QED
  BY <1>1, <1>2, <1>4 DEF Object, obj

PlainGVKs == {NamespaceGVK, ServiceAccountGVK, RoleGVK, ClusterRoleGVK}

LEMMA PlainMade ==
  ASSUME NEW gvk \in PlainGVKs,
         NEW name \in Name, NEW spec \in Spec_
  PROVE  /\ NewObject(gvk, name, spec) \in Object
         /\ NewObject(gvk, name, spec).gvk = gvk
         /\ NewObject(gvk, name, spec).name = name
         /\ NewObject(gvk, name, spec).spec = spec
<1>1. NewObject(gvk, name, spec).gvk = gvk
  BY DEF NewObject
<1>2. gvk \in {NamespaceGVK, ServiceAccountGVK, RoleGVK, ClusterRoleGVK, CRDGVK}
  BY Zenon DEF PlainGVKs
<1>3. Converts(NewObject(gvk, name, spec))
  BY <1>1, <1>2, ConvertsByKind, Zenon
<1>4. gvk \in MadeGVKs
  BY Zenon DEF PlainGVKs, MadeGVKs
<1> QED
  BY <1>3, <1>4, MadeManifest, Zenon

-----------------------------------------------------------------------------
(* The parts that the phases bring. *)

\* A list of one kind, as each loop makes it.
Uniform(list, gvk) == list \in Seq(Object) /\ \A i \in DOMAIN list : list[i].gvk = gvk

LEMMA UniformCount ==
  ASSUME NEW list, NEW gvk, Uniform(list, gvk), NEW other
  PROVE  CountOf(list, other) = IF other = gvk THEN Len(list) ELSE 0
BY CountAll, CountNone DEF Uniform

LEMMA BundleFields ==
  ASSUME bundle \in Bundles
  PROVE  /\ bundle.csvName \in Name
         /\ bundle.crds \in Seq(Object) /\ bundle.betaCRDs \in Seq(Object)
         /\ \A i \in DOMAIN bundle.crds : bundle.crds[i].gvk = CRDGVK
         /\ \A i \in DOMAIN bundle.betaCRDs : bundle.betaCRDs[i].gvk = CRDV1Beta1GVK
         /\ bundle.permissions \in Seq(Permission) /\ bundle.clusterPermissions \in Seq(Permission)
         /\ Uniform(bundle.deployments, DeploymentGVK)
         /\ \A i \in DOMAIN bundle.deployments : bundle.deployments[i].valid
         /\ bundle.webhooks \in Seq(WebhookDescription)
         /\ bundle.objects \in Seq(Object)
<1> DEFINE V1 == {obj \in Object : obj.gvk = CRDGVK}
           Beta == {obj \in Object : obj.gvk = CRDV1Beta1GVK}
           Dep == {obj \in Object : obj.gvk = DeploymentGVK /\ obj.valid}
<1>1. /\ bundle.csvName \in Name
      /\ bundle.crds \in Seq(V1) /\ bundle.betaCRDs \in Seq(Beta)
      /\ bundle.permissions \in Seq(Permission) /\ bundle.clusterPermissions \in Seq(Permission)
      /\ bundle.deployments \in Seq(Dep)
      /\ bundle.webhooks \in Seq(WebhookDescription)
      /\ bundle.objects \in Seq(Object)
  BY BundlesAssumption DEF Bundle
<1>2. \A x \in V1 : x \in Object /\ x.gvk = CRDGVK
  OBVIOUS
<1>3. \A x \in Beta : x \in Object /\ x.gvk = CRDV1Beta1GVK
  OBVIOUS
<1>4. \A x \in Dep : x \in Object /\ x.gvk = DeploymentGVK /\ x.valid
  OBVIOUS
<1> HIDE DEF V1, Beta, Dep
<1>5. bundle.crds \in Seq(Object) /\ \A i \in DOMAIN bundle.crds : bundle.crds[i].gvk = CRDGVK
  BY <1>1, <1>2
<1>6. /\ bundle.betaCRDs \in Seq(Object)
      /\ \A i \in DOMAIN bundle.betaCRDs : bundle.betaCRDs[i].gvk = CRDV1Beta1GVK
  BY <1>1, <1>3
<1>7. /\ bundle.deployments \in Seq(Object)
      /\ \A i \in DOMAIN bundle.deployments :
           bundle.deployments[i].gvk = DeploymentGVK /\ bundle.deployments[i].valid
  BY <1>1, <1>4
<1> QED
  BY <1>1, <1>5, <1>6, <1>7 DEF Uniform

LEMMA NamespacePart ==
  ASSUME namespace \in Namespaces
  PROVE  Uniform(NamespaceObjects, NamespaceGVK)
<1>1. namespace \in Name
  BY NamespacesAssumption
<1>2. Opaque \in Spec_
  BY DEF Opaque, Spec_, OpaqueSpec
<1>3. /\ NewObject(NamespaceGVK, namespace, Opaque) \in Object
      /\ NewObject(NamespaceGVK, namespace, Opaque).gvk = NamespaceGVK
  <2>1. NamespaceGVK \in PlainGVKs
    BY DEF PlainGVKs
  <2> QED
    BY <1>1, <1>2, <2>1, PlainMade
<1> QED
  BY <1>3 DEF NamespaceObjects, Uniform

LEMMA WebhookTypes ==
  ASSUME NEW desc \in WebhookDescription
  PROVE  /\ WebhookServiceName(desc.deployment) \in Name
         /\ PortOrDefault(desc.port) \in Port
         /\ desc.deployment \in Name /\ desc.name \in Name
         /\ desc.port \in Port /\ desc.target \in Port
<1>1. "webhook" \in STRING /\ "service" \in STRING
  BY LiteralsAreStrings
<1>2. desc.deployment \in Name /\ desc.port \in Int /\ desc.name \in Name /\ desc.target \in Int
  BY DEF WebhookDescription, Port
<1>3. <<"webhook", "service">> \in Seq(STRING)
  BY <1>1
<1> QED
  BY <1>2, <1>3 DEF WebhookServiceName, PortOrDefault, DefaultWebhookServicePort, Name, Port

LEMMA ConversionPart ==
  ASSUME bundle \in Bundles, NEW crd \in Object, crd.gvk = CRDGVK
  PROVE  /\ WithConversion(crd) \in Object
         /\ WithConversion(crd).gvk = CRDGVK /\ WithConversion(crd).name = crd.name
         /\ Converting(crd) # {} =>
              LET w == Latest(Converting(crd))
              IN  /\ w \in Converting(crd)
                  /\ WithConversion(crd).spec = createConversionConfig(bundle.webhooks[w])
<1>1. CASE Converting(crd) = {}
  BY <1>1 DEF WithConversion
<1>2. CASE Converting(crd) # {}
  <2> DEFINE w == Latest(Converting(crd))
             spec == createConversionConfig(bundle.webhooks[w])
             new == [crd EXCEPT !.spec = spec]
  <2>1. bundle.webhooks \in Seq(WebhookDescription)
    BY BundleFields
  <2>2. \A i \in Converting(crd) : i \in 1 .. Len(bundle.webhooks)
    BY <2>1 DEF Converting
  <2>3. w \in Converting(crd) /\ w \in DOMAIN bundle.webhooks
    BY <1>2, <2>1, <2>2, LatestIsLast
  <2> HIDE DEF w
  <2>4. bundle.webhooks[w] \in WebhookDescription
    BY <2>1, <2>3
  <2>5. spec \in CRDSpec
    BY <2>4, WebhookTypes DEF createConversionConfig, CRDSpec
  <2> HIDE DEF spec
  <2>6. new.gvk = CRDGVK /\ new.name = crd.name /\ new.spec = spec
    BY DEF Object
  <2>7. new \in [gvk : GVK, name : Name, valid : BOOLEAN, spec : Spec_, inject : Name]
    BY <2>5 DEF Object, Spec_
  <2>8. new \in Object
    BY <2>6, <2>7, ConvertsByKind DEF Object
  <2>9. WithConversion(crd) = new
    BY <1>2 DEF WithConversion, w, spec
  <2> QED
    BY <2>3, <2>6, <2>8, <2>9 DEF spec, w
<1> QED
  BY <1>1, <1>2

LEMMA CRDPart ==
  ASSUME bundle \in Bundles
  PROVE  /\ CRDs \in Seq(Object)
         /\ \A i \in DOMAIN CRDs :
              \/ CRDs[i].gvk = CRDV1Beta1GVK
              \/ \E k \in DOMAIN bundle.crds : CRDs[i] = WithConversion(bundle.crds[k])
         /\ \A i \in DOMAIN CRDs : CRDs[i].gvk \in {CRDGVK, CRDV1Beta1GVK}
<1> DEFINE v1 == [i \in DOMAIN bundle.crds |-> WithConversion(bundle.crds[i])]
           beta == bundle.betaCRDs
<1>1. /\ bundle.crds \in Seq(Object) /\ beta \in Seq(Object)
      /\ \A i \in DOMAIN bundle.crds : bundle.crds[i].gvk = CRDGVK
      /\ \A i \in DOMAIN beta : beta[i].gvk = CRDV1Beta1GVK
  BY BundleFields
<1>2. \A i \in DOMAIN bundle.crds :
        WithConversion(bundle.crds[i]) \in Object /\ WithConversion(bundle.crds[i]).gvk = CRDGVK
  BY <1>1, ConversionPart
<1>3. /\ v1 \in Seq(Object) /\ DOMAIN v1 = DOMAIN bundle.crds
      /\ \A i \in DOMAIN v1 : v1[i] = WithConversion(bundle.crds[i]) /\ v1[i].gvk = CRDGVK
  BY <1>1, <1>2
<1>4. CRDs = v1 \o beta
  BY DEF CRDs
<1> HIDE DEF v1, beta
<1>5. /\ v1 \o beta \in Seq(Object)
      /\ \A i \in DOMAIN (v1 \o beta) :
           \/ i \in DOMAIN v1 /\ (v1 \o beta)[i] = v1[i]
           \/ \E k \in DOMAIN beta : (v1 \o beta)[i] = beta[k]
  <2>1. /\ v1 \o beta \in Seq(Object) /\ Len(v1 \o beta) = Len(v1) + Len(beta)
        /\ Len(v1) \in Nat /\ Len(beta) \in Nat
    BY <1>1, <1>3
  <2>2. ASSUME NEW i \in DOMAIN (v1 \o beta), i \notin DOMAIN v1
        PROVE  i - Len(v1) \in DOMAIN beta /\ (v1 \o beta)[i] = beta[i - Len(v1)]
    BY <2>1, <2>2, <1>1, <1>3
  <2>3. \A i \in DOMAIN v1 : (v1 \o beta)[i] = v1[i]
    BY <1>1, <1>3
  <2> QED
    BY <2>1, <2>2, <2>3
<1>6. ASSUME NEW i \in DOMAIN CRDs
      PROVE  /\ CRDs[i].gvk = CRDV1Beta1GVK
                  \/ \E k \in DOMAIN bundle.crds : CRDs[i] = WithConversion(bundle.crds[k])
             /\ CRDs[i].gvk \in {CRDGVK, CRDV1Beta1GVK}
  BY <1>1, <1>3, <1>4, <1>5
<1> QED
  BY <1>4, <1>5, <1>6

LEMMA RulesType ==
  ASSUME NEW rules \in Seq(Rule)
  PROVE  normalizeRBACRules(rules) \in Seq(Rule)
<1>1. ASSUME NEW rule \in Rule PROVE normalizeRBACRule(rule) \in Rule
  <2>1. {""} \subseteq STRING
    BY LiteralsAreStrings
  <2> QED
    BY <2>1 DEF normalizeRBACRule, Rule
<1> QED
  BY <1>1 DEF normalizeRBACRules

LEMMA PermissionTypes ==
  ASSUME bundle \in Bundles, NEW p \in Permission
  PROVE  p.account \in Name /\ p.rules \in Seq(Rule) /\ GeneratedName(p) \in Name
<1>1. p.account \in Name /\ p.rules \in Seq(Rule) /\ p.hash \in STRING
  BY WordsAssumption DEF Permission
<1>2. bundle.csvName \in Seq(STRING)
  BY BundleFields DEF Name
<1> QED
  BY <1>1, <1>2 DEF GeneratedName, Name

LEMMA RoleMade ==
  ASSUME bundle \in Bundles, NEW p \in Permission, NEW gvk \in {RoleGVK, ClusterRoleGVK}
  PROVE  /\ RoleFor(gvk, p) \in Object
         /\ RoleFor(gvk, p).gvk = gvk
         /\ RoleFor(gvk, p).name = GeneratedName(p)
         /\ RoleFor(gvk, p).spec = [rules |-> normalizeRBACRules(p.rules)]
<1>1. [rules |-> normalizeRBACRules(p.rules)] \in Spec_
  BY PermissionTypes, RulesType DEF Spec_, RoleSpec
<1>2. gvk \in PlainGVKs
  BY Zenon DEF PlainGVKs
<1> DEFINE spec == [rules |-> normalizeRBACRules(p.rules)]
<1>3. GeneratedName(p) \in Name /\ spec \in Spec_ /\ spec = [rules |-> normalizeRBACRules(p.rules)]
  BY <1>1, PermissionTypes
<1>4. RoleFor(gvk, p) = NewObject(gvk, GeneratedName(p), spec)
  BY DEF RoleFor
<1> HIDE DEF spec
<1>5. /\ NewObject(gvk, GeneratedName(p), spec) \in Object
      /\ NewObject(gvk, GeneratedName(p), spec).gvk = gvk
      /\ NewObject(gvk, GeneratedName(p), spec).name = GeneratedName(p)
      /\ NewObject(gvk, GeneratedName(p), spec).spec = spec
  BY <1>2, <1>3, PlainMade
<1> QED
  BY <1>3, <1>4, <1>5

LEMMA BindingMade ==
  ASSUME bundle \in Bundles, NEW p \in Permission,
         NEW gvk \in {RoleBindingGVK, ClusterRoleBindingGVK}, NEW kind \in {"Role", "ClusterRole"}
  PROVE  /\ BindingFor(gvk, kind, p) \in Object
         /\ BindingFor(gvk, kind, p).gvk = gvk
         /\ BindingFor(gvk, kind, p).name = GeneratedName(p)
         /\ BindingFor(gvk, kind, p).valid = TRUE
         /\ BindingFor(gvk, kind, p).spec =
              [roleKind |-> kind, role |-> GeneratedName(p), accounts |-> {p.account}]
<1> DEFINE spec == [roleKind |-> kind, role |-> GeneratedName(p), accounts |-> {p.account}]
<1>1. spec \in BindingSpec
  BY PermissionTypes DEF BindingSpec
<1>2. gvk \in MadeGVKs
  BY DEF MadeGVKs
<1>3. spec \in Spec_
  BY <1>1 DEF Spec_
<1>4. BindingFor(gvk, kind, p) = NewObject(gvk, GeneratedName(p), spec)
  BY DEF BindingFor
<1>5. spec = [roleKind |-> kind, role |-> GeneratedName(p), accounts |-> {p.account}]
  OBVIOUS
<1> HIDE DEF spec
<1>6. GeneratedName(p) \in Name
  BY PermissionTypes
<1>7. NewObject(gvk, GeneratedName(p), spec).gvk = gvk
      /\ NewObject(gvk, GeneratedName(p), spec).spec = spec
  BY DEF NewObject
<1>8. Converts(NewObject(gvk, GeneratedName(p), spec))
  BY <1>1, <1>7, ConvertsByKind, Zenon
<1>9. /\ NewObject(gvk, GeneratedName(p), spec) \in Object
      /\ NewObject(gvk, GeneratedName(p), spec).gvk = gvk
      /\ NewObject(gvk, GeneratedName(p), spec).name = GeneratedName(p)
      /\ NewObject(gvk, GeneratedName(p), spec).spec = spec
      /\ NewObject(gvk, GeneratedName(p), spec).valid = TRUE
  BY <1>2, <1>3, <1>6, <1>8, MadeManifest, Zenon
<1> QED
  BY <1>4, <1>5, <1>9

Roles(gvk, list) == [i \in DOMAIN list |-> RoleFor(gvk, list[i])]
Bindings(gvk, kind, list) == [i \in DOMAIN list |-> BindingFor(gvk, kind, list[i])]

LEMMA RolesMade ==
  ASSUME bundle \in Bundles, NEW list \in Seq(Permission), NEW gvk \in {RoleGVK, ClusterRoleGVK}
  PROVE  /\ Uniform(Roles(gvk, list), gvk)
         /\ Len(Roles(gvk, list)) = Len(list) /\ DOMAIN Roles(gvk, list) = DOMAIN list
<1>1. \A i \in DOMAIN list : list[i] \in Permission
  OBVIOUS
<1>2. \A q \in Permission : RoleFor(gvk, q) \in Object /\ RoleFor(gvk, q).gvk = gvk
  BY RoleMade
<1>3. \A i \in DOMAIN list : RoleFor(gvk, list[i]) \in Object /\ RoleFor(gvk, list[i]).gvk = gvk
  BY <1>1, <1>2
<1>4. Len(list) \in Nat /\ DOMAIN list = 1 .. Len(list)
  OBVIOUS
<1> QED
  BY <1>3, <1>4 DEF Roles, Uniform

LEMMA BindingsMade ==
  ASSUME bundle \in Bundles, NEW list \in Seq(Permission),
         NEW gvk \in {RoleBindingGVK, ClusterRoleBindingGVK}, NEW kind \in {"Role", "ClusterRole"}
  PROVE  /\ Uniform(Bindings(gvk, kind, list), gvk)
         /\ Len(Bindings(gvk, kind, list)) = Len(list)
         /\ DOMAIN Bindings(gvk, kind, list) = DOMAIN list
<1>1. \A i \in DOMAIN list : list[i] \in Permission
  OBVIOUS
<1>2. \A q \in Permission : BindingFor(gvk, kind, q) \in Object /\ BindingFor(gvk, kind, q).gvk = gvk
  BY BindingMade
<1>3. \A i \in DOMAIN list :
        BindingFor(gvk, kind, list[i]) \in Object /\ BindingFor(gvk, kind, list[i]).gvk = gvk
  BY <1>1, <1>2
<1>4. Len(list) \in Nat /\ DOMAIN list = 1 .. Len(list)
  OBVIOUS
<1> QED
  BY <1>3, <1>4 DEF Bindings, Uniform

\* The permissions of some accounts.
Having(list, accounts) == {i \in DOMAIN list : list[i].account \in accounts}

OwnPermissions(list, account) == Chosen(list, Having(list, {account}))

AccountFor(account) == NewObject(ServiceAccountGVK, account, Opaque)

LEMMA AccountMade ==
  ASSUME NEW account \in Name
  PROVE  /\ AccountFor(account) \in Object
         /\ AccountFor(account).gvk = ServiceAccountGVK
         /\ AccountFor(account).name = account
         /\ Uniform(<<AccountFor(account)>>, ServiceAccountGVK)
<1>1. Opaque \in Spec_
  BY DEF Opaque, Spec_, OpaqueSpec
<1>2. ServiceAccountGVK \in PlainGVKs
  BY DEF PlainGVKs
<1>3. AccountFor(account) \in Object /\ AccountFor(account).gvk = ServiceAccountGVK
      /\ AccountFor(account).name = account
  <2>1. /\ NewObject(ServiceAccountGVK, account, Opaque) \in Object
        /\ NewObject(ServiceAccountGVK, account, Opaque).gvk = ServiceAccountGVK
        /\ NewObject(ServiceAccountGVK, account, Opaque).name = account
    BY <1>1, <1>2, PlainMade
  <2> QED
    BY <2>1 DEF AccountFor
<1> HIDE DEF AccountFor
<1> QED
  BY <1>3 DEF Uniform

\* The five lists that CollectAccount appends.
LEMMA AccountPart ==
  ASSUME bundle \in Bundles, NEW account \in Name
  PROVE  LET own     == OwnPermissions(bundle.permissions, account)
             cluster == OwnPermissions(bundle.clusterPermissions, account)
         IN  /\ own \in Seq(Permission) /\ Len(own) = Cardinality(Having(bundle.permissions, {account}))
             /\ cluster \in Seq(Permission)
             /\ Len(cluster) = Cardinality(Having(bundle.clusterPermissions, {account}))
             /\ AccountObjects(account) =
                  (((<<AccountFor(account)>> \o Roles(RoleGVK, own))
                   \o Bindings(RoleBindingGVK, "Role", own)) \o Roles(ClusterRoleGVK, cluster))
                   \o Bindings(ClusterRoleBindingGVK, "ClusterRole", cluster)
<1> DEFINE own     == OwnPermissions(bundle.permissions, account)
           cluster == OwnPermissions(bundle.clusterPermissions, account)
<1>1. bundle.permissions \in Seq(Permission) /\ bundle.clusterPermissions \in Seq(Permission)
  BY BundleFields
<1>2. /\ own \in Seq(Permission) /\ Len(own) = Cardinality(Having(bundle.permissions, {account}))
      /\ cluster \in Seq(Permission)
      /\ Len(cluster) = Cardinality(Having(bundle.clusterPermissions, {account}))
  <2>1. ASSUME NEW list \in Seq(Permission)
        PROVE  /\ OwnPermissions(list, account) \in Seq(Permission)
               /\ Len(OwnPermissions(list, account)) = Cardinality(Having(list, {account}))
    <3>1. \A i \in Having(list, {account}) : i \in DOMAIN list
      BY DEF Having
    <3> QED
      BY <3>1, ChosenElements DEF OwnPermissions
  <2> QED
    BY <1>1, <2>1, Zenon
<1>3. /\ \A list : Having(list, {account}) = {i \in DOMAIN list : list[i].account = account}
  BY DEF Having
<1>4. AccountObjects(account) =
        (((<<AccountFor(account)>> \o Roles(RoleGVK, own))
         \o Bindings(RoleBindingGVK, "Role", own)) \o Roles(ClusterRoleGVK, cluster))
         \o Bindings(ClusterRoleBindingGVK, "ClusterRole", cluster)
  BY <1>3, Zenon DEF AccountObjects, AccountFor, Roles, Bindings, Each, OwnPermissions
<1> HIDE DEF own, cluster
<1> QED
  BY <1>2, <1>4 DEF own, cluster

GeneratedGVKs ==
  {ServiceAccountGVK, RoleGVK, RoleBindingGVK, ClusterRoleGVK, ClusterRoleBindingGVK}

\* How many manifests of a kind the permissions of these accounts bring.
RBACCount(gvk, accounts) ==
  CASE gvk = ServiceAccountGVK -> Cardinality(accounts)
    [] gvk \in {RoleGVK, RoleBindingGVK} -> Cardinality(Having(bundle.permissions, accounts))
    [] gvk \in {ClusterRoleGVK, ClusterRoleBindingGVK} ->
         Cardinality(Having(bundle.clusterPermissions, accounts))
    [] OTHER -> 0

LEMMA RBACCountByKind ==
  ASSUME NEW accounts
  PROVE  /\ RBACCount(ServiceAccountGVK, accounts) = Cardinality(accounts)
         /\ RBACCount(RoleGVK, accounts) = Cardinality(Having(bundle.permissions, accounts))
         /\ RBACCount(RoleBindingGVK, accounts) = Cardinality(Having(bundle.permissions, accounts))
         /\ RBACCount(ClusterRoleGVK, accounts) =
              Cardinality(Having(bundle.clusterPermissions, accounts))
         /\ RBACCount(ClusterRoleBindingGVK, accounts) =
              Cardinality(Having(bundle.clusterPermissions, accounts))
         /\ \A gvk : gvk \notin GeneratedGVKs => RBACCount(gvk, accounts) = 0
<1>1. ServiceAccountGVK \notin {RoleGVK, RoleBindingGVK, ClusterRoleGVK, ClusterRoleBindingGVK}
  BY ManifestKinds
<1>2. /\ RoleGVK \notin {ServiceAccountGVK, ClusterRoleGVK, ClusterRoleBindingGVK}
      /\ RoleBindingGVK \notin {ServiceAccountGVK, ClusterRoleGVK, ClusterRoleBindingGVK}
  BY ManifestKinds
<1>3. /\ ClusterRoleGVK \notin {ServiceAccountGVK, RoleGVK, RoleBindingGVK}
      /\ ClusterRoleBindingGVK \notin {ServiceAccountGVK, RoleGVK, RoleBindingGVK}
  BY ManifestKinds
<1>4. ASSUME NEW gvk, gvk \notin GeneratedGVKs PROVE RBACCount(gvk, accounts) = 0
  BY <1>4 DEF RBACCount, GeneratedGVKs
<1> QED
  BY <1>1, <1>2, <1>3, <1>4 DEF RBACCount

\* What CollectAccount makes of the permissions of these accounts.
Brought(x, accounts) ==
  \/ \E a \in accounts : x = AccountFor(a)
  \/ \E p \in Having(bundle.permissions, accounts) :
       \/ x = RoleFor(RoleGVK, bundle.permissions[p])
       \/ x = BindingFor(RoleBindingGVK, "Role", bundle.permissions[p])
  \/ \E p \in Having(bundle.clusterPermissions, accounts) :
       \/ x = RoleFor(ClusterRoleGVK, bundle.clusterPermissions[p])
       \/ x = BindingFor(ClusterRoleBindingGVK, "ClusterRole", bundle.clusterPermissions[p])

LEMMA GeneratedKindsDiffer ==
  ASSUME NEW a \in GeneratedGVKs, NEW b \in GeneratedGVKs, a.kind = b.kind
  PROVE  a = b
BY ManifestKinds DEF GeneratedGVKs

\* What CollectAccount brings.
LEMMA AccountBrings ==
  ASSUME bundle \in Bundles, NEW account \in Name
  PROVE  /\ AccountObjects(account) \in Seq(Object)
         /\ \A gvk : CountOf(AccountObjects(account), gvk) = RBACCount(gvk, {account})
         /\ \A x \in Elements(AccountObjects(account)) : x.gvk \in GeneratedGVKs
         /\ \A x \in Elements(AccountObjects(account)) : Brought(x, {account})
         /\ AccountFor(account) \in Elements(AccountObjects(account))
         /\ \A p \in Having(bundle.permissions, {account}) :
              /\ RoleFor(RoleGVK, bundle.permissions[p]) \in Elements(AccountObjects(account))
              /\ BindingFor(RoleBindingGVK, "Role", bundle.permissions[p])
                   \in Elements(AccountObjects(account))
         /\ \A p \in Having(bundle.clusterPermissions, {account}) :
              /\ RoleFor(ClusterRoleGVK, bundle.clusterPermissions[p])
                   \in Elements(AccountObjects(account))
              /\ BindingFor(ClusterRoleBindingGVK, "ClusterRole", bundle.clusterPermissions[p])
                   \in Elements(AccountObjects(account))
<1> DEFINE own     == OwnPermissions(bundle.permissions, account)
           cluster == OwnPermissions(bundle.clusterPermissions, account)
           l1 == <<AccountFor(account)>>
           l2 == Roles(RoleGVK, own)
           l3 == Bindings(RoleBindingGVK, "Role", own)
           l4 == Roles(ClusterRoleGVK, cluster)
           l5 == Bindings(ClusterRoleBindingGVK, "ClusterRole", cluster)
           all == (((l1 \o l2) \o l3) \o l4) \o l5
<1>1. /\ own \in Seq(Permission) /\ Len(own) = Cardinality(Having(bundle.permissions, {account}))
      /\ cluster \in Seq(Permission)
      /\ Len(cluster) = Cardinality(Having(bundle.clusterPermissions, {account}))
      /\ AccountObjects(account) = all
  BY AccountPart
<1>2. /\ \A i \in DOMAIN own : RoleFor(RoleGVK, own[i]) \in Elements(l2)
      /\ \A i \in DOMAIN own : BindingFor(RoleBindingGVK, "Role", own[i]) \in Elements(l3)
      /\ \A i \in DOMAIN cluster : RoleFor(ClusterRoleGVK, cluster[i]) \in Elements(l4)
      /\ \A i \in DOMAIN cluster :
           BindingFor(ClusterRoleBindingGVK, "ClusterRole", cluster[i]) \in Elements(l5)
  <2> HIDE DEF own, cluster
  <2> QED
    BY DEF Roles, Bindings, Elements
<1>3. AccountFor(account) \in Elements(l1) /\ Uniform(l1, ServiceAccountGVK) /\ Len(l1) = 1
  BY AccountMade DEF Elements
<1>4. Uniform(l2, RoleGVK) /\ Len(l2) = Len(own)
  <2> HIDE DEF own
  <2>1. RoleGVK \in {RoleGVK, ClusterRoleGVK}
    OBVIOUS
  <2> QED
    BY <1>1, <2>1, RolesMade
<1>5. Uniform(l4, ClusterRoleGVK) /\ Len(l4) = Len(cluster)
  <2> HIDE DEF cluster
  <2>1. ClusterRoleGVK \in {RoleGVK, ClusterRoleGVK}
    OBVIOUS
  <2> QED
    BY <1>1, <2>1, RolesMade
<1>6. Uniform(l3, RoleBindingGVK) /\ Len(l3) = Len(own)
  <2> HIDE DEF own
  <2>1. RoleBindingGVK \in {RoleBindingGVK, ClusterRoleBindingGVK} /\ "Role" \in {"Role", "ClusterRole"}
    OBVIOUS
  <2> QED
    BY <1>1, <2>1, BindingsMade
<1>7. Uniform(l5, ClusterRoleBindingGVK) /\ Len(l5) = Len(cluster)
  <2> HIDE DEF cluster
  <2>1. /\ ClusterRoleBindingGVK \in {RoleBindingGVK, ClusterRoleBindingGVK}
        /\ "ClusterRole" \in {"Role", "ClusterRole"}
    OBVIOUS
  <2> QED
    BY <1>1, <2>1, BindingsMade
<1>8. /\ \A p \in Having(bundle.permissions, {account}) :
           \E n \in DOMAIN own : own[n] = bundle.permissions[p]
      /\ \A p \in Having(bundle.clusterPermissions, {account}) :
           \E n \in DOMAIN cluster : cluster[n] = bundle.clusterPermissions[p]
  <2>1. ASSUME NEW list \in Seq(Permission)
        PROVE  \A p \in Having(list, {account}) :
                 \E n \in DOMAIN OwnPermissions(list, account) :
                   OwnPermissions(list, account)[n] = list[p]
    <3> DEFINE S == Having(list, {account})
    <3>1. \A i \in S : i \in DOMAIN list
      BY DEF Having
    <3>2. OwnPermissions(list, account) = Chosen(list, S)
      BY DEF OwnPermissions
    <3> HIDE DEF S
    <3>3. \A i \in S : \E n \in DOMAIN Chosen(list, S) : Chosen(list, S)[n] = list[i]
      BY <3>1, ChosenElements
    <3> QED
      BY <3>2, <3>3, Zenon DEF S
  <2>2. bundle.permissions \in Seq(Permission) /\ bundle.clusterPermissions \in Seq(Permission)
    BY BundleFields
  <2> QED
    BY <2>1, <2>2, Zenon
<1>19. /\ \A n \in DOMAIN own :
            \E p \in Having(bundle.permissions, {account}) : own[n] = bundle.permissions[p]
       /\ \A n \in DOMAIN cluster :
            \E p \in Having(bundle.clusterPermissions, {account}) :
              cluster[n] = bundle.clusterPermissions[p]
  <2>1. ASSUME NEW list \in Seq(Permission)
        PROVE  \A n \in DOMAIN OwnPermissions(list, account) :
                 \E p \in Having(list, {account}) : OwnPermissions(list, account)[n] = list[p]
    <3> DEFINE S == Having(list, {account})
    <3>1. \A i \in S : i \in DOMAIN list
      BY DEF Having
    <3>2. OwnPermissions(list, account) = Chosen(list, S)
      BY DEF OwnPermissions
    <3> HIDE DEF S
    <3>3. \A n \in DOMAIN Chosen(list, S) : \E i \in S : Chosen(list, S)[n] = list[i]
      BY <3>1, ChosenElements
    <3> QED
      BY <3>2, <3>3, Zenon DEF S
  <2>2. bundle.permissions \in Seq(Permission) /\ bundle.clusterPermissions \in Seq(Permission)
    BY BundleFields
  <2> QED
    BY <2>1, <2>2, Zenon
<1>20. /\ \A x \in Elements(l1) : x = AccountFor(account)
       /\ \A x \in Elements(l2) : \E n \in DOMAIN own : x = RoleFor(RoleGVK, own[n])
       /\ \A x \in Elements(l3) :
            \E n \in DOMAIN own : x = BindingFor(RoleBindingGVK, "Role", own[n])
       /\ \A x \in Elements(l4) :
            \E n \in DOMAIN cluster : x = RoleFor(ClusterRoleGVK, cluster[n])
       /\ \A x \in Elements(l5) :
            \E n \in DOMAIN cluster :
              x = BindingFor(ClusterRoleBindingGVK, "ClusterRole", cluster[n])
  <2> HIDE DEF own, cluster
  <2> QED
    BY DEF Roles, Bindings, Elements
<1> HIDE DEF own, cluster, l1, l2, l3, l4, l5
<1>9. /\ l1 \in Seq(Object) /\ l2 \in Seq(Object) /\ l3 \in Seq(Object) /\ l4 \in Seq(Object)
      /\ l5 \in Seq(Object)
  BY <1>3, <1>4, <1>5, <1>6, <1>7 DEF Uniform
<1>10. /\ l1 \o l2 \in Seq(Object) /\ (l1 \o l2) \o l3 \in Seq(Object)
       /\ ((l1 \o l2) \o l3) \o l4 \in Seq(Object) /\ all \in Seq(Object)
  BY <1>9
<1>11. Elements(all) = Elements(l1) \cup Elements(l2) \cup Elements(l3) \cup Elements(l4)
                       \cup Elements(l5)
  <2>1. Elements(l1 \o l2) = Elements(l1) \cup Elements(l2)
    BY <1>9, ConcatElements
  <2>2. Elements((l1 \o l2) \o l3) = Elements(l1 \o l2) \cup Elements(l3)
    BY <1>9, <1>10, ConcatElements
  <2>3. Elements(((l1 \o l2) \o l3) \o l4) = Elements((l1 \o l2) \o l3) \cup Elements(l4)
    BY <1>9, <1>10, ConcatElements
  <2>4. Elements(all) = Elements(((l1 \o l2) \o l3) \o l4) \cup Elements(l5)
    BY <1>9, <1>10, ConcatElements
  <2> HIDE DEF all
  <2> QED
    BY <2>1, <2>2, <2>3, <2>4, Zenon
<1>12. ASSUME NEW gvk
       PROVE  CountOf(all, gvk) = CountOf(l1, gvk) + CountOf(l2, gvk) + CountOf(l3, gvk)
                                  + CountOf(l4, gvk) + CountOf(l5, gvk)
  <2>1. CountOf(l1 \o l2, gvk) = CountOf(l1, gvk) + CountOf(l2, gvk)
    BY <1>9, CountConcat
  <2>2. CountOf((l1 \o l2) \o l3, gvk) = CountOf(l1 \o l2, gvk) + CountOf(l3, gvk)
    BY <1>9, <1>10, CountConcat
  <2>3. CountOf(((l1 \o l2) \o l3) \o l4, gvk) = CountOf((l1 \o l2) \o l3, gvk) + CountOf(l4, gvk)
    BY <1>9, <1>10, CountConcat
  <2>4. CountOf(all, gvk) = CountOf(((l1 \o l2) \o l3) \o l4, gvk) + CountOf(l5, gvk)
    BY <1>9, <1>10, CountConcat
  <2> HIDE DEF all
  <2> QED
    BY <2>1, <2>2, <2>3, <2>4
<1>13. ASSUME NEW gvk
       PROVE  /\ CountOf(l1, gvk) = IF gvk = ServiceAccountGVK THEN 1 ELSE 0
              /\ CountOf(l2, gvk) = IF gvk = RoleGVK THEN Len(own) ELSE 0
              /\ CountOf(l3, gvk) = IF gvk = RoleBindingGVK THEN Len(own) ELSE 0
              /\ CountOf(l4, gvk) = IF gvk = ClusterRoleGVK THEN Len(cluster) ELSE 0
              /\ CountOf(l5, gvk) = IF gvk = ClusterRoleBindingGVK THEN Len(cluster) ELSE 0
  BY <1>3, <1>4, <1>5, <1>6, <1>7, UniformCount
<1>14. ASSUME NEW gvk
       PROVE  CountOf(all, gvk) = RBACCount(gvk, {account})
  <2>1. Len(own) \in Nat /\ Len(cluster) \in Nat
    BY <1>1
  <2>2. Cardinality({account}) = 1
    BY FS_Singleton
  <2> HIDE DEF all
  <2>9. /\ ServiceAccountGVK # RoleGVK /\ ServiceAccountGVK # RoleBindingGVK
        /\ ServiceAccountGVK # ClusterRoleGVK /\ ServiceAccountGVK # ClusterRoleBindingGVK
        /\ RoleGVK # RoleBindingGVK /\ RoleGVK # ClusterRoleGVK /\ RoleGVK # ClusterRoleBindingGVK
        /\ RoleBindingGVK # ClusterRoleGVK /\ RoleBindingGVK # ClusterRoleBindingGVK
        /\ ClusterRoleGVK # ClusterRoleBindingGVK
    BY ManifestKinds
  <2>3. CASE gvk = ServiceAccountGVK
    BY <1>12, <1>13, <2>1, <2>2, <2>3, RBACCountByKind, ManifestKinds
  <2>4. CASE gvk = RoleGVK
    <3>1. RBACCount(gvk, {account}) = Len(own)
      BY <1>1, <2>4, RBACCountByKind
    <3>2. /\ CountOf(l1, gvk) = 0
          /\ CountOf(l2, gvk) = Len(own)
          /\ CountOf(l3, gvk) = 0
          /\ CountOf(l4, gvk) = 0
          /\ CountOf(l5, gvk) = 0
      BY <1>13, <2>4, <2>9
    <3>3. CountOf(all, gvk) = CountOf(l1, gvk) + CountOf(l2, gvk) + CountOf(l3, gvk)
                              + CountOf(l4, gvk) + CountOf(l5, gvk)
      BY <1>12
    <3> QED
      BY <2>1, <3>1, <3>2, <3>3
  <2>5. CASE gvk = RoleBindingGVK
    <3>1. RBACCount(gvk, {account}) = Len(own)
      BY <1>1, <2>5, RBACCountByKind
    <3>2. /\ CountOf(l1, gvk) = 0
          /\ CountOf(l2, gvk) = 0
          /\ CountOf(l3, gvk) = Len(own)
          /\ CountOf(l4, gvk) = 0
          /\ CountOf(l5, gvk) = 0
      BY <1>13, <2>5, <2>9
    <3>3. CountOf(all, gvk) = CountOf(l1, gvk) + CountOf(l2, gvk) + CountOf(l3, gvk)
                              + CountOf(l4, gvk) + CountOf(l5, gvk)
      BY <1>12
    <3> QED
      BY <2>1, <3>1, <3>2, <3>3
  <2>6. CASE gvk = ClusterRoleGVK
    <3>1. RBACCount(gvk, {account}) = Len(cluster)
      BY <1>1, <2>6, RBACCountByKind
    <3>2. /\ CountOf(l1, gvk) = 0
          /\ CountOf(l2, gvk) = 0
          /\ CountOf(l3, gvk) = 0
          /\ CountOf(l4, gvk) = Len(cluster)
          /\ CountOf(l5, gvk) = 0
      BY <1>13, <2>6, <2>9
    <3>3. CountOf(all, gvk) = CountOf(l1, gvk) + CountOf(l2, gvk) + CountOf(l3, gvk)
                              + CountOf(l4, gvk) + CountOf(l5, gvk)
      BY <1>12
    <3> QED
      BY <2>1, <3>1, <3>2, <3>3
  <2>7. CASE gvk = ClusterRoleBindingGVK
    <3>1. RBACCount(gvk, {account}) = Len(cluster)
      BY <1>1, <2>7, RBACCountByKind
    <3>2. /\ CountOf(l1, gvk) = 0
          /\ CountOf(l2, gvk) = 0
          /\ CountOf(l3, gvk) = 0
          /\ CountOf(l4, gvk) = 0
          /\ CountOf(l5, gvk) = Len(cluster)
      BY <1>13, <2>7, <2>9
    <3>3. CountOf(all, gvk) = CountOf(l1, gvk) + CountOf(l2, gvk) + CountOf(l3, gvk)
                              + CountOf(l4, gvk) + CountOf(l5, gvk)
      BY <1>12
    <3> QED
      BY <2>1, <3>1, <3>2, <3>3
  <2>8. CASE gvk \notin GeneratedGVKs
    <3>1. /\ gvk # ServiceAccountGVK /\ gvk # RoleGVK /\ gvk # RoleBindingGVK
          /\ gvk # ClusterRoleGVK /\ gvk # ClusterRoleBindingGVK
      BY <2>8 DEF GeneratedGVKs
    <3>2. RBACCount(gvk, {account}) = 0
      BY <2>8, RBACCountByKind
    <3> QED
      BY <1>12, <1>13, <3>1, <3>2
  <2> QED
    BY <2>3, <2>4, <2>5, <2>6, <2>7, <2>8 DEF GeneratedGVKs
<1>15. ASSUME NEW x \in Elements(all) PROVE x.gvk \in GeneratedGVKs
  <2>1. /\ \A y \in Elements(l1) : y.gvk = ServiceAccountGVK
        /\ \A y \in Elements(l2) : y.gvk = RoleGVK
        /\ \A y \in Elements(l3) : y.gvk = RoleBindingGVK
        /\ \A y \in Elements(l4) : y.gvk = ClusterRoleGVK
        /\ \A y \in Elements(l5) : y.gvk = ClusterRoleBindingGVK
    BY <1>3, <1>4, <1>5, <1>6, <1>7 DEF Uniform, Elements
  <2> HIDE DEF all
  <2> QED
    BY <1>11, <2>1 DEF GeneratedGVKs
<1> HIDE DEF all
<1>21. ASSUME NEW x \in Elements(all) PROVE Brought(x, {account})
  <2>1. CASE x \in Elements(l1)
    BY <1>20, <2>1 DEF Brought
  <2>2. CASE x \in Elements(l2)
    <3>1. PICK n \in DOMAIN own : x = RoleFor(RoleGVK, own[n])
      BY <1>20, <2>2
    <3> QED
      BY <1>19, <3>1, Zenon DEF Brought
  <2>3. CASE x \in Elements(l3)
    <3>1. PICK n \in DOMAIN own : x = BindingFor(RoleBindingGVK, "Role", own[n])
      BY <1>20, <2>3
    <3> QED
      BY <1>19, <3>1, Zenon DEF Brought
  <2>4. CASE x \in Elements(l4)
    <3>1. PICK n \in DOMAIN cluster : x = RoleFor(ClusterRoleGVK, cluster[n])
      BY <1>20, <2>4
    <3> QED
      BY <1>19, <3>1, Zenon DEF Brought
  <2>5. CASE x \in Elements(l5)
    <3>1. PICK n \in DOMAIN cluster :
            x = BindingFor(ClusterRoleBindingGVK, "ClusterRole", cluster[n])
      BY <1>20, <2>5
    <3> QED
      BY <1>19, <3>1, Zenon DEF Brought
  <2> QED
    BY <1>11, <2>1, <2>2, <2>3, <2>4, <2>5
<1>16. \A p \in Having(bundle.permissions, {account}) :
         /\ RoleFor(RoleGVK, bundle.permissions[p]) \in Elements(all)
         /\ BindingFor(RoleBindingGVK, "Role", bundle.permissions[p]) \in Elements(all)
  BY <1>2, <1>8, <1>11
<1>17. \A p \in Having(bundle.clusterPermissions, {account}) :
         /\ RoleFor(ClusterRoleGVK, bundle.clusterPermissions[p]) \in Elements(all)
         /\ BindingFor(ClusterRoleBindingGVK, "ClusterRole", bundle.clusterPermissions[p])
              \in Elements(all)
  BY <1>2, <1>8, <1>11
<1>18. all \in Seq(Object) /\ AccountFor(account) \in Elements(all)
  BY <1>3, <1>10, <1>11 DEF all
<1> QED
  BY <1>1, <1>14, <1>15, <1>16, <1>17, <1>18, <1>21

-----------------------------------------------------------------------------
(* The list while it is gathered: what the accounts taken so far bring, and the *)
(* rest, which comes phase by phase.                                            *)

LEMMA AccountsType ==
  ASSUME bundle \in Bundles
  PROVE  /\ IsFiniteSet(Accounts)
         /\ \A a \in Accounts : a \in Name
         /\ \A i \in DOMAIN bundle.permissions : bundle.permissions[i].account \in Accounts
         /\ \A i \in DOMAIN bundle.clusterPermissions :
              bundle.clusterPermissions[i].account \in Accounts
<1> DEFINE Of(list) == {list[i].account : i \in DOMAIN list}
           own == bundle.permissions
           cluster == bundle.clusterPermissions
<1>1. own \in Seq(Permission) /\ cluster \in Seq(Permission)
  BY BundleFields
<1>2. Accounts = Of(own) \cup Of(cluster)
  <2>1. Accounts = UNION {Of(own), Of(cluster)}
    BY Zenon DEF Accounts, PermissionLists
  <2> HIDE DEF Of, own, cluster
  <2> QED
    BY <2>1
<1>3. ASSUME NEW list \in Seq(Permission)
      PROVE  /\ IsFiniteSet(Of(list)) /\ \A a \in Of(list) : a \in Name
             /\ \A i \in DOMAIN list : list[i].account \in Of(list)
  <2>1. DOMAIN list = 1 .. Len(list) /\ Len(list) \in Nat
    OBVIOUS
  <2>2. IsFiniteSet(DOMAIN list)
    BY <2>1, FS_Interval
  <2> DEFINE f == [i \in DOMAIN list |-> list[i].account]
  <2>3. f \in Surjection(DOMAIN list, Of(list))
    BY DEF Surjection
  <2> HIDE DEF f
  <2>4. IsFiniteSet(Of(list))
    BY <2>2, <2>3, FS_Surjection
  <2>5. \A i \in DOMAIN list : list[i].account \in Name
    <3>1. \A i \in DOMAIN list : list[i] \in Permission
      OBVIOUS
    <3> QED
      BY <3>1 DEF Permission
  <2> QED
    BY <2>4, <2>5
<1>4. /\ IsFiniteSet(Of(own)) /\ \A a \in Of(own) : a \in Name
      /\ \A i \in DOMAIN own : own[i].account \in Of(own)
  BY <1>1, <1>3
<1>5. /\ IsFiniteSet(Of(cluster)) /\ \A a \in Of(cluster) : a \in Name
      /\ \A i \in DOMAIN cluster : cluster[i].account \in Of(cluster)
  BY <1>1, <1>3
<1> HIDE DEF Of
<1>6. IsFiniteSet(Accounts)
  BY <1>2, <1>4, <1>5, FS_Union
<1> QED
  BY <1>2, <1>4, <1>5, <1>6

LEMMA HavingAdds ==
  ASSUME NEW list \in Seq(Permission), NEW accounts, NEW account, account \notin accounts
  PROVE  Cardinality(Having(list, accounts \cup {account})) =
           Cardinality(Having(list, accounts)) + Cardinality(Having(list, {account}))
<1> DEFINE A == Having(list, accounts)
           B == Having(list, {account})
<1>1. Len(list) \in Nat /\ \A i \in A : i \in 1 .. Len(list)
  BY DEF Having
<1>2. \A i \in B : i \in 1 .. Len(list)
  BY DEF Having
<1>3. A \cap B = {} /\ Having(list, accounts \cup {account}) = A \cup B
  BY DEF Having
<1> HIDE DEF A, B
<1>4. IsFiniteSet(A) /\ IsFiniteSet(B) /\ Cardinality(A) \in Nat /\ Cardinality(B) \in Nat
  BY <1>1, <1>2, NthEnumerates
<1>5. Cardinality(A \cup B) = Cardinality(A) + Cardinality(B) - Cardinality({})
  BY <1>3, <1>4, FS_Union
<1>6. Cardinality(A \cup B) = Cardinality(A) + Cardinality(B)
  BY <1>4, <1>5, FS_EmptySet
<1> QED
  BY <1>3, <1>6 DEF A, B

LEMMA RBACCountType ==
  ASSUME bundle \in Bundles, NEW accounts, IsFiniteSet(accounts), NEW gvk
  PROVE  RBACCount(gvk, accounts) \in Nat
<1>1. ASSUME NEW list \in Seq(Permission) PROVE Cardinality(Having(list, accounts)) \in Nat
  <2>1. Len(list) \in Nat /\ \A i \in Having(list, accounts) : i \in 1 .. Len(list)
    BY DEF Having
  <2> QED
    BY <2>1, NthEnumerates
<1>2. Cardinality(accounts) \in Nat
  BY FS_CardinalityType
<1>3. bundle.permissions \in Seq(Permission) /\ bundle.clusterPermissions \in Seq(Permission)
  BY BundleFields
<1> QED
  BY <1>1, <1>2, <1>3 DEF RBACCount

LEMMA RBACCountAdds ==
  ASSUME bundle \in Bundles, NEW accounts, IsFiniteSet(accounts), NEW account,
         account \notin accounts, NEW gvk
  PROVE  RBACCount(gvk, accounts \cup {account}) =
           RBACCount(gvk, accounts) + RBACCount(gvk, {account})
<1>1. bundle.permissions \in Seq(Permission) /\ bundle.clusterPermissions \in Seq(Permission)
  BY BundleFields
<1>2. Cardinality(accounts \cup {account}) = Cardinality(accounts) + Cardinality({account})
  <2>1. Cardinality({account}) = 1 /\ Cardinality(accounts) \in Nat
    BY FS_Singleton, FS_CardinalityType
  <2> QED
    BY <2>1, FS_AddElement
<1>3. CASE gvk = ServiceAccountGVK
  BY <1>2, <1>3, RBACCountByKind
<1>4. CASE gvk = RoleGVK \/ gvk = RoleBindingGVK
  BY <1>1, <1>4, HavingAdds, RBACCountByKind
<1>5. CASE gvk = ClusterRoleGVK \/ gvk = ClusterRoleBindingGVK
  BY <1>1, <1>5, HavingAdds, RBACCountByKind
<1>6. CASE gvk \notin GeneratedGVKs
  <2>1. /\ RBACCount(gvk, accounts \cup {account}) = 0 /\ RBACCount(gvk, accounts) = 0
        /\ RBACCount(gvk, {account}) = 0
    BY <1>6, RBACCountByKind, Zenon
  <2> QED
    BY <2>1
<1> QED
  BY <1>3, <1>4, <1>5, <1>6 DEF GeneratedGVKs

\* What these accounts were given is in the list.
GivenTo(accounts, objs) ==
  /\ \A a \in accounts : AccountFor(a) \in Elements(objs)
  /\ \A p \in Having(bundle.permissions, accounts) :
       /\ RoleFor(RoleGVK, bundle.permissions[p]) \in Elements(objs)
       /\ BindingFor(RoleBindingGVK, "Role", bundle.permissions[p]) \in Elements(objs)
  /\ \A p \in Having(bundle.clusterPermissions, accounts) :
       /\ RoleFor(ClusterRoleGVK, bundle.clusterPermissions[p]) \in Elements(objs)
       /\ BindingFor(ClusterRoleBindingGVK, "ClusterRole", bundle.clusterPermissions[p])
            \in Elements(objs)

Gathered(objs, accounts, rest) ==
  /\ objs \in Seq(Object) /\ rest \in Seq(Object)
  /\ IsFiniteSet(accounts)
  /\ \A gvk : CountOf(objs, gvk) = RBACCount(gvk, accounts) + CountOf(rest, gvk)
  /\ \A x \in Elements(rest) : x \in Elements(objs)
  /\ \A x \in Elements(objs) :
       x \in Elements(rest) \/ (x.gvk \in GeneratedGVKs /\ Brought(x, accounts))
  /\ GivenTo(accounts, objs)

LEMMA GatheredNone ==
  ASSUME bundle \in Bundles
  PROVE  Gathered(<<>>, {}, <<>>)
<1>1. CountOf(<<>>, DeploymentGVK) = 0 /\ \A gvk : CountOf(<<>>, gvk) = 0
  BY CountNone
<1>2. \A list : Having(list, {}) = {}
  BY DEF Having
<1>3. Cardinality({}) = 0 /\ IsFiniteSet({})
  BY FS_EmptySet
<1>4. \A gvk : RBACCount(gvk, {}) = 0
  BY <1>2, <1>3 DEF RBACCount
<1>5. Elements(<<>>) = {}
  BY DEF Elements
<1>6. <<>> \in Seq(Object)
  OBVIOUS
<1> QED
  BY <1>1, <1>2, <1>3, <1>4, <1>5, <1>6 DEF Gathered, GivenTo

LEMMA GatheredRest ==
  ASSUME NEW objs, NEW accounts, NEW rest, Gathered(objs, accounts, rest),
         NEW list \in Seq(Object), bundle \in Bundles
  PROVE  Gathered(objs \o list, accounts, rest \o list)
<1>1. /\ objs \in Seq(Object) /\ rest \in Seq(Object)
      /\ IsFiniteSet(accounts)
      /\ \A gvk : CountOf(objs, gvk) = RBACCount(gvk, accounts) + CountOf(rest, gvk)
      /\ \A x \in Elements(rest) : x \in Elements(objs)
      /\ \A x \in Elements(objs) :
           x \in Elements(rest) \/ (x.gvk \in GeneratedGVKs /\ Brought(x, accounts))
      /\ GivenTo(accounts, objs)
  BY DEF Gathered
<1>2. /\ Elements(objs \o list) = Elements(objs) \cup Elements(list)
      /\ objs \o list \in Seq(Object)
  BY <1>1, ConcatElements
<1>3. /\ Elements(rest \o list) = Elements(rest) \cup Elements(list)
      /\ rest \o list \in Seq(Object)
  BY <1>1, ConcatElements
<1>4. ASSUME NEW gvk
      PROVE  CountOf(objs \o list, gvk) = RBACCount(gvk, accounts) + CountOf(rest \o list, gvk)
  <2>1. CountOf(objs \o list, gvk) = CountOf(objs, gvk) + CountOf(list, gvk)
    BY <1>1, CountConcat
  <2>2. CountOf(rest \o list, gvk) = CountOf(rest, gvk) + CountOf(list, gvk)
    BY <1>1, CountConcat
  <2>3. CountOf(list, gvk) \in Nat /\ CountOf(rest, gvk) \in Nat
    BY <1>1, CountType
  <2>4. RBACCount(gvk, accounts) \in Nat
    BY <1>1, RBACCountType
  <2>5. CountOf(objs, gvk) = RBACCount(gvk, accounts) + CountOf(rest, gvk)
    BY <1>1
  <2> QED
    BY <2>1, <2>2, <2>3, <2>4, <2>5
<1>5. GivenTo(accounts, objs \o list)
  BY <1>1, <1>2 DEF GivenTo
<1> QED
  BY <1>1, <1>2, <1>3, <1>4, <1>5 DEF Gathered

LEMMA GatheredAccount ==
  ASSUME NEW objs, NEW accounts, NEW rest, Gathered(objs, accounts, rest),
         NEW account \in Name, account \notin accounts, bundle \in Bundles
  PROVE  Gathered(objs \o AccountObjects(account), accounts \cup {account}, rest)
<1> DEFINE list == AccountObjects(account)
<1>1. /\ objs \in Seq(Object) /\ rest \in Seq(Object)
      /\ IsFiniteSet(accounts)
      /\ \A gvk : CountOf(objs, gvk) = RBACCount(gvk, accounts) + CountOf(rest, gvk)
      /\ \A x \in Elements(rest) : x \in Elements(objs)
      /\ \A x \in Elements(objs) :
           x \in Elements(rest) \/ (x.gvk \in GeneratedGVKs /\ Brought(x, accounts))
      /\ GivenTo(accounts, objs)
  BY DEF Gathered
<1>2. /\ list \in Seq(Object)
      /\ \A gvk : CountOf(list, gvk) = RBACCount(gvk, {account})
      /\ \A x \in Elements(list) : x.gvk \in GeneratedGVKs /\ Brought(x, {account})
  BY AccountBrings
<1>3. GivenTo({account}, list)
  BY AccountBrings DEF GivenTo
<1> HIDE DEF list
<1>4. /\ Elements(objs \o list) = Elements(objs) \cup Elements(list)
      /\ objs \o list \in Seq(Object)
  BY <1>1, <1>2, ConcatElements
<1>5. ASSUME NEW gvk
      PROVE  CountOf(objs \o list, gvk) = RBACCount(gvk, accounts \cup {account}) + CountOf(rest, gvk)
  <2>1. CountOf(objs \o list, gvk) = CountOf(objs, gvk) + CountOf(list, gvk)
    BY <1>1, <1>2, CountConcat
  <2>2. CountOf(rest, gvk) \in Nat
    BY <1>1, CountType
  <2>3. RBACCount(gvk, accounts) \in Nat
    BY <1>1, RBACCountType
  <2>4. RBACCount(gvk, {account}) \in Nat
    BY FS_Singleton, RBACCountType
  <2>5. RBACCount(gvk, accounts \cup {account}) =
          RBACCount(gvk, accounts) + RBACCount(gvk, {account})
    BY <1>1, RBACCountAdds
  <2>6. CountOf(objs, gvk) = RBACCount(gvk, accounts) + CountOf(rest, gvk)
        /\ CountOf(list, gvk) = RBACCount(gvk, {account})
    BY <1>1, <1>2
  <2> QED
    BY <2>1, <2>2, <2>3, <2>4, <2>5, <2>6
<1>6. GivenTo(accounts \cup {account}, objs \o list)
  <2>1. \A other : Having(other, accounts \cup {account}) =
                     Having(other, accounts) \cup Having(other, {account})
    BY DEF Having
  <2> QED
    BY <1>1, <1>3, <1>4, <2>1, Zenon DEF GivenTo
<1>7. IsFiniteSet(accounts \cup {account})
  BY <1>1, FS_AddElement
<1>8. ASSUME NEW x, Brought(x, accounts) \/ Brought(x, {account})
      PROVE  Brought(x, accounts \cup {account})
  <2>1. \A other : \A p : p \in Having(other, accounts) \/ p \in Having(other, {account}) =>
                          p \in Having(other, accounts \cup {account})
    BY DEF Having
  <2>2. \A a : a \in accounts \/ a \in {account} => a \in accounts \cup {account}
    OBVIOUS
  <2> QED
    BY <1>8, <2>1, <2>2, Zenon DEF Brought
<1>9. ASSUME NEW x \in Elements(objs \o list)
      PROVE  \/ x \in Elements(rest)
             \/ x.gvk \in GeneratedGVKs /\ Brought(x, accounts \cup {account})
  BY <1>1, <1>2, <1>4, <1>8
<1>10. \A x \in Elements(rest) : x \in Elements(objs \o list)
  BY <1>1, <1>4
<1> QED
  BY <1>1, <1>4, <1>5, <1>6, <1>7, <1>9, <1>10 DEF Gathered, list

-----------------------------------------------------------------------------
(* The rest, phase by phase. *)

LEMMA ServiceMade ==
  ASSUME NEW desc \in WebhookDescription
  PROVE  /\ CreateWebhookService(desc) \in Object
         /\ Is(CreateWebhookService(desc), ServiceGVK, WebhookServiceName(desc.deployment))
         /\ CreateWebhookService(desc).spec.ports[1].port = PortOrDefault(desc.port)
<1> DEFINE port == PortOrDefault(desc.port)
           target == IF desc.target = NilPort THEN port ELSE desc.target
           selector == {[key |-> "name", value |-> desc.deployment]}
           ports == <<[port |-> port, target |-> target]>>
           spec == [selector |-> selector, ports |-> ports]
           name == WebhookServiceName(desc.deployment)
<1>1. name \in Name /\ port \in Port /\ target \in Port /\ desc.deployment \in Name
  BY WebhookTypes
<1>2. selector \in Selector
  <2>1. "name" \in STRING
    BY ManifestLiterals
  <2> QED
    BY <1>1, <2>1 DEF Selector
<1>3. ports \in Seq(ServicePort) /\ ports[1].port = port
  BY <1>1 DEF ServicePort
<1>4. CreateWebhookService(desc) = NewObject(ServiceGVK, name, spec)
  BY DEF CreateWebhookService
<1> HIDE DEF port, selector, ports, name
<1>5. spec \in ServiceSpec /\ spec.ports = ports
  BY <1>2, <1>3 DEF ServiceSpec
<1> HIDE DEF spec
<1>6. spec \in Spec_
  BY <1>5 DEF Spec_
<1>7. NewObject(ServiceGVK, name, spec).gvk = ServiceGVK
      /\ NewObject(ServiceGVK, name, spec).spec = spec
  BY DEF NewObject
<1>8. Converts(NewObject(ServiceGVK, name, spec))
  BY <1>5, <1>7, ConvertsByKind, Zenon
<1>9. ServiceGVK \in MadeGVKs
  BY Zenon DEF MadeGVKs
<1>10. /\ NewObject(ServiceGVK, name, spec) \in Object
       /\ NewObject(ServiceGVK, name, spec).name = name
  BY <1>1, <1>6, <1>8, <1>9, MadeManifest
<1> QED
  BY <1>3, <1>4, <1>5, <1>7, <1>10 DEF Is, name, port

\* A Service for each deployment with a webhook, on the port of one of its webhooks.
LEMMA ServicesPart ==
  ASSUME bundle \in Bundles
  PROVE  /\ Uniform(WebhookServices, ServiceGVK)
         /\ Len(WebhookServices) = Cardinality(Deployments)
         /\ \A w \in DOMAIN bundle.webhooks : bundle.webhooks[w].deployment # NoName =>
              \E x \in Elements(WebhookServices) :
                /\ Is(x, ServiceGVK, WebhookServiceName(bundle.webhooks[w].deployment))
                /\ LET v == Earliest(WebhooksOn(bundle.webhooks[w].deployment))
                   IN  x.spec.ports[1].port = PortOrDefault(bundle.webhooks[v].port)
<1> DEFINE descs == bundle.webhooks
           S == FirstOfDeployment
           sel == Chosen(descs, S)
<1>1. descs \in Seq(WebhookDescription)
  BY BundleFields
<1> HIDE DEF descs
<1>2. DOMAIN descs = 1 .. Len(descs) /\ Len(descs) \in Nat
      /\ \A i \in DOMAIN descs : descs[i] \in WebhookDescription
  BY <1>1
<1>3. \A i \in S : /\ i \in DOMAIN descs /\ descs[i].deployment # NoName
                   /\ \A j \in 1 .. i - 1 : descs[j].deployment # descs[i].deployment
  BY DEF FirstOfDeployment, descs
<1> DEFINE First(d) == Earliest(WebhooksOn(d))
<1>4. ASSUME NEW w \in DOMAIN descs, descs[w].deployment # NoName
      PROVE  LET i == First(descs[w].deployment)
             IN  i \in S /\ descs[i].deployment = descs[w].deployment
  <2> DEFINE same == {i \in DOMAIN descs : descs[i].deployment = descs[w].deployment}
             first == Earliest(same)
  <2>1. same \in SUBSET Nat /\ w \in same
    BY <1>2
  <2>2. first \in same /\ \A j \in same : first =< j
    <3> HIDE DEF same
    <3> QED
      BY <2>1, EarliestIsFirst
  <2>3. First(descs[w].deployment) = first
    BY DEF WebhooksOn, descs
  <2> HIDE DEF first, First
  <2>4. \A j \in 1 .. first - 1 : descs[j].deployment # descs[first].deployment
    BY <1>2, <2>2
  <2>5. first \in S
    BY <1>4, <2>2, <2>4 DEF FirstOfDeployment, descs
  <2> QED
    BY <2>2, <2>3, <2>5
<1> HIDE DEF S, First
<1>5. /\ sel \in Seq(WebhookDescription) /\ Len(sel) = Cardinality(S) /\ IsFiniteSet(S)
      /\ \A i \in S : \E n \in DOMAIN sel : sel[n] = descs[i]
  <2>1. \A i \in S : i \in DOMAIN descs
    BY <1>3
  <2> QED
    BY <1>1, <2>1, ChosenElements
<1>6. WebhookServices = [n \in DOMAIN sel |-> CreateWebhookService(sel[n])]
  BY DEF WebhookServices, Each, descs, S
<1> HIDE DEF sel
<1>7. \A n \in DOMAIN sel : sel[n] \in WebhookDescription
  BY <1>5
<1>8. \A n \in DOMAIN sel :
        CreateWebhookService(sel[n]) \in Object /\ CreateWebhookService(sel[n]).gvk = ServiceGVK
  BY <1>7, ServiceMade DEF Is
<1>9. DOMAIN sel = 1 .. Len(sel) /\ Len(sel) \in Nat
  BY <1>5
<1>10. Uniform(WebhookServices, ServiceGVK) /\ Len(WebhookServices) = Len(sel)
       /\ DOMAIN WebhookServices = DOMAIN sel
  BY <1>6, <1>8, <1>9 DEF Uniform
<1>11. Cardinality(Deployments) = Cardinality(S)
  <2> DEFINE f == [i \in S |-> descs[i].deployment]
  <2>1. Deployments = {descs[i].deployment : i \in DOMAIN descs} \ {NoName}
    BY DEF Deployments, descs
  <2>2. f \in [S -> Deployments]
    BY <1>3, <2>1
  <2>3. ASSUME NEW i \in S, NEW k \in S, f[i] = f[k] PROVE i = k
    <3>1. descs[i].deployment = descs[k].deployment
      BY <2>3
    <3>2. i \in Nat /\ k \in Nat /\ i >= 1 /\ k >= 1
      BY <1>2, <1>3
    <3>3. ~(i < k) /\ ~(k < i)
      BY <1>3, <3>1, <3>2
    <3> QED
      BY <3>2, <3>3
  <2>4. ASSUME NEW d \in Deployments PROVE \E i \in S : f[i] = d
    <3>1. PICK w \in DOMAIN descs : descs[w].deployment = d /\ d # NoName
      BY <2>1
    <3> QED
      BY <1>4, <3>1
  <2> HIDE DEF f
  <2> QED
    BY <1>5, <2>2, <2>3, <2>4, SameSize
<1>12. ASSUME NEW w \in DOMAIN descs, descs[w].deployment # NoName
       PROVE  \E x \in Elements(WebhookServices) :
                /\ Is(x, ServiceGVK, WebhookServiceName(descs[w].deployment))
                /\ x.spec.ports[1].port = PortOrDefault(descs[First(descs[w].deployment)].port)
  <2> DEFINE i == First(descs[w].deployment)
  <2>1. i \in S /\ descs[i].deployment = descs[w].deployment
    BY <1>4, <1>12
  <2> HIDE DEF i
  <2>2. PICK n \in DOMAIN sel : sel[n] = descs[i]
    BY <1>5, <2>1
  <2>3. CreateWebhookService(sel[n]) \in Elements(WebhookServices)
    BY <1>6 DEF Elements
  <2>4. i \in DOMAIN descs
    BY <1>3, <2>1
  <2>5. /\ Is(CreateWebhookService(sel[n]), ServiceGVK, WebhookServiceName(descs[w].deployment))
        /\ CreateWebhookService(sel[n]).spec.ports[1].port = PortOrDefault(descs[i].port)
    BY <1>7, <2>1, <2>2, ServiceMade
  <2> QED
    BY <2>3, <2>5 DEF i
<1> QED
  BY <1>5, <1>10, <1>11, <1>12 DEF descs, First

LEMMA ConfigurationMade ==
  ASSUME NEW desc \in WebhookDescription, desc.type # ConversionWebhook
  PROVE  /\ AdmissionWebhook(desc) \in Object
         /\ AdmissionWebhook(desc).gvk =
              IF desc.type = ValidatingAdmissionWebhook THEN ValidatingGVK ELSE MutatingGVK
<1> DEFINE gvk == IF desc.type = ValidatingAdmissionWebhook THEN ValidatingGVK ELSE MutatingGVK
           service == Append(desc.deployment, "service")
           spec == [clients |-> <<[service |-> service, port |-> desc.port]>>]
<1>1. desc.name \in Name /\ desc.port \in Port /\ desc.deployment \in Name
  BY WebhookTypes
<1>2. service \in Name
  <2>1. "service" \in STRING
    BY LiteralsAreStrings
  <2> QED
    BY <1>1, <2>1 DEF Name
<1>3. AdmissionWebhook(desc) = NewObject(gvk, desc.name, spec)
  BY DEF AdmissionWebhook
<1> HIDE DEF service
<1>4. spec \in WebhookSpec
  BY <1>1, <1>2 DEF WebhookSpec, Client
<1>5. gvk \in {ValidatingGVK, MutatingGVK}
  OBVIOUS
<1> HIDE DEF spec, gvk
<1>6. spec \in Spec_
  BY <1>4 DEF Spec_
<1>7. NewObject(gvk, desc.name, spec).gvk = gvk
      /\ NewObject(gvk, desc.name, spec).spec = spec
  BY DEF NewObject
<1>8. Converts(NewObject(gvk, desc.name, spec))
  BY <1>4, <1>5, <1>7, ConvertsByKind, Zenon
<1>9. gvk \in MadeGVKs
  BY <1>5, Zenon DEF MadeGVKs
<1>10. NewObject(gvk, desc.name, spec) \in Object
  BY <1>1, <1>6, <1>8, <1>9, MadeManifest
<1> QED
  BY <1>3, <1>7, <1>10 DEF gvk

OfType(type) == {i \in DOMAIN bundle.webhooks : bundle.webhooks[i].type = type}

\* A configuration for each admission webhook.
LEMMA ConfigurationsPart ==
  ASSUME bundle \in Bundles
  PROVE  /\ Webhooks \in Seq(Object)
         /\ \A i \in DOMAIN Webhooks : Webhooks[i].gvk \in {ValidatingGVK, MutatingGVK}
         /\ CountOf(Webhooks, ValidatingGVK) = Cardinality(OfType(ValidatingAdmissionWebhook))
         /\ CountOf(Webhooks, MutatingGVK) = Cardinality(OfType(MutatingAdmissionWebhook))
<1> DEFINE descs == bundle.webhooks
           S == AdmissionWebhooks
           m == Cardinality(S)
<1>1. descs \in Seq(WebhookDescription)
  BY BundleFields
<1> HIDE DEF descs
<1>2. DOMAIN descs = 1 .. Len(descs) /\ Len(descs) \in Nat
      /\ \A i \in DOMAIN descs : descs[i] \in WebhookDescription
  BY <1>1
<1>3. \A i \in DOMAIN descs :
        descs[i].type \in {ConversionWebhook, ValidatingAdmissionWebhook, MutatingAdmissionWebhook}
  BY <1>2 DEF WebhookDescription
<1>4. S = {i \in DOMAIN descs : descs[i].type # ConversionWebhook}
  BY DEF AdmissionWebhooks, descs
<1>5. ConversionWebhook # ValidatingAdmissionWebhook /\ ConversionWebhook # MutatingAdmissionWebhook
      /\ ValidatingAdmissionWebhook # MutatingAdmissionWebhook /\ ValidatingGVK # MutatingGVK
  BY ManifestKinds DEF ConversionWebhook, ValidatingAdmissionWebhook, MutatingAdmissionWebhook
<1> HIDE DEF S
<1>6. /\ IsFiniteSet(S) /\ m \in Nat
      /\ \A n \in 1 .. m : Nth(S, n) \in S
      /\ \A i \in S : \E n \in 1 .. m : Nth(S, n) = i
      /\ \A n, k \in 1 .. m : n < k => Nth(S, n) < Nth(S, k)
  <2>1. \A i \in S : i \in 1 .. Len(descs)
    BY <1>2, <1>4
  <2> QED
    BY <1>2, <2>1, NthEnumerates
<1>7. Webhooks = [n \in 1 .. m |-> AdmissionWebhook(descs[Nth(S, n)])]
  BY DEF Webhooks, Each, Chosen, descs, S
<1> HIDE DEF m
<1>8. ASSUME NEW n \in 1 .. m
      PROVE  /\ AdmissionWebhook(descs[Nth(S, n)]) \in Object
             /\ AdmissionWebhook(descs[Nth(S, n)]).gvk =
                  IF descs[Nth(S, n)].type = ValidatingAdmissionWebhook THEN ValidatingGVK
                                                                        ELSE MutatingGVK
  <2>1. Nth(S, n) \in DOMAIN descs /\ descs[Nth(S, n)].type # ConversionWebhook
    BY <1>4, <1>6
  <2>2. descs[Nth(S, n)] \in WebhookDescription
    BY <1>2, <2>1
  <2> QED
    BY <2>1, <2>2, ConfigurationMade
<1>9. Webhooks \in Seq(Object) /\ DOMAIN Webhooks = 1 .. m
  BY <1>6, <1>7, <1>8
<1>10. ASSUME NEW type \in {ValidatingAdmissionWebhook, MutatingAdmissionWebhook},
              NEW gvk, gvk = IF type = ValidatingAdmissionWebhook THEN ValidatingGVK ELSE MutatingGVK
       PROVE  CountOf(Webhooks, gvk) = Cardinality(OfType(type))
  <2> DEFINE P == OfExactKind(Webhooks, gvk)
             Q == OfType(type)
             f == [n \in P |-> Nth(S, n)]
  <2>1. \A n \in P : n \in 1 .. m /\ Webhooks[n].gvk = gvk
    BY <1>9 DEF OfExactKind
  <2>2. \A n \in 1 .. m : Webhooks[n].gvk = gvk <=> descs[Nth(S, n)].type = type
    BY <1>3, <1>4, <1>5, <1>6, <1>7, <1>8, <1>10
  <2>3. \A n \in 1 .. m : n \in P <=> descs[Nth(S, n)].type = type
    BY <1>9, <2>2 DEF OfExactKind
  <2>4. \A i : i \in Q <=> i \in DOMAIN descs /\ descs[i].type = type
    BY DEF OfType, descs
  <2>5. f \in [P -> Q]
    BY <1>4, <1>6, <2>1, <2>3, <2>4
  <2>6. ASSUME NEW n \in P, NEW k \in P, f[n] = f[k] PROVE n = k
    <3>1. n \in 1 .. m /\ k \in 1 .. m /\ Nth(S, n) = Nth(S, k)
      BY <2>1, <2>6
    <3>2. Nth(S, n) \in Nat
      BY <1>2, <1>4, <1>6, <3>1
    <3>3. ~(n < k) /\ ~(k < n)
      BY <1>6, <3>1, <3>2
    <3> QED
      BY <1>6, <3>1, <3>3
  <2>7. ASSUME NEW i \in Q PROVE \E n \in P : f[n] = i
    <3>1. i \in S
      BY <1>4, <1>5, <2>4
    <3>2. PICK n \in 1 .. m : Nth(S, n) = i
      BY <1>6, <3>1
    <3> QED
      BY <2>3, <2>4, <3>2
  <2>8. IsFiniteSet(P)
    BY <1>9, CountType
  <2> HIDE DEF P, Q, f
  <2>9. Cardinality(Q) = Cardinality(P)
    BY <2>5, <2>6, <2>7, <2>8, SameSize
  <2> QED
    BY <2>9 DEF CountOf, P, Q
<1>11. \A i \in DOMAIN Webhooks : Webhooks[i].gvk \in {ValidatingGVK, MutatingGVK}
  BY <1>7, <1>8
<1> QED
  BY <1>5, <1>9, <1>10, <1>11

LEMMA OthersPart ==
  ASSUME bundle \in Bundles
  PROVE  /\ OtherResources \in Seq(Object)
         /\ Len(OtherResources) =< Len(bundle.objects)
         /\ \A i \in DOMAIN OtherResources : OtherResources[i].gvk \notin SkippedGVKs
         /\ \A x \in Elements(OtherResources) :
              \E i \in DOMAIN bundle.objects : x = bundle.objects[i]
<1> DEFINE S == {i \in DOMAIN bundle.objects : bundle.objects[i].gvk \notin SkippedGVKs}
<1>1. bundle.objects \in Seq(Object)
  BY BundleFields
<1>2. \A i \in S : i \in DOMAIN bundle.objects /\ bundle.objects[i].gvk \notin SkippedGVKs
  OBVIOUS
<1>3. OtherResources = Chosen(bundle.objects, S)
  BY DEF OtherResources
<1> HIDE DEF S
<1>4. /\ Chosen(bundle.objects, S) \in Seq(Object)
      /\ Len(Chosen(bundle.objects, S)) = Cardinality(S)
      /\ Cardinality(S) =< Len(bundle.objects)
      /\ \A n \in DOMAIN Chosen(bundle.objects, S) :
           \E i \in S : Chosen(bundle.objects, S)[n] = bundle.objects[i]
  BY <1>1, <1>2, ChosenElements
<1> QED
  BY <1>2, <1>3, <1>4 DEF Elements

\* What the phases bring besides the permissions.
CRDsIn == NamespaceObjects \o CRDs
DeploymentsIn == CRDsIn \o bundle.deployments
WebhooksIn == DeploymentsIn \o (WebhookServices \o Webhooks)
Rest == WebhooksIn \o OtherResources

LEMMA RestTypes ==
  ASSUME bundle \in Bundles, namespace \in Namespaces
  PROVE  /\ NamespaceObjects \in Seq(Object) /\ CRDs \in Seq(Object) /\ CRDsIn \in Seq(Object)
         /\ bundle.deployments \in Seq(Object) /\ DeploymentsIn \in Seq(Object)
         /\ WebhookServices \in Seq(Object) /\ Webhooks \in Seq(Object)
         /\ WebhookServices \o Webhooks \in Seq(Object) /\ WebhooksIn \in Seq(Object)
         /\ OtherResources \in Seq(Object) /\ Rest \in Seq(Object)
<1>1. NamespaceObjects \in Seq(Object) /\ CRDs \in Seq(Object) /\ bundle.deployments \in Seq(Object)
      /\ WebhookServices \in Seq(Object) /\ Webhooks \in Seq(Object) /\ OtherResources \in Seq(Object)
  BY NamespacePart, CRDPart, BundleFields, ServicesPart, ConfigurationsPart, OthersPart DEF Uniform
<1>2. CRDsIn \in Seq(Object) /\ WebhookServices \o Webhooks \in Seq(Object)
  BY <1>1 DEF CRDsIn
<1>3. DeploymentsIn \in Seq(Object)
  BY <1>1, <1>2 DEF DeploymentsIn
<1>4. WebhooksIn \in Seq(Object)
  BY <1>2, <1>3 DEF WebhooksIn
<1>5. Rest \in Seq(Object)
  BY <1>1, <1>4 DEF Rest
<1> QED
  BY <1>1, <1>2, <1>3, <1>4, <1>5

LEMMA RestCount ==
  ASSUME bundle \in Bundles, namespace \in Namespaces, NEW gvk
  PROVE  CountOf(Rest, gvk) =
           CountOf(NamespaceObjects, gvk) + CountOf(CRDs, gvk) + CountOf(bundle.deployments, gvk)
           + CountOf(WebhookServices, gvk) + CountOf(Webhooks, gvk) + CountOf(OtherResources, gvk)
<1>1. CountOf(CRDsIn, gvk) = CountOf(NamespaceObjects, gvk) + CountOf(CRDs, gvk)
  BY RestTypes, CountConcat DEF CRDsIn
<1>2. CountOf(DeploymentsIn, gvk) = CountOf(CRDsIn, gvk) + CountOf(bundle.deployments, gvk)
  BY RestTypes, CountConcat DEF DeploymentsIn
<1>3. CountOf(WebhookServices \o Webhooks, gvk) =
        CountOf(WebhookServices, gvk) + CountOf(Webhooks, gvk)
  BY RestTypes, CountConcat
<1>4. CountOf(WebhooksIn, gvk) =
        CountOf(DeploymentsIn, gvk) + CountOf(WebhookServices \o Webhooks, gvk)
  BY RestTypes, CountConcat DEF WebhooksIn
<1>5. CountOf(Rest, gvk) = CountOf(WebhooksIn, gvk) + CountOf(OtherResources, gvk)
  BY RestTypes, CountConcat DEF Rest
<1>6. /\ CountOf(NamespaceObjects, gvk) \in Nat /\ CountOf(CRDs, gvk) \in Nat
      /\ CountOf(bundle.deployments, gvk) \in Nat /\ CountOf(WebhookServices, gvk) \in Nat
      /\ CountOf(Webhooks, gvk) \in Nat /\ CountOf(OtherResources, gvk) \in Nat
  BY RestTypes, CountType
<1> QED
  BY <1>1, <1>2, <1>3, <1>4, <1>5, <1>6

\* The counts that EveryManifestOnce states, as far as the rest goes.
LEMMA RestCounts ==
  ASSUME bundle \in Bundles, namespace \in Namespaces
  PROVE  /\ \A gvk \in GeneratedGVKs : CountOf(Rest, gvk) = CountOf(OtherResources, gvk)
         /\ CountOf(Rest, ServiceGVK) =
              Cardinality(Deployments) + CountOf(OtherResources, ServiceGVK)
         /\ CountOf(Rest, ValidatingGVK) =
              Cardinality(OfType(ValidatingAdmissionWebhook)) + CountOf(OtherResources, ValidatingGVK)
         /\ CountOf(Rest, MutatingGVK) =
              Cardinality(OfType(MutatingAdmissionWebhook)) + CountOf(OtherResources, MutatingGVK)
         /\ CountOf(Rest, DeploymentGVK) =
              Len(bundle.deployments) + CountOf(OtherResources, DeploymentGVK)
<1>1. \A gvk : CountOf(NamespaceObjects, gvk) = IF gvk = NamespaceGVK THEN Len(NamespaceObjects) ELSE 0
  BY NamespacePart, UniformCount
<1>2. \A gvk : CountOf(bundle.deployments, gvk) =
                 IF gvk = DeploymentGVK THEN Len(bundle.deployments) ELSE 0
  BY BundleFields, UniformCount
<1>3. \A gvk : CountOf(WebhookServices, gvk) = IF gvk = ServiceGVK THEN Cardinality(Deployments) ELSE 0
  BY ServicesPart, UniformCount
<1>4. \A gvk : gvk \notin {CRDGVK, CRDV1Beta1GVK} => CountOf(CRDs, gvk) = 0
  <2>1. \A i \in DOMAIN CRDs : CRDs[i].gvk \in {CRDGVK, CRDV1Beta1GVK}
    BY CRDPart
  <2> QED
    BY <2>1, CountNone
<1>5. \A gvk : gvk \notin {ValidatingGVK, MutatingGVK} => CountOf(Webhooks, gvk) = 0
  <2>1. \A i \in DOMAIN Webhooks : Webhooks[i].gvk \in {ValidatingGVK, MutatingGVK}
    BY ConfigurationsPart
  <2> QED
    BY <2>1, CountNone
<1>6. \A gvk : CountOf(OtherResources, gvk) \in Nat
  BY OthersPart, CountType
<1>7. /\ Len(bundle.deployments) \in Nat
      /\ Cardinality(Deployments) \in Nat
      /\ CountOf(Webhooks, ValidatingGVK) \in Nat /\ CountOf(Webhooks, MutatingGVK) \in Nat
  <2>1. Len(bundle.deployments) \in Nat /\ Len(WebhookServices) \in Nat
    BY RestTypes
  <2> QED
    BY <2>1, RestTypes, CountType, ServicesPart
<1>8. ASSUME NEW gvk \in GeneratedGVKs
      PROVE  CountOf(Rest, gvk) = CountOf(OtherResources, gvk)
  <2>1. gvk.kind \in {"ServiceAccount", "Role", "RoleBinding", "ClusterRole", "ClusterRoleBinding"}
    <3>1. \A k \in GeneratedGVKs :
            k.kind \in {"ServiceAccount", "Role", "RoleBinding", "ClusterRole", "ClusterRoleBinding"}
      BY ManifestKinds, Zenon DEF GeneratedGVKs
    <3> QED
      BY <3>1
  <2>2. /\ gvk # NamespaceGVK /\ gvk # DeploymentGVK /\ gvk # ServiceGVK
        /\ gvk \notin {CRDGVK, CRDV1Beta1GVK} /\ gvk \notin {ValidatingGVK, MutatingGVK}
    BY <2>1, ManifestKinds
  <2>3. /\ CountOf(NamespaceObjects, gvk) = 0 /\ CountOf(bundle.deployments, gvk) = 0
        /\ CountOf(WebhookServices, gvk) = 0 /\ CountOf(CRDs, gvk) = 0 /\ CountOf(Webhooks, gvk) = 0
    BY <1>1, <1>2, <1>3, <1>4, <1>5, <2>2
  <2> QED
    BY <1>6, <2>3, RestCount
<1>9. /\ ServiceGVK # NamespaceGVK /\ ServiceGVK # DeploymentGVK
      /\ ServiceGVK \notin {CRDGVK, CRDV1Beta1GVK} /\ ServiceGVK \notin {ValidatingGVK, MutatingGVK}
      /\ DeploymentGVK # NamespaceGVK /\ DeploymentGVK # ServiceGVK
      /\ DeploymentGVK \notin {CRDGVK, CRDV1Beta1GVK}
      /\ DeploymentGVK \notin {ValidatingGVK, MutatingGVK}
  BY ManifestKinds
<1>10. /\ ValidatingGVK # NamespaceGVK /\ ValidatingGVK # DeploymentGVK
       /\ ValidatingGVK # ServiceGVK /\ ValidatingGVK \notin {CRDGVK, CRDV1Beta1GVK}
       /\ MutatingGVK # NamespaceGVK /\ MutatingGVK # DeploymentGVK
       /\ MutatingGVK # ServiceGVK /\ MutatingGVK \notin {CRDGVK, CRDV1Beta1GVK}
  BY ManifestKinds
<1>11. CountOf(Rest, ServiceGVK) = Cardinality(Deployments) + CountOf(OtherResources, ServiceGVK)
  <2>1. /\ CountOf(NamespaceObjects, ServiceGVK) = 0 /\ CountOf(bundle.deployments, ServiceGVK) = 0
        /\ CountOf(WebhookServices, ServiceGVK) = Cardinality(Deployments)
        /\ CountOf(CRDs, ServiceGVK) = 0 /\ CountOf(Webhooks, ServiceGVK) = 0
    BY <1>1, <1>2, <1>3, <1>4, <1>5, <1>9
  <2> QED
    BY <1>6, <1>7, <2>1, RestCount
<1>12. CountOf(Rest, DeploymentGVK) =
         Len(bundle.deployments) + CountOf(OtherResources, DeploymentGVK)
  <2>1. /\ CountOf(NamespaceObjects, DeploymentGVK) = 0
        /\ CountOf(bundle.deployments, DeploymentGVK) = Len(bundle.deployments)
        /\ CountOf(WebhookServices, DeploymentGVK) = 0
        /\ CountOf(CRDs, DeploymentGVK) = 0 /\ CountOf(Webhooks, DeploymentGVK) = 0
    BY <1>1, <1>2, <1>3, <1>4, <1>5, <1>9
  <2> QED
    BY <1>6, <1>7, <2>1, RestCount
<1>13. ASSUME NEW gvk \in {ValidatingGVK, MutatingGVK}
       PROVE  CountOf(Rest, gvk) = CountOf(Webhooks, gvk) + CountOf(OtherResources, gvk)
  <2>1. /\ CountOf(NamespaceObjects, gvk) = 0 /\ CountOf(bundle.deployments, gvk) = 0
        /\ CountOf(WebhookServices, gvk) = 0 /\ CountOf(CRDs, gvk) = 0
    BY <1>1, <1>2, <1>3, <1>4, <1>10
  <2>2. CountOf(Webhooks, gvk) \in Nat
    BY <1>7
  <2> QED
    BY <1>6, <2>1, <2>2, RestCount
<1> QED
  BY <1>8, <1>11, <1>12, <1>13, ConfigurationsPart

LEMMA RestElements ==
  ASSUME bundle \in Bundles, namespace \in Namespaces
  PROVE  Elements(Rest) = Elements(NamespaceObjects) \cup Elements(CRDs)
           \cup Elements(bundle.deployments) \cup Elements(WebhookServices) \cup Elements(Webhooks)
           \cup Elements(OtherResources)
<1>1. Elements(CRDsIn) = Elements(NamespaceObjects) \cup Elements(CRDs)
  BY RestTypes, ConcatElements DEF CRDsIn
<1>2. Elements(DeploymentsIn) = Elements(CRDsIn) \cup Elements(bundle.deployments)
  BY RestTypes, ConcatElements DEF DeploymentsIn
<1>3. Elements(WebhookServices \o Webhooks) = Elements(WebhookServices) \cup Elements(Webhooks)
  BY RestTypes, ConcatElements
<1>4. Elements(WebhooksIn) = Elements(DeploymentsIn) \cup Elements(WebhookServices \o Webhooks)
  <2> DEFINE hooks == WebhookServices \o Webhooks
  <2>1. DeploymentsIn \in Seq(Object) /\ hooks \in Seq(Object)
    BY RestTypes
  <2>2. WebhooksIn = DeploymentsIn \o hooks
    BY DEF WebhooksIn
  <2> HIDE DEF hooks
  <2>3. Elements(WebhooksIn) = Elements(DeploymentsIn) \cup Elements(hooks)
    BY <2>1, <2>2, ConcatElements
  <2> QED
    BY <2>3 DEF hooks
<1>5. Elements(Rest) = Elements(WebhooksIn) \cup Elements(OtherResources)
  BY RestTypes, ConcatElements DEF Rest
<1> QED
  BY <1>1, <1>2, <1>3, <1>4, <1>5, Zenon

\* Of the CRDs only those of the bundle are in the list.
LEMMA RestCRDs ==
  ASSUME bundle \in Bundles, namespace \in Namespaces, NEW x \in Elements(Rest), x.gvk = CRDGVK
  PROVE  \E k \in DOMAIN bundle.crds : x = WithConversion(bundle.crds[k])
<1>1. /\ \A y \in Elements(NamespaceObjects) : y.gvk = NamespaceGVK
      /\ \A y \in Elements(bundle.deployments) : y.gvk = DeploymentGVK
      /\ \A y \in Elements(WebhookServices) : y.gvk = ServiceGVK
  BY NamespacePart, BundleFields, ServicesPart DEF Uniform, Elements
<1>2. \A y \in Elements(Webhooks) : y.gvk \in {ValidatingGVK, MutatingGVK}
  BY ConfigurationsPart DEF Elements
<1>3. \A y \in Elements(OtherResources) : y.gvk # CRDGVK
  BY OthersPart DEF Elements, SkippedGVKs
<1>4. /\ CRDGVK # NamespaceGVK /\ CRDGVK # DeploymentGVK /\ CRDGVK # ServiceGVK
      /\ CRDGVK \notin {ValidatingGVK, MutatingGVK} /\ CRDGVK # CRDV1Beta1GVK
  BY ManifestKinds
<1>5. x \in Elements(CRDs)
  BY <1>1, <1>2, <1>3, <1>4, RestElements
<1>6. PICK i \in DOMAIN CRDs : x = CRDs[i]
  BY <1>5 DEF Elements
<1> QED
  BY <1>4, <1>6, CRDPart

-----------------------------------------------------------------------------
(* The clean names. *)

LEMMA KindWords ==
  \A gvk \in normalizedResourceTypes :
    LowerKind[gvk.kind] \in STRING /\ LowerKind[gvk.kind] \notin HashWords
<1>1. /\ \A w \in {"role", "rolebinding", "clusterrole", "clusterrolebinding"} : w \notin HashWords
      /\ \A w \in {"role", "rolebinding", "clusterrole", "clusterrolebinding"} : w \in STRING
  <2>1. {"role", "rolebinding", "clusterrole", "clusterrolebinding"} \cap HashWords = {}
    BY WordsAssumption
  <2>2. {"role", "rolebinding", "clusterrole", "clusterrolebinding"} \subseteq STRING
    BY ManifestLiterals, Zenon
  <2> QED
    BY <2>1, <2>2
<1>2. /\ LowerKind["Role"] = "role" /\ LowerKind["RoleBinding"] = "rolebinding"
      /\ LowerKind["ClusterRole"] = "clusterrole"
      /\ LowerKind["ClusterRoleBinding"] = "clusterrolebinding"
  BY DEF LowerKind
<1>3. \A gvk \in normalizedResourceTypes :
        gvk.kind \in {"Role", "RoleBinding", "ClusterRole", "ClusterRoleBinding"}
  BY ManifestKinds, Zenon DEF normalizedResourceTypes
<1> QED
  BY <1>1, <1>2, <1>3

EndsClean(name) == name[Len(name)] \notin HashWords

\* A clean name does not end like one that OLM generates.
LEMMA CleanName ==
  ASSUME NEW Words, NEW base \in Seq(Words), NEW suffix \in Words, suffix \notin HashWords,
         NEW count \in Nat, count =< Len(CountWord), CountWord \in Seq(Words),
         \A i \in DOMAIN CountWord : CountWord[i] \notin HashWords
  PROVE  /\ generateResourceName(base, suffix, count) \in Seq(Words)
         /\ ~isOLMGeneratedName(generateResourceName(base, suffix, count))
         /\ EndsClean(generateResourceName(base, suffix, count))
<1>1. Len(base) \in Nat
  OBVIOUS
<1>2. CASE count = 0
  <2>1. generateResourceName(base, suffix, count) = Append(base, suffix)
    BY <1>2 DEF generateResourceName
  <2>2. /\ Append(base, suffix) \in Seq(Words) /\ Len(Append(base, suffix)) = Len(base) + 1
        /\ Append(base, suffix)[Len(base) + 1] = suffix
    OBVIOUS
  <2> QED
    BY <1>1, <2>1, <2>2 DEF isOLMGeneratedName, EndsClean
<1>3. CASE count # 0
  <2> DEFINE word == CountWord[count]
  <2>1. word \in Words /\ word \notin HashWords
    BY <1>3
  <2>2. generateResourceName(base, suffix, count) = base \o <<suffix, word>>
    BY <1>3 DEF generateResourceName
  <2> HIDE DEF word
  <2>3. /\ base \o <<suffix, word>> \in Seq(Words)
        /\ Len(base \o <<suffix, word>>) = Len(base) + 2
        /\ (base \o <<suffix, word>>)[Len(base) + 2] = word
    BY <2>1
  <2> QED
    BY <1>1, <2>1, <2>2, <2>3 DEF isOLMGeneratedName, EndsClean
<1> QED
  BY <1>2, <1>3

\* Two counts make two names.
LEMMA CountsApart ==
  ASSUME NEW Words, NEW base \in Seq(Words), NEW suffix \in Words, CountWord \in Seq(Words),
         NEW i \in 0 .. Len(CountWord), NEW j \in 0 .. Len(CountWord), i # j
  PROVE  generateResourceName(base, suffix, i) # generateResourceName(base, suffix, j)
<1>1. /\ CountWord \in Seq(Words) /\ Len(CountWord) \in Nat
      /\ \A k, l \in DOMAIN CountWord : CountWord[k] = CountWord[l] => k = l
  BY WordsAssumption
<1>2. Len(Append(base, suffix)) = Len(base) + 1 /\ Len(base) \in Nat
  OBVIOUS
<1>3. ASSUME NEW word \in Words
      PROVE  /\ Len(base \o <<suffix, word>>) = Len(base) + 2
             /\ (base \o <<suffix, word>>)[Len(base) + 2] = word
  OBVIOUS
<1> DEFINE name(n) == generateResourceName(base, suffix, n)
<1>4. \A n \in 1 .. Len(CountWord) :
        /\ n \in DOMAIN CountWord
        /\ Len(name(n)) = Len(base) + 2 /\ name(n)[Len(base) + 2] = CountWord[n]
  <2> SUFFICES ASSUME NEW n \in 1 .. Len(CountWord)
               PROVE  /\ n \in DOMAIN CountWord
                      /\ Len(name(n)) = Len(base) + 2 /\ name(n)[Len(base) + 2] = CountWord[n]
    OBVIOUS
  <2> DEFINE word == CountWord[n]
  <2>1. n \in DOMAIN CountWord /\ word \in Words
    BY <1>1
  <2>2. name(n) = base \o <<suffix, word>>
    BY <1>1 DEF generateResourceName
  <2> HIDE DEF name, word
  <2>3. /\ Len(base \o <<suffix, word>>) = Len(base) + 2
        /\ (base \o <<suffix, word>>)[Len(base) + 2] = word
    BY <1>3, <2>1
  <2>4. Len(name(n)) = Len(base) + 2 /\ name(n)[Len(base) + 2] = word
    BY <2>2, <2>3, Zenon
  <2> QED
    BY <2>1, <2>4 DEF word
<1>5. Len(name(0)) = Len(base) + 1
  BY <1>2 DEF generateResourceName
<1> HIDE DEF name
<1>6. CASE i = 0
  <2>1. j \in 1 .. Len(CountWord)
    BY <1>1, <1>6
  <2>2. Len(name(j)) = Len(base) + 2 /\ Len(name(i)) = Len(base) + 1
    BY <1>4, <1>5, <1>6, <2>1
  <2>3. Len(name(j)) # Len(name(i))
    BY <1>2, <2>2
  <2> QED
    BY <2>3 DEF name
<1>7. CASE j = 0
  <2>1. i \in 1 .. Len(CountWord)
    BY <1>1, <1>7
  <2>2. Len(name(i)) = Len(base) + 2 /\ Len(name(j)) = Len(base) + 1
    BY <1>4, <1>5, <1>7, <2>1
  <2>3. Len(name(j)) # Len(name(i))
    BY <1>2, <2>2
  <2> QED
    BY <2>3 DEF name
<1>8. CASE i # 0 /\ j # 0
  <2>1. i \in 1 .. Len(CountWord) /\ j \in 1 .. Len(CountWord)
    BY <1>1, <1>8
  <2>2. CountWord[i] # CountWord[j]
    BY <1>1, <1>4, <2>1
  <2> QED
    BY <1>4, <2>1, <2>2 DEF name
<1> QED
  BY <1>6, <1>7, <1>8 DEF name

LEMMA DeploymentNameType ==
  ASSUME NEW objs \in Seq(Object)
  PROVE  deploymentName(objs) \in Name
<1> DEFINE found == OfExactKind(objs, DeploymentGVK)
<1>1. \A i \in found : i \in 1 .. Len(objs)
  BY DEF OfExactKind
<1>2. Len(objs) \in Nat /\ \A i \in 1 .. Len(objs) : objs[i] \in Object
  OBVIOUS
<1>3. deploymentName(objs) = IF found = {} THEN NoName ELSE objs[Latest(found)].name
  BY DEF deploymentName
<1> HIDE DEF found
<1>4. found # {} => Latest(found) \in 1 .. Len(objs)
  BY <1>1, <1>2, LatestIsLast
<1>5. NoName \in Name
  BY DEF NoName, Name
<1>6. \A x \in Object : x.name \in Name
  BY DEF Object
<1> QED
  BY <1>2, <1>3, <1>4, <1>5, <1>6

LEMMA BaseNameType ==
  ASSUME NEW objs \in Seq(Object)
  PROVE  getBaseName(objs) \in Name
<1> DEFINE accounts == {i \in OfExactKind(objs, ServiceAccountGVK) : objs[i].name # NoName}
<1>1. \A i \in accounts : i \in 1 .. Len(objs)
  BY DEF OfExactKind
<1>2. Len(objs) \in Nat /\ \A i \in 1 .. Len(objs) : objs[i] \in Object
  OBVIOUS
<1>3. deploymentName(objs) \in Name
  BY DeploymentNameType
<1>4. <<"operator">> \in Name
  <2>1. "operator" \in STRING
    BY LiteralsAreStrings
  <2> QED
    BY <2>1 DEF Name
<1>5. getBaseName(objs) = CASE deploymentName(objs) # NoName -> deploymentName(objs)
        [] deploymentName(objs) = NoName /\ accounts # {} -> objs[Earliest(accounts)].name
        [] OTHER -> <<"operator">>
  BY DEF getBaseName
<1>6. accounts # {} => Earliest(accounts) \in accounts
  <2>1. accounts \in SUBSET Nat
    BY <1>1, <1>2
  <2> HIDE DEF accounts
  <2> QED
    BY <2>1, EarliestIsFirst
<1>7. accounts # {} => Earliest(accounts) \in 1 .. Len(objs)
  BY <1>1, <1>6
<1>8. \A x \in Object : x.name \in Name
  BY DEF Object
<1> HIDE DEF accounts
<1> QED
  BY <1>2, <1>3, <1>4, <1>5, <1>7, <1>8

Complete(objs) == Gathered(objs, Accounts, Rest)

\* A bundle has a word for as many resources of a kind as it can bring.
LEMMA EnoughWords ==
  ASSUME bundle \in Bundles, namespace \in Namespaces, NEW objs, Complete(objs),
         NEW gvk \in normalizedResourceTypes
  PROVE  CountOf(objs, gvk) =< Len(CountWord)
<1>1. CountOf(objs, gvk) = RBACCount(gvk, Accounts) + CountOf(Rest, gvk)
  BY DEF Complete, Gathered
<1>2. gvk \in GeneratedGVKs
  BY Zenon DEF normalizedResourceTypes, GeneratedGVKs
<1>3. CountOf(Rest, gvk) = CountOf(OtherResources, gvk)
  BY <1>2, RestCounts
<1>4. /\ CountOf(OtherResources, gvk) \in Nat /\ Len(OtherResources) \in Nat
      /\ CountOf(OtherResources, gvk) =< Len(OtherResources)
      /\ Len(OtherResources) =< Len(bundle.objects) /\ Len(bundle.objects) \in Nat
  BY OthersPart, BundleFields, CountType
<1>5. ASSUME NEW list \in Seq(Permission)
      PROVE  /\ Cardinality(Having(list, Accounts)) \in Nat /\ Len(list) \in Nat
             /\ Cardinality(Having(list, Accounts)) =< Len(list)
  <2>1. Len(list) \in Nat /\ \A i \in Having(list, Accounts) : i \in 1 .. Len(list)
    BY DEF Having
  <2> QED
    BY <2>1, NthEnumerates
<1>6. /\ bundle.permissions \in Seq(Permission) /\ bundle.clusterPermissions \in Seq(Permission)
  BY BundleFields
<1>7. RBACCount(gvk, Accounts) \in Nat
      /\ RBACCount(gvk, Accounts) =< Len(bundle.permissions) + Len(bundle.clusterPermissions)
  <2>1. \/ RBACCount(gvk, Accounts) = Cardinality(Having(bundle.permissions, Accounts))
        \/ RBACCount(gvk, Accounts) = Cardinality(Having(bundle.clusterPermissions, Accounts))
    BY RBACCountByKind, Zenon DEF normalizedResourceTypes
  <2>2. /\ Cardinality(Having(bundle.permissions, Accounts)) \in Nat
        /\ Cardinality(Having(bundle.permissions, Accounts)) =< Len(bundle.permissions)
        /\ Cardinality(Having(bundle.clusterPermissions, Accounts)) \in Nat
        /\ Cardinality(Having(bundle.clusterPermissions, Accounts))
             =< Len(bundle.clusterPermissions)
        /\ Len(bundle.permissions) \in Nat /\ Len(bundle.clusterPermissions) \in Nat
    BY <1>5, <1>6
  <2> DEFINE n == RBACCount(gvk, Accounts)
             n1 == Cardinality(Having(bundle.permissions, Accounts))
             n2 == Cardinality(Having(bundle.clusterPermissions, Accounts))
             m1 == Len(bundle.permissions)
             m2 == Len(bundle.clusterPermissions)
  <2>3. /\ n = n1 \/ n = n2
        /\ n1 \in Nat /\ n1 =< m1 /\ n2 \in Nat /\ n2 =< m2 /\ m1 \in Nat /\ m2 \in Nat
    BY <2>1, <2>2
  <2> HIDE DEF n, n1, n2, m1, m2
  <2>4. n \in Nat /\ n =< m1 + m2
    BY <2>3
  <2> QED
    BY <2>4 DEF n, m1, m2
<1>8. Len(bundle.permissions) + Len(bundle.clusterPermissions) + Len(bundle.objects)
        =< Len(CountWord)
  BY CountAssumption
<1>9. /\ Len(bundle.permissions) \in Nat /\ Len(bundle.clusterPermissions) \in Nat
      /\ Len(CountWord) \in Nat
  BY <1>6, WordsAssumption
<1> DEFINE a == RBACCount(gvk, Accounts)
           b == CountOf(OtherResources, gvk)
           l1 == Len(bundle.permissions)
           l2 == Len(bundle.clusterPermissions)
           l3 == Len(bundle.objects)
<1>10. /\ a \in Nat /\ b \in Nat /\ l1 \in Nat /\ l2 \in Nat /\ l3 \in Nat
       /\ a =< l1 + l2 /\ l1 + l2 + l3 =< Len(CountWord)
  BY <1>4, <1>7, <1>8, <1>9
<1>11. b =< l3
  BY <1>4
<1>12. CountOf(objs, gvk) = a + b
  BY <1>1, <1>3
<1> HIDE DEF a, b, l1, l2, l3
<1> QED
  BY <1>9, <1>10, <1>11, <1>12

MappingType ==
  \A key \in DOMAIN mapping :
    /\ key \in [name : Name, gvk : normalizedResourceTypes] /\ isOLMGeneratedName(key.name)
    /\ mapping[key] \in Name
    /\ ~isOLMGeneratedName(mapping[key])

\* The mapping has an entry for every generated name of a role or binding and for
\* no other, and no new name looks like a generated one.
LEMMA MappingBuilt ==
  ASSUME bundle \in Bundles, namespace \in Namespaces, NEW objs, Complete(objs)
  PROVE  LET m == buildResourceMappings(objs)
         IN  /\ \A i \in Generated(objs) : Key(objs[i]) \in DOMAIN m
             /\ \A key \in DOMAIN m : \E i \in Generated(objs) : key = Key(objs[i])
             /\ \A key \in DOMAIN m :
                  /\ key \in [name : Name, gvk : normalizedResourceTypes]
                  /\ isOLMGeneratedName(key.name)
                  /\ m[key] \in Name
                  /\ ~isOLMGeneratedName(m[key]) /\ EndsClean(m[key])
             /\ \A a, b \in DOMAIN m : a.gvk = b.gvk /\ m[a] = m[b] => a = b
<1> DEFINE m == buildResourceMappings(objs)
           last(key) == Latest({i \in Generated(objs) : Key(objs[i]) = key})
           before(key) == {i \in Generated(objs) : i < last(key) /\ objs[i].gvk = key.gvk}
<1>1. objs \in Seq(Object) /\ Len(objs) \in Nat
  BY DEF Complete, Gathered
<1>2. m = [key \in {Key(objs[i]) : i \in Generated(objs)} |->
             generateResourceName(getBaseName(objs), LowerKind[key.gvk.kind],
                                  Cardinality(before(key)))]
  BY DEF buildResourceMappings
<1> HIDE DEF m
<1>3. ASSUME NEW key \in DOMAIN m
      PROVE  /\ \E i \in Generated(objs) : key = Key(objs[i])
             /\ key \in [name : Name, gvk : normalizedResourceTypes]
             /\ isOLMGeneratedName(key.name)
  <2>1. PICK i \in Generated(objs) : key = Key(objs[i])
    BY <1>2
  <2>2. objs[i] \in Object /\ objs[i].gvk \in normalizedResourceTypes
        /\ isOLMGeneratedName(objs[i].name)
    BY <1>1, <2>1 DEF Generated
  <2>3. objs[i].name \in Name
    BY <2>2 DEF Object
  <2> QED
    BY <2>1, <2>2, <2>3 DEF Key
<1>4. ASSUME NEW key \in DOMAIN m
      PROVE  Cardinality(before(key)) \in Nat /\ Cardinality(before(key)) =< Len(CountWord)
  <2>1. before(key) \in SUBSET OfExactKind(objs, key.gvk)
    BY DEF Generated, OfExactKind
  <2> HIDE DEF before
  <2>2. IsFiniteSet(OfExactKind(objs, key.gvk)) /\ CountOf(objs, key.gvk) \in Nat
    BY <1>1, CountType
  <2>3. IsFiniteSet(before(key))
        /\ Cardinality(before(key)) =< Cardinality(OfExactKind(objs, key.gvk))
    BY <2>1, <2>2, FS_Subset
  <2>4. Cardinality(before(key)) \in Nat
    BY <2>3, FS_CardinalityType
  <2>5. key.gvk \in normalizedResourceTypes
    BY <1>3
  <2>6. CountOf(objs, key.gvk) =< Len(CountWord)
    BY <2>5, EnoughWords
  <2>7. Len(CountWord) \in Nat
    BY WordsAssumption
  <2>8. Cardinality(before(key)) =< CountOf(objs, key.gvk)
    BY <2>3 DEF CountOf
  <2> QED
    BY <2>2, <2>4, <2>6, <2>7, <2>8
<1>5. ASSUME NEW key \in DOMAIN m
      PROVE  m[key] \in Name /\ ~isOLMGeneratedName(m[key]) /\ EndsClean(m[key])
  <2>1. m[key] = generateResourceName(getBaseName(objs), LowerKind[key.gvk.kind],
                                      Cardinality(before(key)))
    BY <1>2
  <2> HIDE DEF before
  <2>2. key.gvk \in normalizedResourceTypes
    BY <1>3
  <2>3. LowerKind[key.gvk.kind] \in STRING /\ LowerKind[key.gvk.kind] \notin HashWords
    BY <2>2, KindWords
  <2>4. getBaseName(objs) \in Name
    BY <1>1, BaseNameType
  <2>5. /\ getBaseName(objs) \in Seq(STRING) /\ CountWord \in Seq(STRING)
        /\ \A i \in DOMAIN CountWord : CountWord[i] \notin HashWords
    BY <2>4, WordsAssumption DEF Name
  <2>6. Cardinality(before(key)) \in Nat /\ Cardinality(before(key)) =< Len(CountWord)
    BY <1>4
  <2>7. m[key] \in Seq(STRING) /\ ~isOLMGeneratedName(m[key]) /\ EndsClean(m[key])
    BY <2>1, <2>3, <2>5, <2>6, CleanName, Zenon
  <2> QED
    BY <2>7 DEF Name
<1>6. \A i \in Generated(objs) : Key(objs[i]) \in DOMAIN m
  BY <1>2
<1>7. ASSUME NEW key \in DOMAIN m
      PROVE  last(key) \in Generated(objs) /\ Key(objs[last(key)]) = key /\ last(key) \in Nat
  <2> DEFINE S == {i \in Generated(objs) : Key(objs[i]) = key}
  <2>1. \A i \in S : i \in 1 .. Len(objs)
    BY <1>1 DEF Generated
  <2>2. S # {}
    BY <1>3
  <2> HIDE DEF S
  <2>3. Latest(S) \in S
    BY <1>1, <2>1, <2>2, LatestIsLast
  <2> QED
    BY <1>1, <2>1, <2>3 DEF S
<1>8. ASSUME NEW a \in DOMAIN m, NEW b \in DOMAIN m, a.gvk = b.gvk, last(a) < last(b)
      PROVE  m[a] # m[b]
  <2>1. before(a) \in SUBSET before(b) /\ last(a) \notin before(a) /\ last(a) \in before(b)
    <3>1. last(a) \in Generated(objs) /\ Key(objs[last(a)]) = a
          /\ last(a) \in Nat /\ last(b) \in Nat
      BY <1>7
    <3>2. objs[last(a)].gvk = b.gvk
      BY <1>8, <3>1 DEF Key
    <3>3. \A i \in Generated(objs) : i \in Nat
      BY <1>1 DEF Generated
    <3> HIDE DEF last
    <3> QED
      BY <1>8, <3>1, <3>2, <3>3
  <2>2. /\ Cardinality(before(a)) \in 0 .. Len(CountWord)
        /\ Cardinality(before(b)) \in 0 .. Len(CountWord)
    <3>1. Len(CountWord) \in Nat
      BY WordsAssumption
    <3>2. /\ Cardinality(before(a)) \in Nat /\ Cardinality(before(a)) =< Len(CountWord)
          /\ Cardinality(before(b)) \in Nat /\ Cardinality(before(b)) =< Len(CountWord)
      BY <1>4
    <3> HIDE DEF before
    <3> QED
      BY <3>1, <3>2
  <2>3. IsFiniteSet(before(b))
    <3>1. before(b) \in SUBSET OfExactKind(objs, b.gvk)
      BY DEF Generated, OfExactKind
    <3> HIDE DEF before
    <3> QED
      BY <1>1, <3>1, CountType, FS_Subset
  <2>4. Cardinality(before(a)) # Cardinality(before(b))
    <3> HIDE DEF before
    <3> QED
      BY <2>1, <2>3, FS_Subset
  <2>5. /\ m[a] = generateResourceName(getBaseName(objs), LowerKind[a.gvk.kind],
                                       Cardinality(before(a)))
        /\ m[b] = generateResourceName(getBaseName(objs), LowerKind[a.gvk.kind],
                                       Cardinality(before(b)))
    BY <1>2, <1>8
  <2> HIDE DEF before
  <2>6. getBaseName(objs) \in Seq(STRING)
    BY <1>1, BaseNameType DEF Name
  <2>7. LowerKind[a.gvk.kind] \in STRING
    <3>1. a.gvk \in normalizedResourceTypes
      BY <1>3
    <3> QED
      BY <3>1, KindWords
  <2>8. CountWord \in Seq(STRING)
    BY WordsAssumption
  <2> QED
    BY <2>2, <2>4, <2>5, <2>6, <2>7, <2>8, CountsApart, Zenon
<1>9. ASSUME NEW a \in DOMAIN m, NEW b \in DOMAIN m, a.gvk = b.gvk, m[a] = m[b]
      PROVE  a = b
  <2>1. /\ last(a) \in Nat /\ last(b) \in Nat
        /\ Key(objs[last(a)]) = a /\ Key(objs[last(b)]) = b
    BY <1>7
  <2>2. ~(last(a) < last(b)) /\ ~(last(b) < last(a))
    BY <1>8, <1>9
  <2> HIDE DEF last
  <2>3. last(a) = last(b)
    BY <2>1, <2>2
  <2> QED
    BY <2>1, <2>3
<1> QED
  BY <1>3, <1>5, <1>6, <1>9 DEF m

-----------------------------------------------------------------------------
(* Renaming one manifest, and sorting the list. *)

RoleOf(bindingGVK) == IF bindingGVK = RoleBindingGVK THEN RoleGVK ELSE ClusterRoleGVK

WebhookGVKs == {ValidatingGVK, MutatingGVK}

\* What is left of a manifest: roles and bindings are renamed, bindings with the
\* role they refer to, configurations get some name, the others stay the same.
Cleaned(old, new) ==
  /\ new \in Object
  /\ new.gvk = old.gvk /\ new.valid = old.valid
  /\ old.gvk \in normalizedResourceTypes => new.name = NewName(old.gvk, old.name)
  /\ old.gvk \in {RoleGVK, ClusterRoleGVK} => new.spec = old.spec
  /\ old.gvk \in {RoleBindingGVK, ClusterRoleBindingGVK} /\ old.valid =>
       new.spec = [old.spec EXCEPT !.role = NewName(RoleOf(old.gvk), old.spec.role)]
  /\ old.gvk \notin normalizedResourceTypes /\ old.gvk \notin WebhookGVKs => new = old

LEMMA NewNameType ==
  ASSUME MappingType, NEW gvk, NEW name \in Name
  PROVE  /\ NewName(gvk, name) \in Name
         /\ gvk \notin normalizedResourceTypes => NewName(gvk, name) = name
<1> DEFINE key == [name |-> name, gvk |-> gvk]
<1>1. NewName(gvk, name) = IF key \in DOMAIN mapping THEN mapping[key] ELSE name
  BY DEF NewName
<1>2. key \in DOMAIN mapping => key \in [name : Name, gvk : normalizedResourceTypes]
                                /\ mapping[key] \in Name
  BY DEF MappingType
<1>3. key \in [name : Name, gvk : normalizedResourceTypes] => gvk \in normalizedResourceTypes
  OBVIOUS
<1> HIDE DEF key
<1> QED
  BY <1>1, <1>2, <1>3

LEMMA ObjectFields ==
  ASSUME NEW obj \in Object
  PROVE  /\ obj.gvk \in GVK /\ obj.name \in Name /\ obj.valid \in BOOLEAN
         /\ obj \in [gvk : GVK, name : Name, valid : BOOLEAN, spec : Spec_, inject : Name]
         /\ obj.valid => Converts(obj)
         /\ obj.valid /\ obj.gvk \in {RoleBindingGVK, ClusterRoleBindingGVK} => obj.spec \in BindingSpec
         /\ obj.valid /\ obj.gvk = DeploymentGVK => obj.spec \in DeploymentSpec
         /\ obj.valid /\ obj.gvk \in WebhookGVKs => obj.spec \in WebhookSpec
<1>1. /\ obj \in [gvk : GVK, name : Name, valid : BOOLEAN, spec : Spec_, inject : Name]
      /\ obj.valid => Converts(obj)
  BY DEF Object
<1>2. obj.gvk \in {RoleBindingGVK, ClusterRoleBindingGVK} => IsBinding(obj)
  BY DEF IsBinding, IsKind
<1>3. obj.gvk = DeploymentGVK => IsKind(obj, DeploymentGVK)
  BY DEF IsKind
<1>4. obj.gvk \in WebhookGVKs => IsWebhookConfiguration(obj)
  BY DEF WebhookGVKs, IsWebhookConfiguration, IsKind
<1> QED
  BY <1>1, <1>2, <1>3, <1>4 DEF Converts

LEMMA RenamedObject ==
  ASSUME MappingType, NEW old \in Object, NEW name \in Name,
         old.gvk \in PlainGVKs \/ old.gvk \in {RoleBindingGVK, ClusterRoleBindingGVK}
           \/ old.gvk \in WebhookGVKs
  PROVE  /\ [old EXCEPT !.name = name] \in Object
         /\ [old EXCEPT !.name = name].gvk = old.gvk
         /\ [old EXCEPT !.name = name].name = name
         /\ [old EXCEPT !.name = name].valid = old.valid
         /\ [old EXCEPT !.name = name].spec = old.spec
<1> DEFINE new == [old EXCEPT !.name = name]
<1>1. /\ new \in [gvk : GVK, name : Name, valid : BOOLEAN, spec : Spec_, inject : Name]
      /\ new.gvk = old.gvk /\ new.name = name /\ new.valid = old.valid /\ new.spec = old.spec
  BY ObjectFields
<1> HIDE DEF new
<1>2. Converts(old) => Converts(new)
  BY <1>1 DEF Converts, IsKind, IsWebhookConfiguration, IsBinding
<1>3. old.valid => Converts(old)
  BY ObjectFields
<1>4. new \in Object
  BY <1>1, <1>2, <1>3 DEF Object
<1> QED
  BY <1>1, <1>4 DEF new

LEMMA BindingNormalized ==
  ASSUME MappingType, NEW old \in Object, old.valid,
         old.gvk \in {RoleBindingGVK, ClusterRoleBindingGVK}
  PROVE  LET new == normalizeBinding(old, RoleOf(old.gvk))
         IN  /\ new \in Object /\ new.gvk = old.gvk /\ new.valid = old.valid
             /\ new.name = NewName(old.gvk, old.name)
             /\ new.spec = [old.spec EXCEPT !.role = NewName(RoleOf(old.gvk), old.spec.role)]
<1> DEFINE name == NewName(old.gvk, old.name)
           role == NewName(RoleOf(old.gvk), old.spec.role)
           new == normalizeBinding(old, RoleOf(old.gvk))
           spec == [old.spec EXCEPT !.role = role]
<1>1. old.spec \in BindingSpec /\ old.name \in Name
      /\ old \in [gvk : GVK, name : Name, valid : BOOLEAN, spec : Spec_, inject : Name]
  BY ObjectFields
<1>2. old.spec.role \in Name
  BY <1>1 DEF BindingSpec
<1>3. name \in Name /\ role \in Name
  BY <1>1, <1>2, NewNameType
<1>4. new = [[old EXCEPT !.name = name] EXCEPT !.spec.role = role]
  BY DEF normalizeBinding, Renamed
<1> HIDE DEF name, role
<1>5. spec \in BindingSpec
  BY <1>1, <1>3 DEF BindingSpec
<1>6. /\ new.gvk = old.gvk /\ new.name = name /\ new.valid = old.valid
      /\ new.spec = spec /\ new.inject = old.inject
      /\ new = [gvk |-> old.gvk, name |-> name, valid |-> old.valid, spec |-> spec,
                inject |-> old.inject]
  BY <1>1, <1>4
<1> HIDE DEF new, spec
<1>7. spec \in Spec_
  BY <1>5 DEF Spec_
<1>8. new \in [gvk : GVK, name : Name, valid : BOOLEAN, spec : Spec_, inject : Name]
  BY <1>1, <1>3, <1>6, <1>7
<1>9. Converts(new)
  BY <1>5, <1>6, ConvertsByKind
<1>10. new \in Object
  BY <1>8, <1>9 DEF Object
<1> QED
  BY <1>6, <1>10 DEF new, name, spec, role

LEMMA WebhookNameType ==
  ASSUME objects \in Seq(Object), NEW name \in Name, NEW type \in {"validating", "mutating"}
  PROVE  normalizeWebhookName(name, type) \in Name
<1> DEFINE base == IF deploymentName(objects) = NoName THEN <<"operator">> ELSE deploymentName(objects)
<1>1. <<"operator">> \in Seq(STRING)
  <2>1. "operator" \in STRING
    BY LiteralsAreStrings
  <2> QED
    BY <2>1
<1>2. base \in Seq(STRING)
  BY <1>1, DeploymentNameType DEF Name
<1>3. <<type, "webhook">> \in Seq(STRING)
  <2>1. {"validating", "mutating"} \subseteq STRING /\ "webhook" \in STRING
    BY LiteralsAreStrings, ManifestLiterals, Zenon
  <2> QED
    BY <2>1
<1>4. base \o <<type, "webhook">> \in Seq(STRING)
  <2> HIDE DEF base
  <2> DEFINE tail == <<type, "webhook">>
  <2>1. tail \in Seq(STRING)
    BY <1>3
  <2> HIDE DEF tail
  <2>2. base \o tail \in Seq(STRING)
    BY <1>2, <2>1
  <2> QED
    BY <2>2 DEF tail
<1>5. \/ normalizeWebhookName(name, type) = base \o <<type, "webhook">>
      \/ normalizeWebhookName(name, type) = name
  BY DEF normalizeWebhookName
<1> HIDE DEF base
<1> QED
  BY <1>4, <1>5 DEF Name

\* What applyNameMapping does to one manifest.
LEMMA Normalized ==
  ASSUME MappingType, objects \in Seq(Object), NEW old \in Object, ~ConversionFails(old)
  PROVE  Cleaned(old, normalizeObject(old))
<1> DEFINE new == normalizeObject(old)
<1>1. /\ old.name \in Name
      /\ old.valid \in BOOLEAN
      /\ old \in [gvk : GVK, name : Name, valid : BOOLEAN, spec : Spec_, inject : Name]
  BY ObjectFields
<1>2. CASE old.gvk \in {RoleGVK, ClusterRoleGVK, ServiceAccountGVK}
  <2>1. new = [old EXCEPT !.name = NewName(old.gvk, old.name)]
    <3>1. /\ old.gvk # RoleBindingGVK /\ old.gvk # ClusterRoleBindingGVK
          /\ old.gvk # DeploymentGVK /\ old.gvk # ValidatingGVK /\ old.gvk # MutatingGVK
      BY <1>2, ManifestKinds
    <3> QED
      BY <1>2, <3>1 DEF normalizeObject, Renamed
  <2>2. NewName(old.gvk, old.name) \in Name
        /\ (old.gvk \notin normalizedResourceTypes => NewName(old.gvk, old.name) = old.name)
    BY <1>1, NewNameType
  <2> DEFINE name == NewName(old.gvk, old.name)
  <2>3. old.gvk \in PlainGVKs
    BY <1>2 DEF PlainGVKs
  <2> HIDE DEF new, name
  <2>4. /\ [old EXCEPT !.name = name] \in Object /\ [old EXCEPT !.name = name].gvk = old.gvk
        /\ [old EXCEPT !.name = name].name = name /\ [old EXCEPT !.name = name].valid = old.valid
        /\ [old EXCEPT !.name = name].spec = old.spec
    BY <2>2, <2>3, RenamedObject DEF name
  <2>5. old.gvk \notin {RoleBindingGVK, ClusterRoleBindingGVK}
    BY <1>2, ManifestKinds
  <2>6. name = old.name => [old EXCEPT !.name = name] = old
    BY <1>1
  <2>7. new = [old EXCEPT !.name = name]
    BY <2>1 DEF name
  <2> QED
    BY <2>2, <2>4, <2>5, <2>6, <2>7 DEF Cleaned, name, new
<1>3. CASE old.gvk \in {RoleBindingGVK, ClusterRoleBindingGVK}
  <2>1. old.gvk \notin {RoleGVK, ClusterRoleGVK, ServiceAccountGVK}
        /\ RoleBindingGVK # ClusterRoleBindingGVK /\ old.gvk \in normalizedResourceTypes
    BY <1>3, ManifestKinds DEF normalizedResourceTypes
  <2>2. old.valid
    BY <1>1, <1>3 DEF ConversionFails
  <2>3. new = normalizeBinding(old, RoleOf(old.gvk))
    <3>1. old.gvk # DeploymentGVK /\ old.gvk # ValidatingGVK /\ old.gvk # MutatingGVK
      BY <1>3, ManifestKinds
    <3> QED
      BY <1>3, <2>1, <3>1 DEF normalizeObject, RoleOf
  <2>4. /\ new \in Object /\ new.gvk = old.gvk /\ new.valid = old.valid
        /\ new.name = NewName(old.gvk, old.name)
        /\ new.spec = [old.spec EXCEPT !.role = NewName(RoleOf(old.gvk), old.spec.role)]
    BY <1>3, <2>2, <2>3, BindingNormalized
  <2> HIDE DEF new
  <2> QED
    BY <2>1, <2>4 DEF Cleaned, new
<1>4. CASE old.gvk = DeploymentGVK
  <2>1. /\ old.gvk \notin {RoleGVK, ClusterRoleGVK, ServiceAccountGVK}
        /\ old.gvk # RoleBindingGVK /\ old.gvk # ClusterRoleBindingGVK
        /\ old.gvk \notin normalizedResourceTypes
        /\ ServiceAccountGVK \notin normalizedResourceTypes
    BY <1>4, ManifestKinds DEF normalizedResourceTypes
  <2>2. old.valid
    BY <1>1, <1>4 DEF ConversionFails
  <2>3. old.spec \in DeploymentSpec
    BY <1>4, <2>2, ObjectFields
  <2>4. old.spec.account \in Name
    BY <2>3 DEF DeploymentSpec
  <2>5. NewName(ServiceAccountGVK, old.spec.account) = old.spec.account
    BY <2>1, <2>4, NewNameType
  <2>6. new = [old EXCEPT !.spec.account = NewName(ServiceAccountGVK, old.spec.account)]
    <3>1. old.gvk # ValidatingGVK /\ old.gvk # MutatingGVK
      BY <1>4, ManifestKinds
    <3> QED
      BY <1>4, <2>1, <3>1 DEF normalizeObject
  <2>7. [old.spec EXCEPT !.account = old.spec.account] = old.spec
    BY <2>3 DEF DeploymentSpec
  <2> HIDE DEF new
  <2>8. new = old
    BY <1>1, <2>5, <2>6, <2>7
  <2>9. old.gvk \notin {RoleBindingGVK, ClusterRoleBindingGVK} /\ old.gvk \notin {RoleGVK, ClusterRoleGVK}
    BY <2>1
  <2> QED
    BY <2>1, <2>8, <2>9 DEF Cleaned, new
<1>5. CASE old.gvk \in WebhookGVKs
  <2>1. /\ old.gvk \notin {RoleGVK, ClusterRoleGVK, ServiceAccountGVK}
        /\ old.gvk # RoleBindingGVK /\ old.gvk # ClusterRoleBindingGVK
        /\ old.gvk # DeploymentGVK /\ ValidatingGVK # MutatingGVK
        /\ old.gvk \notin normalizedResourceTypes
    BY <1>5, ManifestKinds DEF WebhookGVKs, normalizedResourceTypes
  <2>2. \E type \in {"validating", "mutating"} :
          new = [old EXCEPT !.name = normalizeWebhookName(old.name, type)]
    BY <1>5, <2>1 DEF normalizeObject, WebhookGVKs
  <2>3. \E name \in Name : new = [old EXCEPT !.name = name]
    BY <1>1, <2>2, WebhookNameType
  <2> HIDE DEF new
  <2>4. new \in Object /\ new.gvk = old.gvk /\ new.valid = old.valid
    BY <1>5, <2>3, RenamedObject
  <2>5. old.gvk \notin {RoleBindingGVK, ClusterRoleBindingGVK} /\ old.gvk \notin {RoleGVK, ClusterRoleGVK}
    BY <2>1
  <2> QED
    BY <1>5, <2>1, <2>4, <2>5 DEF Cleaned, new
<1>6. CASE /\ old.gvk \notin {RoleGVK, ClusterRoleGVK, ServiceAccountGVK}
           /\ old.gvk \notin {RoleBindingGVK, ClusterRoleBindingGVK}
           /\ old.gvk # DeploymentGVK /\ old.gvk \notin WebhookGVKs
  <2>1. new = old
    BY <1>6 DEF normalizeObject, WebhookGVKs
  <2>2. old.gvk \notin normalizedResourceTypes /\ old.gvk \notin {RoleGVK, ClusterRoleGVK}
    BY <1>6 DEF normalizedResourceTypes
  <2> HIDE DEF new
  <2> QED
    BY <1>6, <2>1, <2>2 DEF Cleaned, new
<1> QED
  BY <1>2, <1>3, <1>4, <1>5, <1>6

\* With nothing to rename a list is its own clean form.
LEMMA CleanedAlready ==
  DOMAIN mapping = {} => \A obj \in Object : Cleaned(obj, obj)
<1> SUFFICES ASSUME DOMAIN mapping = {}, NEW obj \in Object
             PROVE  Cleaned(obj, obj)
  OBVIOUS
<1>1. \A gvk, name : NewName(gvk, name) = name
  BY DEF NewName
<1>2. obj.valid /\ obj.gvk \in {RoleBindingGVK, ClusterRoleBindingGVK} =>
        [obj.spec EXCEPT !.role = obj.spec.role] = obj.spec
  <2>1. obj.valid /\ obj.gvk \in {RoleBindingGVK, ClusterRoleBindingGVK} => obj.spec \in BindingSpec
    BY ObjectFields
  <2> QED
    BY <2>1 DEF BindingSpec
<1> QED
  BY <1>1, <1>2 DEF Cleaned

LEMMA ResourcePriorityType == \A obj : getResourcePriority(obj) \in Nat
<1>1. priorityOther \in Nat
  BY DEF priorityOther, KindOrder
<1> QED
  BY <1>1, PriorityType DEF getResourcePriority

\* The sort permutes the list into the order of the kinds (sortKubernetesResources).
LEMMA ResourcesSorted ==
  ASSUME NEW objs \in Seq(Object)
  PROVE  LET sorted == sortKubernetesResources(objs)
         IN  /\ sorted \in Seq(Object) /\ DOMAIN sorted = DOMAIN objs /\ Len(sorted) = Len(objs)
             /\ \E from \in Bijection(DOMAIN objs, DOMAIN objs) :
                  \A place \in DOMAIN objs : sorted[place] = objs[from[place]]
             /\ \A p, q \in DOMAIN sorted :
                  p < q => getResourcePriority(sorted[p]) =< getResourcePriority(sorted[q])
<1> DEFINE prio == [i \in DOMAIN objs |-> getResourcePriority(objs[i])]
           sorted == sortKubernetesResources(objs)
<1>1. prio \in [DOMAIN objs -> Nat]
  BY ResourcePriorityType
<1>2. PICK from \in Bijection(DOMAIN objs, DOMAIN objs) :
        /\ StableSort(objs, prio) = [place \in DOMAIN objs |-> objs[from[place]]]
        /\ \A p, q \in DOMAIN objs : p < q => prio[from[p]] =< prio[from[q]]
  BY <1>1, StableSortPermutes
<1>3. \A place \in DOMAIN objs : from[place] \in DOMAIN objs
  BY <1>2 DEF Bijection, Injection
<1>4. sorted = [place \in DOMAIN objs |-> objs[from[place]]]
  BY <1>2 DEF sortKubernetesResources
<1>5. \A place \in DOMAIN objs : getResourcePriority(objs[from[place]]) = prio[from[place]]
  BY <1>3
<1> HIDE DEF sorted, prio
<1>6. DOMAIN objs = 1 .. Len(objs) /\ Len(objs) \in Nat
  OBVIOUS
<1>7. sorted \in Seq(Object) /\ Len(sorted) = Len(objs) /\ DOMAIN sorted = DOMAIN objs
  BY <1>3, <1>4, <1>6
<1>8. \A place \in DOMAIN objs : sorted[place] = objs[from[place]]
  BY <1>4
<1>9. \A p, q \in DOMAIN sorted :
        p < q => getResourcePriority(sorted[p]) =< getResourcePriority(sorted[q])
  BY <1>2, <1>5, <1>7, <1>8
<1> QED
  BY <1>7, <1>8, <1>9 DEF sorted

\* The places of the kinds that refer to each other.
LEMMA ReferencePriorities ==
  ASSUME NEW obj
  PROVE  /\ obj.gvk = ServiceAccountGVK => getResourcePriority(obj) = 3
         /\ obj.gvk = RoleGVK => getResourcePriority(obj) = 4
         /\ obj.gvk = RoleBindingGVK => getResourcePriority(obj) = 5
         /\ obj.gvk = ClusterRoleGVK => getResourcePriority(obj) = 6
         /\ obj.gvk = ClusterRoleBindingGVK => getResourcePriority(obj) = 7
         /\ obj.gvk = DeploymentGVK => getResourcePriority(obj) = 8
<1> DEFINE known == {p \in DOMAIN KindOrder : obj.gvk.kind \in KindOrder[p]}
<1>1. DOMAIN KindOrder = 1 .. 12
  BY DEF KindOrder
<1>2. ASSUME NEW k \in 1 .. 12, known = {k}
      PROVE  getUnstructuredPriority(obj) = k
  <2>1. (CHOOSE p \in known : TRUE) \in known
    BY <1>2, Zenon
  <2>2. getUnstructuredPriority(obj) = CHOOSE p \in known : TRUE
    BY <1>2 DEF getUnstructuredPriority
  <2> HIDE DEF known
  <2> QED
    BY <1>2, <2>1, <2>2
<1>3. /\ obj.gvk.kind = "ServiceAccount" => known = {3}
      /\ obj.gvk.kind = "Role" => known = {4}
      /\ obj.gvk.kind = "RoleBinding" => known = {5}
  BY <1>1 DEF KindOrder
<1>4. /\ obj.gvk.kind = "ClusterRole" => known = {6}
      /\ obj.gvk.kind = "ClusterRoleBinding" => known = {7}
      /\ obj.gvk.kind = "Deployment" => known = {8}
  BY <1>1 DEF KindOrder
<1>5. /\ ServiceAccountGVK \in KnownGVKs /\ RoleGVK \in KnownGVKs /\ RoleBindingGVK \in KnownGVKs
      /\ ClusterRoleGVK \in KnownGVKs /\ ClusterRoleBindingGVK \in KnownGVKs
      /\ DeploymentGVK \in KnownGVKs
  BY Zenon DEF KnownGVKs
<1> HIDE DEF known
<1>6. obj.gvk \in KnownGVKs => getResourcePriority(obj) = getUnstructuredPriority(obj)
  BY DEF getResourcePriority
<1> QED
  BY <1>2, <1>3, <1>4, <1>5, <1>6, ManifestKinds

-----------------------------------------------------------------------------
(* The inductive invariant. *)

\* No two resources of a kind get one name, and none a name that OLM generates.
MappingApart ==
  /\ \A a, b \in DOMAIN mapping : a.gvk = b.gvk /\ mapping[a] = mapping[b] => a = b
  /\ \A key \in DOMAIN mapping : EndsClean(mapping[key])

\* A complete list whose generated names are all in the mapping.
Renamable(orig) ==
  /\ Complete(orig)
  /\ MappingApart
  /\ \A i \in Generated(orig) : Key(orig[i]) \in DOMAIN mapping

CleanedFrom(orig, from) ==
  /\ Renamable(orig)
  /\ from \in Bijection(DOMAIN objects, DOMAIN orig)
  /\ \A i \in DOMAIN objects : Cleaned(orig[from[i]], objects[i])

Phases == {"start", "strategy", "permissions", "webhooks", "others", "mapping"}

Types ==
  /\ bundle \in Bundles
  /\ namespace \in Namespaces
  /\ pc \in Phases \cup {"renaming", "sort", "done", "failed"}
  /\ \A account \in pending : account \in Accounts
  /\ pc # "permissions" => pending = {}
  /\ objects \in Seq(Object)
  /\ MappingType
  /\ pc \in Phases => pos = 1
  /\ pos \in 1 .. Len(objects) + 1 \/ pc = "failed"
  /\ previous \in Seq(Object)
  /\ runs \in 1 .. MaxRuns

\* The list holds what the phases so far bring.
Gathering ==
  /\ pc = "start" => objects = <<>>
  /\ pc = "strategy" => Gathered(objects, {}, CRDsIn)
  /\ pc = "permissions" => Gathered(objects, Accounts \ pending, CRDsIn)
  /\ pc = "webhooks" => Gathered(objects, Accounts, DeploymentsIn)
  /\ pc = "others" => Gathered(objects, Accounts, WebhooksIn)
  /\ pc = "mapping" => Complete(objects)

\* Front to back the list becomes the clean form of a complete one.
HalfClean ==
  pc = "renaming" =>
    \E orig : /\ Renamable(orig) /\ Len(orig) = Len(objects)
              /\ \A i \in DOMAIN objects : IF i < pos THEN Cleaned(orig[i], objects[i])
                                                      ELSE objects[i] = orig[i]

Clean == pc \in {"sort", "done"} => \E orig, from : CleanedFrom(orig, from)

InOrder ==
  pc = "done" => \A i, j \in DOMAIN objects :
                   i < j => getResourcePriority(objects[i]) =< getResourcePriority(objects[j])

IInv == Types /\ Gathering /\ HalfClean /\ Clean /\ InOrder

\* What depends on the bundle and the namespace alone does not change.
LEMMA Unmoved ==
  ASSUME bundle' = bundle, namespace' = namespace
  PROVE  /\ Accounts' = Accounts /\ CRDsIn' = CRDsIn /\ DeploymentsIn' = DeploymentsIn
         /\ WebhooksIn' = WebhooksIn /\ Rest' = Rest
         /\ \A objs, accounts, rest :
              Gathered(objs, accounts, rest)' <=> Gathered(objs, accounts, rest)
         /\ \A objs : Complete(objs)' <=> Complete(objs)
<1>1. Accounts' = Accounts
  BY DEF Accounts, PermissionLists
<1>2. \A crd : WithConversion(crd)' = WithConversion(crd)
  BY DEF WithConversion, Converting
<1>3. CRDsIn' = CRDsIn
  BY <1>2 DEF CRDsIn, CRDs, NamespaceObjects
<1>4. DeploymentsIn' = DeploymentsIn
  BY <1>3 DEF DeploymentsIn
<1>5. WebhookServices' = WebhookServices /\ Webhooks' = Webhooks
  BY DEF WebhookServices, Webhooks, FirstOfDeployment, AdmissionWebhooks, Each, Chosen
<1>6. WebhooksIn' = WebhooksIn
  BY <1>4, <1>5 DEF WebhooksIn
<1>7. Rest' = Rest
  BY <1>6 DEF Rest, OtherResources
<1>8. ASSUME NEW objs, NEW accounts, NEW rest
      PROVE  Gathered(objs, accounts, rest)' <=> Gathered(objs, accounts, rest)
  <2>1. \A gvk : RBACCount(gvk, accounts)' = RBACCount(gvk, accounts)
    BY DEF RBACCount
  <2>2. /\ \A gvk, p : RoleFor(gvk, p)' = RoleFor(gvk, p)
        /\ \A gvk, kind, p : BindingFor(gvk, kind, p)' = BindingFor(gvk, kind, p)
    BY DEF RoleFor, BindingFor, GeneratedName
  <2>3. GivenTo(accounts, objs)' <=> GivenTo(accounts, objs)
    BY <2>2 DEF GivenTo
  <2>4. \A x : Brought(x, accounts)' <=> Brought(x, accounts)
    BY <2>2 DEF Brought
  <2> QED
    BY <2>1, <2>3, <2>4 DEF Gathered
<1>9. ASSUME NEW objs PROVE Complete(objs)' <=> Complete(objs)
  BY <1>1, <1>7, <1>8 DEF Complete
<1> QED
  BY <1>1, <1>3, <1>4, <1>6, <1>7, <1>8, <1>9

LEMMA MappingUnmoved ==
  ASSUME bundle' = bundle, namespace' = namespace, mapping' = mapping
  PROVE  /\ MappingType' <=> MappingType
         /\ \A orig : Renamable(orig)' <=> Renamable(orig)
         /\ \A old, new : Cleaned(old, new)' <=> Cleaned(old, new)
<1>1. MappingType' <=> MappingType
  BY DEF MappingType
<1>2. ASSUME NEW orig PROVE Renamable(orig)' <=> Renamable(orig)
  BY Unmoved DEF Renamable, MappingApart, EndsClean
<1>3. ASSUME NEW old, NEW new PROVE Cleaned(old, new)' <=> Cleaned(old, new)
  BY DEF Cleaned, NewName
<1> QED
  BY <1>1, <1>2, <1>3

LEMMA Initially == Init => IInv
<1> SUFFICES ASSUME Init PROVE IInv
  OBVIOUS
<1>1. Types
  <2>1. /\ bundle \in Bundles /\ namespace \in Namespaces /\ pc = "start" /\ pending = {}
        /\ objects = <<>> /\ mapping = <<>> /\ pos = 1 /\ previous = <<>> /\ runs = 1
    BY DEF Init
  <2>2. MappingType
    BY <2>1 DEF MappingType
  <2>3. 1 \in 1 .. MaxRuns
    BY MaxRunsAssumption
  <2>4. <<>> \in Seq(Object) /\ 1 \in 1 .. Len(<<>>) + 1
    OBVIOUS
  <2> QED
    BY <2>1, <2>2, <2>3, <2>4 DEF Types, Phases
<1> QED
  BY <1>1 DEF IInv, Init, Gathering, HalfClean, Clean, InOrder

-----------------------------------------------------------------------------
(* Every step preserves it. *)

\* A phase that appends a list to the rest.
LEMMA CollectStep ==
  ASSUME IInv, NEW next \in Phases, NEW list \in Seq(Object), objects' = objects \o list,
         pc' = next, next \notin {"start", "permissions"}, pending = {}, pc \in Phases,
         UNCHANGED <<bundle, namespace, pending, mapping, pos, previous, runs>>,
         next = "strategy" => Gathered(objects \o list, {}, CRDsIn),
         next = "webhooks" => Gathered(objects \o list, Accounts, DeploymentsIn),
         next = "others" => Gathered(objects \o list, Accounts, WebhooksIn),
         next = "mapping" => Complete(objects \o list)
  PROVE  IInv'
<1> USE DEF IInv
<1>1. bundle' = bundle /\ namespace' = namespace /\ mapping' = mapping
  OBVIOUS
<1>2. Types'
  <2>1. objects' \in Seq(Object) /\ Len(objects') \in Nat
    BY DEF Types
  <2>2. pos' = 1 /\ 1 \in 1 .. Len(objects') + 1
    BY <2>1 DEF Types
  <2> QED
    BY <1>1, <2>1, <2>2, Unmoved, MappingUnmoved DEF Types
<1>3. Gathering'
  BY <1>1, Unmoved DEF Gathering, Phases
<1>4. pc' \notin {"renaming", "sort", "done"}
  BY DEF Phases
<1>5. HalfClean' /\ Clean' /\ InOrder'
  BY <1>4 DEF HalfClean, Clean, InOrder
<1> QED
  BY <1>2, <1>3, <1>5

LEMMA CRDsStep == ASSUME IInv, CollectCRDs PROVE IInv'
<1>1. /\ pc = "start" /\ pc' = "strategy" /\ objects' = objects \o CRDsIn
      /\ UNCHANGED <<bundle, namespace, pending, mapping, pos, previous, runs>>
  BY DEF CollectCRDs, Collect, CRDsIn
<1>2. bundle \in Bundles /\ namespace \in Namespaces /\ pending = {} /\ objects = <<>>
  BY <1>1 DEF IInv, Types, Gathering
<1>3. CRDsIn \in Seq(Object)
  BY <1>2, RestTypes
<1>4. Gathered(<<>> \o CRDsIn, {}, <<>> \o CRDsIn) /\ <<>> \o CRDsIn = CRDsIn
  <2>1. Gathered(<<>>, {}, <<>>)
    BY <1>2, GatheredNone
  <2>2. \A list \in Seq(Object) : <<>> \o list = list
    OBVIOUS
  <2> DEFINE none == <<>>
  <2>3. Gathered(none, {}, none)
    BY <2>1
  <2> HIDE DEF none
  <2>4. Gathered(none \o CRDsIn, {}, none \o CRDsIn)
    BY <1>2, <1>3, <2>3, GatheredRest
  <2> QED
    BY <1>3, <2>2, <2>4 DEF none
<1>5. pc \in Phases /\ "strategy" \in Phases
  BY <1>1 DEF Phases
<1> QED
  BY <1>1, <1>2, <1>3, <1>4, <1>5, CollectStep

LEMMA DeploymentsStep == ASSUME IInv, CollectDeployments PROVE IInv'
<1>1. /\ pc = "permissions" /\ pc' = "webhooks" /\ objects' = objects \o bundle.deployments
      /\ UNCHANGED <<bundle, namespace, pending, mapping, pos, previous, runs>>
      /\ pending = {}
  BY DEF CollectDeployments, Collect
<1>2. bundle \in Bundles /\ namespace \in Namespaces /\ Gathered(objects, Accounts \ pending, CRDsIn)
  BY <1>1 DEF IInv, Types, Gathering
<1>3. bundle.deployments \in Seq(Object) /\ DeploymentsIn = CRDsIn \o bundle.deployments
  BY <1>2, RestTypes DEF DeploymentsIn
<1>4. Accounts \ pending = Accounts
  BY <1>1
<1>5. Gathered(objects \o bundle.deployments, Accounts, DeploymentsIn)
  BY <1>2, <1>3, <1>4, GatheredRest
<1>6. pc \in Phases /\ "webhooks" \in Phases
  BY <1>1 DEF Phases
<1> QED
  BY <1>1, <1>3, <1>5, <1>6, CollectStep

LEMMA WebhooksStep == ASSUME IInv, CollectWebhooks PROVE IInv'
<1> DEFINE list == WebhookServices \o Webhooks
<1>1. /\ pc = "webhooks" /\ pc' = "others" /\ objects' = objects \o list
      /\ UNCHANGED <<bundle, namespace, pending, mapping, pos, previous, runs>>
  BY DEF CollectWebhooks, Collect
<1>2. bundle \in Bundles /\ namespace \in Namespaces /\ pending = {}
      /\ Gathered(objects, Accounts, DeploymentsIn)
  BY <1>1 DEF IInv, Types, Gathering
<1>3. list \in Seq(Object) /\ WebhooksIn = DeploymentsIn \o list
  BY <1>2, RestTypes DEF WebhooksIn
<1> HIDE DEF list
<1>4. Gathered(objects \o list, Accounts, WebhooksIn)
  BY <1>2, <1>3, GatheredRest
<1>5. pc \in Phases /\ "others" \in Phases
  BY <1>1 DEF Phases
<1> QED
  BY <1>1, <1>2, <1>3, <1>4, <1>5, CollectStep

LEMMA OthersStep == ASSUME IInv, CollectOthers PROVE IInv'
<1>1. /\ pc = "others" /\ pc' = "mapping" /\ objects' = objects \o OtherResources
      /\ UNCHANGED <<bundle, namespace, pending, mapping, pos, previous, runs>>
  BY DEF CollectOthers, Collect
<1>2. bundle \in Bundles /\ namespace \in Namespaces /\ pending = {}
      /\ Gathered(objects, Accounts, WebhooksIn)
  BY <1>1 DEF IInv, Types, Gathering
<1>3. OtherResources \in Seq(Object) /\ Rest = WebhooksIn \o OtherResources
  BY <1>2, RestTypes DEF Rest
<1>4. Complete(objects \o OtherResources)
  BY <1>2, <1>3, GatheredRest DEF Complete
<1>5. pc \in Phases /\ "mapping" \in Phases
  BY <1>1 DEF Phases
<1> QED
  BY <1>1, <1>2, <1>3, <1>4, <1>5, CollectStep

LEMMA FailStep ==
  ASSUME IInv, Fail, pc # "permissions"
  PROVE  IInv'
<1>1. /\ pc' = "failed" /\ objects' = <<>>
      /\ UNCHANGED <<bundle, namespace, pending, mapping, pos, previous, runs>>
  BY DEF Fail
<1>2. Types'
  BY <1>1, Unmoved, MappingUnmoved DEF IInv, Types, Phases
<1>3. Gathering' /\ HalfClean' /\ Clean' /\ InOrder'
  BY <1>1 DEF Gathering, HalfClean, Clean, InOrder
<1> QED
  BY <1>2, <1>3 DEF IInv

LEMMA GenerateStep == ASSUME IInv, GenerateRBAC PROVE IInv'
<1>1. /\ pc = "strategy" /\ pc' = "permissions" /\ pending' = Accounts
      /\ UNCHANGED <<bundle, namespace, objects, mapping, pos, previous, runs>>
  BY DEF GenerateRBAC
<1>2. Gathered(objects, {}, CRDsIn) /\ Types
  BY <1>1 DEF IInv, Gathering
<1>3. Types'
  BY <1>1, <1>2, Unmoved, MappingUnmoved DEF Types, Phases
<1>4. Gathering'
  <2>1. Accounts' \ pending' = {}
    BY <1>1, Unmoved
  <2>2. Gathered(objects, {}, CRDsIn)'
    BY <1>1, <1>2, Unmoved
  <2> QED
    BY <1>1, <2>1, <2>2 DEF Gathering
<1>5. HalfClean' /\ Clean' /\ InOrder'
  BY <1>1 DEF HalfClean, Clean, InOrder
<1> QED
  BY <1>3, <1>4, <1>5 DEF IInv

LEMMA AccountStep ==
  ASSUME IInv, NEW account \in pending, CollectAccount(account)
  PROVE  IInv'
<1>1. /\ pc = "permissions" /\ pc' = "permissions" /\ pending' = pending \ {account}
      /\ objects' = objects \o AccountObjects(account)
      /\ UNCHANGED <<bundle, namespace, mapping, pos, previous, runs>>
  BY DEF CollectAccount
<1>2. Gathered(objects, Accounts \ pending, CRDsIn) /\ Types
  BY <1>1 DEF IInv, Gathering
<1>3. bundle \in Bundles /\ account \in Accounts /\ account \in Name
  BY <1>2, AccountsType DEF Types
<1>4. (Accounts \ pending) \cup {account} = Accounts \ pending'
  BY <1>1, <1>3
<1>5. Gathered(objects', Accounts \ pending', CRDsIn)
  <2>1. Gathered(objects \o AccountObjects(account), (Accounts \ pending) \cup {account}, CRDsIn)
    BY <1>2, <1>3, GatheredAccount
  <2> QED
    BY <1>1, <1>4, <2>1
<1>6. Types'
  <2>1. objects' \in Seq(Object) /\ Len(objects') \in Nat
    BY <1>5 DEF Gathered
  <2>2. pos' = 1 /\ 1 \in 1 .. Len(objects') + 1
    BY <1>1, <1>2, <2>1 DEF Types, Phases
  <2> QED
    BY <1>1, <1>2, <2>1, <2>2, Unmoved, MappingUnmoved DEF Types, Phases
<1>7. Gathering'
  BY <1>1, <1>5, Unmoved DEF Gathering
<1>8. HalfClean' /\ Clean' /\ InOrder'
  BY <1>1 DEF HalfClean, Clean, InOrder
<1> QED
  BY <1>6, <1>7, <1>8 DEF IInv

LEMMA IdentityBijection ==
  ASSUME NEW S
  PROVE  [i \in S |-> i] \in Bijection(S, S)
BY DEF Bijection, Injection, Surjection, IsInjective

\* A list that is clean position by position.
InPlace(orig) ==
  /\ Renamable(orig) /\ DOMAIN orig = DOMAIN objects
  /\ \A i \in DOMAIN objects : Cleaned(orig[i], objects[i])

LEMMA CleanInPlace == (\E orig : InPlace(orig)) => \E orig, from : CleanedFrom(orig, from)
<1> SUFFICES ASSUME NEW orig, Renamable(orig), DOMAIN orig = DOMAIN objects,
                    \A i \in DOMAIN objects : Cleaned(orig[i], objects[i])
             PROVE  \E o, from : CleanedFrom(o, from)
  BY DEF InPlace
<1> DEFINE from == [i \in DOMAIN objects |-> i]
<1>1. from \in Bijection(DOMAIN objects, DOMAIN orig)
  BY IdentityBijection
<1>2. \A i \in DOMAIN objects : from[i] = i
  OBVIOUS
<1> HIDE DEF from
<1>3. CleanedFrom(orig, from)
  BY <1>1, <1>2 DEF CleanedFrom
<1> QED
  BY <1>3

LEMMA CleanedFromUnmoved ==
  ASSUME bundle' = bundle, namespace' = namespace, mapping' = mapping, objects' = objects
  PROVE  \A orig, from : CleanedFrom(orig, from)' <=> CleanedFrom(orig, from)
BY MappingUnmoved DEF CleanedFrom

LEMMA MappingStep == ASSUME IInv, BuildNameMapping PROVE IInv'
<1>1. /\ pc = "mapping" /\ mapping' = buildResourceMappings(objects)
      /\ pc' = IF Generated(objects) = {} THEN "sort" ELSE "renaming"
      /\ UNCHANGED <<bundle, namespace, pending, objects, pos, previous, runs>>
  BY DEF BuildNameMapping
<1>2. Types /\ Complete(objects)
  BY <1>1 DEF IInv, Gathering
<1>3. bundle \in Bundles /\ namespace \in Namespaces /\ objects \in Seq(Object) /\ pos = 1
  BY <1>1, <1>2 DEF Types, Phases
<1>4. /\ \A i \in Generated(objects) : Key(objects[i]) \in DOMAIN mapping'
      /\ \A key \in DOMAIN mapping' : \E i \in Generated(objects) : key = Key(objects[i])
      /\ MappingType' /\ MappingApart'
  BY <1>1, <1>2, <1>3, MappingBuilt DEF MappingType, MappingApart, EndsClean
<1>5. Renamable(objects)'
  <2>1. Complete(objects)'
    BY <1>1, <1>2, Unmoved
  <2>2. \A i \in Generated(objects)' : Key(objects[i])' \in DOMAIN mapping'
    BY <1>1, <1>4 DEF Generated, Key
  <2> QED
    BY <1>4, <2>1, <2>2 DEF Renamable
<1>6. Types'
  BY <1>1, <1>2, <1>4, Unmoved DEF Types, Phases
<1>7. Gathering' /\ InOrder'
  BY <1>1 DEF Gathering, InOrder
<1>8. HalfClean'
  <2> SUFFICES ASSUME pc' = "renaming"
               PROVE  (\E orig : /\ Renamable(orig) /\ Len(orig) = Len(objects)
                                 /\ \A i \in DOMAIN objects :
                                      IF i < pos THEN Cleaned(orig[i], objects[i])
                                                 ELSE objects[i] = orig[i])'
    BY DEF HalfClean
  <2>1. \A i \in DOMAIN objects' : ~(i < pos')
    BY <1>1, <1>3
  <2> QED
    BY <1>5, <2>1
<1>9. Clean'
  <2> SUFFICES ASSUME pc' \in {"sort", "done"}
               PROVE  (\E orig, from : CleanedFrom(orig, from))'
    BY DEF Clean
  <2>1. Generated(objects) = {}
    BY <1>1
  <2>2. DOMAIN mapping' = {}
    BY <1>4, <2>1
  <2>3. \A i \in DOMAIN objects' : objects'[i] \in Object
    BY <1>1, <1>3
  <2>4. \A i \in DOMAIN objects' : Cleaned(objects[i], objects[i])'
    <3>1. (DOMAIN mapping = {} => \A obj \in Object : Cleaned(obj, obj))'
      BY CleanedAlready, PTL
    <3> QED
      BY <2>2, <2>3, <3>1
  <2>5. ((\E orig : InPlace(orig)) => \E orig, from : CleanedFrom(orig, from))'
    BY CleanInPlace, PTL
  <2>6. InPlace(objects)'
    BY <1>5, <2>4 DEF InPlace
  <2> QED
    BY <2>5, <2>6
<1> QED
  BY <1>6, <1>7, <1>8, <1>9 DEF IInv

LEMMA NormalizeStep == ASSUME IInv, NormalizeObject PROVE IInv'
<1>1. /\ pc = "renaming" /\ pc' = "renaming" /\ pos \in DOMAIN objects
      /\ ~ConversionFails(objects[pos])
      /\ objects' = [objects EXCEPT ![pos] = normalizeObject(objects[pos])]
      /\ pos' = pos + 1
      /\ UNCHANGED <<bundle, namespace, pending, mapping, previous, runs>>
  BY DEF NormalizeObject
<1>2. Types /\ HalfClean
  BY DEF IInv
<1>3. /\ bundle \in Bundles /\ objects \in Seq(Object) /\ MappingType
      /\ DOMAIN objects = 1 .. Len(objects) /\ Len(objects) \in Nat
  BY <1>2 DEF Types
<1>4. PICK orig : /\ Renamable(orig) /\ Len(orig) = Len(objects)
                  /\ \A i \in DOMAIN objects : IF i < pos THEN Cleaned(orig[i], objects[i])
                                                          ELSE objects[i] = orig[i]
  BY <1>1, <1>2 DEF HalfClean
<1> DEFINE new == normalizeObject(objects[pos])
<1>5. Cleaned(objects[pos], new)
  BY <1>1, <1>3, Normalized
<1>6. new \in Object
  BY <1>5 DEF Cleaned
<1> HIDE DEF new
<1>7. /\ objects' \in Seq(Object) /\ Len(objects') = Len(objects) /\ DOMAIN objects' = DOMAIN objects
      /\ objects'[pos] = new /\ \A i \in DOMAIN objects : i # pos => objects'[i] = objects[i]
  BY <1>1, <1>3, <1>6 DEF new
<1>8. objects[pos] = orig[pos] /\ pos \in Nat
  BY <1>1, <1>3, <1>4
<1>9. Types'
  BY <1>1, <1>2, <1>3, <1>7, <1>8, Unmoved, MappingUnmoved DEF Types, Phases
<1>10. HalfClean'
  <2>1. Renamable(orig)'
    BY <1>1, <1>4, MappingUnmoved
  <2>2. ASSUME NEW i \in DOMAIN objects'
        PROVE  IF i < pos' THEN Cleaned(orig[i], objects'[i]) ELSE objects'[i] = orig[i]
    <3>1. i \in DOMAIN objects /\ i \in Nat
      BY <1>3, <1>7
    <3>2. CASE i = pos
      BY <1>1, <1>5, <1>7, <1>8, <3>1, <3>2
    <3>3. CASE i # pos
      BY <1>1, <1>4, <1>7, <1>8, <3>1, <3>3
    <3> QED
      BY <3>2, <3>3
  <2>3. \A old, obj : Cleaned(old, obj)' <=> Cleaned(old, obj)
    BY <1>1, MappingUnmoved
  <2>4. \A i \in DOMAIN objects' :
          IF i < pos' THEN Cleaned(orig[i], objects[i])' ELSE objects'[i] = orig[i]
    BY <2>2, <2>3
  <2> QED
    BY <1>4, <1>7, <2>1, <2>4 DEF HalfClean
<1>11. Gathering' /\ Clean' /\ InOrder'
  BY <1>1 DEF Gathering, Clean, InOrder
<1> QED
  BY <1>9, <1>10, <1>11 DEF IInv

LEMMA EndsStep == ASSUME IInv, NormalizeEnds PROVE IInv'
<1>1. /\ pc = "renaming" /\ pos = Len(objects) + 1 /\ pc' = "sort"
      /\ UNCHANGED <<bundle, namespace, pending, objects, mapping, pos, previous, runs>>
  BY DEF NormalizeEnds
<1>2. Types /\ HalfClean
  BY DEF IInv
<1>3. PICK orig : /\ Renamable(orig) /\ Len(orig) = Len(objects)
                  /\ \A i \in DOMAIN objects : IF i < pos THEN Cleaned(orig[i], objects[i])
                                                          ELSE objects[i] = orig[i]
  BY <1>1, <1>2 DEF HalfClean
<1>4. DOMAIN objects = 1 .. Len(objects) /\ Len(objects) \in Nat
  BY <1>2 DEF Types
<1>5. orig \in Seq(Object)
  BY <1>3 DEF Renamable, Complete, Gathered
<1>6. \A i \in DOMAIN objects : i < pos
  BY <1>1, <1>4
<1>7. InPlace(orig)
  BY <1>3, <1>4, <1>5, <1>6 DEF InPlace
<1>8. \E o, from : CleanedFrom(o, from)
  BY <1>7, CleanInPlace
<1>9. Clean'
  BY <1>1, <1>8, CleanedFromUnmoved DEF Clean
<1>10. Types'
  BY <1>1, <1>2, Unmoved, MappingUnmoved DEF Types, Phases
<1>11. Gathering' /\ HalfClean' /\ InOrder'
  BY <1>1 DEF Gathering, HalfClean, InOrder
<1> QED
  BY <1>9, <1>10, <1>11 DEF IInv

LEMMA SortStep == ASSUME IInv, Sort PROVE IInv'
<1>1. /\ pc = "sort" /\ pc' = "done" /\ objects' = sortKubernetesResources(objects)
      /\ UNCHANGED <<bundle, namespace, pending, mapping, pos, previous, runs>>
  BY DEF Sort
<1>2. Types /\ Clean
  BY DEF IInv
<1>3. objects \in Seq(Object)
  BY <1>2 DEF Types
<1>4. /\ objects' \in Seq(Object) /\ DOMAIN objects' = DOMAIN objects
      /\ Len(objects') = Len(objects)
      /\ \E sort \in Bijection(DOMAIN objects, DOMAIN objects) :
           \A place \in DOMAIN objects : objects'[place] = objects[sort[place]]
      /\ \A p, q \in DOMAIN objects' :
           p < q => getResourcePriority(objects'[p]) =< getResourcePriority(objects'[q])
  BY <1>1, <1>3, ResourcesSorted
<1>5. Types'
  BY <1>1, <1>2, <1>4, Unmoved, MappingUnmoved DEF Types, Phases
<1>6. InOrder'
  BY <1>4 DEF InOrder
<1>7. Clean'
  <2>1. PICK orig, from : CleanedFrom(orig, from)
    BY <1>1, <1>2 DEF Clean
  <2>2. PICK sort \in Bijection(DOMAIN objects, DOMAIN objects) :
          \A place \in DOMAIN objects : objects'[place] = objects[sort[place]]
    BY <1>4
  <2>3. /\ Renamable(orig) /\ from \in Bijection(DOMAIN objects, DOMAIN orig)
        /\ \A i \in DOMAIN objects : Cleaned(orig[from[i]], objects[i])
    BY <2>1 DEF CleanedFrom
  <2>4. PICK both \in Bijection(DOMAIN objects, DOMAIN orig) :
          \A i \in DOMAIN objects : both[i] = from[sort[i]]
    <3> DEFINE f == [i \in DOMAIN objects |-> from[sort[i]]]
    <3>1. f \in Bijection(DOMAIN objects, DOMAIN orig)
      BY <2>2, <2>3 DEF Bijection, Injection, Surjection, IsInjective
    <3>2. \A i \in DOMAIN objects : f[i] = from[sort[i]]
      OBVIOUS
    <3> HIDE DEF f
    <3> QED
      BY <3>1, <3>2
  <2>5. \A i \in DOMAIN objects : both[i] = from[sort[i]] /\ sort[i] \in DOMAIN objects
    BY <2>2, <2>4 DEF Bijection, Injection
  <2>6. \A i \in DOMAIN objects' : Cleaned(orig[both[i]], objects'[i])
    BY <1>4, <2>2, <2>3, <2>5
  <2>7. Renamable(orig)' /\ \A i \in DOMAIN objects' : Cleaned(orig[both[i]], objects[i])'
    BY <1>1, <2>3, <2>6, MappingUnmoved
  <2>8. CleanedFrom(orig, both)'
    BY <1>4, <2>4, <2>7 DEF CleanedFrom
  <2> QED
    BY <2>8 DEF Clean
<1>8. Gathering' /\ HalfClean'
  BY <1>1 DEF Gathering, HalfClean
<1> QED
  BY <1>5, <1>6, <1>7, <1>8 DEF IInv

LEMMA AgainStep == ASSUME IInv, RunAgain PROVE IInv'
<1>1. /\ pc = "done" /\ runs < MaxRuns /\ runs' = runs + 1 /\ previous' = objects
      /\ pc' = "start" /\ objects' = <<>> /\ mapping' = <<>> /\ pos' = 1
      /\ UNCHANGED <<bundle, namespace, pending>>
  BY DEF RunAgain
<1>2. Types
  BY DEF IInv
<1>3. MappingType'
  BY <1>1 DEF MappingType
<1>4. runs' \in 1 .. MaxRuns
  BY <1>1, <1>2, MaxRunsAssumption DEF Types
<1>5. <<>> \in Seq(Object) /\ 1 \in 1 .. Len(<<>>) + 1
  OBVIOUS
<1>6. Types'
  BY <1>1, <1>2, <1>3, <1>4, <1>5, Unmoved DEF Types, Phases
<1>7. Gathering' /\ HalfClean' /\ Clean' /\ InOrder'
  BY <1>1 DEF Gathering, HalfClean, Clean, InOrder
<1> QED
  BY <1>6, <1>7 DEF IInv

LEMMA StutterStep == ASSUME IInv, UNCHANGED vars PROVE IInv'
<1>1. /\ bundle' = bundle /\ namespace' = namespace /\ mapping' = mapping /\ objects' = objects
      /\ UNCHANGED <<pc, pending, pos, previous, runs>>
  BY DEF vars
<1>2. Types'
  BY <1>1, Unmoved, MappingUnmoved DEF IInv, Types
<1>3. Gathering'
  BY <1>1, Unmoved DEF IInv, Gathering
<1>4. HalfClean'
  BY <1>1, MappingUnmoved DEF IInv, HalfClean
<1>5. Clean'
  BY <1>1, CleanedFromUnmoved DEF IInv, Clean
<1>6. InOrder'
  BY <1>1 DEF IInv, InOrder
<1> QED
  BY <1>2, <1>3, <1>4, <1>5, <1>6 DEF IInv

LEMMA Preserved == IInv /\ [Next]_vars => IInv'
<1> SUFFICES ASSUME IInv, [Next]_vars PROVE IInv'
  OBVIOUS
<1>1. CASE MissingCSV
  BY <1>1, FailStep DEF MissingCSV
<1>2. CASE CollectCRDs
  BY <1>2, CRDsStep
<1>3. CASE UnsupportedStrategy
  BY <1>3, FailStep DEF UnsupportedStrategy
<1>4. CASE GenerateRBAC
  BY <1>4, GenerateStep
<1>5. CASE \E account \in pending : CollectAccount(account)
  BY <1>5, AccountStep
<1>6. CASE CollectDeployments
  BY <1>6, DeploymentsStep
<1>7. CASE CollectWebhooks
  BY <1>7, WebhooksStep
<1>8. CASE CollectOthers
  BY <1>8, OthersStep
<1>9. CASE BuildNameMapping
  BY <1>9, MappingStep
<1>10. CASE NormalizeObject
  BY <1>10, NormalizeStep
<1>11. CASE NormalizeFails
  BY <1>11, FailStep DEF NormalizeFails
<1>12. CASE NormalizeEnds
  BY <1>12, EndsStep
<1>13. CASE Sort
  BY <1>13, SortStep
<1>14. CASE RunAgain
  BY <1>14, AgainStep
<1>15. CASE UNCHANGED vars
  BY <1>15, StutterStep
<1> QED
  BY <1>1, <1>2, <1>3, <1>4, <1>5, <1>6, <1>7, <1>8, <1>9, <1>10, <1>11, <1>12, <1>13, <1>14,
     <1>15 DEF Next

LEMMA Invariant == Spec => []IInv
BY Initially, Preserved, PTL DEF Spec

-----------------------------------------------------------------------------
(* The theorems. *)

\* Every phase keeps the types: what is collected are manifests, the mapping goes
\* from names of roles and bindings to names, and the renaming stays in the list
\* (extract.Manifests, applyNameMapping).
THEOREM TypeCorrect == Spec => []TypeOK
<1>1. ASSUME Types PROVE TypeOK
  <2>1. /\ DOMAIN mapping \subseteq [name : Name, gvk : normalizedResourceTypes]
        /\ \A key \in DOMAIN mapping : mapping[key] \in Name
    BY <1>1 DEF Types, MappingType
  <2>2. pending \subseteq Accounts
    BY <1>1 DEF Types
  <2>3. pc \in {"start", "strategy", "permissions", "webhooks", "others", "mapping",
                "renaming", "sort", "done", "failed"}
    BY <1>1 DEF Types, Phases
  <2> QED
    BY <1>1, <2>1, <2>2, <2>3 DEF Types, TypeOK
<1>2. IInv => TypeOK
  BY <1>1 DEF IInv
<1> QED
  BY <1>2, Invariant, PTL

\* Nothing is lost on the way from the gathered list to the result, and nothing comes up.
LEMMA Arrives ==
  ASSUME NEW orig, NEW from, CleanedFrom(orig, from)
  PROVE  /\ \A x \in Elements(orig) : \E i \in DOMAIN objects : Cleaned(x, objects[i])
         /\ \A i \in DOMAIN objects : \E x \in Elements(orig) : x \in Object /\ Cleaned(x, objects[i])
<1>1. /\ orig \in Seq(Object)
      /\ \A i \in DOMAIN objects : from[i] \in DOMAIN orig /\ Cleaned(orig[from[i]], objects[i])
      /\ \A k \in DOMAIN orig : \E i \in DOMAIN objects : from[i] = k
  BY DEF CleanedFrom, Renamable, Complete, Gathered, Bijection, Injection, Surjection
<1>2. \A k \in DOMAIN orig : orig[k] \in Object /\ orig[k] \in Elements(orig)
  BY <1>1 DEF Elements
<1>3. ASSUME NEW x \in Elements(orig)
      PROVE  \E i \in DOMAIN objects : Cleaned(x, objects[i])
  <2>1. PICK k \in DOMAIN orig : x = orig[k]
    BY DEF Elements
  <2>2. PICK i \in DOMAIN objects : from[i] = k
    BY <1>1
  <2> QED
    BY <1>1, <2>1, <2>2
<1>4. ASSUME NEW i \in DOMAIN objects
      PROVE  \E x \in Elements(orig) : x \in Object /\ Cleaned(x, objects[i])
  BY <1>1, <1>2
<1> QED
  BY <1>3, <1>4

\* How many there are of each kind when the list is complete.
LEMMA CompleteCounts ==
  ASSUME bundle \in Bundles, namespace \in Namespaces, NEW orig, Complete(orig)
  PROVE  /\ CountOf(orig, ServiceAccountGVK) =
              Cardinality(Accounts) + CountOf(OtherResources, ServiceAccountGVK)
         /\ \A gvk \in {RoleGVK, RoleBindingGVK} :
              CountOf(orig, gvk) = Len(bundle.permissions) + CountOf(OtherResources, gvk)
         /\ \A gvk \in {ClusterRoleGVK, ClusterRoleBindingGVK} :
              CountOf(orig, gvk) = Len(bundle.clusterPermissions) + CountOf(OtherResources, gvk)
         /\ \A gvk \in {ServiceGVK, ValidatingGVK, MutatingGVK, DeploymentGVK} :
              CountOf(orig, gvk) = CountOf(Rest, gvk)
<1>1. \A gvk : CountOf(orig, gvk) = RBACCount(gvk, Accounts) + CountOf(Rest, gvk)
  BY DEF Complete, Gathered
<1>2. \A gvk \in GeneratedGVKs : CountOf(Rest, gvk) = CountOf(OtherResources, gvk)
  BY RestCounts
<1>3. ASSUME NEW list \in Seq(Permission), \A i \in DOMAIN list : list[i].account \in Accounts
      PROVE  Cardinality(Having(list, Accounts)) = Len(list)
  <2>1. Having(list, Accounts) = 1 .. Len(list) /\ Len(list) \in Nat
    BY <1>3 DEF Having
  <2> QED
    BY <2>1, FS_Interval
<1>4. /\ Cardinality(Having(bundle.permissions, Accounts)) = Len(bundle.permissions)
      /\ Cardinality(Having(bundle.clusterPermissions, Accounts)) = Len(bundle.clusterPermissions)
  BY <1>3, BundleFields, AccountsType
<1>5. /\ RBACCount(ServiceAccountGVK, Accounts) = Cardinality(Accounts)
      /\ \A gvk \in {RoleGVK, RoleBindingGVK} : RBACCount(gvk, Accounts) = Len(bundle.permissions)
      /\ \A gvk \in {ClusterRoleGVK, ClusterRoleBindingGVK} :
           RBACCount(gvk, Accounts) = Len(bundle.clusterPermissions)
      /\ \A gvk : gvk \notin GeneratedGVKs => RBACCount(gvk, Accounts) = 0
  BY <1>4, RBACCountByKind
<1>6. \A gvk \in {ServiceGVK, ValidatingGVK, MutatingGVK, DeploymentGVK} : gvk \notin GeneratedGVKs
  BY ManifestKinds DEF GeneratedGVKs
<1>7. \A gvk : CountOf(Rest, gvk) \in Nat
  BY RestTypes, CountType
<1>8. \A gvk \in {ServiceGVK, ValidatingGVK, MutatingGVK, DeploymentGVK} :
        CountOf(orig, gvk) = CountOf(Rest, gvk)
  <2> SUFFICES ASSUME NEW gvk \in {ServiceGVK, ValidatingGVK, MutatingGVK, DeploymentGVK}
               PROVE  CountOf(orig, gvk) = CountOf(Rest, gvk)
    OBVIOUS
  <2>1. RBACCount(gvk, Accounts) = 0 /\ CountOf(Rest, gvk) \in Nat
    BY <1>5, <1>6, <1>7, Zenon
  <2>2. CountOf(orig, gvk) = RBACCount(gvk, Accounts) + CountOf(Rest, gvk)
    BY <1>1
  <2> QED
    BY <2>1, <2>2
<1>9. \A gvk \in {RoleGVK, RoleBindingGVK, ClusterRoleGVK, ClusterRoleBindingGVK} :
        gvk \in GeneratedGVKs
  BY Zenon DEF GeneratedGVKs
<1>10. ServiceAccountGVK \in GeneratedGVKs
  BY Zenon DEF GeneratedGVKs
<1> QED
  BY <1>1, <1>2, <1>5, <1>8, <1>9, <1>10

\* Whatever order the service accounts came in, the result has every manifest once:
\* a service account however many permissions it has, a role and a binding for each
\* permission, a Service for each deployment with a webhook, a configuration for each
\* admission webhook, and the bundle's own (InstallStrategy, WebhookServices, Webhooks).
THEOREM NothingMissingOrTwice == Spec => []EveryManifestOnce
<1>1. IInv => EveryManifestOnce
  <2> SUFFICES ASSUME IInv, pc = "done" PROVE EveryManifestOnce
    BY DEF EveryManifestOnce
  <2>1. /\ bundle \in Bundles /\ namespace \in Namespaces
        /\ objects \in Seq(Object)
    BY DEF IInv, Types
  <2>2. PICK orig, from : CleanedFrom(orig, from)
    BY DEF IInv, Clean
  <2>3. /\ Complete(orig) /\ orig \in Seq(Object)
        /\ from \in Bijection(DOMAIN objects, DOMAIN orig)
        /\ \A i \in DOMAIN objects : Cleaned(orig[from[i]], objects[i])
    BY <2>2 DEF CleanedFrom, Renamable, Complete, Gathered
  <2>4. IsFiniteSet(DOMAIN objects)
    <3>1. DOMAIN objects = 1 .. Len(objects) /\ Len(objects) \in Nat
      BY <2>1
    <3> QED
      BY <3>1, FS_Interval
  <2>5. \A i \in DOMAIN objects : objects[i].gvk = orig[from[i]].gvk
    BY <2>3 DEF Cleaned
  <2>6. \A gvk : CountOf(objects, gvk) = CountOf(orig, gvk)
    BY <2>3, <2>4, <2>5, CountMoved
  <2>7. /\ CountOf(orig, ServiceAccountGVK) =
             Cardinality(Accounts) + CountOf(OtherResources, ServiceAccountGVK)
        /\ \A gvk \in {RoleGVK, RoleBindingGVK} :
             CountOf(orig, gvk) = Len(bundle.permissions) + CountOf(OtherResources, gvk)
        /\ \A gvk \in {ClusterRoleGVK, ClusterRoleBindingGVK} :
             CountOf(orig, gvk) = Len(bundle.clusterPermissions) + CountOf(OtherResources, gvk)
        /\ \A gvk \in {ServiceGVK, ValidatingGVK, MutatingGVK, DeploymentGVK} :
             CountOf(orig, gvk) = CountOf(Rest, gvk)
    BY <2>1, <2>3, CompleteCounts
  <2>8. /\ CountOf(Rest, ServiceGVK) =
             Cardinality(Deployments) + CountOf(OtherResources, ServiceGVK)
        /\ CountOf(Rest, ValidatingGVK) =
             Cardinality(OfType(ValidatingAdmissionWebhook)) + CountOf(OtherResources, ValidatingGVK)
        /\ CountOf(Rest, MutatingGVK) =
             Cardinality(OfType(MutatingAdmissionWebhook)) + CountOf(OtherResources, MutatingGVK)
        /\ CountOf(Rest, DeploymentGVK) =
             Len(bundle.deployments) + CountOf(OtherResources, DeploymentGVK)
    BY <2>1, RestCounts
  <2>9. /\ CountOf(objects, ServiceGVK) = CountOf(Rest, ServiceGVK)
        /\ CountOf(objects, ValidatingGVK) = CountOf(Rest, ValidatingGVK)
        /\ CountOf(objects, MutatingGVK) = CountOf(Rest, MutatingGVK)
        /\ CountOf(objects, DeploymentGVK) = CountOf(Rest, DeploymentGVK)
    BY <2>6, <2>7
  <2> QED
    BY <2>6, <2>7, <2>8, <2>9, Zenon DEF EveryManifestOnce, OfType
<1> QED
  BY <1>1, Invariant, PTL

\* A name that still looks generated was never in the mapping.
LEMMA StillGenerated ==
  ASSUME MappingType, NEW gvk, NEW name, isOLMGeneratedName(NewName(gvk, name))
  PROVE  NewName(gvk, name) = name /\ [name |-> name, gvk |-> gvk] \notin DOMAIN mapping
<1> DEFINE key == [name |-> name, gvk |-> gvk]
<1>1. NewName(gvk, name) = IF key \in DOMAIN mapping THEN mapping[key] ELSE name
  BY DEF NewName
<1>2. key \in DOMAIN mapping => ~isOLMGeneratedName(mapping[key])
  BY DEF MappingType
<1> HIDE DEF key
<1>3. key \notin DOMAIN mapping /\ NewName(gvk, name) = name
  BY <1>1, <1>2
<1> QED
  BY <1>3 DEF key

\* When the renaming is over no role and no binding of the list has a name that OLM
\* generated, and a binding that refers to a replaced name crosses kinds: a
\* RoleBinding of a Role, or a ClusterRoleBinding of a ClusterRole, never does
\* (buildResourceMappings, applyNameMapping).
THEOREM GeneratedNamesAreGone == Spec => []NoGeneratedNames
<1>1. IInv => NoGeneratedNames
  <2> SUFFICES ASSUME IInv, pc \in {"sort", "done"}
               PROVE  /\ Generated(objects) = {}
                      /\ \A i \in DOMAIN objects :
                           BindingOf(i) /\ RefersToReplaced(objects[i]) => CrossesKinds(objects[i])
    BY DEF NoGeneratedNames
  <2>1. MappingType
    BY DEF IInv, Types
  <2>2. PICK orig, from : CleanedFrom(orig, from)
    BY DEF IInv, Clean
  <2>3. /\ orig \in Seq(Object)
        /\ \A k \in Generated(orig) : Key(orig[k]) \in DOMAIN mapping
        /\ \A i \in DOMAIN objects : from[i] \in DOMAIN orig /\ Cleaned(orig[from[i]], objects[i])
    BY <2>2 DEF CleanedFrom, Renamable, Complete, Gathered, Bijection, Injection
  <2>4. ASSUME NEW i \in Generated(objects) PROVE FALSE
    <3> DEFINE old == orig[from[i]]
    <3>1. i \in DOMAIN objects /\ objects[i].gvk \in normalizedResourceTypes
          /\ isOLMGeneratedName(objects[i].name)
      BY <2>4 DEF Generated
    <3>2. from[i] \in DOMAIN orig /\ Cleaned(old, objects[i])
      BY <2>3, <3>1
    <3>3. objects[i].gvk = old.gvk /\ objects[i].name = NewName(old.gvk, old.name)
      BY <3>1, <3>2 DEF Cleaned
    <3>4. old.name = objects[i].name /\ [name |-> old.name, gvk |-> old.gvk] \notin DOMAIN mapping
      BY <2>1, <3>1, <3>3, StillGenerated
    <3>5. from[i] \in Generated(orig)
      BY <3>1, <3>2, <3>3, <3>4 DEF Generated
    <3> QED
      BY <2>3, <3>4, <3>5 DEF Key
  <2>5. ASSUME NEW i \in DOMAIN objects, BindingOf(i), RefersToReplaced(objects[i]),
               ~CrossesKinds(objects[i])
        PROVE  FALSE
    <3> DEFINE old == orig[from[i]]
               role == NewName(RoleOf(old.gvk), old.spec.role)
    <3>1. Cleaned(old, objects[i]) /\ old \in Object
      BY <2>3
    <3>2. /\ objects[i].gvk = old.gvk
          /\ old.gvk \in {RoleBindingGVK, ClusterRoleBindingGVK} /\ old.valid
      BY <2>5, <3>1 DEF BindingOf, Binds, Cleaned
    <3>3. objects[i].spec = [old.spec EXCEPT !.role = role]
      BY <3>1, <3>2 DEF Cleaned
    <3>4. old.spec \in BindingSpec
      BY <3>1, <3>2, ObjectFields
    <3>5. objects[i].spec.role = role
      BY <3>3, <3>4 DEF BindingSpec
    <3>6. RefersTo(objects[i]) = [name |-> role, gvk |-> RoleOf(old.gvk)]
      BY <2>5, <3>2, <3>5 DEF RefersTo, CrossesKinds, RoleOf
    <3>7. [name |-> role, gvk |-> RoleOf(old.gvk)] \in DOMAIN mapping
      BY <2>5, <3>6 DEF RefersToReplaced
    <3>8. isOLMGeneratedName(role)
      <4>1. isOLMGeneratedName([name |-> role, gvk |-> RoleOf(old.gvk)].name)
        BY <2>1, <3>7 DEF MappingType
      <4> QED
        BY <4>1
    <3>9. role = old.spec.role /\ [name |-> old.spec.role, gvk |-> RoleOf(old.gvk)] \notin DOMAIN mapping
      BY <2>1, <3>8, StillGenerated
    <3> QED
      BY <3>7, <3>9
  <2> QED
    BY <2>4, <2>5
<1> QED
  BY <1>1, Invariant, PTL

\* In the sorted list what has the smaller priority stands before.
LEMMA Before ==
  ASSUME InOrder, pc = "done", objects \in Seq(Object),
         NEW i \in DOMAIN objects, NEW j \in DOMAIN objects,
         getResourcePriority(objects[j]) < getResourcePriority(objects[i])
  PROVE  j \in 1 .. i - 1
<1>1. DOMAIN objects = 1 .. Len(objects) /\ Len(objects) \in Nat
  OBVIOUS
<1>2. getResourcePriority(objects[j]) \in Nat /\ getResourcePriority(objects[i]) \in Nat
  BY ResourcePriorityType
<1>3. i < j => getResourcePriority(objects[i]) =< getResourcePriority(objects[j])
  BY DEF InOrder
<1> QED
  BY <1>1, <1>2, <1>3

\* A permission's role comes with its rules before the binding that refers to it.
LEMMA PermissionArrives ==
  ASSUME IInv, pc = "done", NEW orig, NEW from, CleanedFrom(orig, from),
         NEW p \in Permission, NEW roleGVK, NEW bindingGVK, NEW kind \in {"Role", "ClusterRole"},
         \/ roleGVK = RoleGVK /\ bindingGVK = RoleBindingGVK
         \/ roleGVK = ClusterRoleGVK /\ bindingGVK = ClusterRoleBindingGVK,
         RoleFor(roleGVK, p) \in Elements(orig),
         BindingFor(bindingGVK, kind, p) \in Elements(orig)
  PROVE  \E i \in DOMAIN objects : BindsRole(i, p, bindingGVK, roleGVK)
<1> DEFINE role == RoleFor(roleGVK, p)
           binding == BindingFor(bindingGVK, kind, p)
           new == NewName(roleGVK, GeneratedName(p))
           rules == normalizeRBACRules(p.rules)
<1>1. bundle \in Bundles /\ objects \in Seq(Object) /\ InOrder
  BY DEF IInv, Types
<1>2. role.gvk = roleGVK /\ role.name = GeneratedName(p) /\ role.spec = [rules |-> rules]
  BY <1>1, RoleMade
<1>3. /\ binding.gvk = bindingGVK /\ binding.valid
      /\ binding.spec = [roleKind |-> kind, role |-> GeneratedName(p), accounts |-> {p.account}]
  BY <1>1, BindingMade
<1>4. PICK j \in DOMAIN objects : Cleaned(role, objects[j])
  BY Arrives
<1>5. PICK i \in DOMAIN objects : Cleaned(binding, objects[i])
  BY Arrives
<1>6. /\ roleGVK \in {RoleGVK, ClusterRoleGVK} /\ roleGVK \in normalizedResourceTypes
      /\ bindingGVK \in {RoleBindingGVK, ClusterRoleBindingGVK} /\ RoleOf(bindingGVK) = roleGVK
  <2>1. RoleBindingGVK # ClusterRoleBindingGVK
    BY ManifestKinds
  <2> QED
    BY <2>1, Zenon DEF normalizedResourceTypes, RoleOf
<1> HIDE DEF role, binding, new, rules
<1>7. objects[j].gvk = roleGVK /\ objects[j].spec.rules = rules
  BY <1>2, <1>4, <1>6 DEF Cleaned
<1>8. objects[j].name = new
  BY <1>2, <1>4, <1>6 DEF Cleaned, new
<1>9. objects[i].gvk = bindingGVK
      /\ objects[i].spec = [binding.spec EXCEPT !.role = NewName(RoleOf(bindingGVK), binding.spec.role)]
  BY <1>3, <1>5, <1>6 DEF Cleaned
<1>10. binding.spec.role = GeneratedName(p)
  BY <1>3
<1>11. objects[i].spec = [binding.spec EXCEPT !.role = new]
  BY <1>6, <1>9, <1>10 DEF new
<1>12. objects[i].spec.role = new /\ objects[i].spec.accounts = {p.account}
  BY <1>3, <1>11
<1>13. j \in 1 .. i - 1
  <2>1. getResourcePriority(objects[j]) < getResourcePriority(objects[i])
    BY <1>6, <1>7, <1>9, ReferencePriorities, ManifestKinds DEF RoleOf
  <2> QED
    BY <1>1, <2>1, Before
<1> QED
  BY <1>7, <1>8, <1>9, <1>12, <1>13 DEF BindsRole, Is, rules

\* Front to back every permission of the ClusterServiceVersion arrives, under the
\* clean names: its rules in a role, then a binding of that role to its account. A
\* binding and a deployment, the bundle's own included, stand behind the generated
\* service accounts they name (normalizeRoleBinding, getResourcePriority).
THEOREM ReferencesComeFirst == Spec => []ReferencesPrecede
<1>1. IInv => ReferencesPrecede
  <2> SUFFICES ASSUME IInv, pc = "done" PROVE ReferencesPrecede
    BY DEF ReferencesPrecede
  <2>1. bundle \in Bundles /\ objects \in Seq(Object) /\ InOrder
    BY DEF IInv, Types
  <2>2. PICK orig, from : CleanedFrom(orig, from)
    BY DEF IInv, Clean
  <2>3. GivenTo(Accounts, orig)
    BY <2>2 DEF CleanedFrom, Renamable, Complete, Gathered
  <2>4. /\ bundle.permissions \in Seq(Permission) /\ bundle.clusterPermissions \in Seq(Permission)
        /\ \A p \in DOMAIN bundle.permissions : p \in Having(bundle.permissions, Accounts)
        /\ \A p \in DOMAIN bundle.clusterPermissions :
             p \in Having(bundle.clusterPermissions, Accounts)
    BY <2>1, BundleFields, AccountsType DEF Having
  <2>5. ASSUME NEW p \in DOMAIN bundle.permissions
        PROVE  \E i \in DOMAIN objects :
                 BindsRole(i, bundle.permissions[p], RoleBindingGVK, RoleGVK)
    <3>1. /\ bundle.permissions[p] \in Permission
          /\ RoleFor(RoleGVK, bundle.permissions[p]) \in Elements(orig)
          /\ BindingFor(RoleBindingGVK, "Role", bundle.permissions[p]) \in Elements(orig)
      BY <2>3, <2>4 DEF GivenTo
    <3> QED
      BY <2>2, <3>1, PermissionArrives
  <2>6. ASSUME NEW p \in DOMAIN bundle.clusterPermissions
        PROVE  \E i \in DOMAIN objects :
                 BindsRole(i, bundle.clusterPermissions[p], ClusterRoleBindingGVK, ClusterRoleGVK)
    <3>1. /\ bundle.clusterPermissions[p] \in Permission
          /\ RoleFor(ClusterRoleGVK, bundle.clusterPermissions[p]) \in Elements(orig)
          /\ BindingFor(ClusterRoleBindingGVK, "ClusterRole", bundle.clusterPermissions[p])
               \in Elements(orig)
      BY <2>3, <2>4 DEF GivenTo
    <3> QED
      BY <2>2, <3>1, PermissionArrives
  <2>7. ASSUME NEW i \in DOMAIN objects, NEW a \in Accounts,
               objects[i].gvk \in {RoleBindingGVK, ClusterRoleBindingGVK, DeploymentGVK}
        PROVE  AccountBefore(i, a)
    <3>1. a \in Name /\ AccountFor(a) \in Elements(orig)
      BY <2>1, <2>3, AccountsType DEF GivenTo
    <3>2. PICK j \in DOMAIN objects : Cleaned(AccountFor(a), objects[j])
      BY <2>2, <3>1, Arrives
    <3>3. AccountFor(a).gvk = ServiceAccountGVK /\ AccountFor(a).name = a
      BY <3>1, AccountMade
    <3>4. ServiceAccountGVK \notin normalizedResourceTypes /\ ServiceAccountGVK \notin WebhookGVKs
      BY ManifestKinds DEF normalizedResourceTypes, WebhookGVKs
    <3>5. objects[j] = AccountFor(a)
      BY <3>2, <3>3, <3>4 DEF Cleaned
    <3>6. getResourcePriority(objects[j]) = 3
      BY <3>3, <3>5, ReferencePriorities
    <3>7. getResourcePriority(objects[i]) \in {5, 7, 8}
      BY <2>7, ReferencePriorities
    <3>8. j \in 1 .. i - 1
      BY <2>1, <3>6, <3>7, Before
    <3> QED
      BY <3>3, <3>5, <3>8 DEF AccountBefore, Is
  <2>8. ASSUME NEW i \in DOMAIN objects
        PROVE  /\ BindingOf(i) => \A a \in objects[i].spec.accounts \cap Accounts : AccountBefore(i, a)
               /\ objects[i].gvk = DeploymentGVK /\ objects[i].valid
                    /\ objects[i].spec.account \in Accounts => AccountBefore(i, objects[i].spec.account)
    BY <2>7 DEF BindingOf, Binds
  <2> QED
    BY <2>5, <2>6, <2>8 DEF ReferencesPrecede
<1> QED
  BY <1>1, Invariant, PTL

\* A CRD that a conversion webhook of a deployment names keeps its converter to the
\* end of the extraction, on the port of the last webhook that names it, and the
\* Service of the converter is in the list, on the port of the first webhook of the
\* deployment (CRDs, WebhookServices: two loops over the same descriptions).
THEOREM ConvertersAreServed == Spec => []ConversionIsServed
<1>1. IInv => ConversionIsServed
  <2> SUFFICES ASSUME IInv, pc = "done" PROVE ConversionIsServed
    BY DEF ConversionIsServed
  <2>1. bundle \in Bundles /\ namespace \in Namespaces
    BY DEF IInv, Types
  <2>2. PICK orig, from : CleanedFrom(orig, from)
    BY DEF IInv, Clean
  <2>3. /\ \A x \in Elements(Rest) : x \in Elements(orig)
        /\ \A x \in Elements(orig) : x \in Elements(Rest) \/ x.gvk \in GeneratedGVKs
    BY <2>2 DEF CleanedFrom, Renamable, Complete, Gathered
  <2>4. /\ CRDGVK \notin GeneratedGVKs
        /\ CRDGVK \notin normalizedResourceTypes /\ CRDGVK \notin WebhookGVKs
        /\ ServiceGVK \notin normalizedResourceTypes /\ ServiceGVK \notin WebhookGVKs
    BY ManifestKinds DEF GeneratedGVKs, normalizedResourceTypes, WebhookGVKs
  <2>5. bundle.webhooks \in Seq(WebhookDescription)
        /\ \A k \in DOMAIN bundle.crds : bundle.crds[k] \in Object /\ bundle.crds[k].gvk = CRDGVK
    BY <2>1, BundleFields
  <2>6. ASSUME NEW i \in OfExactKind(objects, CRDGVK), NEW w,
               Converting(objects[i]) # {}, w = Latest(Converting(objects[i])),
               bundle.webhooks[w].deployment # NoName
        PROVE  LET v == Earliest(WebhooksOn(bundle.webhooks[w].deployment))
               IN  /\ objects[i].spec.port = PortOrDefault(bundle.webhooks[w].port)
                   /\ \E j \in DOMAIN objects :
                        /\ Is(objects[j], ServiceGVK, objects[i].spec.conversion)
                        /\ objects[j].spec.ports[1].port = PortOrDefault(bundle.webhooks[v].port)
    <3> DEFINE v == Earliest(WebhooksOn(bundle.webhooks[w].deployment))
               service == WebhookServiceName(bundle.webhooks[w].deployment)
    <3>1. i \in DOMAIN objects /\ objects[i].gvk = CRDGVK
      BY DEF OfExactKind
    <3>2. PICK x \in Elements(orig) : x \in Object /\ Cleaned(x, objects[i])
      BY <2>2, <3>1, Arrives
    <3>3. x = objects[i]
      BY <2>4, <3>1, <3>2 DEF Cleaned
    <3>4. PICK k \in DOMAIN bundle.crds : x = WithConversion(bundle.crds[k])
      BY <2>1, <2>3, <2>4, <3>1, <3>2, <3>3, RestCRDs
    <3>5. x.name = bundle.crds[k].name
      BY <2>1, <2>5, <3>4, ConversionPart
    <3>6. Converting(bundle.crds[k]) = Converting(objects[i])
      BY <3>3, <3>5 DEF Converting
    <3>7. w \in Converting(bundle.crds[k]) /\ x.spec = createConversionConfig(bundle.webhooks[w])
      BY <2>1, <2>5, <2>6, <3>4, <3>6, ConversionPart
    <3>8. /\ w \in DOMAIN bundle.webhooks
          /\ objects[i].spec.conversion = service
          /\ objects[i].spec.port = PortOrDefault(bundle.webhooks[w].port)
      BY <3>3, <3>7 DEF Converting, createConversionConfig
    <3>9. PICK y \in Elements(WebhookServices) :
            /\ Is(y, ServiceGVK, service)
            /\ y.spec.ports[1].port = PortOrDefault(bundle.webhooks[v].port)
      BY <2>1, <2>6, <3>8, ServicesPart
    <3>10. y \in Elements(orig)
      BY <2>1, <2>3, RestElements
    <3>11. PICK j \in DOMAIN objects : Cleaned(y, objects[j])
      BY <2>2, <3>10, Arrives
    <3>12. objects[j] = y
      BY <2>4, <3>9, <3>11 DEF Cleaned, Is
    <3> HIDE DEF v, service
    <3>13. /\ Is(objects[j], ServiceGVK, objects[i].spec.conversion)
           /\ objects[j].spec.ports[1].port = PortOrDefault(bundle.webhooks[v].port)
      BY <3>8, <3>9, <3>12
    <3> QED
      BY <3>8, <3>11, <3>13 DEF v
  <2> QED
    BY <2>6 DEF ConversionIsServed
<1> QED
  BY <1>1, Invariant, PTL

-----------------------------------------------------------------------------
(* What a list grants. *)

\* A binding and the role it refers to grant g, wherever they stand.
Granted(objs, g) ==
  \E b, r \in DOMAIN objs :
    /\ Binds(objs[b]) /\ Key(objs[r]) = RefersTo(objs[b])
    /\ \E a \in objs[b].spec.accounts : \E k \in DOMAIN objs[r].spec.rules :
         g = <<objs[b].gvk.kind, a, objs[r].spec.rules[k]>>

RoleGVKs == {RoleGVK, ClusterRoleGVK}
BindingGVKs == {RoleBindingGVK, ClusterRoleBindingGVK}

\* It does not matter which of the roles or bindings of a name is applied.
Agreeing(objs) ==
  \A i, j \in DOMAIN objs :
    Key(objs[i]) = Key(objs[j]) /\ objs[i].gvk \in normalizedResourceTypes =>
      /\ objs[i].valid = objs[j].valid
      /\ objs[i].gvk \in RoleGVKs \/ Binds(objs[i]) => objs[i].spec = objs[j].spec

LEMMA RBACKinds ==
  /\ \A gvk \in normalizedResourceTypes :
       /\ gvk \in RoleGVKs \/ gvk \in BindingGVKs
       /\ ~(gvk \in RoleGVKs /\ gvk \in BindingGVKs)
       /\ gvk \notin WebhookGVKs /\ gvk \in GeneratedGVKs /\ gvk # ServiceAccountGVK
       /\ gvk \notin SkippedGVKs
  /\ \A gvk \in RoleGVKs : gvk \in normalizedResourceTypes
  /\ \A gvk \in BindingGVKs : gvk \in normalizedResourceTypes /\ RoleOf(gvk) \in RoleGVKs
  /\ \A obj : RefersTo(obj).gvk \in RoleGVKs
  /\ RoleGVK # ClusterRoleGVK /\ RoleBindingGVK # ClusterRoleBindingGVK
<1>1. \A gvk \in normalizedResourceTypes :
        gvk.kind \in {"Role", "ClusterRole", "RoleBinding", "ClusterRoleBinding"}
  BY ManifestKinds DEF normalizedResourceTypes
<1>2. /\ \A gvk \in RoleGVKs : gvk.kind \in {"Role", "ClusterRole"}
      /\ \A gvk \in BindingGVKs : gvk.kind \in {"RoleBinding", "ClusterRoleBinding"}
      /\ \A gvk \in WebhookGVKs :
           gvk.kind \in {"ValidatingWebhookConfiguration", "MutatingWebhookConfiguration"}
      /\ \A gvk \in SkippedGVKs :
           gvk.kind \in {"CustomResourceDefinition", "ClusterServiceVersion"}
  BY ManifestKinds DEF RoleGVKs, BindingGVKs, WebhookGVKs, SkippedGVKs
<1>3. /\ \A gvk \in normalizedResourceTypes :
           (gvk \in RoleGVKs \/ gvk \in BindingGVKs) /\ gvk \in GeneratedGVKs
      /\ \A gvk \in RoleGVKs : gvk \in normalizedResourceTypes
      /\ \A gvk \in BindingGVKs : gvk \in normalizedResourceTypes
  BY Zenon DEF normalizedResourceTypes, RoleGVKs, BindingGVKs, GeneratedGVKs
<1>4. /\ \A gvk : RoleOf(gvk) \in RoleGVKs
      /\ \A obj : RefersTo(obj).gvk \in RoleGVKs
  BY DEF RoleOf, RefersTo, RoleGVKs
<1>5. ServiceAccountGVK.kind = "ServiceAccount"
      /\ RoleGVK # ClusterRoleGVK /\ RoleBindingGVK # ClusterRoleBindingGVK
  BY ManifestKinds
<1> QED
  BY <1>1, <1>2, <1>3, <1>4, <1>5

LEMMA LastApplies ==
  ASSUME NEW objs \in Seq(Object), NEW i \in DOMAIN objs
  PROVE  \E j \in Applied(objs) : j \in DOMAIN objs /\ Key(objs[j]) = Key(objs[i])
<1> DEFINE S == {j \in DOMAIN objs : Key(objs[j]) = Key(objs[i])}
           last == Latest(S)
<1>1. Len(objs) \in Nat /\ DOMAIN objs = 1 .. Len(objs)
  OBVIOUS
<1>2. (\A j \in S : j \in 1 .. Len(objs)) /\ S # {}
  BY <1>1
<1>3. \A j \in DOMAIN objs : j \in S <=> Key(objs[j]) = Key(objs[i])
  OBVIOUS
<1> HIDE DEF S
<1>4. last \in S /\ \A j \in S : j =< last
  BY <1>1, <1>2, LatestIsLast
<1>5. last \in DOMAIN objs /\ Key(objs[last]) = Key(objs[i])
  BY <1>1, <1>2, <1>3, <1>4
<1>6. \A j \in last + 1 .. Len(objs) : Key(objs[j]) # Key(objs[last])
  <2> SUFFICES ASSUME NEW j \in last + 1 .. Len(objs), Key(objs[j]) = Key(objs[last])
               PROVE  FALSE
    OBVIOUS
  <2>1. j \in DOMAIN objs /\ ~(j =< last)
    BY <1>1, <1>5
  <2>2. j \in S
    BY <1>3, <1>5, <2>1
  <2> QED
    BY <1>4, <2>1, <2>2
<1> HIDE DEF last
<1>7. last \in Applied(objs)
  BY <1>5, <1>6 DEF Applied
<1> QED
  BY <1>5, <1>7

LEMMA RulesMean ==
  ASSUME NEW objs, NEW key, NEW rule
  PROVE  rule \in RulesOf(objs, key) <=>
           \E j \in Applied(objs) : /\ Key(objs[j]) = key
                                    /\ \E k \in DOMAIN objs[j].spec.rules :
                                         rule = objs[j].spec.rules[k]
<1> DEFINE rules(j) == {objs[j].spec.rules[k] : k \in DOMAIN objs[j].spec.rules}
           roles == {j \in Applied(objs) : Key(objs[j]) = key}
<1>1. RulesOf(objs, key) = UNION {rules(j) : j \in roles}
  BY DEF RulesOf
<1>2. \A j : rule \in rules(j) <=> \E k \in DOMAIN objs[j].spec.rules : rule = objs[j].spec.rules[k]
  OBVIOUS
<1>3. \A j : j \in roles <=> j \in Applied(objs) /\ Key(objs[j]) = key
  OBVIOUS
<1> HIDE DEF rules, roles
<1>4. rule \in RulesOf(objs, key) <=> \E j \in roles : rule \in rules(j)
  BY <1>1, Zenon
<1> QED
  BY <1>2, <1>3, <1>4, Zenon

LEMMA GrantsMean ==
  ASSUME NEW objs \in Seq(Object), Agreeing(objs), NEW g
  PROVE  g \in GrantsOf(objs) <=> Granted(objs, g)
<1> DEFINE Some(b) == {objs[b].gvk.kind} \X objs[b].spec.accounts \X RulesOf(objs, RefersTo(objs[b]))
           Bs == {j \in Applied(objs) : Binds(objs[j])}
<1>1. g \in GrantsOf(objs) <=> \E b \in Bs : g \in Some(b)
  BY Zenon DEF GrantsOf
<1>2. ASSUME NEW b
      PROVE  g \in Some(b) <=>
               \E a \in objs[b].spec.accounts : \E rule \in RulesOf(objs, RefersTo(objs[b])) :
                 g = <<objs[b].gvk.kind, a, rule>>
  OBVIOUS
<1>3. \A b \in Bs : b \in Applied(objs) /\ Binds(objs[b])
  OBVIOUS
<1>4. \A b \in Applied(objs) : Binds(objs[b]) => b \in Bs
  OBVIOUS
<1>5. \A b \in Applied(objs) : b \in DOMAIN objs
  BY DEF Applied
<1> HIDE DEF Bs, Some
<1>6. ASSUME g \in GrantsOf(objs) PROVE Granted(objs, g)
  <2>1. PICK b \in Bs : g \in Some(b)
    BY <1>1, <1>6
  <2>2. PICK a \in objs[b].spec.accounts, rule \in RulesOf(objs, RefersTo(objs[b])) :
          g = <<objs[b].gvk.kind, a, rule>>
    BY <1>2, <2>1
  <2>3. PICK r \in Applied(objs) :
          /\ Key(objs[r]) = RefersTo(objs[b])
          /\ \E k \in DOMAIN objs[r].spec.rules : rule = objs[r].spec.rules[k]
    BY <2>2, RulesMean
  <2> QED
    BY <1>3, <1>5, <2>1, <2>2, <2>3, Zenon DEF Granted
<1>7. ASSUME Granted(objs, g) PROVE g \in GrantsOf(objs)
  <2>1. PICK b \in DOMAIN objs, r \in DOMAIN objs :
          /\ Binds(objs[b]) /\ Key(objs[r]) = RefersTo(objs[b])
          /\ \E a \in objs[b].spec.accounts : \E k \in DOMAIN objs[r].spec.rules :
               g = <<objs[b].gvk.kind, a, objs[r].spec.rules[k]>>
    BY <1>7 DEF Granted
  <2>2. PICK c \in Applied(objs) : c \in DOMAIN objs /\ Key(objs[c]) = Key(objs[b])
    BY LastApplies
  <2>3. PICK s \in Applied(objs) : s \in DOMAIN objs /\ Key(objs[s]) = Key(objs[r])
    BY LastApplies
  <2>4. /\ objs[b].gvk \in BindingGVKs /\ objs[b].gvk \in normalizedResourceTypes
        /\ objs[c].gvk = objs[b].gvk
    BY <2>1, <2>2, RBACKinds DEF Binds, Key, BindingGVKs
  <2>5. objs[c].valid = objs[b].valid /\ objs[c].spec = objs[b].spec
    BY <2>1, <2>2, <2>4 DEF Agreeing
  <2>6. Binds(objs[c]) /\ RefersTo(objs[c]) = RefersTo(objs[b])
    BY <2>1, <2>4, <2>5 DEF Binds, RefersTo
  <2>7. objs[r].gvk \in RoleGVKs /\ objs[r].gvk \in normalizedResourceTypes
    <3>1. objs[r].gvk = RefersTo(objs[b]).gvk
      BY <2>1 DEF Key, RefersTo
    <3> QED
      BY <3>1, RBACKinds
  <2>8. objs[s].spec = objs[r].spec
    BY <2>3, <2>7 DEF Agreeing
  <2>9. PICK a \in objs[b].spec.accounts, k \in DOMAIN objs[r].spec.rules :
          g = <<objs[b].gvk.kind, a, objs[r].spec.rules[k]>>
    BY <2>1
  <2>10. objs[r].spec.rules[k] \in RulesOf(objs, RefersTo(objs[c]))
    BY <2>1, <2>3, <2>6, <2>8, <2>9, RulesMean
  <2>11. g \in Some(c)
    BY <1>2, <2>4, <2>5, <2>9, <2>10
  <2>12. c \in Bs
    BY <1>4, <2>2, <2>6
  <2> QED
    BY <1>1, <2>11, <2>12
<1> QED
  BY <1>6, <1>7

\* The new name of a resource.
NewKey(key) == [name |-> NewName(key.gvk, key.name), gvk |-> key.gvk]

IsKey(key) == key = [name |-> key.name, gvk |-> key.gvk]

\* Two resources that have no clean name yet do not get the same.
LEMMA NewKeysApart ==
  ASSUME MappingApart, NEW a, NEW b, IsKey(a), IsKey(b), a \notin CleanKeys, b \notin CleanKeys,
         NewKey(a) = NewKey(b)
  PROVE  a = b
<1>1. ASSUME NEW key, IsKey(key)
      PROVE  NewName(key.gvk, key.name) = IF key \in DOMAIN mapping THEN mapping[key] ELSE key.name
  BY <1>1, Zenon DEF NewName, IsKey
<1>2. ASSUME NEW key \in DOMAIN mapping PROVE [name |-> mapping[key], gvk |-> key.gvk] \in CleanKeys
  BY Zenon DEF CleanKeys
<1>3. a.gvk = b.gvk /\ NewName(a.gvk, a.name) = NewName(b.gvk, b.name)
  BY DEF NewKey
<1>4. /\ NewName(a.gvk, a.name) = IF a \in DOMAIN mapping THEN mapping[a] ELSE a.name
      /\ NewName(b.gvk, b.name) = IF b \in DOMAIN mapping THEN mapping[b] ELSE b.name
  BY <1>1
<1>5. CASE a \in DOMAIN mapping /\ b \in DOMAIN mapping
  BY <1>3, <1>4, <1>5 DEF MappingApart
<1>6. CASE a \in DOMAIN mapping /\ b \notin DOMAIN mapping
  <2>1. b = [name |-> mapping[a], gvk |-> a.gvk]
    BY <1>3, <1>4, <1>6 DEF IsKey
  <2> QED
    BY <1>2, <1>6, <2>1
<1>7. CASE a \notin DOMAIN mapping /\ b \in DOMAIN mapping
  <2>1. a = [name |-> mapping[b], gvk |-> b.gvk]
    BY <1>3, <1>4, <1>7 DEF IsKey
  <2> QED
    BY <1>2, <1>7, <2>1
<1>8. CASE a \notin DOMAIN mapping /\ b \notin DOMAIN mapping
  BY <1>3, <1>4, <1>8 DEF IsKey
<1> QED
  BY <1>5, <1>6, <1>7, <1>8

LEMMA CleanedKeys ==
  ASSUME NEW old, NEW new, Cleaned(old, new), old.gvk \in normalizedResourceTypes
  PROVE  Key(new) = NewKey(Key(old))
BY DEF Cleaned, Key, NewKey

\* No role, no binding and no role a binding refers to has a clean name yet, and a
\* binding that refers to another kind of role than normalizeBinding renames does
\* not need it to.
RBACApart(objs) ==
  /\ \A i \in DOMAIN objs : objs[i].gvk \in normalizedResourceTypes => Key(objs[i]) \notin CleanKeys
  /\ \A i \in DOMAIN objs : Binds(objs[i]) =>
       /\ RefersTo(objs[i]) \notin CleanKeys
       /\ RefersTo(objs[i]) # RoleKey(objs[i]) =>
            RefersTo(objs[i]) \notin DOMAIN mapping /\ RoleKey(objs[i]) \notin DOMAIN mapping

\* A binding follows the role it refers to.
LEMMA CleanedBinding ==
  ASSUME NEW old \in Object, NEW new, Cleaned(old, new), Binds(old),
         RefersTo(old) # RoleKey(old) =>
           RefersTo(old) \notin DOMAIN mapping /\ RoleKey(old) \notin DOMAIN mapping
  PROVE  /\ Binds(new) /\ new.gvk = old.gvk /\ new.spec.accounts = old.spec.accounts
         /\ RefersTo(new) = NewKey(RefersTo(old))
<1> DEFINE role == NewName(RoleOf(old.gvk), old.spec.role)
<1>1. /\ old.gvk \in {RoleBindingGVK, ClusterRoleBindingGVK} /\ old.valid
      /\ new.gvk = old.gvk /\ new.valid = old.valid
      /\ new.spec = [old.spec EXCEPT !.role = role]
  BY DEF Binds, Cleaned
<1>2. old.spec \in BindingSpec
  BY <1>1, ObjectFields
<1> HIDE DEF role
<1>3. /\ new.spec.role = role /\ new.spec.accounts = old.spec.accounts
      /\ new.spec.roleKind = old.spec.roleKind
  BY <1>1, <1>2 DEF BindingSpec
<1>4. Binds(new)
  BY <1>1 DEF Binds
<1>5. RefersTo(new) = [name |-> role, gvk |-> RefersTo(old).gvk]
  BY <1>3 DEF RefersTo
<1>6. RefersTo(old) = [name |-> old.spec.role, gvk |-> RefersTo(old).gvk]
      /\ RefersTo(old).name = old.spec.role
  BY DEF RefersTo
<1>7. RoleKey(old) = [name |-> old.spec.role, gvk |-> RoleOf(old.gvk)]
  BY DEF RoleKey, RoleOf
<1>8. role = NewName(RefersTo(old).gvk, old.spec.role)
  <2>1. CASE RefersTo(old) = RoleKey(old)
    <3>1. RefersTo(old).gvk = RoleOf(old.gvk)
      BY <1>7, <2>1
    <3> QED
      BY <3>1 DEF role
  <2>2. CASE RefersTo(old) # RoleKey(old)
    <3>1. role = old.spec.role
      BY <1>7, <2>2 DEF role, NewName
    <3>2. NewName(RefersTo(old).gvk, old.spec.role) = old.spec.role
      BY <1>6, <2>2 DEF NewName
    <3> QED
      BY <3>1, <3>2
  <2> QED
    BY <2>1, <2>2
<1>9. NewKey(RefersTo(old)) = [name |-> role, gvk |-> RefersTo(old).gvk]
  BY <1>6, <1>8 DEF NewKey
<1> QED
  BY <1>1, <1>3, <1>4, <1>5, <1>9

LEMMA CleanedBinds ==
  ASSUME NEW old, NEW new, Cleaned(old, new), Binds(new)
  PROVE  Binds(old)
BY DEF Binds, Cleaned

\* Renaming and sorting leave what is granted.
LEMMA GrantsMove ==
  ASSUME NEW orig, NEW from, CleanedFrom(orig, from), RBACApart(orig), NEW g
  PROVE  Granted(objects, g) <=> Granted(orig, g)
<1>1. /\ orig \in Seq(Object) /\ MappingApart
      /\ \A i \in DOMAIN objects : from[i] \in DOMAIN orig /\ Cleaned(orig[from[i]], objects[i])
      /\ \A k \in DOMAIN orig : \E i \in DOMAIN objects : from[i] = k
      /\ \A k \in DOMAIN orig : orig[k] \in Object
  BY DEF CleanedFrom, Renamable, Complete, Gathered, Bijection, Injection, Surjection
<1>2. \A x : IsKey(Key(x)) /\ IsKey(RefersTo(x)) /\ Key(x).gvk = x.gvk
  BY DEF IsKey, Key, RefersTo
\* A binding and its role before and after.
<1>3. ASSUME NEW b \in DOMAIN objects, NEW r \in DOMAIN objects, Binds(orig[from[b]])
      PROVE  /\ Binds(objects[b]) /\ objects[b].gvk = orig[from[b]].gvk
             /\ objects[b].spec.accounts = orig[from[b]].spec.accounts
             /\ Key(objects[r]) = RefersTo(objects[b]) <=>
                  Key(orig[from[r]]) = RefersTo(orig[from[b]])
             /\ Key(objects[r]) = RefersTo(objects[b]) => objects[r].spec = orig[from[r]].spec
  <2> DEFINE old == orig[from[b]]
             role == orig[from[r]]
  <2>1. /\ from[b] \in DOMAIN orig /\ old \in Object /\ Cleaned(old, objects[b])
        /\ from[r] \in DOMAIN orig /\ role \in Object /\ Cleaned(role, objects[r])
    BY <1>1
  <2>2. /\ RefersTo(old) \notin CleanKeys
        /\ RefersTo(old) # RoleKey(old) =>
             RefersTo(old) \notin DOMAIN mapping /\ RoleKey(old) \notin DOMAIN mapping
    BY <1>3, <2>1 DEF RBACApart
  <2>3. role.gvk \in normalizedResourceTypes => Key(role) \notin CleanKeys
    BY <2>1 DEF RBACApart
  <2>4. Binds(old)
    BY <1>3
  <2> HIDE DEF old, role
  <2>5. /\ Binds(objects[b]) /\ objects[b].gvk = old.gvk
        /\ objects[b].spec.accounts = old.spec.accounts
        /\ RefersTo(objects[b]) = NewKey(RefersTo(old))
    BY <2>1, <2>2, <2>4, CleanedBinding
  <2>6. objects[r].gvk = role.gvk
    BY <2>1 DEF Cleaned
  <2>7. RefersTo(objects[b]).gvk \in RoleGVKs /\ RefersTo(old).gvk \in RoleGVKs
    BY RBACKinds
  <2>8. role.gvk \in RoleGVKs =>
          /\ role.gvk \in normalizedResourceTypes
          /\ Key(objects[r]) = NewKey(Key(role))
          /\ objects[r].spec = role.spec
    BY <2>1, RBACKinds, CleanedKeys DEF Cleaned, RoleGVKs
  <2>9. Key(objects[r]) = RefersTo(objects[b]) \/ Key(role) = RefersTo(old) =>
          role.gvk \in RoleGVKs
    BY <1>2, <2>6, <2>7
  <2>10. ASSUME Key(objects[r]) = RefersTo(objects[b])
         PROVE  Key(role) = RefersTo(old)
    <3>1. NewKey(Key(role)) = NewKey(RefersTo(old))
      BY <2>5, <2>8, <2>9, <2>10
    <3>2. Key(role) \notin CleanKeys
      BY <2>3, <2>8, <2>9, <2>10
    <3> QED
      BY <1>1, <1>2, <2>2, <3>1, <3>2, NewKeysApart
  <2>11. ASSUME Key(role) = RefersTo(old)
         PROVE  Key(objects[r]) = RefersTo(objects[b])
    BY <2>5, <2>8, <2>9, <2>11
  <2> QED
    BY <2>5, <2>8, <2>9, <2>10, <2>11 DEF old, role
<1>4. ASSUME Granted(objects, g) PROVE Granted(orig, g)
  <2>1. PICK b \in DOMAIN objects, r \in DOMAIN objects :
          /\ Binds(objects[b]) /\ Key(objects[r]) = RefersTo(objects[b])
          /\ \E a \in objects[b].spec.accounts : \E k \in DOMAIN objects[r].spec.rules :
               g = <<objects[b].gvk.kind, a, objects[r].spec.rules[k]>>
    BY <1>4 DEF Granted
  <2>2. Binds(orig[from[b]])
    BY <1>1, <2>1, CleanedBinds
  <2>3. /\ from[b] \in DOMAIN orig /\ from[r] \in DOMAIN orig
        /\ Key(orig[from[r]]) = RefersTo(orig[from[b]])
        /\ objects[b].gvk = orig[from[b]].gvk
        /\ objects[b].spec.accounts = orig[from[b]].spec.accounts
        /\ objects[r].spec = orig[from[r]].spec
    BY <1>1, <1>3, <2>1, <2>2
  <2> QED
    BY <2>1, <2>2, <2>3 DEF Granted
<1>5. ASSUME Granted(orig, g) PROVE Granted(objects, g)
  <2>1. PICK c \in DOMAIN orig, s \in DOMAIN orig :
          /\ Binds(orig[c]) /\ Key(orig[s]) = RefersTo(orig[c])
          /\ \E a \in orig[c].spec.accounts : \E k \in DOMAIN orig[s].spec.rules :
               g = <<orig[c].gvk.kind, a, orig[s].spec.rules[k]>>
    BY <1>5 DEF Granted
  <2>2. PICK b \in DOMAIN objects : from[b] = c
    BY <1>1
  <2>3. PICK r \in DOMAIN objects : from[r] = s
    BY <1>1
  <2>4. /\ Binds(objects[b]) /\ Key(objects[r]) = RefersTo(objects[b])
        /\ objects[b].gvk = orig[c].gvk /\ objects[b].spec.accounts = orig[c].spec.accounts
        /\ objects[r].spec = orig[s].spec
    BY <1>3, <2>1, <2>2, <2>3
  <2> QED
    BY <2>1, <2>4 DEF Granted
<1> QED
  BY <1>4, <1>5

\* A complete list in which the roles and bindings of a name are the same one.
OnePerKey(objs) ==
  \A x, y \in Elements(objs) :
    x.gvk \in normalizedResourceTypes /\ Key(x) = Key(y) => x = y

LEMMA OneAgrees ==
  ASSUME NEW objs, OnePerKey(objs)
  PROVE  Agreeing(objs)
<1>1. \A i \in DOMAIN objs : objs[i] \in Elements(objs)
  BY DEF Elements
<1> QED
  BY <1>1 DEF OnePerKey, Agreeing

LEMMA StillAgreeing ==
  ASSUME NEW orig, NEW from, CleanedFrom(orig, from), RBACApart(orig), OnePerKey(orig)
  PROVE  Agreeing(objects)
<1> SUFFICES ASSUME NEW i \in DOMAIN objects, NEW j \in DOMAIN objects,
                    Key(objects[i]) = Key(objects[j]),
                    objects[i].gvk \in normalizedResourceTypes
             PROVE  /\ objects[i].valid = objects[j].valid
                    /\ objects[i].gvk \in RoleGVKs \/ Binds(objects[i]) =>
                         objects[i].spec = objects[j].spec
  BY DEF Agreeing
<1> DEFINE x == orig[from[i]]
           y == orig[from[j]]
<1>1. /\ MappingApart
      /\ from[i] \in DOMAIN orig /\ Cleaned(x, objects[i])
      /\ from[j] \in DOMAIN orig /\ Cleaned(y, objects[j])
  BY DEF CleanedFrom, Renamable, Bijection, Injection
<1>2. x \in Elements(orig) /\ y \in Elements(orig)
  BY <1>1 DEF Elements
<1>3. objects[j].gvk = objects[i].gvk /\ x.gvk = objects[i].gvk /\ y.gvk = objects[j].gvk
  BY <1>1 DEF Key, Cleaned
<1>4. Key(x) \notin CleanKeys /\ Key(y) \notin CleanKeys
  BY <1>1, <1>3 DEF RBACApart
<1> HIDE DEF x, y
<1>5. NewKey(Key(x)) = NewKey(Key(y))
  BY <1>1, <1>3, CleanedKeys
<1>6. IsKey(Key(x)) /\ IsKey(Key(y))
  BY DEF IsKey, Key
<1>7. Key(x) = Key(y)
  BY <1>1, <1>4, <1>5, <1>6, NewKeysApart
<1>8. x = y
  BY <1>2, <1>3, <1>7 DEF OnePerKey
<1>9. /\ objects[i].valid = x.valid /\ objects[j].valid = x.valid
      /\ x.gvk \in RoleGVKs => objects[i].spec = x.spec /\ objects[j].spec = x.spec
      /\ x.gvk \in BindingGVKs /\ x.valid => objects[i].spec = objects[j].spec
  BY <1>1, <1>8 DEF Cleaned, RoleGVKs, BindingGVKs
<1> QED
  BY <1>3, <1>9 DEF Binds, BindingGVKs

-----------------------------------------------------------------------------
(* Where the roles and bindings of a complete list come from. *)

PermissionsFor(gvk) ==
  IF gvk \in {RoleGVK, RoleBindingGVK} THEN bundle.permissions ELSE bundle.clusterPermissions

RBACFor(gvk, permission) ==
  IF gvk \in RoleGVKs THEN RoleFor(gvk, permission)
                      ELSE BindingFor(gvk, RoleOf(gvk).kind, permission)

\* x is the role or the binding, of this kind, of a permission.
MadeOf(x, gvk, p) ==
  /\ gvk \in normalizedResourceTypes /\ p \in DOMAIN PermissionsFor(gvk)
  /\ x = RBACFor(gvk, PermissionsFor(gvk)[p])

LEMMA PermissionsType ==
  ASSUME bundle \in Bundles, NEW gvk, NEW p \in DOMAIN PermissionsFor(gvk)
  PROVE  /\ PermissionsFor(gvk) \in PermissionLists
         /\ PermissionsFor(gvk)[p] \in Permission
         /\ GeneratedName(PermissionsFor(gvk)[p]) \in GeneratedNames
<1>1. PermissionsFor(gvk) \in PermissionLists
  BY DEF PermissionsFor, PermissionLists
<1>2. PermissionsFor(gvk) \in Seq(Permission)
  BY BundleFields DEF PermissionsFor
<1>3. PermissionsFor(gvk)[p] \in Permission
  BY <1>2
<1> DEFINE names(list) == {GeneratedName(list[i]) : i \in DOMAIN list}
<1>4. GeneratedNames = UNION {names(list) : list \in PermissionLists}
  BY DEF GeneratedNames
<1>5. GeneratedName(PermissionsFor(gvk)[p]) \in names(PermissionsFor(gvk))
  OBVIOUS
<1> HIDE DEF names
<1> QED
  BY <1>1, <1>3, <1>4, <1>5, Zenon

LEMMA MadeRBAC ==
  ASSUME bundle \in Bundles, NEW x, NEW gvk, NEW p, MadeOf(x, gvk, p)
  PROVE  LET permission == PermissionsFor(gvk)[p]
         IN  /\ permission \in Permission
             /\ x.gvk = gvk /\ x.name = GeneratedName(permission) /\ x.name \in GeneratedNames
             /\ gvk \in RoleGVKs => x.spec.rules = normalizeRBACRules(permission.rules)
             /\ gvk \in BindingGVKs =>
                  /\ Binds(x) /\ x.spec.accounts = {permission.account}
                  /\ RefersTo(x) = [name |-> x.name, gvk |-> RoleOf(gvk)]
                  /\ RoleKey(x) = RefersTo(x)
             /\ Binds(x) => gvk \in BindingGVKs
<1> DEFINE permission == PermissionsFor(gvk)[p]
<1>1. /\ gvk \in normalizedResourceTypes /\ x = RBACFor(gvk, permission)
      /\ permission \in Permission /\ GeneratedName(permission) \in GeneratedNames
  BY PermissionsType DEF MadeOf
<1> HIDE DEF permission
<1>2. CASE gvk \in RoleGVKs
  <2>1. x = RoleFor(gvk, permission) /\ gvk \in {RoleGVK, ClusterRoleGVK}
    BY <1>1, <1>2 DEF RBACFor, RoleGVKs
  <2>2. x.gvk = gvk /\ x.name = GeneratedName(permission)
        /\ x.spec = [rules |-> normalizeRBACRules(permission.rules)]
    BY <1>1, <2>1, RoleMade
  <2>3. gvk \notin BindingGVKs /\ ~Binds(x)
    BY <1>1, <1>2, <2>2, RBACKinds DEF Binds, BindingGVKs
  <2> QED
    BY <1>1, <2>2, <2>3 DEF permission
<1>3. CASE gvk \notin RoleGVKs
  <2> DEFINE kind == RoleOf(gvk).kind
  <2>1. gvk \in BindingGVKs /\ gvk \in {RoleBindingGVK, ClusterRoleBindingGVK}
    BY <1>1, <1>3, RBACKinds DEF BindingGVKs
  <2>2. kind \in {"Role", "ClusterRole"} /\ (kind = "Role" <=> gvk = RoleBindingGVK)
    BY <2>1, RBACKinds, ManifestKinds DEF RoleOf
  <2>3. x = BindingFor(gvk, kind, permission)
    BY <1>1, <1>3 DEF RBACFor
  <2> HIDE DEF kind
  <2>4. /\ x.gvk = gvk /\ x.name = GeneratedName(permission) /\ x.valid = TRUE
        /\ x.spec = [roleKind |-> kind, role |-> GeneratedName(permission),
                     accounts |-> {permission.account}]
    BY <1>1, <2>1, <2>2, <2>3, BindingMade
  <2>5. Binds(x) /\ x.spec.accounts = {permission.account}
    BY <2>1, <2>4 DEF Binds
  <2>6. /\ RefersTo(x) = [name |-> x.name, gvk |-> RoleOf(gvk)]
        /\ RoleKey(x) = RefersTo(x)
    BY <2>2, <2>4 DEF RefersTo, RoleKey, RoleOf
  <2> QED
    BY <1>1, <1>3, <2>1, <2>4, <2>5, <2>6 DEF permission
<1> QED
  BY <1>2, <1>3

\* Two permissions of a list with one name are the same.
LEMMA SamePermission ==
  ASSUME bundle \in Bundles, NEW gvk, NEW p \in DOMAIN PermissionsFor(gvk),
         NEW q \in DOMAIN PermissionsFor(gvk),
         GeneratedName(PermissionsFor(gvk)[p]) = GeneratedName(PermissionsFor(gvk)[q])
  PROVE  PermissionsFor(gvk)[p] = PermissionsFor(gvk)[q]
<1> DEFINE list == PermissionsFor(gvk)
<1>1. list \in {bundle.permissions, bundle.clusterPermissions}
  BY DEF PermissionsFor
<1>2. list[p].hash \in STRING /\ list[q].hash \in STRING /\ bundle.csvName \in Seq(STRING)
  BY PermissionsType, BundleFields, WordsAssumption DEF Permission, Name
<1>3. Append(bundle.csvName, list[p].hash) = Append(bundle.csvName, list[q].hash)
  BY DEF GeneratedName
<1> HIDE DEF list
<1>4. list[p].hash = list[q].hash
  <2> DEFINE n == Len(bundle.csvName) + 1
  <2>1. Append(bundle.csvName, list[p].hash)[n] = list[p].hash
        /\ Append(bundle.csvName, list[q].hash)[n] = list[q].hash
    BY <1>2
  <2> QED
    BY <1>3, <2>1
<1>5. list[p] = list[q]
  BY <1>1, <1>4, HashAssumption DEF list
<1> QED
  BY <1>5 DEF list

LEMMA GeneratedNotClean ==
  ASSUME bundle \in Bundles, MappingApart, NEW key, key.name \in GeneratedNames
  PROVE  key \notin CleanKeys
<1> SUFFICES ASSUME key \in CleanKeys PROVE FALSE
  OBVIOUS
<1>1. PICK old \in DOMAIN mapping : key = [name |-> mapping[old], gvk |-> old.gvk]
  BY Zenon DEF CleanKeys
<1>2. EndsClean(key.name)
  BY <1>1 DEF MappingApart
<1> DEFINE names(list) == {GeneratedName(list[i]) : i \in DOMAIN list}
<1>3. GeneratedNames = UNION {names(list) : list \in PermissionLists}
  BY DEF GeneratedNames
<1>4. \A list : key.name \in names(list) => \E i \in DOMAIN list : key.name = GeneratedName(list[i])
  OBVIOUS
<1> HIDE DEF names
<1>5. PICK list \in PermissionLists : key.name \in names(list)
  BY <1>3, Zenon
<1>6. PICK i \in DOMAIN list : key.name = GeneratedName(list[i])
  BY <1>4, <1>5
<1>7. list \in Seq(Permission)
  BY BundleFields DEF PermissionLists
<1>8. list[i].hash \in HashWords /\ list[i].hash \in STRING /\ bundle.csvName \in Seq(STRING)
  <2>1. list[i] \in Permission
    BY <1>6, <1>7
  <2>2. list[i].hash \in HashWords /\ list[i].hash \in STRING
    BY <2>1, WordsAssumption DEF Permission
  <2>3. bundle.csvName \in Seq(STRING)
    BY BundleFields DEF Name
  <2> QED
    BY <2>2, <2>3
<1>9. key.name[Len(key.name)] = list[i].hash
  <2>1. key.name = Append(bundle.csvName, list[i].hash)
    BY <1>6 DEF GeneratedName
  <2> QED
    BY <1>8, <2>1
<1> QED
  BY <1>2, <1>8, <1>9 DEF EndsClean

\* A role or binding of a complete list is the bundle's own or made of a permission.
LEMMA RBACOrigin ==
  ASSUME bundle \in Bundles, namespace \in Namespaces, NEW orig, Complete(orig),
         NEW x \in Elements(orig), x.gvk \in normalizedResourceTypes
  PROVE  \/ x \in OwnRBAC /\ x \in Elements(OtherResources)
         \/ \E gvk, p : MadeOf(x, gvk, p)
<1>1. x \in Elements(Rest) \/ Brought(x, Accounts)
  BY DEF Complete, Gathered
<1>2. CASE x \in Elements(Rest)
  <2>1. /\ \A y \in Elements(NamespaceObjects) : y.gvk = NamespaceGVK
        /\ \A y \in Elements(bundle.deployments) : y.gvk = DeploymentGVK
        /\ \A y \in Elements(WebhookServices) : y.gvk = ServiceGVK
    BY NamespacePart, BundleFields, ServicesPart DEF Uniform, Elements
  <2>2. \A y \in Elements(Webhooks) : y.gvk \in {ValidatingGVK, MutatingGVK}
    BY ConfigurationsPart DEF Elements
  <2>3. \A y \in Elements(CRDs) : y.gvk \in {CRDGVK, CRDV1Beta1GVK}
    BY CRDPart DEF Elements
  <2>4. /\ x.gvk # NamespaceGVK /\ x.gvk # DeploymentGVK /\ x.gvk # ServiceGVK
        /\ x.gvk \notin {ValidatingGVK, MutatingGVK} /\ x.gvk \notin {CRDGVK, CRDV1Beta1GVK}
    <3>1. x.gvk.kind \in {"Role", "ClusterRole", "RoleBinding", "ClusterRoleBinding"}
      BY ManifestKinds DEF normalizedResourceTypes
    <3> QED
      BY <3>1, ManifestKinds
  <2>5. x \in Elements(OtherResources)
    BY <1>2, <2>1, <2>2, <2>3, <2>4, RestElements
  <2>6. \E i \in DOMAIN bundle.objects : x = bundle.objects[i]
    BY <2>5, OthersPart DEF Elements
  <2>7. x \in OwnRBAC
    BY <2>6 DEF OwnRBAC
  <2> QED
    BY <2>5, <2>7
<1>3. CASE Brought(x, Accounts)
  <2>1. \A list : \A p \in Having(list, Accounts) : p \in DOMAIN list
    BY DEF Having
  <2>2. ASSUME NEW a \in Accounts, x = AccountFor(a) PROVE FALSE
    BY <2>2, AccountsType, AccountMade, RBACKinds
  <2>3. ASSUME NEW p \in DOMAIN bundle.permissions,
               \/ x = RoleFor(RoleGVK, bundle.permissions[p])
               \/ x = BindingFor(RoleBindingGVK, "Role", bundle.permissions[p])
        PROVE  \E gvk, q : MadeOf(x, gvk, q)
    <3>1. /\ PermissionsFor(RoleGVK) = bundle.permissions
          /\ PermissionsFor(RoleBindingGVK) = bundle.permissions
      BY DEF PermissionsFor
    <3>2. /\ RoleGVK \in RoleGVKs /\ RoleBindingGVK \in BindingGVKs
          /\ RoleGVK \in normalizedResourceTypes /\ RoleBindingGVK \in normalizedResourceTypes
          /\ RoleBindingGVK \notin RoleGVKs /\ RoleOf(RoleBindingGVK).kind = "Role"
      BY RBACKinds, ManifestKinds DEF RoleGVKs, BindingGVKs, RoleOf
    <3>3. x = RoleFor(RoleGVK, bundle.permissions[p]) => MadeOf(x, RoleGVK, p)
      BY <3>1, <3>2 DEF MadeOf, RBACFor
    <3>4. x = BindingFor(RoleBindingGVK, "Role", bundle.permissions[p]) =>
            MadeOf(x, RoleBindingGVK, p)
      BY <3>1, <3>2 DEF MadeOf, RBACFor
    <3> QED
      BY <2>3, <3>3, <3>4
  <2>4. ASSUME NEW p \in DOMAIN bundle.clusterPermissions,
               \/ x = RoleFor(ClusterRoleGVK, bundle.clusterPermissions[p])
               \/ x = BindingFor(ClusterRoleBindingGVK, "ClusterRole", bundle.clusterPermissions[p])
        PROVE  \E gvk, q : MadeOf(x, gvk, q)
    <3>1. /\ PermissionsFor(ClusterRoleGVK) = bundle.clusterPermissions
          /\ PermissionsFor(ClusterRoleBindingGVK) = bundle.clusterPermissions
      BY ManifestKinds DEF PermissionsFor
    <3>2. /\ ClusterRoleGVK \in RoleGVKs /\ ClusterRoleBindingGVK \in BindingGVKs
          /\ ClusterRoleGVK \in normalizedResourceTypes
          /\ ClusterRoleBindingGVK \in normalizedResourceTypes
          /\ ClusterRoleBindingGVK \notin RoleGVKs
          /\ RoleOf(ClusterRoleBindingGVK).kind = "ClusterRole"
      BY RBACKinds, ManifestKinds DEF RoleGVKs, BindingGVKs, RoleOf
    <3>3. x = RoleFor(ClusterRoleGVK, bundle.clusterPermissions[p]) => MadeOf(x, ClusterRoleGVK, p)
      BY <3>1, <3>2 DEF MadeOf, RBACFor
    <3>4. x = BindingFor(ClusterRoleBindingGVK, "ClusterRole", bundle.clusterPermissions[p]) =>
            MadeOf(x, ClusterRoleBindingGVK, p)
      BY <3>1, <3>2 DEF MadeOf, RBACFor
    <3> QED
      BY <2>4, <3>3, <3>4
  <2> QED
    BY <1>3, <2>1, <2>2, <2>3, <2>4, Zenon DEF Brought
<1> QED
  BY <1>1, <1>2, <1>3

LEMMA OwnKey ==
  ASSUME NEW x \in OwnRBAC
  PROVE  Key(x) \in OwnKeys /\ (Binds(x) => RefersTo(x) \in OwnKeys)
BY Zenon DEF OwnKeys

\* When the bundle's own stand apart, so does every role and binding of the list.
LEMMA StandsApart ==
  ASSUME bundle \in Bundles, namespace \in Namespaces, NEW orig, Complete(orig), MappingApart,
         OwnStandApart
  PROVE  RBACApart(orig) /\ OnePerKey(orig)
<1>1. \A i \in DOMAIN orig : orig[i] \in Elements(orig)
  BY DEF Elements
<1>2. ASSUME NEW x \in OwnRBAC
      PROVE  /\ Key(x) \notin CleanKeys /\ x.name \notin GeneratedNames
             /\ Binds(x) =>
                  /\ RefersTo(x) \notin CleanKeys /\ RefersTo(x).name \notin GeneratedNames
                  /\ RefersTo(x) # RoleKey(x) =>
                       RefersTo(x) \notin DOMAIN mapping /\ RoleKey(x) \notin DOMAIN mapping
  <2>1. Key(x).name = x.name
    BY DEF Key
  <2>2. Key(x) \notin CleanKeys /\ Key(x).name \notin GeneratedNames
    BY OwnKey DEF OwnStandApart
  <2>3. Binds(x) => RefersTo(x) \notin CleanKeys /\ RefersTo(x).name \notin GeneratedNames
    BY OwnKey DEF OwnStandApart
  <2> QED
    BY <2>1, <2>2, <2>3 DEF OwnStandApart
<1>3. ASSUME NEW x, NEW gvk, NEW p, MadeOf(x, gvk, p)
      PROVE  /\ Key(x) \notin CleanKeys /\ x.name \in GeneratedNames
             /\ Binds(x) => /\ RefersTo(x) \notin CleanKeys /\ RefersTo(x).name \in GeneratedNames
                            /\ RefersTo(x) = RoleKey(x)
  <2>1. /\ x.gvk = gvk /\ x.name \in GeneratedNames
        /\ Binds(x) => RefersTo(x) = [name |-> x.name, gvk |-> RoleOf(gvk)]
                       /\ RoleKey(x) = RefersTo(x)
    BY <1>3, MadeRBAC
  <2>2. Key(x).name \in GeneratedNames /\ (Binds(x) => RefersTo(x).name \in GeneratedNames)
    BY <2>1 DEF Key
  <2> QED
    BY <2>1, <2>2, GeneratedNotClean
<1>4. RBACApart(orig)
  <2>1. ASSUME NEW x \in Elements(orig), x.gvk \in normalizedResourceTypes
        PROVE  /\ Key(x) \notin CleanKeys
               /\ Binds(x) => /\ RefersTo(x) \notin CleanKeys
                              /\ RefersTo(x) # RoleKey(x) =>
                                   RefersTo(x) \notin DOMAIN mapping /\ RoleKey(x) \notin DOMAIN mapping
    BY <1>2, <1>3, <2>1, RBACOrigin
  <2>2. \A x : Binds(x) => x.gvk \in normalizedResourceTypes
    BY RBACKinds DEF Binds, BindingGVKs
  <2> QED
    BY <1>1, <2>1, <2>2 DEF RBACApart
<1>5. ASSUME NEW x \in Elements(orig), NEW y \in Elements(orig),
             x.gvk \in normalizedResourceTypes, Key(x) = Key(y)
      PROVE  x = y
  <2>1. x.gvk = y.gvk /\ x.name = y.name
    BY <1>5 DEF Key
  <2>2. CASE x \in OwnRBAC /\ y \in OwnRBAC
    BY <1>5, <2>2 DEF OwnStandApart
  <2>3. ASSUME NEW gvk, NEW p, NEW kind, NEW q, MadeOf(x, gvk, p), MadeOf(y, kind, q)
        PROVE  x = y
    <3>1. /\ x.gvk = gvk /\ x.name = GeneratedName(PermissionsFor(gvk)[p])
      BY <2>3, MadeRBAC
    <3>2. /\ y.gvk = kind /\ y.name = GeneratedName(PermissionsFor(kind)[q])
      BY <2>3, MadeRBAC
    <3>3. kind = gvk
      BY <2>1, <3>1, <3>2
    <3>4. PermissionsFor(gvk)[p] = PermissionsFor(gvk)[q]
      BY <2>1, <2>3, <3>1, <3>2, <3>3, SamePermission DEF MadeOf
    <3> QED
      BY <2>3, <3>3, <3>4 DEF MadeOf
  <2>4. x \in OwnRBAC \/ \E gvk, p : MadeOf(x, gvk, p)
    BY <1>5, RBACOrigin
  <2>5. y \in OwnRBAC \/ \E gvk, p : MadeOf(y, gvk, p)
    BY <1>5, <2>1, RBACOrigin
  <2> QED
    BY <1>2, <1>3, <2>1, <2>2, <2>3, <2>4, <2>5
<1> QED
  BY <1>4, <1>5 DEF OnePerKey

\* The rules of a permission, after the API group is put in.
LEMMA DeclaresMeans ==
  ASSUME NEW list, NEW kind, NEW g
  PROVE  g \in Declares(list, kind) <=>
           \E i \in DOMAIN list : \E k \in DOMAIN list[i].rules :
             g = <<kind, list[i].account, normalizeRBACRule(list[i].rules[k])>>
<1> DEFINE of(i) == {<<kind, list[i].account, normalizeRBACRule(list[i].rules[k])>>
                       : k \in DOMAIN list[i].rules}
<1>1. Declares(list, kind) = UNION {of(i) : i \in DOMAIN list}
  BY DEF Declares
<1>2. \A i : g \in of(i) <=>
        \E k \in DOMAIN list[i].rules :
          g = <<kind, list[i].account, normalizeRBACRule(list[i].rules[k])>>
  OBVIOUS
<1> HIDE DEF of
<1>3. g \in Declares(list, kind) <=> \E i \in DOMAIN list : g \in of(i)
  BY <1>1, Zenon
<1> QED
  BY <1>2, <1>3, Zenon

\* What the permissions of a list declare is what the bindings made of it say.
Declared(bindingGVK, g) ==
  \E p \in DOMAIN PermissionsFor(bindingGVK) :
    \E k \in DOMAIN PermissionsFor(bindingGVK)[p].rules :
      g = <<bindingGVK.kind, PermissionsFor(bindingGVK)[p].account,
            normalizeRBACRule(PermissionsFor(bindingGVK)[p].rules[k])>>

LEMMA DeclaredMeans ==
  ASSUME NEW g
  PROVE  /\ Declared(RoleBindingGVK, g) <=> g \in Declares(bundle.permissions, "RoleBinding")
         /\ Declared(ClusterRoleBindingGVK, g) <=>
              g \in Declares(bundle.clusterPermissions, "ClusterRoleBinding")
<1>1. /\ PermissionsFor(RoleBindingGVK) = bundle.permissions
      /\ PermissionsFor(ClusterRoleBindingGVK) = bundle.clusterPermissions
      /\ RoleBindingGVK.kind = "RoleBinding" /\ ClusterRoleBindingGVK.kind = "ClusterRoleBinding"
  BY ManifestKinds DEF PermissionsFor
<1>2. ASSUME NEW gvk
      PROVE  Declared(gvk, g) <=> g \in Declares(PermissionsFor(gvk), gvk.kind)
  <2> DEFINE list == PermissionsFor(gvk)
             kind == gvk.kind
  <2>1. Declared(gvk, g) <=>
          \E i \in DOMAIN list : \E k \in DOMAIN list[i].rules :
            g = <<kind, list[i].account, normalizeRBACRule(list[i].rules[k])>>
    BY DEF Declared
  <2> HIDE DEF list, kind
  <2>2. g \in Declares(list, kind) <=>
          \E i \in DOMAIN list : \E k \in DOMAIN list[i].rules :
            g = <<kind, list[i].account, normalizeRBACRule(list[i].rules[k])>>
    BY DeclaresMeans
  <2> QED
    BY <2>1, <2>2 DEF list, kind
<1> QED
  BY <1>1, <1>2

LEMMA MadeArrives ==
  ASSUME bundle \in Bundles, namespace \in Namespaces, NEW orig, Complete(orig),
         NEW gvk \in normalizedResourceTypes, NEW p \in DOMAIN PermissionsFor(gvk)
  PROVE  \E i \in DOMAIN orig : MadeOf(orig[i], gvk, p)
<1> DEFINE x == RBACFor(gvk, PermissionsFor(gvk)[p])
<1>5. SUFFICES x \in Elements(orig)
  <2> HIDE DEF x
  <2>1. x \in Elements(orig) => \E i \in DOMAIN orig : orig[i] = x
    BY DEF Elements
  <2> QED
    BY <2>1 DEF MadeOf, x
<1>1. GivenTo(Accounts, orig)
  BY DEF Complete, Gathered
<1>2. /\ \A q \in DOMAIN bundle.permissions : q \in Having(bundle.permissions, Accounts)
      /\ \A q \in DOMAIN bundle.clusterPermissions :
           q \in Having(bundle.clusterPermissions, Accounts)
  BY AccountsType DEF Having
<1>3. CASE gvk \in {RoleGVK, RoleBindingGVK}
  <2>1. PermissionsFor(gvk) = bundle.permissions /\ p \in Having(bundle.permissions, Accounts)
    BY <1>2, <1>3 DEF PermissionsFor
  <2>2. CASE gvk = RoleGVK
    <3>1. x = RoleFor(RoleGVK, bundle.permissions[p])
      BY <2>1, <2>2 DEF RBACFor, RoleGVKs
    <3> QED
      BY <1>1, <2>1, <3>1 DEF GivenTo
  <2>3. CASE gvk = RoleBindingGVK
    <3>1. gvk \notin RoleGVKs /\ RoleOf(gvk).kind = "Role"
      BY <2>3, RBACKinds, ManifestKinds DEF BindingGVKs, RoleOf
    <3>2. x = BindingFor(RoleBindingGVK, "Role", bundle.permissions[p])
      BY <2>1, <2>3, <3>1 DEF RBACFor
    <3> QED
      BY <1>1, <2>1, <3>2 DEF GivenTo
  <2> QED
    BY <1>3, <2>2, <2>3
<1>4. CASE gvk \notin {RoleGVK, RoleBindingGVK}
  <2>1. /\ PermissionsFor(gvk) = bundle.clusterPermissions
        /\ p \in Having(bundle.clusterPermissions, Accounts)
    BY <1>2, <1>4 DEF PermissionsFor
  <2>2. CASE gvk = ClusterRoleGVK
    <3>1. x = RoleFor(ClusterRoleGVK, bundle.clusterPermissions[p])
      BY <2>1, <2>2 DEF RBACFor, RoleGVKs
    <3> QED
      BY <1>1, <2>1, <3>1 DEF GivenTo
  <2>3. CASE gvk = ClusterRoleBindingGVK
    <3>1. gvk \notin RoleGVKs /\ RoleOf(gvk).kind = "ClusterRole"
      BY <2>3, RBACKinds, ManifestKinds DEF BindingGVKs, RoleOf
    <3>2. x = BindingFor(ClusterRoleBindingGVK, "ClusterRole", bundle.clusterPermissions[p])
      BY <2>1, <2>3, <3>1 DEF RBACFor
    <3> QED
      BY <1>1, <2>1, <3>2 DEF GivenTo
  <2>4. gvk = ClusterRoleGVK \/ gvk = ClusterRoleBindingGVK
    BY <1>4 DEF normalizedResourceTypes
  <2> QED
    BY <2>2, <2>3, <2>4
<1> QED
  BY <1>3, <1>4

\* A complete list grants what the permissions declare and what the bundle's own
\* roles and bindings grant.
LEMMA GrantsOfComplete ==
  ASSUME bundle \in Bundles, namespace \in Namespaces, NEW orig, Complete(orig), MappingApart,
         OwnStandApart, NEW g
  PROVE  Granted(orig, g) <=>
           (\E gvk \in BindingGVKs : Declared(gvk, g)) \/ Granted(OtherResources, g)
<1>1. \A i \in DOMAIN orig : orig[i] \in Elements(orig)
  BY DEF Elements
<1>2. ASSUME NEW gvk \in BindingGVKs
      PROVE  /\ gvk \in normalizedResourceTypes /\ RoleOf(gvk) \in normalizedResourceTypes
             /\ RoleOf(gvk) \in RoleGVKs /\ PermissionsFor(RoleOf(gvk)) = PermissionsFor(gvk)
  <2>1. PermissionsFor(RoleOf(gvk)) = PermissionsFor(gvk)
    BY ManifestKinds DEF PermissionsFor, RoleOf, BindingGVKs
  <2> QED
    BY <2>1, RBACKinds
\* The rules of a role made of a permission.
<1>3. ASSUME NEW permission
      PROVE  /\ DOMAIN normalizeRBACRules(permission.rules) = DOMAIN permission.rules
             /\ \A k \in DOMAIN permission.rules :
                  normalizeRBACRules(permission.rules)[k] = normalizeRBACRule(permission.rules[k])
  BY DEF normalizeRBACRules
<1>4. ASSUME NEW gvk \in BindingGVKs, Declared(gvk, g) PROVE Granted(orig, g)
  <2>8. PICK p \in DOMAIN PermissionsFor(gvk) :
          \E k \in DOMAIN PermissionsFor(gvk)[p].rules :
            g = <<gvk.kind, PermissionsFor(gvk)[p].account,
                  normalizeRBACRule(PermissionsFor(gvk)[p].rules[k])>>
    BY <1>4, Zenon DEF Declared
  <2>1. PICK k \in DOMAIN PermissionsFor(gvk)[p].rules :
          g = <<gvk.kind, PermissionsFor(gvk)[p].account,
                normalizeRBACRule(PermissionsFor(gvk)[p].rules[k])>>
    BY <2>8, Zenon
  <2> DEFINE permission == PermissionsFor(gvk)[p]
  <2>2. PICK b \in DOMAIN orig : MadeOf(orig[b], gvk, p)
    BY <1>2, MadeArrives
  <2>3. PICK r \in DOMAIN orig : MadeOf(orig[r], RoleOf(gvk), p)
    BY <1>2, MadeArrives
  <2>4. /\ Binds(orig[b]) /\ orig[b].gvk = gvk /\ orig[b].spec.accounts = {permission.account}
        /\ RefersTo(orig[b]) = [name |-> GeneratedName(permission), gvk |-> RoleOf(gvk)]
    BY <2>2, MadeRBAC
  <2>5. /\ orig[r].gvk = RoleOf(gvk) /\ orig[r].name = GeneratedName(permission)
        /\ orig[r].spec.rules = normalizeRBACRules(permission.rules)
    BY <1>2, <2>3, MadeRBAC
  <2>6. Key(orig[r]) = RefersTo(orig[b])
    BY <2>4, <2>5 DEF Key
  <2>7. /\ permission.account \in orig[b].spec.accounts
        /\ k \in DOMAIN orig[r].spec.rules
        /\ g = <<orig[b].gvk.kind, permission.account, orig[r].spec.rules[k]>>
    BY <1>3, <2>1, <2>4, <2>5
  <2> QED
    BY <2>4, <2>6, <2>7, Zenon DEF Granted
<1>5. ASSUME Granted(OtherResources, g) PROVE Granted(orig, g)
  <2>1. PICK b \in DOMAIN OtherResources, r \in DOMAIN OtherResources :
          /\ Binds(OtherResources[b]) /\ Key(OtherResources[r]) = RefersTo(OtherResources[b])
          /\ \E a \in OtherResources[b].spec.accounts : \E k \in DOMAIN OtherResources[r].spec.rules :
               g = <<OtherResources[b].gvk.kind, a, OtherResources[r].spec.rules[k]>>
    BY <1>5 DEF Granted
  <2>2. \A x \in Elements(OtherResources) : x \in Elements(orig)
    BY RestElements DEF Complete, Gathered
  <2>3. OtherResources[b] \in Elements(OtherResources) /\ OtherResources[r] \in Elements(OtherResources)
    BY <2>1 DEF Elements
  <2>4. PICK c \in DOMAIN orig : orig[c] = OtherResources[b]
    BY <2>2, <2>3 DEF Elements
  <2>5. PICK s \in DOMAIN orig : orig[s] = OtherResources[r]
    BY <2>2, <2>3 DEF Elements
  <2> QED
    BY <2>1, <2>4, <2>5, Zenon DEF Granted
<1>6. ASSUME Granted(orig, g)
      PROVE  (\E gvk \in BindingGVKs : Declared(gvk, g)) \/ Granted(OtherResources, g)
  <2>1. PICK b \in DOMAIN orig, r \in DOMAIN orig :
          /\ Binds(orig[b]) /\ Key(orig[r]) = RefersTo(orig[b])
          /\ \E a \in orig[b].spec.accounts : \E k \in DOMAIN orig[r].spec.rules :
               g = <<orig[b].gvk.kind, a, orig[r].spec.rules[k]>>
    BY <1>6 DEF Granted
  <2>2. /\ orig[b].gvk \in BindingGVKs /\ orig[b].gvk \in normalizedResourceTypes
        /\ orig[r].gvk = RefersTo(orig[b]).gvk /\ orig[r].name = RefersTo(orig[b]).name
        /\ orig[r].gvk \in RoleGVKs /\ orig[r].gvk \in normalizedResourceTypes
    <3>1. orig[b].gvk \in BindingGVKs
      BY <2>1 DEF Binds, BindingGVKs
    <3>2. orig[r].gvk = RefersTo(orig[b]).gvk /\ orig[r].name = RefersTo(orig[b]).name
      BY <2>1 DEF Key, RefersTo
    <3> QED
      BY <3>1, <3>2, RBACKinds
  <2>3. /\ \/ orig[b] \in OwnRBAC /\ orig[b] \in Elements(OtherResources)
           \/ \E gvk, p : MadeOf(orig[b], gvk, p)
        /\ \/ orig[r] \in OwnRBAC /\ orig[r] \in Elements(OtherResources)
           \/ \E gvk, p : MadeOf(orig[r], gvk, p)
    BY <1>1, <2>2, RBACOrigin
  <2>4. ASSUME NEW x \in OwnRBAC
        PROVE  x.name \notin GeneratedNames /\ (Binds(x) => RefersTo(x).name \notin GeneratedNames)
    <3>1. Key(x).name = x.name
      BY DEF Key
    <3> QED
      BY <3>1, OwnKey DEF OwnStandApart
  <2>5. ASSUME NEW gvk, NEW p, MadeOf(orig[b], gvk, p) PROVE Declared(gvk, g) /\ gvk \in BindingGVKs
    <3> DEFINE permission == PermissionsFor(gvk)[p]
    <3>1. /\ gvk \in BindingGVKs /\ orig[b].gvk = gvk
          /\ orig[b].name = GeneratedName(permission) /\ orig[b].name \in GeneratedNames
          /\ orig[b].spec.accounts = {permission.account}
          /\ RefersTo(orig[b]) = [name |-> orig[b].name, gvk |-> RoleOf(gvk)]
      BY <2>1, <2>5, MadeRBAC
    <3>2. orig[r].gvk = RoleOf(gvk) /\ orig[r].name = GeneratedName(permission)
          /\ orig[r].name \in GeneratedNames
      BY <2>2, <3>1
    <3>3. PICK kind, q : MadeOf(orig[r], kind, q)
      BY <2>3, <2>4, <3>2
    <3>4. /\ orig[r].gvk = kind /\ orig[r].name = GeneratedName(PermissionsFor(kind)[q])
          /\ kind \in RoleGVKs => orig[r].spec.rules = normalizeRBACRules(PermissionsFor(kind)[q].rules)
      BY <3>3, MadeRBAC
    <3>5. PermissionsFor(kind) = PermissionsFor(gvk)
      BY <1>2, <3>1, <3>2, <3>4
    <3>6. p \in DOMAIN PermissionsFor(gvk) /\ q \in DOMAIN PermissionsFor(gvk)
      BY <2>5, <3>3, <3>5 DEF MadeOf
    <3>7. PermissionsFor(gvk)[q] = permission
      BY <3>2, <3>4, <3>5, <3>6, SamePermission
    <3>8. orig[r].spec.rules = normalizeRBACRules(permission.rules)
      BY <2>2, <3>4, <3>5, <3>7
    <3>9. PICK a \in orig[b].spec.accounts, k \in DOMAIN orig[r].spec.rules :
            g = <<orig[b].gvk.kind, a, orig[r].spec.rules[k]>>
      BY <2>1
    <3>10. /\ a = permission.account /\ k \in DOMAIN permission.rules
           /\ orig[r].spec.rules[k] = normalizeRBACRule(permission.rules[k])
      BY <1>3, <3>1, <3>8, <3>9
    <3>11. g = <<gvk.kind, permission.account, normalizeRBACRule(permission.rules[k])>>
      BY <3>1, <3>9, <3>10
    <3> QED
      BY <3>1, <3>6, <3>10, <3>11, Zenon DEF Declared
  <2>6. ASSUME orig[b] \in OwnRBAC, orig[b] \in Elements(OtherResources)
        PROVE  Granted(OtherResources, g)
    <3>1. orig[r].name \notin GeneratedNames
      BY <2>1, <2>2, <2>4, <2>6
    <3>2. \A gvk, p : ~MadeOf(orig[r], gvk, p)
      BY <3>1, MadeRBAC
    <3>3. orig[r] \in Elements(OtherResources)
      BY <2>3, <3>2
    <3>4. PICK c \in DOMAIN OtherResources : OtherResources[c] = orig[b]
      BY <2>6 DEF Elements
    <3>5. PICK s \in DOMAIN OtherResources : OtherResources[s] = orig[r]
      BY <3>3 DEF Elements
    <3> QED
      BY <2>1, <3>4, <3>5, Zenon DEF Granted
  <2> QED
    BY <2>3, <2>5, <2>6
<1> QED
  BY <1>4, <1>5, <1>6

\* Whatever order the permissions were collected in and whatever they were renamed
\* to, the result grants every service account exactly what the permissions declare
\* and what the bundle's own roles and bindings grant, as long as these stand apart
\* (normalizeResourceNames, normalizeRoleBinding, sortKubernetesResources).
THEOREM GrantsArePreserved == Spec => []GrantsPreserved
<1>1. IInv => GrantsPreserved
  <2> SUFFICES ASSUME IInv, pc = "done", OwnStandApart
               PROVE  GrantsOf(objects) = Declares(bundle.permissions, "RoleBinding")
                        \cup Declares(bundle.clusterPermissions, "ClusterRoleBinding")
                        \cup GrantsOf(OtherResources)
    BY DEF GrantsPreserved
  <2>1. bundle \in Bundles /\ namespace \in Namespaces /\ objects \in Seq(Object)
    BY DEF IInv, Types
  <2>2. PICK orig, from : CleanedFrom(orig, from)
    BY DEF IInv, Clean
  <2>3. Complete(orig) /\ MappingApart
    BY <2>2 DEF CleanedFrom, Renamable
  <2>4. RBACApart(orig) /\ OnePerKey(orig)
    BY <2>1, <2>3, StandsApart
  <2>5. Agreeing(objects)
    BY <2>2, <2>4, StillAgreeing
  <2>6. Agreeing(OtherResources) /\ OtherResources \in Seq(Object)
    <3>1. \A x \in Elements(OtherResources) : x \in Elements(orig)
      BY <2>1, <2>3, RestElements DEF Complete, Gathered
    <3>2. OnePerKey(OtherResources)
      BY <2>4, <3>1 DEF OnePerKey
    <3> QED
      BY <2>1, <3>2, OneAgrees, OthersPart
  <2>7. ASSUME NEW g
        PROVE  g \in GrantsOf(objects) <=>
                 \/ g \in Declares(bundle.permissions, "RoleBinding")
                 \/ g \in Declares(bundle.clusterPermissions, "ClusterRoleBinding")
                 \/ g \in GrantsOf(OtherResources)
    <3>1. g \in GrantsOf(objects) <=> Granted(objects, g)
      BY <2>1, <2>5, GrantsMean
    <3>2. Granted(objects, g) <=> Granted(orig, g)
      BY <2>2, <2>4, GrantsMove
    <3>3. Granted(orig, g) <=>
            (\E gvk \in BindingGVKs : Declared(gvk, g)) \/ Granted(OtherResources, g)
      BY <2>1, <2>3, GrantsOfComplete
    <3>4. (\E gvk \in BindingGVKs : Declared(gvk, g)) <=>
            Declared(RoleBindingGVK, g) \/ Declared(ClusterRoleBindingGVK, g)
      BY DEF BindingGVKs
    <3>5. g \in GrantsOf(OtherResources) <=> Granted(OtherResources, g)
      BY <2>6, GrantsMean
    <3> QED
      BY <3>1, <3>2, <3>3, <3>4, <3>5, DeclaredMeans
  <2> QED
    BY <2>7
<1> QED
  BY <1>1, Invariant, PTL

=============================================================================
