------------------------------ MODULE ApplyOrder ------------------------------
(***************************************************************************)
(* The order in which manifests are written, so that kubectl can apply     *)
(* them front to back.  The program has two copies of the order: one over  *)
(* typed objects in pkg/extract, which looks at the whole group, version   *)
(* and kind, and one over unstructured objects in pkg/kube, which looks at *)
(* the kind alone.                                                         *)
(***************************************************************************)
EXTENDS KubeObjects, FiniteSets

\* Mutant: bindings are written before the roles they refer to.
KindOrder_BindingsFirst ==
  << {"Namespace"}, {"CustomResourceDefinition"}, {"ServiceAccount"}, {"RoleBinding"},
     {"Role"}, {"ClusterRoleBinding"}, {"ClusterRole"}, {"Deployment"},
     {"Service"}, {"Issuer", "ClusterIssuer"}, {"Certificate"},
     {"ValidatingWebhookConfiguration", "MutatingWebhookConfiguration"} >>

KindOrder ==
  << {"Namespace"}, {"CustomResourceDefinition"}, {"ServiceAccount"}, {"Role"},
     {"RoleBinding"}, {"ClusterRole"}, {"ClusterRoleBinding"}, {"Deployment"},
     {"Service"}, {"Issuer", "ClusterIssuer"}, {"Certificate"},
     {"ValidatingWebhookConfiguration", "MutatingWebhookConfiguration"} >>

priorityOther == Len(KindOrder) + 1

KnownGVKs ==
  {NamespaceGVK, CRDGVK, CRDV1Beta1GVK, ServiceAccountGVK, RoleGVK, RoleBindingGVK,
   ClusterRoleGVK, ClusterRoleBindingGVK, DeploymentGVK, ServiceGVK, IssuerGVK,
   Gvk("cert-manager.io", "v1", "ClusterIssuer"), CertificateGVK, ValidatingGVK,
   MutatingGVK}

getUnstructuredPriority(obj) ==
  LET known == {p \in DOMAIN KindOrder : obj.gvk.kind \in KindOrder[p]}
  IN  IF known = {} THEN priorityOther ELSE CHOOSE p \in known : TRUE

getResourcePriority(obj) ==
  IF obj.gvk \in KnownGVKs THEN getUnstructuredPriority(obj) ELSE priorityOther

Ordered(objects, Priority(_)) ==
  \A i, j \in DOMAIN objects : i < j => Priority(objects[i]) =< Priority(objects[j])

NotAfter(i, priority) ==
  {j \in DOMAIN priority : \/ priority[j] < priority[i]
                           \/ priority[j] = priority[i] /\ j =< i}

\* The position of the element that goes to this place.
Origin(place, priority) ==
  CHOOSE i \in DOMAIN priority : Cardinality(NotAfter(i, priority)) = place

\* sort.Slice sorts up to twelve elements by insertion, which is stable; the
\* models stay below that length.
StableSort(objects, priority) ==
  [place \in DOMAIN objects |-> objects[Origin(place, priority)]]

sortKubernetesResources(objects) ==
  StableSort(objects, [i \in DOMAIN objects |-> getResourcePriority(objects[i])])

SortForApply(objects) ==
  StableSort(objects, [i \in DOMAIN objects |-> getUnstructuredPriority(objects[i])])
=============================================================================
