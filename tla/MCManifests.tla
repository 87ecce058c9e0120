----------------------------- MODULE MCManifests -----------------------------
(***************************************************************************)
(* Instances of Manifests for TLC: bundles put together from small parts.  *)
(***************************************************************************)
EXTENDS Manifests, SequencesExt

CONSTANTS MaxPermissions  \* permissions of each of the two lists

Core == [apiGroups |-> {}, resources |-> {"pods"}]
Apps == [apiGroups |-> {"apps"}, resources |-> {"deployments"}]

\* Two accounts; the second of the first account's permissions has no rules.
PermissionPool ==
  { [account |-> <<"op">>, rules |-> <<Core>>, hash |-> "hash1"],
    [account |-> <<"op">>, rules |-> <<>>, hash |-> "hash2"],
    [account |-> <<"aux">>, rules |-> <<Core, Apps>>, hash |-> "hash3"] }

PermissionChoices ==
  {list \in UNION {[1 .. n -> PermissionPool] : n \in 0 .. MaxPermissions} :
     \A i, j \in DOMAIN list : i # j => list[i] # list[j]}

DeploymentFor(name, account) ==
  NewObject(DeploymentGVK, name,
    [volumes |-> <<>>, selector |-> {}, ports |-> <<>>, account |-> account])

DeploymentChoices ==
  {<<>>, <<DeploymentFor(<<"op">>, <<"op">>)>>,
   <<DeploymentFor(<<"op">>, <<"op">>), DeploymentFor(<<"aux">>, <<"default">>)>>}

Crd == <<"things.example">>
CrdObject(gvk) == NewObject(gvk, Crd, [conversion |-> NoName, port |-> NilPort])

WebhookOf(type, name, deployment, port, crds) ==
  [type |-> type, name |-> name, deployment |-> deployment, port |-> port,
   target |-> NilPort, crds |-> crds]

\* No port, a port, a versioned name, and two webhooks of one deployment.
Validates == WebhookOf(ValidatingAdmissionWebhook, <<"a.v1.example">>, <<"op">>, 0, {})
ValidatesToo == WebhookOf(ValidatingAdmissionWebhook, <<"b.v1.example">>, <<"op">>, 443, {})
Mutates == WebhookOf(MutatingAdmissionWebhook, <<"mutate.example">>, <<"aux">>, 8443, {})
Converts_ == WebhookOf(ConversionWebhook, <<"convert">>, <<"op">>, 0, {Crd})
ConvertsToo == WebhookOf(ConversionWebhook, <<"convert">>, <<"aux">>, 9443, {Crd})

WebhookChoices ==
  {<<>>, <<Validates>>, <<Validates, ValidatesToo>>, <<Mutates, Converts_>>,
   <<Converts_, Mutates, ConvertsToo>>}

\* Bindings of the bundle's own to a role and to a cluster role whose names look
\* generated, a role with a clean name, and a binding that does not convert.
OwnName == <<"own", "hash1">>
OwnRole(gvk, name) == NewObject(gvk, name, [rules |-> <<Apps>>])
OwnBinding(roleKind, accounts) ==
  NewObject(RoleBindingGVK, <<"own">>,
    [roleKind |-> roleKind, role |-> OwnName, accounts |-> accounts])

ObjectChoices ==
  {<<>>,
   <<OwnBinding("Role", {<<"own">>, <<"op">>}), OwnRole(RoleGVK, OwnName)>>,
   <<OwnBinding("ClusterRole", {<<"own">>}), OwnRole(ClusterRoleGVK, OwnName)>>,
   <<OwnRole(RoleGVK, <<"op", "role">>), NewObject(ClusterServiceVersionGVK, <<"csv">>, Opaque)>>,
   <<[OwnBinding("Role", {}) EXCEPT !.valid = FALSE, !.spec = Opaque]>>}

\* Up to twelve manifests, the length up to which the sort is stable.
Size(b) ==
  1 + Len(b.crds) + Len(b.betaCRDs) + Cardinality({p.account : p \in ToSet(b.permissions)
    \cup ToSet(b.clusterPermissions)}) + 2 * Len(b.permissions) + 2 * Len(b.clusterPermissions)
  + Len(b.deployments) + Cardinality({d.deployment : d \in ToSet(b.webhooks)})
  + Len(SelectSeq(b.webhooks, LAMBDA d : d.type # ConversionWebhook)) + Len(b.objects)

MCBundles ==
  { b \in [csv : BOOLEAN, csvName : {<<"op.v1">>}, strategy : {"deployment", ""},
           crds : {<<CrdObject(CRDGVK)>>}, betaCRDs : {<<CrdObject(CRDV1Beta1GVK)>>},
           permissions : PermissionChoices, clusterPermissions : PermissionChoices,
           deployments : DeploymentChoices, webhooks : WebhookChoices, objects : ObjectChoices] :
      Size(b) =< 12 }

MCNamespaces == {<<"default">>, <<"target">>}
MCHashWords == {"hash1", "hash2", "hash3"}
MCCountWord == <<"1", "2", "3", "4", "5", "6", "7", "8", "9", ":", ";">>
MCVersionWords == {"op.v1", "a.v1.example", "b.v1.example"}
=============================================================================
