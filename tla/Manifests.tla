------------------------------ MODULE Manifests ------------------------------
(***************************************************************************)
(* extract.Manifests: the manifests of an OLM bundle are collected, the    *)
(* RBAC names that OLM generated are replaced by clean ones together with  *)
(* the references to them, and the list is sorted for kubectl apply.       *)
(*                                                                         *)
(* The permissions come from OLM as a Go map, one entry per service        *)
(* account; its iteration order is the nondeterminism of CollectAccount.   *)
(* The command can be given the same bundle again (RunAgain).              *)
(***************************************************************************)
EXTENDS ApplyOrder, FiniteSets

CONSTANTS Bundles,       \* the bundles the command may be given
          Namespaces,    \* the target namespaces
          HashWords,     \* words of thirty or more letters and digits
          VersionWords,  \* words that contain ".v"
          CountWord,     \* rune('0' + count): "1" to "9", then ":", ";" and so on
          MaxRuns        \* how often the command is run on the bundle

Permission == [account : Name, rules : Seq(Rule), hash : HashWords]

ConversionWebhook == "ConversionWebhook"
ValidatingAdmissionWebhook == "ValidatingAdmissionWebhook"
MutatingAdmissionWebhook == "MutatingAdmissionWebhook"

WebhookDescription ==
  [type : {ConversionWebhook, ValidatingAdmissionWebhook, MutatingAdmissionWebhook},
   name : Name, deployment : Name, port : Port, target : Port, crds : SUBSET Name]

Bundle ==
  [csv : BOOLEAN, csvName : Name, strategy : {"deployment", "", "other"},
   crds : Seq({obj \in Object : obj.gvk = CRDGVK}),
   betaCRDs : Seq({obj \in Object : obj.gvk = CRDV1Beta1GVK}),
   permissions : Seq(Permission), clusterPermissions : Seq(Permission),
   deployments : Seq({obj \in Object : obj.gvk = DeploymentGVK /\ obj.valid}),
   webhooks : Seq(WebhookDescription), objects : Seq(Object)]

ASSUME BundlesAssumption == Bundles \subseteq Bundle
ASSUME NamespacesAssumption == Namespaces \subseteq Name
ASSUME MaxRunsAssumption == MaxRuns \in Nat \ {0}

\* The words that end a clean name are shorter than those OLM generates, and two
\* counts have two words.
ASSUME WordsAssumption ==
  /\ HashWords \subseteq STRING
  /\ CountWord \in Seq(STRING)
  /\ \A i, j \in DOMAIN CountWord : CountWord[i] = CountWord[j] => i = j
  /\ \A i \in DOMAIN CountWord : CountWord[i] \notin HashWords
  /\ {"role", "rolebinding", "clusterrole", "clusterrolebinding"} \cap HashWords = {}

\* CountWord reaches as far as the bundles need it.
ASSUME CountAssumption ==
  \A b \in Bundles :
    Len(b.permissions) + Len(b.clusterPermissions) + Len(b.objects) =< Len(CountWord)

\* OLM hashes the whole permission.
ASSUME HashAssumption ==
  \A b \in Bundles : \A list \in {b.permissions, b.clusterPermissions} :
    \A i, j \in DOMAIN list : list[i].hash = list[j].hash => list[i] = list[j]

\* As in KubeObjects: what the prover has no axiom for.
ASSUME ManifestLiterals ==
  {"Namespace", "ServiceAccount", "Role", "RoleBinding", "ClusterRole", "ClusterRoleBinding",
   "ValidatingWebhookConfiguration", "MutatingWebhookConfiguration", "name",
   "rbac.authorization.k8s.io", "admissionregistration.k8s.io", "role", "rolebinding",
   "clusterrole", "clusterrolebinding", "validating", "mutating"} \subseteq STRING

VARIABLES bundle, namespace,
          pc,        \* the phase of the extraction, or how it ended
          pending,   \* service accounts whose permissions are not collected yet
          objects,   \* the list being built, and in the end the result
          mapping,   \* oldToNew, from [name, gvk] to the new name
          pos,       \* position of applyNameMapping's loop
          previous,  \* the result of the run before, <<>> in the first
          runs       \* runs so far, this one included; bounded by MaxRuns

vars == <<bundle, namespace, pc, pending, objects, mapping, pos, previous, runs>>

Init ==
  /\ bundle \in Bundles
  /\ namespace \in Namespaces
  /\ pc = "start"
  /\ pending = {}
  /\ objects = <<>>
  /\ mapping = <<>>
  /\ pos = 1
  /\ previous = <<>>
  /\ runs = 1

Fail ==
  /\ pc' = "failed"
  /\ objects' = <<>>
  /\ UNCHANGED <<bundle, namespace, pending, mapping, pos, previous, runs>>

Collect(phase, next, new) ==
  /\ pc = phase
  /\ pc' = next
  /\ objects' = objects \o new
  /\ UNCHANGED <<bundle, namespace, pending, mapping, pos, previous, runs>>

-----------------------------------------------------------------------------
(* CustomResourceDefinitions. *)

DefaultWebhookServicePort == 443

PortOrDefault(port) == IF port = 0 THEN DefaultWebhookServicePort ELSE port

WebhookServiceName(deployment) == deployment \o <<"webhook", "service">>

createConversionConfig(desc) ==
  [conversion |-> WebhookServiceName(desc.deployment), port |-> PortOrDefault(desc.port)]

Latest(positions) == CHOOSE i \in positions : \A j \in positions : j =< i

Converting(crd) ==
  {i \in DOMAIN bundle.webhooks :
     bundle.webhooks[i].type = ConversionWebhook /\ crd.name \in bundle.webhooks[i].crds}

\* Mutant: an entry that is there is kept.
WithConversion_First(crd) ==
  IF Converting(crd) = {} THEN crd
    ELSE [crd EXCEPT !.spec = createConversionConfig(bundle.webhooks[Earliest(Converting(crd))])]

\* A later webhook for the same CRD replaces the entry of an earlier one.
WithConversion(crd) ==
  IF Converting(crd) = {} THEN crd
    ELSE [crd EXCEPT !.spec = createConversionConfig(bundle.webhooks[Latest(Converting(crd))])]

CRDs == [i \in DOMAIN bundle.crds |-> WithConversion(bundle.crds[i])] \o bundle.betaCRDs

NamespaceObjects ==
  IF namespace = <<"default">> THEN <<>> ELSE <<NewObject(NamespaceGVK, namespace, Opaque)>>

MissingCSV ==
  /\ pc = "start"
  /\ ~bundle.csv
  /\ Fail

CollectCRDs ==
  /\ bundle.csv
  /\ Collect("start", "strategy", NamespaceObjects \o CRDs)

-----------------------------------------------------------------------------
(* InstallStrategy: the RBAC of the ClusterServiceVersion, and its deployments. *)

PermissionLists == {bundle.permissions, bundle.clusterPermissions}

Accounts == UNION {{list[i].account : i \in DOMAIN list} : list \in PermissionLists}

\* OLM gives a permission one role and one binding, both named after its hash.
GeneratedName(permission) == Append(bundle.csvName, permission.hash)

normalizeRBACRule(rule) ==
  IF rule.resources # {} /\ rule.apiGroups = {} THEN [rule EXCEPT !.apiGroups = {""}] ELSE rule

normalizeRBACRules(rules) == [i \in DOMAIN rules |-> normalizeRBACRule(rules[i])]

RoleFor(gvk, permission) ==
  NewObject(gvk, GeneratedName(permission), [rules |-> normalizeRBACRules(permission.rules)])

BindingFor(gvk, roleKind, permission) ==
  NewObject(gvk, GeneratedName(permission),
    [roleKind |-> roleKind, role |-> GeneratedName(permission),
     accounts |-> {permission.account}])

AccountObjects(account) ==
  LET OfAccount(list) == Chosen(list, {i \in DOMAIN list : list[i].account = account})
      own     == OfAccount(bundle.permissions)
      cluster == OfAccount(bundle.clusterPermissions)
  IN  <<NewObject(ServiceAccountGVK, account, Opaque)>>
      \o Each(own, LAMBDA p : RoleFor(RoleGVK, p))
      \o Each(own, LAMBDA p : BindingFor(RoleBindingGVK, "Role", p))
      \o Each(cluster, LAMBDA p : RoleFor(ClusterRoleGVK, p))
      \o Each(cluster, LAMBDA p : BindingFor(ClusterRoleBindingGVK, "ClusterRole", p))

\* OLM's resolver, too, refuses a strategy without name.
UnsupportedStrategy ==
  /\ pc = "strategy"
  /\ bundle.strategy # "deployment"
  /\ Fail

GenerateRBAC ==
  /\ pc = "strategy"
  /\ bundle.strategy = "deployment"
  /\ pc' = "permissions"
  /\ pending' = Accounts
  /\ UNCHANGED <<bundle, namespace, objects, mapping, pos, previous, runs>>

\* Mutant: an entry of the map takes the next one with it.
CollectAccount_Skipping(account) ==
  /\ pc = "permissions"
  /\ account \in pending
  /\ \E skipped \in pending : pending' = pending \ {account, skipped}
  /\ objects' = objects \o AccountObjects(account)
  /\ UNCHANGED <<bundle, namespace, pc, mapping, pos, previous, runs>>

CollectAccount(account) ==
  /\ pc = "permissions"
  /\ account \in pending
  /\ pending' = pending \ {account}
  /\ objects' = objects \o AccountObjects(account)
  /\ UNCHANGED <<bundle, namespace, pc, mapping, pos, previous, runs>>

CollectDeployments ==
  /\ pending = {}
  /\ Collect("permissions", "webhooks", bundle.deployments)

-----------------------------------------------------------------------------
(* Webhooks and the other manifests of the bundle. *)

CreateWebhookService(desc) ==
  LET port == PortOrDefault(desc.port)
  IN  NewObject(ServiceGVK, WebhookServiceName(desc.deployment),
        [selector |-> {[key |-> "name", value |-> desc.deployment]},
         ports |-> <<[port |-> port,
                      target |-> IF desc.target = NilPort THEN port ELSE desc.target]>>])

\* The first webhook of each deployment.
FirstOfDeployment ==
  LET descs == bundle.webhooks
  IN  {i \in DOMAIN descs : /\ descs[i].deployment # NoName
                            /\ \A j \in 1 .. i - 1 : descs[j].deployment # descs[i].deployment}

WebhookServices == Each(Chosen(bundle.webhooks, FirstOfDeployment), CreateWebhookService)

\* GetValidatingWebhook and GetMutatingWebhook of the OLM API name the service
\* after the deployment and point at the container port even when it is 0.
AdmissionWebhook(desc) ==
  NewObject(IF desc.type = ValidatingAdmissionWebhook THEN ValidatingGVK ELSE MutatingGVK,
    desc.name,
    [clients |-> <<[service |-> Append(desc.deployment, "service"), port |-> desc.port]>>])

AdmissionWebhooks == {i \in DOMAIN bundle.webhooks : bundle.webhooks[i].type # ConversionWebhook}

Webhooks == Each(Chosen(bundle.webhooks, AdmissionWebhooks), AdmissionWebhook)

CollectWebhooks == Collect("webhooks", "others", WebhookServices \o Webhooks)

ClusterServiceVersionGVK == Gvk("operators.coreos.com", "v1alpha1", "ClusterServiceVersion")

SkippedGVKs == {ClusterServiceVersionGVK, CRDGVK, CRDV1Beta1GVK}

OtherResources ==
  Chosen(bundle.objects, {i \in DOMAIN bundle.objects : bundle.objects[i].gvk \notin SkippedGVKs})

CollectOthers == Collect("others", "mapping", OtherResources)

-----------------------------------------------------------------------------
(* Clean names. *)

normalizedResourceTypes == {RoleGVK, RoleBindingGVK, ClusterRoleGVK, ClusterRoleBindingGVK}

\* olmNamePattern: something, a dash, and a long word.
isOLMGeneratedName(name) == Len(name) >= 2 /\ name[Len(name)] \in HashWords

LowerKind == [Role |-> "role", RoleBinding |-> "rolebinding",
              ClusterRole |-> "clusterrole", ClusterRoleBinding |-> "clusterrolebinding"]

generateResourceName(base, suffix, count) ==
  IF count = 0 THEN Append(base, suffix) ELSE base \o <<suffix, CountWord[count]>>

OfExactKind(objs, gvk) == {i \in DOMAIN objs : objs[i].gvk = gvk}

\* The last deployment gives its name.
deploymentName(objs) ==
  LET found == OfExactKind(objs, DeploymentGVK)
  IN  IF found = {} THEN NoName ELSE objs[Latest(found)].name

getBaseName(objs) ==
  LET accounts == {i \in OfExactKind(objs, ServiceAccountGVK) : objs[i].name # NoName}
  IN  CASE deploymentName(objs) # NoName -> deploymentName(objs)
        [] deploymentName(objs) = NoName /\ accounts # {} -> objs[Earliest(accounts)].name
        [] OTHER -> <<"operator">>

Generated(objs) ==
  {i \in DOMAIN objs :
     objs[i].gvk \in normalizedResourceTypes /\ isOLMGeneratedName(objs[i].name)}

Key(obj) == [name |-> obj.name, gvk |-> obj.gvk]

\* Mutant: the resources of a kind are not counted.
buildResourceMappings_Uncounted(objs) ==
  [key \in {Key(objs[i]) : i \in Generated(objs)} |->
     generateResourceName(getBaseName(objs), LowerKind[key.gvk.kind], 0)]

\* A name that occurs twice keeps the entry of its last occurrence.
buildResourceMappings(objs) ==
  [key \in {Key(objs[i]) : i \in Generated(objs)} |->
     LET last   == Latest({i \in Generated(objs) : Key(objs[i]) = key})
         before == {i \in Generated(objs) : i < last /\ objs[i].gvk = key.gvk}
     IN  generateResourceName(getBaseName(objs), LowerKind[key.gvk.kind], Cardinality(before))]

BuildNameMapping ==
  /\ pc = "mapping"
  /\ mapping' = buildResourceMappings(objects)
  /\ pc' = IF Generated(objects) = {} THEN "sort" ELSE "renaming"
  /\ UNCHANGED <<bundle, namespace, pending, objects, pos, previous, runs>>

NewName(gvk, name) ==
  LET key == [name |-> name, gvk |-> gvk]
  IN  IF key \in DOMAIN mapping THEN mapping[key] ELSE name

HasVersionWord(name) == \E i \in DOMAIN name : name[i] \in VersionWords

normalizeWebhookName(name, type) ==
  LET base == IF deploymentName(objects) = NoName THEN <<"operator">>
                                                  ELSE deploymentName(objects)
  IN  IF isOLMGeneratedName(name) \/ HasVersionWord(name)
        THEN base \o <<type, "webhook">>
        ELSE name

Renamed(obj) == [obj EXCEPT !.name = NewName(obj.gvk, obj.name)]

\* Mutant: the reference to the role is forgotten.
normalizeBinding_NameOnly(obj, roleGVK) == Renamed(obj)

normalizeBinding(obj, roleGVK) ==
  [Renamed(obj) EXCEPT !.spec.role = NewName(roleGVK, obj.spec.role)]

normalizeObject(obj) ==
  CASE obj.gvk \in {RoleGVK, ClusterRoleGVK, ServiceAccountGVK} -> Renamed(obj)
    [] obj.gvk = RoleBindingGVK        -> normalizeBinding(obj, RoleGVK)
    [] obj.gvk = ClusterRoleBindingGVK -> normalizeBinding(obj, ClusterRoleGVK)
    [] obj.gvk = DeploymentGVK ->
         [obj EXCEPT !.spec.account = NewName(ServiceAccountGVK, obj.spec.account)]
    [] obj.gvk = ValidatingGVK ->
         [obj EXCEPT !.name = normalizeWebhookName(obj.name, "validating")]
    [] obj.gvk = MutatingGVK ->
         [obj EXCEPT !.name = normalizeWebhookName(obj.name, "mutating")]
    [] OTHER -> obj

\* The kinds that are converted to their Go struct first, bundled ones too.
ConversionFails(obj) ==
  /\ obj.gvk \in {RoleBindingGVK, ClusterRoleBindingGVK, DeploymentGVK, ValidatingGVK, MutatingGVK}
  /\ ~obj.valid

\* Mutant: the position is not advanced.
NormalizeObject_Stays ==
  /\ pc = "renaming"
  /\ pos \in DOMAIN objects
  /\ ~ConversionFails(objects[pos])
  /\ objects' = [objects EXCEPT ![pos] = normalizeObject(objects[pos])]
  /\ UNCHANGED <<bundle, namespace, pc, pending, mapping, pos, previous, runs>>

NormalizeObject ==
  /\ pc = "renaming"
  /\ pos \in DOMAIN objects
  /\ ~ConversionFails(objects[pos])
  /\ objects' = [objects EXCEPT ![pos] = normalizeObject(objects[pos])]
  /\ pos' = pos + 1
  /\ UNCHANGED <<bundle, namespace, pc, pending, mapping, previous, runs>>

NormalizeFails ==
  /\ pc = "renaming"
  /\ pos \in DOMAIN objects
  /\ ConversionFails(objects[pos])
  /\ Fail

NormalizeEnds ==
  /\ pc = "renaming"
  /\ pos = Len(objects) + 1
  /\ pc' = "sort"
  /\ UNCHANGED <<bundle, namespace, pending, objects, mapping, pos, previous, runs>>

Sort ==
  /\ pc = "sort"
  /\ pc' = "done"
  /\ objects' = sortKubernetesResources(objects)
  /\ UNCHANGED <<bundle, namespace, pending, mapping, pos, previous, runs>>

\* Mutant: the position of the run before is kept.
RunAgain_KeepsPosition ==
  /\ pc = "done"
  /\ runs < MaxRuns
  /\ runs' = runs + 1
  /\ previous' = objects
  /\ pc' = "start"
  /\ objects' = <<>>
  /\ mapping' = <<>>
  /\ UNCHANGED <<bundle, namespace, pending, pos>>

\* The command is run on the bundle once more.
RunAgain ==
  /\ pc = "done"
  /\ runs < MaxRuns
  /\ runs' = runs + 1
  /\ previous' = objects
  /\ pc' = "start"
  /\ objects' = <<>>
  /\ mapping' = <<>>
  /\ pos' = 1
  /\ UNCHANGED <<bundle, namespace, pending>>

Next ==
  \/ MissingCSV
  \/ CollectCRDs
  \/ UnsupportedStrategy
  \/ GenerateRBAC
  \/ \E account \in pending : CollectAccount(account)
  \/ CollectDeployments
  \/ CollectWebhooks
  \/ CollectOthers
  \/ BuildNameMapping
  \/ NormalizeObject
  \/ NormalizeFails
  \/ NormalizeEnds
  \/ Sort
  \/ RunAgain

Spec == Init /\ [][Next]_vars
FairSpec == Spec /\ WF_vars(Next)

-----------------------------------------------------------------------------
(* Properties. *)

\* Everything collected is a manifest, and the renaming stays in range.
TypeOK ==
  /\ bundle \in Bundles
  /\ namespace \in Namespaces
  /\ pc \in {"start", "strategy", "permissions", "webhooks", "others", "mapping",
             "renaming", "sort", "done", "failed"}
  /\ pending \subseteq Accounts
  /\ objects \in Seq(Object)
  /\ DOMAIN mapping \subseteq [name : Name, gvk : normalizedResourceTypes] \/ mapping = <<>>
  /\ \A key \in DOMAIN mapping : mapping[key] \in Name
  /\ pos \in 1 .. Len(objects) + 1 \/ pc = "failed"
  /\ previous \in Seq(Object)
  /\ runs \in 1 .. MaxRuns

\* What kubectl leaves of a list: a manifest replaces an earlier one of its name.
Applied(objs) ==
  {i \in DOMAIN objs : \A j \in i + 1 .. Len(objs) : Key(objs[j]) # Key(objs[i])}

Binds(obj) == obj.gvk \in {RoleBindingGVK, ClusterRoleBindingGVK} /\ obj.valid

\* The role a binding refers to, and the one whose new name it is given.
RefersTo(binding) ==
  [name |-> binding.spec.role,
   gvk |-> IF binding.spec.roleKind = "Role" THEN RoleGVK ELSE ClusterRoleGVK]

RoleKey(binding) ==
  [name |-> binding.spec.role,
   gvk |-> IF binding.gvk = RoleBindingGVK THEN RoleGVK ELSE ClusterRoleGVK]

RulesOf(objs, key) ==
  UNION {{objs[i].spec.rules[r] : r \in DOMAIN objs[i].spec.rules}
           : i \in {j \in Applied(objs) : Key(objs[j]) = key}}

\* What the bindings of a list grant: <<kind of binding, account, rule>>.
GrantsOf(objs) ==
  UNION {{objs[i].gvk.kind} \X objs[i].spec.accounts \X RulesOf(objs, RefersTo(objs[i]))
           : i \in {j \in Applied(objs) : Binds(objs[j])}}

Declares(list, kind) ==
  UNION {{<<kind, list[i].account, normalizeRBACRule(list[i].rules[r])>>
            : r \in DOMAIN list[i].rules} : i \in DOMAIN list}

\* The roles and bindings the bundle brings itself.
OwnRBAC ==
  {bundle.objects[i] :
     i \in {j \in DOMAIN bundle.objects : bundle.objects[j].gvk \in normalizedResourceTypes}}

\* What they are called and what they refer to.
OwnKeys == {Key(obj) : obj \in OwnRBAC} \cup {RefersTo(obj) : obj \in {o \in OwnRBAC : Binds(o)}}

GeneratedNames ==
  UNION {{GeneratedName(list[i]) : i \in DOMAIN list} : list \in PermissionLists}

CleanKeys == {[name |-> mapping[key], gvk |-> key.gvk] : key \in DOMAIN mapping}

\* The bundle's own roles and bindings, each with a name of its own, use neither the
\* generated names of the permissions nor the clean ones; and a binding to a role of
\* the other kind, which normalizeRoleBinding does not look for, to one that keeps
\* its name.
OwnStandApart ==
  /\ \A a, b \in OwnRBAC : Key(a) = Key(b) => a = b
  /\ \A key \in OwnKeys : key.name \notin GeneratedNames /\ key \notin CleanKeys
  /\ \A b \in OwnRBAC : Binds(b) /\ RefersTo(b) # RoleKey(b) =>
       RefersTo(b) \notin DOMAIN mapping /\ RoleKey(b) \notin DOMAIN mapping

\* Whatever order the permissions were collected in and whatever they were
\* renamed to, applying the result grants every service account exactly what
\* the ClusterServiceVersion and the bundle's own bindings declare
\* (normalizeResourceNames), as long as the bundle's own stand apart.
GrantsPreserved ==
  pc = "done" /\ OwnStandApart =>
    GrantsOf(objects) = Declares(bundle.permissions, "RoleBinding")
                        \cup Declares(bundle.clusterPermissions, "ClusterRoleBinding")
                        \cup GrantsOf(OtherResources)

BindingOf(i) == Binds(objects[i])

AccountBefore(i, account) == \E j \in 1 .. i - 1 : Is(objects[j], ServiceAccountGVK, account)

\* A binding of the permission, behind a role with its rules.
BindsRole(i, permission, bindingGVK, roleGVK) ==
  /\ objects[i].gvk = bindingGVK
  /\ objects[i].spec.accounts = {permission.account}
  /\ \E j \in 1 .. i - 1 : /\ Is(objects[j], roleGVK, objects[i].spec.role)
                           /\ objects[j].spec.rules = normalizeRBACRules(permission.rules)

\* Front to back, every permission of the ClusterServiceVersion arrives: its rules
\* in a role, then a binding of that role to its account; and a binding or a
\* deployment that names a generated account, the bundle's own included, comes
\* after the account (getResourcePriority).
ReferencesPrecede ==
  pc = "done" =>
    /\ \A p \in DOMAIN bundle.permissions :
         \E i \in DOMAIN objects :
           BindsRole(i, bundle.permissions[p], RoleBindingGVK, RoleGVK)
    /\ \A p \in DOMAIN bundle.clusterPermissions :
         \E i \in DOMAIN objects :
           BindsRole(i, bundle.clusterPermissions[p], ClusterRoleBindingGVK, ClusterRoleGVK)
    /\ \A i \in DOMAIN objects :
         /\ BindingOf(i) => \A a \in objects[i].spec.accounts \cap Accounts : AccountBefore(i, a)
         /\ objects[i].gvk = DeploymentGVK /\ objects[i].valid
              /\ objects[i].spec.account \in Accounts => AccountBefore(i, objects[i].spec.account)

\* The reference of a binding is to a name that was replaced.
RefersToReplaced(binding) == RefersTo(binding) \in DOMAIN mapping

\* It is a RoleBinding of a ClusterRole, or a ClusterRoleBinding of a Role.
CrossesKinds(binding) == binding.gvk = RoleBindingGVK <=> binding.spec.roleKind # "Role"

\* When the renaming is over no role and no binding has a name that OLM generated,
\* and no reference to a replaced name is left but in a binding that crosses kinds
\* (applyNameMapping; normalizeRoleBinding looks among the Roles only).
NoGeneratedNames ==
  pc \in {"sort", "done"} =>
    /\ Generated(objects) = {}
    /\ \A i \in DOMAIN objects :
         BindingOf(i) /\ RefersToReplaced(objects[i]) => CrossesKinds(objects[i])

CountOf(objs, gvk) == Cardinality(OfExactKind(objs, gvk))

Deployments == {bundle.webhooks[i].deployment : i \in DOMAIN bundle.webhooks} \ {NoName}

\* The phases together bring every manifest once: a service account however many
\* permissions it has, a role and a binding for each permission, a Service for
\* each webhook deployment and a configuration for each admission webhook.
EveryManifestOnce ==
  pc = "done" =>
    LET others == OtherResources
        OfType(type) == {i \in DOMAIN bundle.webhooks : bundle.webhooks[i].type = type}
        Expect(gvk, n) == CountOf(objects, gvk) = n + CountOf(others, gvk)
    IN  /\ Expect(ServiceAccountGVK, Cardinality(Accounts))
        /\ \A gvk \in {RoleGVK, RoleBindingGVK} : Expect(gvk, Len(bundle.permissions))
        /\ \A gvk \in {ClusterRoleGVK, ClusterRoleBindingGVK} :
             Expect(gvk, Len(bundle.clusterPermissions))
        /\ Expect(ServiceGVK, Cardinality(Deployments))
        /\ Expect(ValidatingGVK, Cardinality(OfType(ValidatingAdmissionWebhook)))
        /\ Expect(MutatingGVK, Cardinality(OfType(MutatingAdmissionWebhook)))
        /\ Expect(DeploymentGVK, Len(bundle.deployments))

WebhooksOn(deployment) ==
  {w \in DOMAIN bundle.webhooks : bundle.webhooks[w].deployment = deployment}

\* A CRD that conversion webhooks name calls the port of the last of them, and the
\* list brings the Service it calls, which serves the port of the first webhook of
\* the same deployment: the CRD is answered exactly when those two ask for one port
\* (CRDs, WebhookServices: two loops over the same descriptions).
ConversionIsServed ==
  pc = "done" =>
    \A i \in OfExactKind(objects, CRDGVK) :
      LET caller     == Latest(Converting(objects[i]))
          deployment == bundle.webhooks[caller].deployment
          Asked(w)   == PortOrDefault(bundle.webhooks[w].port)
      IN  Converting(objects[i]) # {} /\ deployment # NoName =>
            /\ objects[i].spec.port = Asked(caller)
            /\ \E j \in DOMAIN objects :
                 /\ Is(objects[j], ServiceGVK, objects[i].spec.conversion)
                 /\ objects[j].spec.ports[1].port = Asked(Earliest(WebhooksOn(deployment)))

\* The loops are over finite lists: every run of the command ends.
Ends == <>[](pc \in {"done", "failed"})

-----------------------------------------------------------------------------
(* What the comments and the documentation say and the code does not do. *)

\* normalizeResourceNames: the clean names are deterministic.
NamesAreDeterministic ==
  pc = "done" /\ runs > 1 =>
    {objects[i] : i \in DOMAIN objects} = {previous[i] : i \in DOMAIN previous}

\* resourceKey: a name and a kind identify a resource.
NamesAreUnique ==
  pc = "done" => \A i, j \in DOMAIN objects : Key(objects[i]) = Key(objects[j]) => i = j
=============================================================================
