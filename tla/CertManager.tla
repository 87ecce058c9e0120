----------------------------- MODULE CertManager -----------------------------
(***************************************************************************)
(* certmanager.Configure: it walks the webhook configurations of a bundle, *)
(* gives each one a Certificate, a CA-injection annotation and a Service,  *)
(* and then copies the remaining objects behind them.                      *)
(*                                                                         *)
(* Both loops of the code are loops here: pos is the loop's position in    *)
(* objects.  The webhook loop visits every position and skips what         *)
(* kube.Find would have filtered out.  objects is the caller's slice: the  *)
(* annotation is written through its pointers, so it changes there too.    *)
(***************************************************************************)
EXTENDS KubeObjects

CONSTANTS Inputs,        \* the object lists Configure may be called with
          Configs,       \* issuer settings, [name, kind]; NoName and "" when unset
          KeywordWords   \* the words that contain webhook, cert, tls or serving

ASSUME InputsAssumption == Inputs \subseteq Seq(Object)
ASSUME ConfigsAssumption == Configs \subseteq IssuerRef
ASSUME KeywordsAssumption ==
  {"webhook", "cert", "tls", "serving"} \subseteq KeywordWords

VARIABLES input,      \* the list as it was passed, never changed
          cfg,        \* the issuer settings, never changed
          pc,         \* where Configure is, or how it ended
          pos,        \* position of the running loop
          objects,    \* the caller's list
          issuer,     \* the issuer the certificates refer to
          result,     \* webhookObjects, and in the end the returned list
          processed   \* processedServiceNames

vars == <<input, cfg, pc, pos, objects, issuer, result, processed>>

NoIssuer == [name |-> NoName, kind |-> ""]

Terminal == {"done", "failed", "panicked"}

Init ==
  /\ input \in Inputs
  /\ cfg \in Configs
  /\ pc = "start"
  /\ pos = 1
  /\ objects = input
  /\ issuer = NoIssuer
  /\ result = <<>>
  /\ processed = {}

-----------------------------------------------------------------------------
(* The issuer. *)

SelfSigned(c) == c.name = NoName \/ c.kind = ""

extractOperatorName(objs) ==
  LET deployments == KindPositions(objs, DeploymentGVK)
      accounts    == KindPositions(objs, ServiceAccountGVK)
  IN  CASE deployments # {} -> objs[Earliest(deployments)].name
        [] deployments = {} /\ accounts # {} -> objs[Earliest(accounts)].name
        [] OTHER -> <<"operator">>

createSelfSignedIssuer(name) == NewObject(IssuerGVK, name, [selfSigned |-> TRUE])

HasWebhooks(objs) == \E i \in DOMAIN objs : IsWebhookConfiguration(objs[i])

ReturnUnchanged ==
  /\ pc = "start"
  /\ ~HasWebhooks(objects)
  /\ pc' = "done"
  /\ result' = objects
  /\ UNCHANGED <<input, cfg, pos, objects, issuer, processed>>

ChooseIssuer ==
  /\ pc = "start"
  /\ HasWebhooks(objects)
  /\ pc' = "webhooks"
  /\ issuer' = IF SelfSigned(cfg)
                 THEN [name |-> Append(extractOperatorName(objects), "selfsigned"),
                       kind |-> "Issuer"]
                 ELSE cfg
  /\ UNCHANGED <<input, cfg, pos, objects, result, processed>>

-----------------------------------------------------------------------------
(* The secret the certificate is stored in. *)

\* A keyword holds no dash, so it occurs in a name when it occurs in a word.
HasKeyword(name) == \E i \in DOMAIN name : name[i] \in KeywordWords

\* Mutant: the first secret is taken whatever it is called.
selectWebhookSecret_First(volumes) ==
  IF volumes = <<>> THEN NoName ELSE volumes[1].secret

selectWebhookSecret(volumes) ==
  LET matching == {i \in DOMAIN volumes :
                     HasKeyword(volumes[i].secret) \/ HasKeyword(volumes[i].volume)}
  IN  CASE volumes = <<>>                     -> NoName
        [] volumes # <<>> /\ matching # {}    -> volumes[Earliest(matching)].secret
        [] OTHER                              -> volumes[1].secret

DeploymentOf(service) == TrimSuffix(service, <<"service">>)

extractWebhookSecretName(objs, deployment) ==
  LET found == NamedPositions(objs, DeploymentGVK, deployment)
  IN  IF found = {} THEN NoName
                    ELSE selectWebhookSecret(objs[Earliest(found)].spec.volumes)

\* Only a deployment that does not convert makes the lookup fail.
SecretLookupFails(objs, deployment) ==
  LET found == NamedPositions(objs, DeploymentGVK, deployment)
  IN  found # {} /\ ~objs[Earliest(found)].valid

SecretFor(objs, service) ==
  LET secret == extractWebhookSecretName(objs, DeploymentOf(service))
  IN  IF secret = NoName THEN Append(service, "tls") ELSE secret

CertName(service) == Append(service, "cert")

createCertificate(service, secret, iss) ==
  NewObject(CertificateGVK, CertName(service),
            [secret |-> secret, dns |-> service, issuer |-> iss])

\* Mutant: any certificate will do.
hasCertificate_AnyName(objs, name) ==
  KindPositions(objs, CertificateGVK) # {}

\* Mutant: the issuers are searched for the name.
hasCertificate_AmongIssuers(objs, name) == KindNamed(objs, IssuerGVK, name) # {}

hasCertificate(objs, name) == KindNamed(objs, CertificateGVK, name) # {}

-----------------------------------------------------------------------------
(* processWebhooks: one iteration is one of the next six actions. *)

Current == objects[pos]

AtWebhook ==
  /\ pc = "webhooks"
  /\ pos \in DOMAIN objects
  /\ IsWebhookConfiguration(Current)

\* ExtractWebhookServiceInfo returned a service, whose port it dereferenced.
AtServed ==
  /\ AtWebhook
  /\ ServiceOf(Current) # NoName
  /\ PortOf(Current) # NilPort

\* Mutant: the position after the skipped object is skipped too.
SkipNonWebhook_TwoSteps ==
  /\ pc = "webhooks"
  /\ pos \in DOMAIN objects
  /\ ~IsWebhookConfiguration(Current)
  /\ pos' = pos + 2
  /\ UNCHANGED <<input, cfg, pc, objects, issuer, result, processed>>

SkipNonWebhook ==
  /\ pc = "webhooks"
  /\ pos \in DOMAIN objects
  /\ ~IsWebhookConfiguration(Current)
  /\ pos' = pos + 1
  /\ UNCHANGED <<input, cfg, pc, objects, issuer, result, processed>>

\* Mutant: a webhook without service is dropped.
KeepServiceless_Dropped ==
  /\ AtWebhook
  /\ ServiceOf(Current) = NoName
  /\ pos' = pos + 1
  /\ UNCHANGED <<input, cfg, pc, objects, issuer, result, processed>>

KeepServiceless ==
  /\ AtWebhook
  /\ ServiceOf(Current) = NoName
  /\ result' = Append(result, Current)
  /\ pos' = pos + 1
  /\ UNCHANGED <<input, cfg, pc, objects, issuer, processed>>

\* *svc.Port with a nil Port ends the program.
NilPortPanic ==
  /\ AtWebhook
  /\ ServiceOf(Current) # NoName
  /\ PortOf(Current) = NilPort
  /\ pc' = "panicked"
  /\ UNCHANGED <<input, cfg, pos, objects, issuer, result, processed>>

SecretLookupError ==
  /\ AtServed
  /\ SecretLookupFails(objects, DeploymentOf(ServiceOf(Current)))
  /\ pc' = "failed"
  /\ result' = <<>>
  /\ UNCHANGED <<input, cfg, pos, objects, issuer, processed>>

Annotated == SetAnnotation(Current, CertName(ServiceOf(Current)))

WithCertificate ==
  LET service == ServiceOf(Current)
      cert    == createCertificate(service, SecretFor(objects, service), issuer)
  IN  IF hasCertificate(result, CertName(service)) THEN result ELSE Append(result, cert)

WithWebhook == Append(WithCertificate, Annotated)

\* The annotation has been written by the time the service is looked at.
ServiceError ==
  /\ AtServed
  /\ ~SecretLookupFails(objects, DeploymentOf(ServiceOf(Current)))
  /\ ServiceOf(Current) \notin processed
  /\ EnsureServiceFails(objects, ServiceOf(Current))
  /\ pc' = "failed"
  /\ objects' = [objects EXCEPT ![pos] = Annotated]
  /\ result' = <<>>
  /\ UNCHANGED <<input, cfg, pos, issuer, processed>>

ConfigureWebhook ==
  LET service == ServiceOf(Current)
  IN  /\ AtServed
      /\ ~SecretLookupFails(objects, DeploymentOf(service))
      /\ \/ /\ service \in processed
            /\ result' = WithWebhook
         \/ /\ service \notin processed
            /\ ~EnsureServiceFails(objects, service)
            /\ result' = Append(WithWebhook,
                 EnsureService(objects, service, PortOf(Current), <<"webhook", "service">>))
      /\ processed' = processed \cup {service}
      /\ objects' = [objects EXCEPT ![pos] = Annotated]
      /\ pos' = pos + 1
      /\ UNCHANGED <<input, cfg, pc, issuer>>

-----------------------------------------------------------------------------
(* The rest of Configure. *)

\* Mutant: the loop stops one object early.
PrependIssuer_Early ==
  /\ pc = "webhooks"
  /\ pos >= Len(objects)
  /\ pc' = "remaining"
  /\ pos' = 1
  /\ result' = IF SelfSigned(cfg) THEN <<createSelfSignedIssuer(issuer.name)>> \o result
                                  ELSE result
  /\ UNCHANGED <<input, cfg, objects, issuer, processed>>

PrependIssuer ==
  /\ pc = "webhooks"
  /\ pos = Len(objects) + 1
  /\ pc' = "remaining"
  /\ pos' = 1
  /\ result' = IF SelfSigned(cfg) THEN <<createSelfSignedIssuer(issuer.name)>> \o result
                                  ELSE result
  /\ UNCHANGED <<input, cfg, objects, issuer, processed>>

\* Mutant: the Services of the bundle stay although they were replaced.
Handled_WebhooksOnly(obj) == IsWebhookConfiguration(obj)

Handled(obj) ==
  \/ IsWebhookConfiguration(obj)
  \/ IsKind(obj, ServiceGVK) /\ obj.name \in processed

CopyRemaining ==
  /\ pc = "remaining"
  /\ pos \in DOMAIN objects
  /\ result' = IF Handled(Current) THEN result ELSE Append(result, Current)
  /\ pos' = pos + 1
  /\ UNCHANGED <<input, cfg, pc, objects, issuer, processed>>

\* Mutant: the end of the loop is looked for in the wrong list.
Return_WrongList ==
  /\ pc = "remaining"
  /\ pos = Len(result) + 1
  /\ pc' = "done"
  /\ UNCHANGED <<input, cfg, pos, objects, issuer, result, processed>>

Return ==
  /\ pc = "remaining"
  /\ pos = Len(objects) + 1
  /\ pc' = "done"
  /\ UNCHANGED <<input, cfg, pos, objects, issuer, result, processed>>

Next ==
  \/ ReturnUnchanged
  \/ ChooseIssuer
  \/ SkipNonWebhook
  \/ KeepServiceless
  \/ NilPortPanic
  \/ SecretLookupError
  \/ ServiceError
  \/ ConfigureWebhook
  \/ PrependIssuer
  \/ CopyRemaining
  \/ Return

Spec == Init /\ [][Next]_vars
FairSpec == Spec /\ WF_vars(Next)

-----------------------------------------------------------------------------
(* Properties. *)

NeedsService(obj) == IsWebhookConfiguration(obj) /\ ServiceOf(obj) # NoName

Demands == {<<i, ServiceOf(input[i])>> : i \in {j \in DOMAIN input : NeedsService(input[j])}}

ServicesDemanded == {d[2] : d \in Demands}

OnlyOne(S) == \E x \in S : S = {x}

\* Every list of the program holds manifests, and the two loops stay in range.
TypeOK ==
  /\ input \in Seq(Object)
  /\ cfg \in IssuerRef
  /\ pc \in {"start", "webhooks", "remaining"} \cup Terminal
  /\ objects \in Seq(Object)
  /\ Len(objects) = Len(input)
  /\ pos \in 1 .. Len(input) + 1
  /\ issuer \in IssuerRef
  /\ result \in Seq(Object)
  /\ processed \subseteq Name

Certifies(cert, webhook, iss) ==
  /\ IsKind(cert, CertificateGVK)
  /\ cert.name = webhook.inject
  /\ cert.spec.dns = ServiceOf(webhook)
  /\ cert.spec.issuer = iss

Chained(objs, iss) ==
  \A w \in DOMAIN objs :
    NeedsService(objs[w]) => \E c \in 1 .. w - 1 : Certifies(objs[c], objs[w], iss)

\* While objects are gathered (processWebhooks appends the certificate, the
\* webhook and the service), a webhook never stands in the result annotated for
\* a certificate that is not there: the certificate comes before it, is issued
\* for its service by the issuer of this call, and a generated issuer is in the
\* delivered list.
CertificateChain ==
  pc \in {"webhooks", "remaining", "done"} /\ HasWebhooks(input) =>
    /\ Chained(result, issuer)
    /\ SelfSigned(cfg) /\ pc # "webhooks" =>
         result # <<>> /\ Is(result[1], IssuerGVK, issuer.name)

\* A service is processed once however many webhooks share it and however many
\* Services of that name the bundle carries (processedServices, and the removal
\* in Configure): the result holds one Service of the name, and until the
\* bundle's own certificates are copied one Certificate.
OncePerService ==
  \A s \in processed :
    /\ pc \in {"webhooks", "remaining", "done"} => OnlyOne(KindNamed(result, ServiceGVK, s))
    /\ pc = "webhooks" => OnlyOne(KindNamed(result, CertificateGVK, CertName(s)))

\* EnsureService runs for the first webhook of a service only, so it is that
\* webhook's port the Service in the result serves first.
FirstWebhookSetsPort ==
  \A s \in processed : \A i \in KindNamed(result, ServiceGVK, s) :
    LET users == {j \in DOMAIN input : NeedsService(input[j]) /\ ServiceOf(input[j]) = s}
    IN  result[i].spec.ports[1].port = PortOf(input[Earliest(users)])

\* A generated certificate is stored in a secret that the deployment behind the
\* service mounts whenever it mounts any, each by its name, and in one with a
\* webhook keyword when it mounts one of those (selectWebhookSecret).
SecretIsMounted ==
  pc = "webhooks" =>
    \A s \in processed : \A c \in KindNamed(result, CertificateGVK, CertName(s)) :
      LET found   == NamedPositions(input, DeploymentGVK, DeploymentOf(s))
          volumes == input[Earliest(found)].spec.volumes
          Holds(v) == v.secret = result[c].spec.secret
          Keyed(v) == HasKeyword(v.secret) \/ HasKeyword(v.volume)
          named   == \A i \in DOMAIN volumes : volumes[i].secret # NoName
      IN  found # {} /\ volumes # <<>> /\ named =>
            /\ \E i \in DOMAIN volumes : Holds(volumes[i])
            /\ (\E i \in DOMAIN volumes : Keyed(volumes[i])) =>
                 \E i \in DOMAIN volumes : Holds(volumes[i]) /\ Keyed(volumes[i])

Unannotated(obj) == [obj EXCEPT !.inject = NoName]

\* The objects of one list at these positions are, in their order, the objects of
\* another at those.
Arrive(from, S, into, T) ==
  \E at \in [S -> T] :
    /\ \A i, j \in S : i < j => at[i] < at[j]
    /\ \A k \in T : \E i \in S : at[i] = k
    /\ \A i \in S : into[at[i]] = from[i]

Unmarked(objs) == [i \in DOMAIN objs |-> Unannotated(objs[i])]

WebhooksOf(objs) == {i \in DOMAIN objs : IsWebhookConfiguration(objs[i])}

Remaining == {i \in DOMAIN input : ~Handled(input[i])}

\* What Configure adds to the list by itself.
Added(obj) ==
  \/ IsKind(obj, CertificateGVK)
  \/ IsKind(obj, IssuerGVK)
  \/ IsKind(obj, ServiceGVK) /\ obj.name \in processed

\* Up to there the result has webhooks and what was added, no two of one name.
Ahead(n) ==
  \A i \in 1 .. n :
    \/ IsWebhookConfiguration(result[i])
    \/ /\ Added(result[i])
       /\ \A j \in 1 .. n : Is(result[j], result[i].gvk, result[i].name) => j = i

\* Nothing of the bundle is lost, duplicated or reordered, and nothing comes from
\* elsewhere: the delivered list has the webhooks in their order among what was
\* added, each of that once, and behind it the bundle's other objects in theirs,
\* less the Services that were replaced.
NothingLost ==
  pc = "done" =>
    /\ Arrive(Unmarked(input), WebhooksOf(input), Unmarked(result), WebhooksOf(result))
    /\ \E first \in 1 .. Len(result) + 1 :
         /\ Ahead(first - 1)
         /\ Arrive(input, Remaining, result, first .. Len(result))

\* The demands whose webhook the loop has passed, and the services of demands that
\* the result holds a certificate for, and that it holds.
Met == {d \in Demands : d[1] < pos \/ pc \in {"remaining", "done"}}

Certified ==
  {s \in ServicesDemanded :
     pc # "panicked" /\ KindNamed(result, CertificateGVK, CertName(s)) # {}}

Served ==
  {s \in ServicesDemanded :
     pc # "panicked" /\ KindNamed(result, ServiceGVK, s) # {} /\ s \in processed}

Outcome ==
  CASE pc = "done" -> "delivered"
    [] pc \in {"failed", "panicked"} -> "aborted"
    [] OTHER -> "working"

Promise == INSTANCE CertPromise WITH
  demands <- Demands, met <- Met, certified <- Certified, served <- Served, outcome <- Outcome

\* Configure, seen through what its result holds, keeps the promise.
KeepsPromise == Promise!Spec

\* Both loops are over finite lists, so Configure always comes to an end.
Ends == <>(pc \in Terminal)

-----------------------------------------------------------------------------
(* What the documentation says and the code does not do. *)

Delivered == pc = "done" /\ HasWebhooks(input)

\* docs/webhook-certificates.md: the selector of a created service comes from
\* the labels of the deployment behind it, where that has any.
CreatedServiceSelectsDeployment ==
  Delivered => \A s \in processed :
    LET deployments == NamedPositions(input, DeploymentGVK, DeploymentOf(s))
        behind      == input[Earliest(deployments)]
    IN  /\ NamedPositions(input, ServiceGVK, s) = {} /\ deployments # {}
        /\ behind.valid /\ behind.spec.selector # {}
        => \A i \in KindNamed(result, ServiceGVK, s) :
             result[i].spec.selector = behind.spec.selector
=============================================================================
