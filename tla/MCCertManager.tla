---------------------------- MODULE MCCertManager ----------------------------
(***************************************************************************)
(* Instances of CertManager for TLC.  An input is any list of at most      *)
(* MaxObjects different manifests of the pool, as the extraction leaves    *)
(* it: sorted by resource priority, manifests of one priority in any order.*)
(***************************************************************************)
EXTENDS CertManager, ApplyOrder, FiniteSets, SequencesExt, FiniteSetsExt

CONSTANTS MaxObjects,  \* longest input
          Pool         \* the manifests inputs are made of

Op == <<"op">>
OpService == <<"op", "service">>
OpWebhookService == <<"op", "webhook", "service">>

Labels == {[key |-> "name", value |-> Op]}

\* The second volume is the one with a keyword, in its volume name only.
OpDeployment(valid) ==
  [NewObject(DeploymentGVK, Op,
     [volumes |-> <<[secret |-> <<"settings">>, volume |-> <<"config">>],
                    [secret |-> <<"op", "pair">>, volume |-> <<"serving">>]>>,
      selector |-> Labels, ports |-> <<9443>>, account |-> <<"runner">>]) EXCEPT !.valid = valid]

\* A deployment behind "op-webhook-service" whose only volume has no keyword.
OpWebhookDeployment ==
  NewObject(DeploymentGVK, <<"op", "webhook">>,
    [volumes |-> <<[secret |-> <<"settings">>, volume |-> <<"config">>]>>,
     selector |-> {}, ports |-> <<>>, account |-> NoName])

OldDeployment ==
  NewObject(Gvk("apps", "v1beta1", "Deployment"), <<"old">>,
    [volumes |-> <<>>, selector |-> {}, ports |-> <<>>, account |-> NoName])

Account == NewObject(ServiceAccountGVK, <<"runner">>, Opaque)

Service(name, ports) ==
  NewObject(ServiceGVK, name, [selector |-> Labels, ports |-> ports])

PortPair(p, t) == [port |-> p, target |-> t]

BadService == [NewObject(ServiceGVK, OpService, Opaque) EXCEPT !.valid = FALSE]

ClientOf(service, port) == [service |-> service, port |-> port]

Webhook(gvk, name, clients) == NewObject(gvk, name, [clients |-> clients])

BundleCertificate ==
  NewObject(CertificateGVK, CertName(OpService),
    [secret |-> <<"other">>, dns |-> OpService, issuer |-> [name |-> <<"ca">>, kind |-> "Issuer"]])

Plain == NewObject(Gvk("", "v1", "ConfigMap"), <<"settings">>, Opaque)

Validating == Webhook(ValidatingGVK, <<"v">>, <<ClientOf(OpService, 443)>>)
Mutating == Webhook(MutatingGVK, <<"m">>, <<ClientOf(OpService, 8443)>>)

\* Several webhooks on one service, present or not, once, twice or unusable, with
\* and without its deployment.
SharedService ==
  { Account, OpDeployment(TRUE), OldDeployment, Validating, Mutating,
    Service(OpService, <<PortPair(8080, 8080), PortPair(443, 9443)>>),
    Service(OpService, <<>>), BadService, BundleCertificate, Plain }

\* The other service name and its deployment, clients that are URLs, without port,
\* or second in their configuration, and objects that do not convert.
OddShapes ==
  { OpDeployment(FALSE), OpWebhookDeployment,
    Webhook(Gvk("admissionregistration.k8s.io", "v1beta1", "ValidatingWebhookConfiguration"),
            <<"w">>, <<ClientOf(OpWebhookService, 443), ClientOf(<<"aux">>, 443)>>),
    Webhook(MutatingGVK, <<"url">>, <<ClientOf(NoName, NilPort)>>),
    Webhook(MutatingGVK, <<"bare">>, <<ClientOf(<<"aux">>, NilPort)>>),
    [Webhook(ValidatingGVK, <<"odd">>, <<>>) EXCEPT !.valid = FALSE, !.spec = Opaque] }

MCPool == SharedService \cup OddShapes

MCKeywordWords == {"webhook", "cert", "tls", "serving"}

MCConfigs == {[name |-> NoName, kind |-> ""], [name |-> <<"ca">>, kind |-> ""],
              [name |-> <<"ca">>, kind |-> "ClusterIssuer"]}

MCInputs ==
  LET lists == UNION {SetToSeqs(s) : s \in UNION {kSubset(k, Pool) : k \in 0 .. MaxObjects}}
  IN  {l \in lists : Ordered(l, getResourcePriority)}
=============================================================================
