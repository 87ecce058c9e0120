-------------------------- MODULE CertManagerProofs --------------------------
(***************************************************************************)
(* Theorems of CertManager, for every set of inputs and issuer settings:   *)
(* the invariants of the list it gathers, and then those that relate this  *)
(* list to the one it was called with.  The annotation touches one webhook *)
(* at a time, the certificate's secret and the Service's port are those    *)
(* the bundle asks for, Configure implements CertPromise, and nothing of   *)
(* the bundle is lost.                                                     *)
(***************************************************************************)
EXTENDS CertManager, KubeObjectsProofs

-----------------------------------------------------------------------------
(* The values the steps compute are of the right kind. *)

\* A word makes a name, and a name with a word more is a name.
LEMMA ExtendedName ==
  ASSUME NEW name \in Name, NEW word \in STRING
  PROVE  Append(name, word) \in Name /\ <<word>> \in Name
<1>1. Append(<<>>, word) \in Seq(STRING)
  BY EmptySeq, AppendProperties, Zenon
<1>2. Append(<<>>, word) = <<word>>
  OBVIOUS
<1>3. Append(name, word) \in Name
  BY AppendProperties, Zenon DEF Name
<1>4. <<word>> \in Name
  BY <1>1, <1>2, Zenon DEF Name
<1> QED
  BY <1>3, <1>4

LEMMA EmptyName == <<>> \in Name
BY EmptySeq, Zenon DEF Name

LEMMA CertNameType ==
  ASSUME NEW service \in Name
  PROVE  CertName(service) \in Name
<1>1. "cert" \in STRING
  BY LiteralsAreStrings
<1> QED
  BY <1>1, ExtendedName DEF CertName

LEMMA SameExtension ==
  ASSUME NEW S, NEW s \in Seq(S), NEW t \in Seq(S), NEW x \in S, Append(s, x) = Append(t, x)
  PROVE  s = t
<1>1. Len(Append(s, x)) = Len(s) + 1 /\ Len(Append(t, x)) = Len(t) + 1
  BY AppendProperties, Zenon
<1>2. Len(s) = Len(t)
  BY <1>1
<1>3. ASSUME NEW i \in 1 .. Len(s) PROVE s[i] = t[i]
  <2>1. Append(s, x)[i] = s[i]
    BY AppendProperties, Zenon
  <2>2. i \in 1 .. Len(t)
    BY <1>2, Zenon
  <2>3. Append(t, x)[i] = t[i]
    BY <2>2, AppendProperties, Zenon
  <2> QED
    BY <2>1, <2>3
<1> QED
  BY <1>2, <1>3, SeqEqual, Zenon

\* Two services never share a certificate name.
LEMMA CertNameInjective ==
  ASSUME NEW s \in Name, NEW t \in Name, CertName(s) = CertName(t)
  PROVE  s = t
<1>1. "cert" \in STRING
  BY LiteralsAreStrings
<1>2. Append(s, "cert") = Append(t, "cert")
  BY DEF CertName
<1>3. s \in Seq(STRING) /\ t \in Seq(STRING)
  BY DEF Name
<1> QED
  BY <1>1, <1>2, <1>3, SameExtension, Zenon

LEMMA DeploymentOfType ==
  ASSUME NEW service \in Name
  PROVE  DeploymentOf(service) \in Name
<1>1. "service" \in STRING
  BY LiteralsAreStrings
<1>2. <<"service">> \in Name
  BY <1>1, EmptyName, ExtendedName
<1> QED
  BY <1>2, TrimSuffixType DEF DeploymentOf

\* selectWebhookSecret returns the secret of one of the volumes.
LEMMA selectWebhookSecretType ==
  ASSUME NEW volumes \in Seq(SecretVolume)
  PROVE  selectWebhookSecret(volumes) \in Name
<1> DEFINE matching == {i \in DOMAIN volumes :
                          HasKeyword(volumes[i].secret) \/ HasKeyword(volumes[i].volume)}
<1>1. CASE volumes = <<>>
  BY <1>1, EmptyName DEF selectWebhookSecret, NoName
<1>2. CASE volumes # <<>> /\ matching # {}
  <2>1. matching \in SUBSET Nat
    OBVIOUS
  <2>2. Earliest(matching) \in DOMAIN volumes
    BY <1>2, <2>1, EarliestIsFirst
  <2>3. volumes[Earliest(matching)] \in SecretVolume
    BY <2>2
  <2>4. selectWebhookSecret(volumes) = volumes[Earliest(matching)].secret
    BY <1>2 DEF selectWebhookSecret
  <2> QED
    BY <2>3, <2>4 DEF SecretVolume
<1>3. CASE volumes # <<>> /\ matching = {}
  <2>1. volumes[1] \in SecretVolume
    BY <1>3, FirstElement
  <2>2. selectWebhookSecret(volumes) = volumes[1].secret
    BY <1>3 DEF selectWebhookSecret
  <2> QED
    BY <2>1, <2>2 DEF SecretVolume
<1> QED
  BY <1>1, <1>2, <1>3

LEMMA SecretForType ==
  ASSUME NEW objs \in Seq(Object), NEW service \in Name,
         ~SecretLookupFails(objs, DeploymentOf(service))
  PROVE  SecretFor(objs, service) \in Name
<1> DEFINE found == NamedPositions(objs, DeploymentGVK, DeploymentOf(service))
           dep == objs[Earliest(found)]
<1>1. extractWebhookSecretName(objs, DeploymentOf(service)) \in Name
  <2>1. CASE found = {}
    BY <2>1, EmptyName DEF extractWebhookSecretName, NoName
  <2>2. CASE found # {}
    <3>1. dep \in Object /\ IsKind(dep, DeploymentGVK)
      BY <2>2, EarliestNamed DEF Is, IsKind
    <3>2. dep.valid
      BY <2>2 DEF SecretLookupFails
    <3>3. dep.spec \in DeploymentSpec
      BY <3>1, <3>2 DEF Object, Converts
    <3>4. dep.spec.volumes \in Seq(SecretVolume)
      BY <3>3 DEF DeploymentSpec
    <3> QED
      BY <2>2, <3>4, selectWebhookSecretType DEF extractWebhookSecretName
  <2> QED
    BY <2>1, <2>2
<1>2. Append(service, "tls") \in Name
  <2>1. "tls" \in STRING
    BY LiteralsAreStrings
  <2> QED
    BY <2>1, ExtendedName
<1> QED
  BY <1>1, <1>2 DEF SecretFor

LEMMA createCertificateType ==
  ASSUME NEW service \in Name, NEW secret \in Name, NEW iss \in IssuerRef
  PROVE  /\ createCertificate(service, secret, iss) \in Object
         /\ createCertificate(service, secret, iss).gvk = CertificateGVK
         /\ createCertificate(service, secret, iss).name = CertName(service)
         /\ createCertificate(service, secret, iss).spec.dns = service
         /\ createCertificate(service, secret, iss).spec.issuer = iss
<1> DEFINE spec == [secret |-> secret, dns |-> service, issuer |-> iss]
<1>1. spec \in CertificateSpec /\ spec.dns = service /\ spec.issuer = iss
  BY DEF CertificateSpec
<1>2. spec \in Spec_
  BY <1>1 DEF Spec_
<1>3. CertificateGVK # ServiceGVK
  BY KindFields
<1> HIDE DEF spec
<1>4. /\ NewObject(CertificateGVK, CertName(service), spec) \in Object
      /\ NewObject(CertificateGVK, CertName(service), spec).gvk = CertificateGVK
      /\ NewObject(CertificateGVK, CertName(service), spec).name = CertName(service)
      /\ NewObject(CertificateGVK, CertName(service), spec).spec = spec
  BY <1>2, <1>3, CertNameType, NewObjectType
<1> QED
  BY <1>1, <1>4 DEF createCertificate, spec

LEMMA createSelfSignedIssuerType ==
  ASSUME NEW name \in Name
  PROVE  /\ createSelfSignedIssuer(name) \in Object
         /\ createSelfSignedIssuer(name).gvk = IssuerGVK
         /\ createSelfSignedIssuer(name).name = name
<1>1. [selfSigned |-> TRUE] \in Spec_
  BY DEF Spec_, IssuerSpec
<1>2. IssuerGVK # ServiceGVK
  BY KindFields
<1> QED
  BY <1>1, <1>2, NewObjectType DEF createSelfSignedIssuer

LEMMA extractOperatorNameType ==
  ASSUME NEW objs \in Seq(Object)
  PROVE  extractOperatorName(objs) \in Name
<1> DEFINE deployments == KindPositions(objs, DeploymentGVK)
           accounts == KindPositions(objs, ServiceAccountGVK)
<1>1. CASE deployments # {}
  BY <1>1, EarliestOfKind DEF extractOperatorName, Object
<1>2. CASE deployments = {} /\ accounts # {}
  BY <1>2, EarliestOfKind DEF extractOperatorName, Object
<1>3. CASE deployments = {} /\ accounts = {}
  <2>1. <<"operator">> \in Name
    <3>1. "operator" \in STRING
      BY LiteralsAreStrings
    <3> QED
      BY <3>1, EmptyName, ExtendedName
  <2> QED
    BY <1>3, <2>1 DEF extractOperatorName
<1> QED
  BY <1>1, <1>2, <1>3

-----------------------------------------------------------------------------
(* What one iteration of processWebhooks adds. *)

\* A webhook with a service: its service, certificate and annotation are typed.
LEMMA ServedTypes ==
  ASSUME TypeOK, AtServed, ~SecretLookupFails(objects, DeploymentOf(ServiceOf(Current)))
  PROVE  /\ pos \in DOMAIN objects /\ Current \in Object
         /\ ServiceOf(Current) \in Name /\ PortOf(Current) \in Port
         /\ SecretFor(objects, ServiceOf(Current)) \in Name
         /\ Annotated \in Object /\ IsWebhookConfiguration(Annotated)
         /\ Annotated.gvk = Current.gvk
         /\ ServiceOf(Annotated) = ServiceOf(Current)
         /\ Annotated.inject = CertName(ServiceOf(Current))
<1>1. pos \in DOMAIN objects /\ Current \in Object /\ IsWebhookConfiguration(Current)
  BY DEF TypeOK, AtServed, AtWebhook, Current
<1>2. ServiceOf(Current) \in Name /\ PortOf(Current) \in Port
  BY <1>1, ServiceOfType DEF AtServed
<1>3. SecretFor(objects, ServiceOf(Current)) \in Name
  BY <1>2, SecretForType DEF TypeOK
<1>4. CertName(ServiceOf(Current)) \in Name
  BY <1>2, CertNameType
<1>5. /\ Annotated \in Object /\ Annotated.gvk = Current.gvk
      /\ Annotated.valid = Current.valid /\ Annotated.spec = Current.spec
      /\ Annotated.inject = CertName(ServiceOf(Current))
  BY <1>1, <1>4, SetAnnotationType DEF Annotated
<1>6. IsWebhookConfiguration(Annotated)
  BY <1>1, <1>5 DEF IsWebhookConfiguration, IsKind
<1>7. ServiceOf(Annotated) = ServiceOf(Current)
  BY <1>5 DEF ServiceOf
<1> QED
  BY <1>1, <1>2, <1>3, <1>5, <1>6, <1>7

\* The certificate of the current webhook, when there is none yet.
NewCertificate ==
  createCertificate(ServiceOf(Current), SecretFor(objects, ServiceOf(Current)), issuer)

LEMMA WithWebhookTypes ==
  ASSUME TypeOK, AtServed, ~SecretLookupFails(objects, DeploymentOf(ServiceOf(Current)))
  PROVE  /\ NewCertificate \in Object
         /\ WithCertificate \in Seq(Object)
         /\ WithWebhook \in Seq(Object)
<1>1. NewCertificate \in Object
  BY ServedTypes, createCertificateType DEF NewCertificate, TypeOK
<1>2. Append(result, NewCertificate) \in Seq(Object)
  BY <1>1, AppendProperties, Zenon DEF TypeOK
<1>3. WithCertificate \in {result, Append(result, NewCertificate)}
  BY DEF WithCertificate, NewCertificate
<1>4. WithCertificate \in Seq(Object)
  BY <1>2, <1>3 DEF TypeOK
<1>5. WithWebhook \in Seq(Object)
  BY <1>4, ServedTypes, AppendProperties, Zenon DEF WithWebhook
<1> QED
  BY <1>1, <1>4, <1>5

-----------------------------------------------------------------------------
(* Type correctness. *)

LEMMA InitTypeOK == Init => TypeOK
<1> SUFFICES ASSUME Init PROVE TypeOK
  OBVIOUS
<1>1. input \in Seq(Object) /\ cfg \in IssuerRef
  BY InputsAssumption, ConfigsAssumption DEF Init
<1>2. issuer \in IssuerRef
  <2>1. "" \in STRING
    BY LiteralsAreStrings
  <2> QED
    BY <2>1, EmptyName DEF Init, NoIssuer, NoName, IssuerRef
<1>3. result \in Seq(Object)
  BY EmptySeq, Zenon DEF Init
<1>4. pos \in 1 .. Len(input) + 1
  BY <1>1 DEF Init
<1> QED
  BY <1>1, <1>2, <1>3, <1>4 DEF Init, TypeOK, Terminal

LEMMA NextTypeOK == TypeOK /\ [Next]_vars => TypeOK'
<1> SUFFICES ASSUME TypeOK, [Next]_vars PROVE TypeOK'
  OBVIOUS
<1> USE DEF TypeOK
<1>1. CASE ReturnUnchanged
  BY <1>1 DEF ReturnUnchanged, Terminal
<1>2. CASE ChooseIssuer
  <2>1. Append(extractOperatorName(objects), "selfsigned") \in Name /\ "Issuer" \in STRING
    <3>1. "selfsigned" \in STRING /\ "Issuer" \in STRING
      BY LiteralsAreStrings
    <3> QED
      BY <3>1, extractOperatorNameType, ExtendedName
  <2>2. issuer' \in IssuerRef
    BY <1>2, <2>1 DEF ChooseIssuer, IssuerRef
  <2> QED
    BY <1>2, <2>2 DEF ChooseIssuer
<1>3. CASE SkipNonWebhook
  BY <1>3 DEF SkipNonWebhook
<1>4. CASE KeepServiceless
  <2>1. Current \in Object /\ pos \in DOMAIN objects
    BY <1>4 DEF KeepServiceless, AtWebhook, Current
  <2>2. result' \in Seq(Object)
    BY <1>4, <2>1, AppendProperties, Zenon DEF KeepServiceless
  <2>3. pos' \in 1 .. Len(input) + 1
    BY <1>4, <2>1 DEF KeepServiceless
  <2> QED
    BY <1>4, <2>2, <2>3 DEF KeepServiceless
<1>5. CASE NilPortPanic
  BY <1>5 DEF NilPortPanic, Terminal
<1>6. CASE SecretLookupError
  <2>1. result' \in Seq(Object)
    BY <1>6, EmptySeq, Zenon DEF SecretLookupError
  <2> QED
    BY <1>6, <2>1 DEF SecretLookupError, Terminal
<1>7. CASE ServiceError
  <2>1. Annotated \in Object /\ pos \in DOMAIN objects
    BY <1>7, ServedTypes DEF ServiceError
  <2>2. objects' \in Seq(Object) /\ Len(objects') = Len(objects)
    BY <1>7, <2>1, ReplaceElement DEF ServiceError
  <2>3. result' \in Seq(Object)
    BY <1>7, EmptySeq, Zenon DEF ServiceError
  <2> QED
    BY <1>7, <2>2, <2>3 DEF ServiceError, Terminal
<1>8. CASE ConfigureWebhook
  <2> DEFINE service == ServiceOf(Current)
             svc == EnsureService(objects, service, PortOf(Current), <<"webhook", "service">>)
  <2>1. AtServed /\ ~SecretLookupFails(objects, DeploymentOf(service))
    BY <1>8 DEF ConfigureWebhook
  <2>2. /\ pos \in DOMAIN objects /\ service \in Name /\ PortOf(Current) \in Port
        /\ Annotated \in Object
    BY <2>1, ServedTypes
  <2>3. WithWebhook \in Seq(Object)
    BY <2>1, WithWebhookTypes
  <2>4. objects' \in Seq(Object) /\ Len(objects') = Len(objects)
    BY <1>8, <2>2, ReplaceElement DEF ConfigureWebhook
  <2>5. result' \in Seq(Object)
    <3>1. CASE service \in processed
      BY <1>8, <2>3, <3>1 DEF ConfigureWebhook
    <3>2. CASE service \notin processed
      <4>1. svc \in Object
        BY <1>8, <2>2, <3>2, EnsureServiceType DEF ConfigureWebhook
      <4>2. result' = Append(WithWebhook, svc)
        BY <1>8, <3>2 DEF ConfigureWebhook
      <4> QED
        BY <2>3, <4>1, <4>2, AppendProperties, Zenon
    <3> QED
      BY <3>1, <3>2
  <2>6. pos' \in 1 .. Len(input) + 1
    BY <1>8, <2>2 DEF ConfigureWebhook
  <2> QED
    BY <1>8, <2>2, <2>4, <2>5, <2>6 DEF ConfigureWebhook
<1>9. CASE PrependIssuer
  <2> DEFINE first == createSelfSignedIssuer(issuer.name)
  <2>1. issuer.name \in Name
    BY DEF IssuerRef
  <2>2. first \in Object
    BY <2>1, createSelfSignedIssuerType
  <2>3. <<first>> \in Seq(Object)
    BY <2>2
  <2>4. <<first>> \o result \in Seq(Object)
    BY <2>3, ConcatProperties, Zenon
  <2>5. result' \in Seq(Object)
    BY <1>9, <2>4 DEF PrependIssuer
  <2> QED
    BY <1>9, <2>5 DEF PrependIssuer
<1>10. CASE CopyRemaining
  <2>1. Current \in Object /\ pos \in DOMAIN objects
    BY <1>10 DEF CopyRemaining, Current
  <2>2. Append(result, Current) \in Seq(Object)
    BY <2>1, AppendProperties, Zenon
  <2>3. result' \in Seq(Object)
    BY <1>10, <2>2 DEF CopyRemaining
  <2>4. pos' \in 1 .. Len(input) + 1
    BY <1>10, <2>1 DEF CopyRemaining
  <2> QED
    BY <1>10, <2>3, <2>4 DEF CopyRemaining
<1>11. CASE Return
  BY <1>11 DEF Return, Terminal
<1>12. CASE UNCHANGED vars
  BY <1>12 DEF vars
<1> QED
  BY <1>1, <1>2, <1>3, <1>4, <1>5, <1>6, <1>7, <1>8, <1>9, <1>10, <1>11, <1>12 DEF Next

\* Whatever the bundle holds and however the issuer is set, every list that
\* Configure works on is a list of manifests and both loops stay in range.
THEOREM TypeCorrect == Spec => []TypeOK
BY InitTypeOK, NextTypeOK, PTL DEF Spec

-----------------------------------------------------------------------------
(* The inductive invariant.  CertificateChain and OncePerService say what    *)
(* holds of the result; that a new certificate or service does not collide   *)
(* with an old one rests on every certificate and every Service gathered so  *)
(* far belonging to a processed service.                                     *)

StartFresh ==
  /\ pc = "start" => objects = input /\ result = <<>> /\ processed = {}
  /\ pc = "webhooks" => HasWebhooks(input)

Generated(obj, services, iss) ==
  IsKind(obj, CertificateGVK) =>
    /\ obj.spec.dns \in services
    /\ obj.name = CertName(obj.spec.dns)
    /\ obj.spec.issuer = iss

Ensured(obj, services) == IsKind(obj, ServiceGVK) => obj.name \in services

ResultIsGathered ==
  pc = "webhooks" =>
    \A i \in DOMAIN result :
      Generated(result[i], processed, issuer) /\ Ensured(result[i], processed)

IInv ==
  /\ TypeOK
  /\ StartFresh
  /\ ResultIsGathered
  /\ CertificateChain
  /\ OncePerService

LEMMA OnlyOneShifted ==
  ASSUME NEW S \in SUBSET Nat, OnlyOne(S)
  PROVE  OnlyOne({i + 1 : i \in S})
BY DEF OnlyOne

LEMMA OnlyOneSingleton ==
  ASSUME NEW x
  PROVE  OnlyOne({} \cup {x})
BY DEF OnlyOne

\* Appending an object that needs no certificate, or one that is certified by
\* what is there already, keeps a list chained.
LEMMA ChainedAppend ==
  ASSUME NEW objs \in Seq(Object), NEW o \in Object, NEW iss, Chained(objs, iss),
         NeedsService(o) => \E c \in 1 .. Len(objs) : Certifies(objs[c], o, iss)
  PROVE  Chained(Append(objs, o), iss)
<1> DEFINE new == Append(objs, o)
<1>1. /\ Len(objs) \in Nat /\ DOMAIN objs = 1 .. Len(objs)
      /\ DOMAIN new = 1 .. Len(objs) + 1
      /\ new[Len(objs) + 1] = o
      /\ \A i \in 1 .. Len(objs) : new[i] = objs[i]
  OBVIOUS
<1> HIDE DEF new
<1>2. SUFFICES ASSUME NEW w \in 1 .. Len(objs) + 1, NeedsService(new[w])
               PROVE  \E c \in 1 .. w - 1 : Certifies(new[c], new[w], iss)
  BY <1>1, Zenon DEF Chained, new
<1>3. CASE w = Len(objs) + 1
  <2>1. PICK c \in 1 .. Len(objs) : Certifies(objs[c], o, iss)
    BY <1>1, <1>2, <1>3
  <2>2. c \in 1 .. w - 1 /\ new[c] = objs[c] /\ new[w] = o
    BY <1>1, <1>3
  <2> QED
    BY <2>1, <2>2, Zenon
<1>4. CASE w # Len(objs) + 1
  <2>1. w \in 1 .. Len(objs) /\ new[w] = objs[w]
    BY <1>1, <1>4
  <2>2. PICK c \in 1 .. w - 1 : Certifies(objs[c], objs[w], iss)
    BY <1>1, <1>2, <2>1, Zenon DEF Chained
  <2>3. new[c] = objs[c]
    BY <1>1, <2>1, <2>2
  <2> QED
    BY <2>1, <2>2, <2>3, Zenon
<1> QED
  BY <1>3, <1>4

LEMMA ChainedPrepend ==
  ASSUME NEW objs \in Seq(Object), NEW o \in Object, NEW iss, Chained(objs, iss),
         ~NeedsService(o)
  PROVE  Chained(<<o>> \o objs, iss)
<1> DEFINE new == <<o>> \o objs
<1>1. /\ Len(objs) \in Nat /\ DOMAIN objs = 1 .. Len(objs)
      /\ DOMAIN new = 1 .. Len(objs) + 1
      /\ new[1] = o
      /\ \A i \in 1 .. Len(objs) : new[i + 1] = objs[i]
  OBVIOUS
<1> HIDE DEF new
<1>2. SUFFICES ASSUME NEW w \in 1 .. Len(objs) + 1, NeedsService(new[w])
               PROVE  \E c \in 1 .. w - 1 : Certifies(new[c], new[w], iss)
  BY <1>1, Zenon DEF Chained, new
<1>3. w # 1
  BY <1>1, <1>2
<1> DEFINE v == w - 1
<1>4. v \in 1 .. Len(objs) /\ w = v + 1
  BY <1>1, <1>3
<1> HIDE DEF v
<1>5. new[w] = objs[v]
  BY <1>1, <1>4
<1>6. PICK c \in 1 .. v - 1 : Certifies(objs[c], objs[v], iss)
  BY <1>1, <1>2, <1>4, <1>5, Zenon DEF Chained
<1>7. c + 1 \in 1 .. w - 1 /\ new[c + 1] = objs[c]
  BY <1>1, <1>4, <1>6
<1> QED
  BY <1>5, <1>6, <1>7, Zenon

\* A webhook configuration changes no count of certificates or services.
LEMMA WebhookIsNeither ==
  ASSUME NEW obj, IsWebhookConfiguration(obj)
  PROVE  ~IsKind(obj, CertificateGVK) /\ ~IsKind(obj, ServiceGVK)
BY KindsDiffer, Zenon

\* In the webhook loop a service has a certificate exactly when it is processed.
LEMMA CertifiedIffProcessed ==
  ASSUME IInv, pc = "webhooks", NEW s \in Name
  PROVE  /\ s \in processed => OnlyOne(KindNamed(result, CertificateGVK, CertName(s)))
         /\ s \in processed => OnlyOne(KindNamed(result, ServiceGVK, s))
         /\ s \notin processed => KindNamed(result, CertificateGVK, CertName(s)) = {}
         /\ s \notin processed => KindNamed(result, ServiceGVK, s) = {}
<1>1. s \in processed => /\ OnlyOne(KindNamed(result, CertificateGVK, CertName(s)))
                        /\ OnlyOne(KindNamed(result, ServiceGVK, s))
  BY Zenon DEF IInv, OncePerService
<1>2. ASSUME NEW c \in KindNamed(result, CertificateGVK, CertName(s)) PROVE s \in processed
  <2>1. c \in DOMAIN result /\ IsKind(result[c], CertificateGVK)
        /\ result[c].name = CertName(s)
    BY DEF KindNamed
  <2>2. result[c].spec.dns \in processed /\ result[c].name = CertName(result[c].spec.dns)
    BY <2>1, Zenon DEF IInv, ResultIsGathered, Generated
  <2>3. result[c].spec.dns \in Name
    BY <2>2 DEF IInv, TypeOK
  <2>4. result[c].spec.dns = s
    BY <2>1, <2>2, <2>3, CertNameInjective, Zenon
  <2> QED
    BY <2>2, <2>4
<1>3. ASSUME NEW i \in KindNamed(result, ServiceGVK, s) PROVE s \in processed
  <2>1. i \in DOMAIN result /\ IsKind(result[i], ServiceGVK) /\ result[i].name = s
    BY DEF KindNamed
  <2> QED
    BY <2>1, Zenon DEF IInv, ResultIsGathered, Ensured
<1> QED
  BY <1>1, <1>2, <1>3, Zenon

\* An iteration for a service that is processed already only adds the webhook.
LEMMA SharedService ==
  ASSUME IInv, ConfigureWebhook, ServiceOf(Current) \in processed
  PROVE  /\ result' = Append(result, Annotated)
         /\ processed' = processed
         /\ \E c \in 1 .. Len(result) : Certifies(result[c], Annotated, issuer)
<1> DEFINE service == ServiceOf(Current)
<1>1. TypeOK /\ pc = "webhooks" /\ AtServed
      /\ ~SecretLookupFails(objects, DeploymentOf(service))
  BY DEF IInv, ConfigureWebhook, AtServed, AtWebhook
<1>2. /\ service \in Name /\ Annotated.inject = CertName(service)
      /\ ServiceOf(Annotated) = service
  BY <1>1, ServedTypes
<1>3. PICK c : KindNamed(result, CertificateGVK, CertName(service)) = {c}
  BY <1>1, <1>2, CertifiedIffProcessed DEF OnlyOne
<1>4. WithCertificate = result
  BY <1>3 DEF WithCertificate, hasCertificate
<1>5. result' = Append(result, Annotated)
  BY <1>4 DEF ConfigureWebhook, WithWebhook
<1>6. processed' = processed
  BY DEF ConfigureWebhook
<1>7. c \in DOMAIN result /\ IsKind(result[c], CertificateGVK)
      /\ result[c].name = CertName(service)
  BY <1>3, Zenon DEF KindNamed
<1>8. /\ result[c].name = CertName(result[c].spec.dns) /\ result[c].spec.issuer = issuer
      /\ result[c].spec.dns \in processed
  BY <1>1, <1>7, Zenon DEF IInv, ResultIsGathered, Generated
<1>9. result[c].spec.dns = service
  <2>1. result[c].spec.dns \in Name
    BY <1>1, <1>8 DEF TypeOK
  <2> QED
    BY <1>2, <1>7, <1>8, <2>1, CertNameInjective, Zenon
<1>10. Certifies(result[c], Annotated, issuer)
  BY <1>2, <1>7, <1>8, <1>9, Zenon DEF Certifies
<1>11. c \in 1 .. Len(result)
  BY <1>1, <1>7 DEF TypeOK
<1> QED
  BY <1>5, <1>6, <1>10, <1>11

\* An iteration for a new service adds its certificate, the webhook and a Service.
LEMMA NewService ==
  ASSUME IInv, ConfigureWebhook, ServiceOf(Current) \notin processed
  PROVE  \E svc \in Object :
           /\ svc.gvk = ServiceGVK /\ svc.name = ServiceOf(Current)
           /\ result' = Append(Append(Append(result, NewCertificate), Annotated), svc)
           /\ processed' = processed \cup {ServiceOf(Current)}
<1> DEFINE service == ServiceOf(Current)
           svc == EnsureService(objects, service, PortOf(Current), <<"webhook", "service">>)
<1>1. TypeOK /\ pc = "webhooks" /\ AtServed
      /\ ~SecretLookupFails(objects, DeploymentOf(service))
  BY DEF IInv, ConfigureWebhook, AtServed, AtWebhook
<1>2. service \in Name /\ PortOf(Current) \in Port
  BY <1>1, ServedTypes
<1>3. ~EnsureServiceFails(objects, service) /\ result' = Append(WithWebhook, svc)
      /\ processed' = processed \cup {service}
  BY DEF ConfigureWebhook
<1>4. objects \in Seq(Object)
  BY <1>1 DEF TypeOK
<1>5. svc \in Object /\ svc.gvk = ServiceGVK /\ svc.name = service
  BY <1>2, <1>3, <1>4, EnsureServiceType
<1>6. KindNamed(result, CertificateGVK, CertName(service)) = {}
  BY <1>1, <1>2, CertifiedIffProcessed
<1>7. WithWebhook = Append(Append(result, NewCertificate), Annotated)
  BY <1>6 DEF WithWebhook, WithCertificate, hasCertificate, NewCertificate
<1> QED
  BY <1>3, <1>5, <1>7

-----------------------------------------------------------------------------
(* Counting after an append. *)

LEMMA OthersAppended ==
  ASSUME NEW objs \in Seq(Object), NEW o \in Object, NEW gvk, NEW name,
         ~(IsKind(o, gvk) /\ o.name = name)
  PROVE  KindNamed(Append(objs, o), gvk, name) = KindNamed(objs, gvk, name)
<1> DEFINE old == KindNamed(objs, gvk, name)
<1>1. KindNamed(Append(objs, o), gvk, name) =
        old \cup (IF IsKind(o, gvk) /\ o.name = name THEN {Len(objs) + 1} ELSE {})
  BY KindNamedAppend
<1> HIDE DEF old
<1>2. KindNamed(Append(objs, o), gvk, name) = old \cup {}
  BY <1>1, Zenon
<1>3. old \cup {} = old
  OBVIOUS
<1> QED
  BY <1>2, <1>3 DEF old

LEMMA FirstAppended ==
  ASSUME NEW objs \in Seq(Object), NEW o \in Object, NEW gvk, NEW name,
         IsKind(o, gvk), o.name = name, KindNamed(objs, gvk, name) = {}
  PROVE  OnlyOne(KindNamed(Append(objs, o), gvk, name))
<1>1. KindNamed(Append(objs, o), gvk, name) = {} \cup {Len(objs) + 1}
  BY KindNamedAppend, Zenon
<1> QED
  BY <1>1, OnlyOneSingleton, Zenon

\* The parts of the invariant other than its type that concern the result.
Gathering(res, services, iss) ==
  /\ \A i \in DOMAIN res : Generated(res[i], services, iss) /\ Ensured(res[i], services)
  /\ Chained(res, iss)
  /\ \A s \in services : /\ OnlyOne(KindNamed(res, ServiceGVK, s))
                         /\ OnlyOne(KindNamed(res, CertificateGVK, CertName(s)))

LEMMA GatheringAppend ==
  ASSUME NEW res \in Seq(Object), NEW services \in SUBSET Name, NEW iss, NEW o \in Object,
         Gathering(res, services, iss), IsWebhookConfiguration(o),
         NeedsService(o) => \E c \in 1 .. Len(res) : Certifies(res[c], o, iss)
  PROVE  Gathering(Append(res, o), services, iss)
<1> DEFINE new == Append(res, o)
<1>1. ~IsKind(o, CertificateGVK) /\ ~IsKind(o, ServiceGVK)
  BY WebhookIsNeither
<1>2. ASSUME NEW i \in DOMAIN new
      PROVE  Generated(new[i], services, iss) /\ Ensured(new[i], services)
  <2>1. CASE i \in DOMAIN res /\ new[i] = res[i]
    BY <2>1, Zenon DEF Gathering
  <2>2. CASE new[i] = o
    BY <1>1, <2>2, Zenon DEF Generated, Ensured
  <2> QED
    BY <2>1, <2>2, AppendElements
<1>3. Chained(new, iss)
  BY ChainedAppend, Zenon DEF Gathering
<1>4. ASSUME NEW s \in services
      PROVE  /\ OnlyOne(KindNamed(new, ServiceGVK, s))
             /\ OnlyOne(KindNamed(new, CertificateGVK, CertName(s)))
  <2>1. KindNamed(new, ServiceGVK, s) = KindNamed(res, ServiceGVK, s)
    BY <1>1, OthersAppended, Zenon
  <2>2. KindNamed(new, CertificateGVK, CertName(s)) = KindNamed(res, CertificateGVK, CertName(s))
    BY <1>1, OthersAppended, Zenon
  <2> QED
    BY <2>1, <2>2, Zenon DEF Gathering
<1> QED
  BY <1>2, <1>3, <1>4, Zenon DEF Gathering

\* What the invariant says during the webhook loop.
LEMMA IInvGathering ==
  ASSUME IInv, pc = "webhooks"
  PROVE  Gathering(result, processed, issuer)
BY Zenon DEF IInv, StartFresh, ResultIsGathered, CertificateChain, OncePerService, Gathering

\* A new service's certificate, webhook and Service extend what is gathered.
LEMMA GatheringNew ==
  ASSUME NEW res \in Seq(Object), NEW services \in SUBSET Name, NEW iss,
         NEW cert \in Object, NEW o \in Object, NEW svc \in Object, NEW s \in Name,
         Gathering(res, services, iss),
         KindNamed(res, ServiceGVK, s) = {},
         KindNamed(res, CertificateGVK, CertName(s)) = {},
         cert.gvk = CertificateGVK, cert.name = CertName(s),
         cert.spec.dns = s, cert.spec.issuer = iss,
         IsWebhookConfiguration(o), ServiceOf(o) = s, o.inject = CertName(s),
         svc.gvk = ServiceGVK, svc.name = s, s \notin services
  PROVE  Gathering(Append(Append(Append(res, cert), o), svc), services \cup {s}, iss)
<1> DEFINE r1 == Append(res, cert)
           r2 == Append(r1, o)
           r3 == Append(r2, svc)
           new == services \cup {s}
<1>1. /\ IsKind(cert, CertificateGVK) /\ ~IsKind(cert, ServiceGVK)
      /\ ~IsWebhookConfiguration(cert)
  <2>1. IsKind(cert, CertificateGVK)
    BY Zenon DEF IsKind
  <2> QED
    BY <2>1, KindsDiffer, Zenon
<1>2. ~IsKind(o, CertificateGVK) /\ ~IsKind(o, ServiceGVK)
  BY WebhookIsNeither
<1>3. /\ IsKind(svc, ServiceGVK) /\ ~IsKind(svc, CertificateGVK)
      /\ ~IsWebhookConfiguration(svc)
  <2>1. IsKind(svc, ServiceGVK)
    BY Zenon DEF IsKind
  <2> QED
    BY <2>1, KindsDiffer, Zenon
<1>4. r1 \in Seq(Object) /\ r2 \in Seq(Object) /\ r3 \in Seq(Object)
  BY AppendProperties, Zenon
<1>5. Len(r1) = Len(res) + 1 /\ r1[Len(res) + 1] = cert /\ Len(res) \in Nat
  OBVIOUS
<1> HIDE DEF r1, r2, r3, new
<1>6. ASSUME NEW i \in DOMAIN r3 PROVE Generated(r3[i], new, iss) /\ Ensured(r3[i], new)
  <2>1. CASE i \in DOMAIN res /\ r3[i] = res[i]
    <3>1. Generated(res[i], services, iss) /\ Ensured(res[i], services)
      BY <2>1, Zenon DEF Gathering
    <3>2. Generated(res[i], new, iss) /\ Ensured(res[i], new)
      BY <3>1 DEF Generated, Ensured, new
    <3> QED
      BY <2>1, <3>2, Zenon
  <2>2. CASE r3[i] = cert
    <3>1. Generated(cert, new, iss) /\ Ensured(cert, new)
      BY <1>1 DEF Generated, Ensured, new
    <3> QED
      BY <2>2, <3>1, Zenon
  <2>3. CASE r3[i] = o
    <3>1. Generated(o, new, iss) /\ Ensured(o, new)
      BY <1>2, Zenon DEF Generated, Ensured
    <3> QED
      BY <2>3, <3>1, Zenon
  <2>4. CASE r3[i] = svc
    <3>1. Generated(svc, new, iss) /\ Ensured(svc, new)
      BY <1>3 DEF Generated, Ensured, new
    <3> QED
      BY <2>4, <3>1, Zenon
  <2>5. (i \in DOMAIN r2 /\ r3[i] = r2[i]) \/ r3[i] = svc
    BY <1>4, AppendElements, Zenon DEF r3
  <2>6. i \in DOMAIN r2 => (i \in DOMAIN r1 /\ r2[i] = r1[i]) \/ r2[i] = o
    BY <1>4, AppendElements, Zenon DEF r2
  <2>7. i \in DOMAIN r1 => (i \in DOMAIN res /\ r1[i] = res[i]) \/ r1[i] = cert
    BY <1>4, AppendElements, Zenon DEF r1
  <2> QED
    BY <2>1, <2>2, <2>3, <2>4, <2>5, <2>6, <2>7, Zenon
<1>7. Chained(r3, iss)
  <2>1. Chained(r1, iss)
    <3>1. Chained(res, iss) /\ ~NeedsService(cert)
      BY <1>1, Zenon DEF Gathering, NeedsService
    <3> QED
      BY <3>1, ChainedAppend, Zenon DEF r1
  <2>2. Certifies(cert, o, iss)
    BY <1>1, Zenon DEF Certifies
  <2>3. Len(res) + 1 \in 1 .. Len(r1)
    BY <1>5
  <2>4. \E c \in 1 .. Len(r1) : Certifies(r1[c], o, iss)
    BY <1>5, <2>2, <2>3, Zenon
  <2>5. Chained(r2, iss)
    BY <1>4, <2>1, <2>4, ChainedAppend, Zenon DEF r2
  <2>6. ~NeedsService(svc)
    BY <1>3, Zenon DEF NeedsService
  <2> QED
    BY <1>4, <2>5, <2>6, ChainedAppend, Zenon DEF r3
<1>8. ASSUME NEW t \in new
      PROVE  /\ OnlyOne(KindNamed(r3, ServiceGVK, t))
             /\ OnlyOne(KindNamed(r3, CertificateGVK, CertName(t)))
  <2>1. KindNamed(r1, ServiceGVK, t) = KindNamed(res, ServiceGVK, t)
    BY <1>1, OthersAppended DEF r1
  <2>2. KindNamed(r2, ServiceGVK, t) = KindNamed(r1, ServiceGVK, t)
    BY <1>2, <1>4, OthersAppended DEF r2
  <2>3. /\ KindNamed(r3, CertificateGVK, CertName(t)) = KindNamed(r2, CertificateGVK, CertName(t))
        /\ KindNamed(r2, CertificateGVK, CertName(t)) = KindNamed(r1, CertificateGVK, CertName(t))
    <3>1. KindNamed(r3, CertificateGVK, CertName(t)) = KindNamed(r2, CertificateGVK, CertName(t))
      BY <1>3, <1>4, OthersAppended DEF r3
    <3>2. KindNamed(r2, CertificateGVK, CertName(t)) = KindNamed(r1, CertificateGVK, CertName(t))
      BY <1>2, <1>4, OthersAppended DEF r2
    <3> QED
      BY <3>1, <3>2
  <2>4. CASE t = s
    <3>1. OnlyOne(KindNamed(r1, CertificateGVK, CertName(t)))
      BY <1>1, <2>4, FirstAppended, Zenon DEF r1
    <3>2. KindNamed(r2, ServiceGVK, t) = {}
      BY <2>1, <2>2, <2>4, Zenon
    <3>3. OnlyOne(KindNamed(r3, ServiceGVK, t))
      BY <1>3, <1>4, <2>4, <3>2, FirstAppended, Zenon DEF r3
    <3> QED
      BY <2>3, <3>1, <3>3, Zenon
  <2>5. CASE t # s
    <3>1. t \in services /\ t \in Name
      BY <2>5 DEF new
    <3>2. CertName(t) # CertName(s)
      BY <2>5, <3>1, CertNameInjective, Zenon
    <3>3. KindNamed(r1, CertificateGVK, CertName(t)) = KindNamed(res, CertificateGVK, CertName(t))
      BY <3>2, OthersAppended DEF r1
    <3>4. KindNamed(r3, ServiceGVK, t) = KindNamed(r2, ServiceGVK, t)
      BY <1>4, <2>5, OthersAppended DEF r3
    <3>5. /\ OnlyOne(KindNamed(res, ServiceGVK, t))
          /\ OnlyOne(KindNamed(res, CertificateGVK, CertName(t)))
      BY <3>1, Zenon DEF Gathering
    <3> QED
      BY <2>1, <2>2, <2>3, <3>3, <3>4, <3>5, Zenon
  <2> QED
    BY <2>4, <2>5
<1>9. Gathering(r3, new, iss)
  BY <1>6, <1>7, <1>8, Zenon DEF Gathering
<1> QED
  BY <1>9, Zenon DEF r1, r2, r3, new

-----------------------------------------------------------------------------
(* The invariant is inductive. *)

LEMMA InitIInv == Init => IInv
<1> SUFFICES ASSUME Init PROVE IInv
  OBVIOUS
<1>1. TypeOK
  BY InitTypeOK
<1>2. pc = "start" /\ processed = {} /\ StartFresh
  BY DEF Init, StartFresh
<1> QED
  BY <1>1, <1>2 DEF IInv, ResultIsGathered, CertificateChain, OncePerService

LEMMA ReturnUnchangedIInv == IInv /\ ReturnUnchanged /\ TypeOK' => IInv'
<1> SUFFICES ASSUME IInv, ReturnUnchanged, TypeOK' PROVE IInv'
  OBVIOUS
<1>1. objects = input /\ processed = {} /\ pc = "start" /\ ~HasWebhooks(objects)
  BY DEF IInv, StartFresh, ReturnUnchanged
<1>2. pc' = "done" /\ processed' = {} /\ ~HasWebhooks(input')
  BY <1>1 DEF ReturnUnchanged
<1> QED
  BY <1>2 DEF IInv, StartFresh, ResultIsGathered, CertificateChain, OncePerService

LEMMA ChooseIssuerIInv == IInv /\ ChooseIssuer /\ TypeOK' => IInv'
<1> SUFFICES ASSUME IInv, ChooseIssuer, TypeOK' PROVE IInv'
  OBVIOUS
<1>1. pc' = "webhooks" /\ result' = <<>> /\ processed' = {} /\ HasWebhooks(input')
  BY DEF IInv, StartFresh, ChooseIssuer
<1>2. Chained(result', issuer')
  BY <1>1 DEF Chained
<1> QED
  BY <1>1, <1>2 DEF IInv, StartFresh, ResultIsGathered, CertificateChain, OncePerService

\* What a step of the webhook loop has to establish.
LEMMA GatheringIInvPrimed ==
  ASSUME TypeOK', pc' = "webhooks", HasWebhooks(input'), Gathering(result', processed', issuer')
  PROVE  IInv'
BY DEF IInv, StartFresh, ResultIsGathered, CertificateChain, OncePerService, Gathering

LEMMA KeepServicelessIInv ==
  IInv /\ KeepServiceless /\ TypeOK' => IInv'
<1> SUFFICES ASSUME IInv, KeepServiceless, TypeOK' PROVE IInv'
  OBVIOUS
<1>1. /\ pc = "webhooks" /\ IsWebhookConfiguration(Current) /\ pos \in DOMAIN objects
      /\ ServiceOf(Current) = NoName
      /\ result' = Append(result, Current)
      /\ pc' = pc /\ processed' = processed /\ issuer' = issuer /\ HasWebhooks(input')
  BY DEF KeepServiceless, AtWebhook, IInv, StartFresh
<1>2. result \in Seq(Object) /\ processed \in SUBSET Name /\ Current \in Object
  BY <1>1 DEF IInv, TypeOK, Current
<1>3. ~NeedsService(Current)
  BY <1>1 DEF NeedsService
<1>4. Gathering(Append(result, Current), processed, issuer)
  BY <1>1, <1>2, <1>3, IInvGathering, GatheringAppend
<1> QED
  BY <1>1, <1>4, GatheringIInvPrimed

LEMMA ConfigureWebhookIInv ==
  IInv /\ ConfigureWebhook /\ TypeOK' => IInv'
<1> SUFFICES ASSUME IInv, ConfigureWebhook, TypeOK' PROVE IInv'
  OBVIOUS
<1> DEFINE service == ServiceOf(Current)
<1>1. /\ pc = "webhooks" /\ AtServed /\ ~SecretLookupFails(objects, DeploymentOf(service))
      /\ pc' = pc /\ issuer' = issuer /\ TypeOK /\ HasWebhooks(input')
  BY DEF IInv, StartFresh, ConfigureWebhook, AtServed, AtWebhook
<1>2. /\ result \in Seq(Object) /\ processed \in SUBSET Name /\ issuer \in IssuerRef
      /\ service \in Name /\ Annotated \in Object
      /\ IsWebhookConfiguration(Annotated) /\ ServiceOf(Annotated) = service
      /\ Annotated.inject = CertName(service)
      /\ SecretFor(objects, service) \in Name
  BY <1>1, ServedTypes DEF TypeOK
<1>3. Gathering(result, processed, issuer)
  BY <1>1, IInvGathering
<1>4. Gathering(result', processed', issuer')
  <2>1. CASE service \in processed
    <3>1. /\ result' = Append(result, Annotated) /\ processed' = processed
          /\ \E c \in 1 .. Len(result) : Certifies(result[c], Annotated, issuer)
      BY <2>1, SharedService
    <3>2. Gathering(Append(result, Annotated), processed, issuer)
      BY <1>2, <1>3, <3>1, GatheringAppend
    <3> QED
      BY <1>1, <3>1, <3>2
  <2>2. CASE service \notin processed
    <3>1. PICK svc \in Object :
            /\ svc.gvk = ServiceGVK /\ svc.name = service
            /\ result' = Append(Append(Append(result, NewCertificate), Annotated), svc)
            /\ processed' = processed \cup {service}
      BY <2>2, NewService
    <3>2. /\ KindNamed(result, CertificateGVK, CertName(service)) = {}
          /\ KindNamed(result, ServiceGVK, service) = {}
      BY <1>1, <1>2, <2>2, CertifiedIffProcessed
    <3>3. /\ NewCertificate \in Object
          /\ NewCertificate.gvk = CertificateGVK /\ NewCertificate.name = CertName(service)
          /\ NewCertificate.spec.dns = service /\ NewCertificate.spec.issuer = issuer
      BY <1>2, createCertificateType DEF NewCertificate
    <3>4. Gathering(Append(Append(Append(result, NewCertificate), Annotated), svc),
                    processed \cup {service}, issuer)
      BY <1>2, <1>3, <2>2, <3>1, <3>2, <3>3, GatheringNew
    <3> QED
      BY <1>1, <3>1, <3>4
  <2> QED
    BY <2>1, <2>2
<1> QED
  BY <1>1, <1>4, GatheringIInvPrimed

LEMMA PrependIssuerIInv ==
  IInv /\ PrependIssuer /\ TypeOK' => IInv'
<1> SUFFICES ASSUME IInv, PrependIssuer, TypeOK' PROVE IInv'
  OBVIOUS
<1> DEFINE first == createSelfSignedIssuer(issuer.name)
<1>1. /\ pc = "webhooks" /\ pc' = "remaining" /\ processed' = processed
      /\ issuer' = issuer /\ cfg' = cfg
      /\ result' = IF SelfSigned(cfg) THEN <<first>> \o result ELSE result
  BY DEF PrependIssuer
<1>2. /\ result \in Seq(Object) /\ processed \in SUBSET Name /\ issuer.name \in Name
  BY DEF IInv, TypeOK, IssuerRef
<1>3. Gathering(result, processed, issuer)
  BY <1>1, IInvGathering
<1>4. first \in Object /\ first.gvk = IssuerGVK /\ first.name = issuer.name
  BY <1>2, createSelfSignedIssuerType
<1>5. ~IsKind(first, ServiceGVK) /\ ~IsWebhookConfiguration(first)
  <2>1. IsKind(first, IssuerGVK)
    BY <1>4, Zenon DEF IsKind
  <2> QED
    BY <2>1, KindsDiffer, Zenon
<1> HIDE DEF first
<1>6. Chained(result', issuer)
  <2>1. Chained(result, issuer) /\ ~NeedsService(first)
    BY <1>3, <1>5, Zenon DEF Gathering, NeedsService
  <2>2. Chained(<<first>> \o result, issuer)
    BY <1>2, <1>4, <2>1, ChainedPrepend
  <2> QED
    BY <1>1, <2>1, <2>2
<1>7. ASSUME NEW s \in processed PROVE OnlyOne(KindNamed(result', ServiceGVK, s))
  <2>1. OnlyOne(KindNamed(result, ServiceGVK, s))
    BY <1>3, Zenon DEF Gathering
  <2>2. KindNamed(<<first>> \o result, ServiceGVK, s)
          = {i + 1 : i \in KindNamed(result, ServiceGVK, s)}
    BY <1>2, <1>4, <1>5, KindNamedPrepend
  <2>3. KindNamed(result, ServiceGVK, s) \in SUBSET Nat
    BY <1>2 DEF KindNamed
  <2>4. OnlyOne(KindNamed(<<first>> \o result, ServiceGVK, s))
    BY <2>1, <2>2, <2>3, OnlyOneShifted
  <2> QED
    BY <1>1, <2>1, <2>4
<1>8. SelfSigned(cfg) => result' # <<>> /\ Is(result'[1], IssuerGVK, issuer.name)
  <2>1. <<first>> \o result # <<>> /\ (<<first>> \o result)[1] = first
    BY <1>2
  <2> QED
    BY <1>1, <1>4, <2>1 DEF Is
<1> QED
  BY <1>1, <1>6, <1>7, <1>8 DEF IInv, StartFresh, ResultIsGathered, CertificateChain, OncePerService

LEMMA CopyRemainingIInv == IInv /\ CopyRemaining /\ TypeOK' => IInv'
<1> SUFFICES ASSUME IInv, CopyRemaining, TypeOK' PROVE IInv'
  OBVIOUS
<1>1. /\ pc = "remaining" /\ pc' = "remaining" /\ processed' = processed /\ pos \in DOMAIN objects
      /\ issuer' = issuer /\ cfg' = cfg /\ input' = input
      /\ result' = IF Handled(Current) THEN result ELSE Append(result, Current)
  BY DEF CopyRemaining
<1>2. /\ result \in Seq(Object) /\ Current \in Object
  BY <1>1 DEF IInv, TypeOK, Current
<1>3. CASE Handled(Current)
  BY <1>1, <1>3 DEF IInv, StartFresh, ResultIsGathered, CertificateChain, OncePerService
<1>4. CASE ~Handled(Current)
  <2>1. /\ ~NeedsService(Current)
        /\ \A s \in processed : ~(IsKind(Current, ServiceGVK) /\ Current.name = s)
    BY <1>4 DEF Handled, NeedsService
  <2>2. Chained(result, issuer) => Chained(Append(result, Current), issuer)
    BY <1>2, <2>1, ChainedAppend
  <2>3. \A s \in processed : OnlyOne(KindNamed(Append(result, Current), ServiceGVK, s))
    <3> TAKE s \in processed
    <3>1. KindNamed(Append(result, Current), ServiceGVK, s) = KindNamed(result, ServiceGVK, s)
      BY <1>2, <2>1, OthersAppended
    <3>2. OnlyOne(KindNamed(result, ServiceGVK, s))
      BY <1>1 DEF IInv, OncePerService
    <3> QED
      BY <3>1, <3>2
  <2>4. result # <<>> => /\ Append(result, Current) # <<>>
                         /\ Append(result, Current)[1] = result[1]
    BY <1>2
  <2> QED
    BY <1>1, <1>4, <2>2, <2>3, <2>4
    DEF IInv, StartFresh, ResultIsGathered, CertificateChain, OncePerService
<1> QED
  BY <1>3, <1>4

LEMMA NextIInv == IInv /\ [Next]_vars => IInv'
<1> SUFFICES ASSUME IInv, [Next]_vars PROVE IInv'
  OBVIOUS
<1>0. TypeOK'
  BY NextTypeOK DEF IInv
<1> USE DEF StartFresh, ResultIsGathered, CertificateChain, OncePerService
<1>1. CASE ReturnUnchanged
  BY <1>0, <1>1, ReturnUnchangedIInv
<1>2. CASE ChooseIssuer
  BY <1>0, <1>2, ChooseIssuerIInv
<1>3. CASE SkipNonWebhook
  BY <1>0, <1>3 DEF SkipNonWebhook, IInv
<1>4. CASE KeepServiceless
  BY <1>0, <1>4, KeepServicelessIInv
<1>5. CASE NilPortPanic
  BY <1>0, <1>5 DEF NilPortPanic, IInv
<1>6. CASE SecretLookupError
  BY <1>0, <1>6 DEF SecretLookupError, IInv
<1>7. CASE ServiceError
  BY <1>0, <1>7 DEF ServiceError, IInv
<1>8. CASE ConfigureWebhook
  BY <1>0, <1>8, ConfigureWebhookIInv
<1>9. CASE PrependIssuer
  BY <1>0, <1>9, PrependIssuerIInv
<1>10. CASE CopyRemaining
  BY <1>0, <1>10, CopyRemainingIInv
<1>11. CASE Return
  <2>1. pc = "remaining" /\ pc' = "done" /\ UNCHANGED <<input, cfg, objects, issuer, result, processed>>
    BY <1>11 DEF Return
  <2> QED
    BY <1>0, <2>1 DEF IInv
<1>12. CASE UNCHANGED vars
  BY <1>0, <1>12 DEF vars, IInv
<1> QED
  BY <1>1, <1>2, <1>3, <1>4, <1>5, <1>6, <1>7, <1>8, <1>9, <1>10, <1>11, <1>12 DEF Next

LEMMA Inductive == Spec => []IInv
BY InitIInv, NextIInv, PTL DEF Spec

\* Whatever the bundle holds, a webhook with a service is never gathered or
\* delivered before the certificate its annotation names, that certificate is
\* issued for its service by the issuer of this call, and a generated issuer is
\* delivered at the head of the list (processWebhooks and Configure).
THEOREM CertificatesPrecedeWebhooks == Spec => []CertificateChain
<1>1. IInv => CertificateChain
  BY DEF IInv
<1> QED
  BY <1>1, Inductive, PTL

\* Whatever the bundle holds, however many webhooks share a service and however
\* many Services of its name there are, the service is processed once: one
\* generated certificate while gathering, one Service in what is delivered.
THEOREM ServicesProcessedOnce == Spec => []OncePerService
<1>1. IInv => OncePerService
  BY DEF IInv
<1> QED
  BY <1>1, Inductive, PTL

-----------------------------------------------------------------------------
(* What a caller can build on: every webhook with a service in the result     *)
(* counts as processed, so that OncePerService holds for it.                  *)

Settled(objs, services) ==
  \A w \in DOMAIN objs : NeedsService(objs[w]) => ServiceOf(objs[w]) \in services

ServedAreProcessed ==
  pc \in {"webhooks", "remaining", "done"} /\ HasWebhooks(input) => Settled(result, processed)

LEMMA SettledAppend ==
  ASSUME NEW objs \in Seq(Object), NEW o \in Object, NEW services, Settled(objs, services),
         NeedsService(o) => ServiceOf(o) \in services
  PROVE  Settled(Append(objs, o), services)
<1> DEFINE new == Append(objs, o)
<1>1. SUFFICES ASSUME NEW w \in DOMAIN new, NeedsService(new[w])
               PROVE  ServiceOf(new[w]) \in services
  BY DEF Settled
<1>2. \/ w \in DOMAIN objs /\ new[w] = objs[w]
      \/ new[w] = o
  BY AppendElements
<1> QED
  BY <1>1, <1>2, Zenon DEF Settled

LEMMA SettledPrepend ==
  ASSUME NEW objs \in Seq(Object), NEW o \in Object, NEW services, Settled(objs, services),
         ~NeedsService(o)
  PROVE  Settled(<<o>> \o objs, services)
<1> DEFINE new == <<o>> \o objs
<1>1. SUFFICES ASSUME NEW w \in DOMAIN new, NeedsService(new[w])
               PROVE  ServiceOf(new[w]) \in services
  BY DEF Settled
<1>2. \/ new[w] = o
      \/ \E i \in DOMAIN objs : new[w] = objs[i]
  OBVIOUS
<1> QED
  BY <1>1, <1>2, Zenon DEF Settled

LEMMA ConfigureWebhookSettles ==
  ASSUME IInv, ConfigureWebhook, Settled(result, processed)
  PROVE  Settled(result', processed')
<1> DEFINE service == ServiceOf(Current)
<1>1. TypeOK /\ AtServed /\ ~SecretLookupFails(objects, DeploymentOf(service))
  BY DEF IInv, ConfigureWebhook, AtServed
<1>2. /\ result \in Seq(Object) /\ Annotated \in Object /\ NewCertificate \in Object
      /\ ServiceOf(Annotated) = service
  BY <1>1, ServedTypes, WithWebhookTypes DEF TypeOK
<1>3. CASE service \in processed
  <2>1. result' = Append(result, Annotated) /\ processed' = processed
    BY <1>3, SharedService
  <2>2. Settled(Append(result, Annotated), processed)
    BY <1>2, <1>3, SettledAppend
  <2> QED
    BY <2>1, <2>2
<1>4. CASE service \notin processed
  <2> DEFINE more == processed \cup {service}
             r1 == Append(result, NewCertificate)
             r2 == Append(r1, Annotated)
  <2>1. PICK svc \in Object :
          /\ svc.gvk = ServiceGVK /\ svc.name = service
          /\ result' = Append(r2, svc) /\ processed' = more
    BY <1>4, NewService
  <2>2. ~NeedsService(NewCertificate) /\ ~NeedsService(svc)
    <3>1. NewCertificate.gvk = CertificateGVK
      BY <1>1, ServedTypes, createCertificateType DEF NewCertificate, TypeOK
    <3>2. IsKind(NewCertificate, CertificateGVK) /\ IsKind(svc, ServiceGVK)
      BY <2>1, <3>1, Zenon DEF IsKind
    <3> QED
      BY <3>2, KindsDiffer, Zenon DEF NeedsService
  <2>3. Settled(result, more)
    BY DEF Settled
  <2>4. r1 \in Seq(Object) /\ r2 \in Seq(Object)
    BY <1>2, AppendProperties, Zenon
  <2>5. Settled(r1, more)
    <3> HIDE DEF more
    <3> QED
      BY <1>2, <2>2, <2>3, SettledAppend
  <2>6. service \in more
    OBVIOUS
  <2>7. Settled(r2, more)
    <3> HIDE DEF more, r1
    <3> QED
      BY <1>2, <2>4, <2>5, <2>6, SettledAppend
  <2>8. Settled(Append(r2, svc), more)
    <3> HIDE DEF more, r2
    <3> QED
      BY <2>1, <2>2, <2>4, <2>7, SettledAppend
  <2> QED
    BY <2>1, <2>8, Zenon
<1> QED
  BY <1>3, <1>4

LEMMA NextServedAreProcessed ==
  IInv /\ ServedAreProcessed /\ [Next]_vars => ServedAreProcessed'
<1> SUFFICES ASSUME IInv, ServedAreProcessed, [Next]_vars PROVE ServedAreProcessed'
  OBVIOUS
<1>0. result \in Seq(Object)
  BY DEF IInv, TypeOK
<1>1. CASE ReturnUnchanged
  <2>1. ~HasWebhooks(input')
    BY <1>1 DEF ReturnUnchanged, IInv, StartFresh
  <2> QED
    BY <2>1 DEF ServedAreProcessed
<1>2. CASE ChooseIssuer
  <2>1. result' = <<>>
    BY <1>2 DEF ChooseIssuer, IInv, StartFresh
  <2> QED
    BY <2>1 DEF ServedAreProcessed, Settled
<1>3. CASE SkipNonWebhook \/ Return
  <2>1. Settled(result', processed') <=> Settled(result, processed)
    BY <1>3 DEF SkipNonWebhook, Return
  <2>2. input' = input /\ pc \in {"webhooks", "remaining", "done"}
    BY <1>3 DEF SkipNonWebhook, Return
  <2> QED
    BY <2>1, <2>2 DEF ServedAreProcessed
<1>4. CASE NilPortPanic \/ SecretLookupError \/ ServiceError
  BY <1>4 DEF NilPortPanic, SecretLookupError, ServiceError, ServedAreProcessed
<1>5. CASE KeepServiceless
  <2>1. /\ pc = "webhooks" /\ result' = Append(result, Current) /\ ServiceOf(Current) = NoName
        /\ processed' = processed /\ input' = input /\ pos \in DOMAIN objects
    BY <1>5 DEF KeepServiceless, AtWebhook
  <2>2. Current \in Object /\ ~NeedsService(Current)
    BY <2>1 DEF IInv, TypeOK, Current, NeedsService
  <2>3. HasWebhooks(input) => Settled(Append(result, Current), processed)
    BY <1>0, <2>1, <2>2, SettledAppend DEF ServedAreProcessed
  <2> QED
    BY <2>1, <2>3 DEF ServedAreProcessed
<1>6. CASE ConfigureWebhook
  <2>1. pc = "webhooks" /\ input' = input
    BY <1>6 DEF ConfigureWebhook, AtServed, AtWebhook
  <2>2. HasWebhooks(input) => Settled(result, processed)
    BY <2>1 DEF ServedAreProcessed
  <2>3. HasWebhooks(input) => Settled(result', processed')
    BY <1>6, <2>2, ConfigureWebhookSettles
  <2> QED
    BY <2>1, <2>3 DEF ServedAreProcessed
<1>7. CASE PrependIssuer
  <2> DEFINE first == createSelfSignedIssuer(issuer.name)
  <2>1. /\ pc = "webhooks" /\ processed' = processed /\ input' = input
        /\ result' = IF SelfSigned(cfg) THEN <<first>> \o result ELSE result
    BY <1>7 DEF PrependIssuer
  <2>2. first \in Object /\ first.gvk = IssuerGVK
    BY createSelfSignedIssuerType DEF IInv, TypeOK, IssuerRef
  <2>3. ~NeedsService(first)
    <3>1. IsKind(first, IssuerGVK)
      BY <2>2, Zenon DEF IsKind
    <3> QED
      BY <3>1, KindsDiffer, Zenon DEF NeedsService
  <2> HIDE DEF first
  <2>4. Settled(result, processed) => Settled(<<first>> \o result, processed)
    BY <1>0, <2>2, <2>3, SettledPrepend
  <2> QED
    BY <2>1, <2>4 DEF ServedAreProcessed
<1>8. CASE CopyRemaining
  <2>1. /\ pc = "remaining" /\ processed' = processed /\ input' = input /\ pos \in DOMAIN objects
        /\ result' = IF Handled(Current) THEN result ELSE Append(result, Current)
    BY <1>8 DEF CopyRemaining
  <2>2. Current \in Object
    BY <2>1 DEF IInv, TypeOK, Current
  <2>3. ~Handled(Current) => ~NeedsService(Current)
    BY DEF Handled, NeedsService
  <2>4. ~Handled(Current) /\ Settled(result, processed) =>
          Settled(Append(result, Current), processed)
    BY <1>0, <2>2, <2>3, SettledAppend
  <2> QED
    BY <2>1, <2>4 DEF ServedAreProcessed
<1>9. CASE UNCHANGED vars
  BY <1>9 DEF vars, ServedAreProcessed, Settled
<1> QED
  BY <1>1, <1>2, <1>3, <1>4, <1>5, <1>6, <1>7, <1>8, <1>9 DEF Next


-----------------------------------------------------------------------------
(* The caller's list keeps everything but annotations.                       *)

Like(obj, original) ==
  /\ obj.gvk = original.gvk
  /\ obj.name = original.name
  /\ obj.valid = original.valid
  /\ obj.spec = original.spec

Follows == \A i \in DOMAIN input : Like(objects[i], input[i])

LEMMA SameDomain ==
  ASSUME TypeOK
  PROVE  /\ DOMAIN objects = 1 .. Len(objects) /\ DOMAIN input = DOMAIN objects
         /\ Len(objects) \in Nat /\ Len(input) = Len(objects)
BY DEF TypeOK

\* What the steps look at is the same in both lists.
LEMMA LikeLooks ==
  ASSUME NEW a, NEW b, Like(a, b)
  PROVE  /\ \A gvk : IsKind(a, gvk) <=> IsKind(b, gvk)
         /\ IsWebhookConfiguration(a) <=> IsWebhookConfiguration(b)
         /\ NeedsService(a) <=> NeedsService(b)
         /\ ServiceOf(a) = ServiceOf(b)
         /\ PortOf(a) = PortOf(b)
<1>1. \A gvk : IsKind(a, gvk) <=> IsKind(b, gvk)
  BY DEF Like, IsKind
<1>2. IsWebhookConfiguration(a) <=> IsWebhookConfiguration(b)
  BY <1>1, Zenon DEF IsWebhookConfiguration
<1>3. ServiceOf(a) = ServiceOf(b) /\ PortOf(a) = PortOf(b)
  BY DEF Like, ServiceOf, PortOf
<1> QED
  BY <1>1, <1>2, <1>3 DEF NeedsService

LEMMA SamePositions ==
  ASSUME TypeOK, Follows, NEW gvk, NEW name
  PROVE  NamedPositions(objects, gvk, name) = NamedPositions(input, gvk, name)
BY SameDomain DEF Follows, Like, NamedPositions, Is

\* The secret is looked up in deployments, which no step annotates.
LEMMA SameSecret ==
  ASSUME TypeOK, Follows, NEW service
  PROVE  SecretFor(objects, service) = SecretFor(input, service)
<1> DEFINE found == NamedPositions(input, DeploymentGVK, DeploymentOf(service))
           d == Earliest(found)
<1>1. NamedPositions(objects, DeploymentGVK, DeploymentOf(service)) = found
  BY SamePositions
<1>2. CASE found = {}
  BY <1>1, <1>2 DEF SecretFor, extractWebhookSecretName
<1>3. CASE found # {}
  <2>1. d \in DOMAIN input
    BY <1>3, EarliestNamed DEF TypeOK
  <2>2. objects[d].spec = input[d].spec
    BY <2>1 DEF Follows, Like
  <2> QED
    BY <1>1, <1>3, <2>2 DEF SecretFor, extractWebhookSecretName
<1> QED
  BY <1>2, <1>3

LEMMA SameLookup ==
  ASSUME TypeOK, Follows, NEW deployment
  PROVE  SecretLookupFails(objects, deployment) <=> SecretLookupFails(input, deployment)
<1> DEFINE found == NamedPositions(input, DeploymentGVK, deployment)
           d == Earliest(found)
<1>1. NamedPositions(objects, DeploymentGVK, deployment) = found
  BY SamePositions
<1>2. CASE found = {}
  BY <1>1, <1>2 DEF SecretLookupFails
<1>3. CASE found # {}
  <2>1. d \in DOMAIN input
    BY <1>3, EarliestNamed DEF TypeOK
  <2>2. objects[d].valid = input[d].valid
    BY <2>1 DEF Follows, Like
  <2> QED
    BY <1>1, <1>3, <2>2 DEF SecretLookupFails
<1> QED
  BY <1>2, <1>3

LEMMA AnnotatingFollows ==
  ASSUME TypeOK, Follows, AtServed, ~SecretLookupFails(objects, DeploymentOf(ServiceOf(Current))),
         objects' = [objects EXCEPT ![pos] = Annotated], input' = input
  PROVE  Follows'
<1>1. pos \in DOMAIN objects /\ Current \in Object /\ CertName(ServiceOf(Current)) \in Name
  BY ServedTypes, CertNameType
<1>2. Like(Annotated, Current)
  BY <1>1, SetAnnotationType DEF Annotated, Like
<1>3. ASSUME NEW i \in DOMAIN input PROVE Like(objects'[i], input[i])
  <2>1. i \in DOMAIN objects /\ Like(objects[i], input[i])
    BY SameDomain DEF Follows
  <2>2. CASE i = pos
    <3>1. objects'[i] = Annotated /\ objects[i] = Current
      BY <1>1, <2>2 DEF Current
    <3> QED
      BY <1>2, <2>1, <3>1 DEF Like
  <2>3. CASE i # pos
    BY <2>1, <2>3
  <2> QED
    BY <2>2, <2>3
<1> QED
  BY <1>3 DEF Follows

LEMMA NextFollows == TypeOK /\ Follows /\ [Next]_vars => Follows'
<1> SUFFICES ASSUME TypeOK, Follows, [Next]_vars PROVE Follows'
  OBVIOUS
<1>1. CASE ServiceError
  BY <1>1, AnnotatingFollows DEF ServiceError
<1>2. CASE ConfigureWebhook
  BY <1>2, AnnotatingFollows DEF ConfigureWebhook
<1>3. CASE UNCHANGED <<objects, input>>
  BY <1>3 DEF Follows
<1> QED
  BY <1>1, <1>2, <1>3
  DEF Next, vars, ReturnUnchanged, ChooseIssuer, SkipNonWebhook, KeepServiceless, NilPortPanic,
      SecretLookupError, PrependIssuer, CopyRemaining, Return

LEMMA InitFollows == Init => Follows
BY DEF Init, Follows, Like

LEMMA AlwaysFollows == Spec => [](IInv /\ Follows)
<1>1. IInv => TypeOK
  BY DEF IInv
<1> QED
  BY <1>1, InitIInv, NextIInv, InitFollows, NextFollows, PTL DEF Spec

-----------------------------------------------------------------------------
(* Secrets.                                                                   *)

SecretsAreLookedUp ==
  pc = "webhooks" =>
    \A c \in DOMAIN result : IsKind(result[c], CertificateGVK) =>
      /\ result[c].spec.secret = SecretFor(input, result[c].spec.dns)
      /\ ~SecretLookupFails(input, DeploymentOf(result[c].spec.dns))

LEMMA ConfigureWebhookSecrets ==
  ASSUME IInv, Follows, SecretsAreLookedUp, ConfigureWebhook
  PROVE  SecretsAreLookedUp'
<1> DEFINE service == ServiceOf(Current)
           Right(obj) == IsKind(obj, CertificateGVK) =>
                           /\ obj.spec.secret = SecretFor(input, obj.spec.dns)
                           /\ ~SecretLookupFails(input, DeploymentOf(obj.spec.dns))
<1>1. /\ TypeOK /\ AtServed /\ ~SecretLookupFails(objects, DeploymentOf(service))
      /\ pc = "webhooks" /\ input' = input
  BY DEF IInv, ConfigureWebhook, AtServed, AtWebhook
<1>2. /\ result \in Seq(Object) /\ Annotated \in Object /\ NewCertificate \in Object
      /\ IsWebhookConfiguration(Annotated)
  BY <1>1, ServedTypes, WithWebhookTypes DEF TypeOK
<1>3. /\ NewCertificate.spec.secret = SecretFor(objects, service)
      /\ NewCertificate.spec.dns = service
  BY DEF NewCertificate, createCertificate, NewObject
<1>4. Right(NewCertificate)
  BY <1>1, <1>3, SameSecret, SameLookup
<1>5. ~IsKind(Annotated, CertificateGVK)
  BY <1>2, KindsDiffer, Zenon
<1>6. \A i \in DOMAIN result : Right(result[i])
  BY <1>1 DEF SecretsAreLookedUp
<1> HIDE DEF Right
<1>7. \A i \in DOMAIN result' : Right(result'[i])
  <2>1. Right(Annotated)
    BY <1>5 DEF Right
  <2>2. CASE service \in processed
    <3>1. result' = Append(result, Annotated)
      BY <2>2, SharedService
    <3> QED
      BY <1>2, <1>6, <2>1, <3>1, AppendElements
  <2>3. CASE service \notin processed
    <3> DEFINE r1 == Append(result, NewCertificate)
               r2 == Append(r1, Annotated)
    <3>1. PICK svc \in Object : svc.gvk = ServiceGVK /\ result' = Append(r2, svc)
      BY <2>3, NewService
    <3>2. r1 \in Seq(Object) /\ r2 \in Seq(Object)
      BY <1>2, AppendProperties, Zenon
    <3>3. IsKind(svc, ServiceGVK)
      BY <3>1, Zenon DEF IsKind
    <3>4. ~IsKind(svc, CertificateGVK)
      BY <3>3, KindsDiffer, Zenon
    <3>5. Right(svc)
      BY <3>4 DEF Right
    <3>6. \A i \in DOMAIN r1 : Right(r1[i])
      BY <1>2, <1>4, <1>6, AppendElements
    <3> HIDE DEF r1
    <3>7. \A i \in DOMAIN r2 : Right(r2[i])
      BY <1>2, <2>1, <3>2, <3>6, AppendElements
    <3> HIDE DEF r2
    <3> QED
      BY <3>1, <3>2, <3>5, <3>7, AppendElements
  <2> QED
    BY <2>2, <2>3
<1> QED
  BY <1>1, <1>7 DEF SecretsAreLookedUp, Right

LEMMA NextSecrets ==
  IInv /\ Follows /\ SecretsAreLookedUp /\ [Next]_vars => SecretsAreLookedUp'
<1> SUFFICES ASSUME IInv, Follows, SecretsAreLookedUp, [Next]_vars PROVE SecretsAreLookedUp'
  OBVIOUS
<1>1. CASE ConfigureWebhook
  BY <1>1, ConfigureWebhookSecrets
<1>2. CASE KeepServiceless
  <2>1. /\ pc = "webhooks" /\ result' = Append(result, Current) /\ input' = input
        /\ IsWebhookConfiguration(Current) /\ pos \in DOMAIN objects
    BY <1>2 DEF KeepServiceless, AtWebhook
  <2>2. result \in Seq(Object) /\ Current \in Object
    BY <2>1 DEF IInv, TypeOK, Current
  <2>3. ~IsKind(Current, CertificateGVK)
    BY <2>1, KindsDiffer, Zenon
  <2> QED
    BY <2>1, <2>2, <2>3, AppendElements DEF SecretsAreLookedUp
<1>3. CASE ChooseIssuer
  <2>1. result' = <<>>
    BY <1>3 DEF ChooseIssuer, IInv, StartFresh
  <2> QED
    BY <2>1 DEF SecretsAreLookedUp
<1>4. CASE SkipNonWebhook \/ UNCHANGED vars
  BY <1>4 DEF SkipNonWebhook, vars, SecretsAreLookedUp
<1>5. CASE \/ ReturnUnchanged \/ NilPortPanic \/ SecretLookupError \/ ServiceError
           \/ PrependIssuer \/ CopyRemaining \/ Return
  BY <1>5 DEF ReturnUnchanged, NilPortPanic, SecretLookupError, ServiceError, PrependIssuer,
              CopyRemaining, Return, SecretsAreLookedUp
<1> QED
  BY <1>1, <1>2, <1>3, <1>4, <1>5 DEF Next

\* Of volumes that name their secrets, the chosen secret is one of theirs, and
\* of one with a keyword when there is any.
LEMMA ChosenSecret ==
  ASSUME NEW volumes \in Seq(SecretVolume), volumes # <<>>
  PROVE  \E i \in DOMAIN volumes :
           /\ selectWebhookSecret(volumes) = volumes[i].secret
           /\ \A j \in DOMAIN volumes :
                HasKeyword(volumes[j].secret) \/ HasKeyword(volumes[j].volume) =>
                  HasKeyword(volumes[i].secret) \/ HasKeyword(volumes[i].volume)
<1> DEFINE matching == {i \in DOMAIN volumes :
                          HasKeyword(volumes[i].secret) \/ HasKeyword(volumes[i].volume)}
<1>1. CASE matching = {}
  <2>1. selectWebhookSecret(volumes) = volumes[1].secret
    BY <1>1 DEF selectWebhookSecret
  <2>2. 1 \in DOMAIN volumes
    BY FirstElement
  <2> QED
    BY <1>1, <2>1, <2>2
<1>2. CASE matching # {}
  <2>1. matching \in SUBSET Nat
    OBVIOUS
  <2>2. Earliest(matching) \in matching
    BY <1>2, <2>1, EarliestIsFirst
  <2>3. selectWebhookSecret(volumes) = volumes[Earliest(matching)].secret
    BY <1>2 DEF selectWebhookSecret
  <2> QED
    BY <2>2, <2>3
<1> QED
  BY <1>1, <1>2

LEMMA SecretsAreMounted ==
  IInv /\ SecretsAreLookedUp => SecretIsMounted
<1> SUFFICES ASSUME IInv, SecretsAreLookedUp, pc = "webhooks",
                    NEW s \in processed,
                    NEW c \in KindNamed(result, CertificateGVK, CertName(s)),
                    NamedPositions(input, DeploymentGVK, DeploymentOf(s)) # {},
                    input[Earliest(NamedPositions(input, DeploymentGVK, DeploymentOf(s)))].spec.volumes
                      # <<>>,
                    \A i \in DOMAIN
                        input[Earliest(NamedPositions(input, DeploymentGVK, DeploymentOf(s)))].spec.volumes :
                      input[Earliest(NamedPositions(input, DeploymentGVK, DeploymentOf(s)))].spec.volumes[i].secret
                        # NoName
             PROVE  LET volumes ==
                          input[Earliest(NamedPositions(input, DeploymentGVK, DeploymentOf(s)))].spec.volumes
                        Holds(v) == v.secret = result[c].spec.secret
                        Keyed(v) == HasKeyword(v.secret) \/ HasKeyword(v.volume)
                    IN  /\ \E i \in DOMAIN volumes : Holds(volumes[i])
                        /\ (\E i \in DOMAIN volumes : Keyed(volumes[i])) =>
                             \E i \in DOMAIN volumes : Holds(volumes[i]) /\ Keyed(volumes[i])
  BY DEF SecretIsMounted
<1> DEFINE found == NamedPositions(input, DeploymentGVK, DeploymentOf(s))
           d == Earliest(found)
           volumes == input[d].spec.volumes
<1>1. /\ c \in DOMAIN result /\ IsKind(result[c], CertificateGVK)
      /\ result[c].name = CertName(s)
  BY DEF KindNamed
<1>2. result[c].spec.dns = s
  <2>1. result[c].spec.dns \in processed /\ result[c].name = CertName(result[c].spec.dns)
    BY <1>1, Zenon DEF IInv, ResultIsGathered, Generated
  <2>2. result[c].spec.dns \in Name /\ s \in Name
    BY <2>1 DEF IInv, TypeOK
  <2> QED
    BY <1>1, <2>1, <2>2, CertNameInjective, Zenon
<1>3. /\ result[c].spec.secret = SecretFor(input, s)
      /\ ~SecretLookupFails(input, DeploymentOf(s))
  BY <1>1, <1>2 DEF SecretsAreLookedUp
<1>4. input[d] \in Object /\ input[d].gvk = DeploymentGVK /\ input[d].valid
  <2>1. input[d] \in Object /\ Is(input[d], DeploymentGVK, DeploymentOf(s))
    BY EarliestNamed DEF IInv, TypeOK
  <2> QED
    BY <1>3, <2>1 DEF Is, SecretLookupFails
<1>5. volumes \in Seq(SecretVolume)
  <2>1. input[d].spec \in DeploymentSpec
    BY <1>4 DEF Object, Converts, IsKind
  <2> QED
    BY <2>1 DEF DeploymentSpec
<1>6. PICK i \in DOMAIN volumes :
        /\ selectWebhookSecret(volumes) = volumes[i].secret
        /\ \A j \in DOMAIN volumes :
             HasKeyword(volumes[j].secret) \/ HasKeyword(volumes[j].volume) =>
               HasKeyword(volumes[i].secret) \/ HasKeyword(volumes[i].volume)
  BY <1>5, ChosenSecret
<1>7. volumes[i].secret # NoName
  OBVIOUS
<1>8. SecretFor(input, s) = volumes[i].secret
  BY <1>6, <1>7 DEF SecretFor, extractWebhookSecretName
<1> QED
  BY <1>3, <1>6, <1>8

\* Whatever the bundle holds and however many webhooks share the service, the
\* certificate of a service is stored where the deployment behind the service
\* looks for it (selectWebhookSecret).
THEOREM CertificatesAreMounted == Spec => []SecretIsMounted
<1>1. Init => SecretsAreLookedUp
  BY DEF Init, SecretsAreLookedUp
<1> QED
  BY <1>1, AlwaysFollows, NextSecrets, SecretsAreMounted, PTL DEF Spec

-----------------------------------------------------------------------------
(* Demands.  The processed services are those of the webhooks passed so far;  *)
(* when the loop is over, each of them has its certificate.                   *)

ProcessedUpTo(n) == {ServiceOf(input[j]) : j \in {k \in 1 .. n : NeedsService(input[k])}}

Progress ==
  /\ pc = "start" => pos = 1
  /\ pc = "webhooks" => processed = ProcessedUpTo(pos - 1)
  /\ pc = "remaining" =>
       /\ processed = ProcessedUpTo(Len(input))
       /\ \A s \in processed : KindNamed(result, CertificateGVK, CertName(s)) # {}

LEMMA DemandTypes ==
  ASSUME TypeOK
  PROVE  /\ ServicesDemanded = ProcessedUpTo(Len(input))
         /\ ServicesDemanded \in SUBSET Name
<1>1. /\ DOMAIN input = 1 .. Len(input)
      /\ \A j \in DOMAIN input : input[j] \in Object
  BY DEF TypeOK
<1>2. ServicesDemanded = {ServiceOf(input[j]) : j \in {k \in DOMAIN input : NeedsService(input[k])}}
  <2> DEFINE needing == {k \in DOMAIN input : NeedsService(input[k])}
  <2>1. Demands = {<<j, ServiceOf(input[j])>> : j \in needing}
    BY Zenon DEF Demands
  <2>2. ASSUME NEW j \in needing PROVE <<j, ServiceOf(input[j])>>[2] = ServiceOf(input[j])
    OBVIOUS
  <2> HIDE DEF needing
  <2>3. ASSUME NEW s
        PROVE  s \in {d[2] : d \in Demands} <=> s \in {ServiceOf(input[j]) : j \in needing}
    <3>1. ASSUME NEW d \in Demands, s = d[2] PROVE s \in {ServiceOf(input[j]) : j \in needing}
      <4>1. PICK j \in needing : d = <<j, ServiceOf(input[j])>>
        BY <2>1, <3>1, Zenon
      <4> QED
        BY <2>2, <3>1, <4>1, Zenon
    <3>2. ASSUME NEW j \in needing, s = ServiceOf(input[j]) PROVE \E d \in Demands : s = d[2]
      <4>1. <<j, ServiceOf(input[j])>> \in Demands
        BY <2>1, Zenon
      <4> QED
        BY <2>2, <3>2, <4>1, Zenon
    <3> QED
      BY <3>1, <3>2, Zenon
  <2>4. {d[2] : d \in Demands} = {ServiceOf(input[j]) : j \in needing}
    BY <2>3, Zenon
  <2> QED
    BY <2>4, Zenon DEF ServicesDemanded, needing
<1>3. \A j \in DOMAIN input : NeedsService(input[j]) => ServiceOf(input[j]) \in Name
  BY <1>1, ServiceOfType DEF NeedsService
<1> QED
  BY <1>1, <1>2, <1>3 DEF ProcessedUpTo

\* One position more.
LEMMA PassedOne ==
  ASSUME TypeOK, Follows, pos \in DOMAIN objects
  PROVE  /\ ~NeedsService(Current) => ProcessedUpTo(pos) = ProcessedUpTo(pos - 1)
         /\ NeedsService(Current) =>
              ProcessedUpTo(pos) = ProcessedUpTo(pos - 1) \cup {ServiceOf(Current)}
<1>1. Like(Current, input[pos])
  BY SameDomain DEF Follows, Current
<1>2. /\ NeedsService(Current) <=> NeedsService(input[pos])
      /\ ServiceOf(Current) = ServiceOf(input[pos])
  BY <1>1, LikeLooks
<1>3. 1 .. pos = (1 .. pos - 1) \cup {pos}
  BY SameDomain
<1>4. {k \in 1 .. pos : NeedsService(input[k])} =
        {k \in 1 .. pos - 1 : NeedsService(input[k])}
          \cup (IF NeedsService(input[pos]) THEN {pos} ELSE {})
  BY <1>3
<1> QED
  BY <1>2, <1>4 DEF ProcessedUpTo

LEMMA GatheredOnce ==
  ASSUME TypeOK, IInv, pc = "webhooks", NEW s \in processed
  PROVE  KindNamed(result, CertificateGVK, CertName(s)) # {}
<1>1. OnlyOne(KindNamed(result, CertificateGVK, CertName(s)))
  BY DEF IInv, OncePerService
<1> QED
  BY <1>1 DEF OnlyOne

LEMMA PrependIssuerProgress ==
  ASSUME IInv, Follows, Progress, PrependIssuer
  PROVE  Progress'
<1> DEFINE first == createSelfSignedIssuer(issuer.name)
<1>1. /\ pc = "webhooks" /\ pc' = "remaining" /\ processed' = processed /\ input' = input
      /\ pos = Len(objects) + 1
      /\ result' = IF SelfSigned(cfg) THEN <<first>> \o result ELSE result
  BY DEF PrependIssuer
<1>2. processed = ProcessedUpTo(Len(input))
  BY <1>1, SameDomain DEF Progress, IInv
<1>3. result \in Seq(Object) /\ first \in Object /\ first.gvk = IssuerGVK
  BY createSelfSignedIssuerType DEF IInv, TypeOK, IssuerRef
<1>4. ~IsKind(first, CertificateGVK)
  <2>1. IsKind(first, IssuerGVK)
    BY <1>3, Zenon DEF IsKind
  <2> QED
    BY <2>1, KindsDiffer, Zenon
<1> HIDE DEF first
<1>5. ASSUME NEW s \in processed
      PROVE  KindNamed(result', CertificateGVK, CertName(s)) # {}
  <2>1. KindNamed(result, CertificateGVK, CertName(s)) # {}
    BY <1>1, GatheredOnce DEF IInv
  <2>2. KindNamed(<<first>> \o result, CertificateGVK, CertName(s)) =
          {i + 1 : i \in KindNamed(result, CertificateGVK, CertName(s))}
    BY <1>3, <1>4, KindNamedPrepend
  <2> QED
    BY <1>1, <2>1, <2>2
<1>6. processed' = ProcessedUpTo(Len(input))'
  BY <1>1, <1>2 DEF ProcessedUpTo
<1> QED
  BY <1>1, <1>5, <1>6 DEF Progress

LEMMA NextProgress == IInv /\ Follows /\ Progress /\ [Next]_vars => Progress'
<1> SUFFICES ASSUME IInv, Follows, Progress, [Next]_vars PROVE Progress'
  OBVIOUS
<1>0. TypeOK /\ result \in Seq(Object)
  BY DEF IInv, TypeOK
<1>1. CASE ChooseIssuer
  <2>1. pc = "start" /\ pc' = "webhooks" /\ processed' = {} /\ pos' = 1
    BY <1>1 DEF ChooseIssuer, IInv, StartFresh, Progress
  <2>2. ProcessedUpTo(pos - 1)' = {}
    BY <2>1 DEF ProcessedUpTo
  <2> QED
    BY <2>1, <2>2 DEF Progress
<1>2. CASE SkipNonWebhook \/ KeepServiceless
  <2>1. /\ pc = "webhooks" /\ pc' = pc /\ processed' = processed /\ input' = input
        /\ pos' = pos + 1 /\ pos \in DOMAIN objects /\ ~NeedsService(Current)
    BY <1>2 DEF SkipNonWebhook, KeepServiceless, AtWebhook, NeedsService
  <2>2. ProcessedUpTo(pos) = ProcessedUpTo(pos - 1)
    BY <1>0, <2>1, PassedOne
  <2>3. pos' - 1 = pos
    BY <1>0, <2>1 DEF TypeOK
  <2>4. ProcessedUpTo(pos - 1)' = ProcessedUpTo(pos)
    BY <2>1, <2>3 DEF ProcessedUpTo
  <2> QED
    BY <2>1, <2>2, <2>4 DEF Progress
<1>3. CASE ConfigureWebhook
  <2>1. /\ pc = "webhooks" /\ pc' = pc /\ processed' = processed \cup {ServiceOf(Current)}
        /\ input' = input /\ pos' = pos + 1 /\ pos \in DOMAIN objects /\ NeedsService(Current)
    BY <1>3 DEF ConfigureWebhook, AtServed, AtWebhook, NeedsService
  <2>2. ProcessedUpTo(pos) = ProcessedUpTo(pos - 1) \cup {ServiceOf(Current)}
    BY <1>0, <2>1, PassedOne
  <2>3. pos' - 1 = pos
    BY <1>0, <2>1 DEF TypeOK
  <2>4. ProcessedUpTo(pos - 1)' = ProcessedUpTo(pos)
    BY <2>1, <2>3 DEF ProcessedUpTo
  <2> QED
    BY <2>1, <2>2, <2>4 DEF Progress
<1>4. CASE PrependIssuer
  BY <1>4, PrependIssuerProgress
<1>5. CASE CopyRemaining
  <2>1. /\ pc = "remaining" /\ pc' = pc /\ processed' = processed /\ input' = input
        /\ pos \in DOMAIN objects
        /\ result' \in {result, Append(result, Current)}
    BY <1>5 DEF CopyRemaining
  <2>2. Current \in Object
    BY <1>0, <2>1 DEF TypeOK, Current
  <2>3. ASSUME NEW s \in processed
        PROVE  KindNamed(result', CertificateGVK, CertName(s)) # {}
    <3>1. KindNamed(result, CertificateGVK, CertName(s)) # {}
      BY <2>1 DEF Progress
    <3>2. KindNamed(result, CertificateGVK, CertName(s))
            \subseteq KindNamed(Append(result, Current), CertificateGVK, CertName(s))
      BY <1>0, <2>2, KindNamedAppend
    <3> QED
      BY <2>1, <3>1, <3>2
  <2>4. ProcessedUpTo(Len(input))' = ProcessedUpTo(Len(input))
    BY <2>1 DEF ProcessedUpTo
  <2> QED
    BY <2>1, <2>3, <2>4 DEF Progress
<1>6. CASE UNCHANGED vars
  <2>1. \A n : ProcessedUpTo(n)' = ProcessedUpTo(n)
    BY <1>6 DEF vars, ProcessedUpTo
  <2> QED
    BY <1>6, <2>1 DEF vars, Progress, ProcessedUpTo
<1>7. CASE ReturnUnchanged \/ NilPortPanic \/ SecretLookupError \/ ServiceError \/ Return
  BY <1>7 DEF ReturnUnchanged, NilPortPanic, SecretLookupError, ServiceError, Return, Progress
<1> QED
  BY <1>1, <1>2, <1>3, <1>4, <1>5, <1>6, <1>7 DEF Next

LEMMA AlwaysProgress == Spec => [](IInv /\ Follows /\ Progress)
<1>1. Init => Progress
  BY DEF Init, Progress
<1> QED
  BY <1>1, AlwaysFollows, NextProgress, PTL DEF Spec

-----------------------------------------------------------------------------
(* The promise.  While webhooks are processed, what is certified and what is  *)
(* served are the processed services; afterwards everything demanded is.      *)

Demanded(services, res, processedOnes) ==
  /\ {s \in services : KindNamed(res, CertificateGVK, CertName(s)) # {}}
       = services \cap processedOnes
  /\ {s \in services : KindNamed(res, ServiceGVK, s) # {} /\ s \in processedOnes}
       = services \cap processedOnes

LEMMA GatheredDemanded ==
  ASSUME NEW res \in Seq(Object), NEW services \in SUBSET Name, NEW iss,
         Gathering(res, services, iss), NEW demanded \in SUBSET Name
  PROVE  Demanded(demanded, res, services)
<1>1. ASSUME NEW s \in demanded
      PROVE  /\ KindNamed(res, CertificateGVK, CertName(s)) # {} <=> s \in services
             /\ s \in services => KindNamed(res, ServiceGVK, s) # {}
  <2>1. ASSUME s \in services
        PROVE  /\ KindNamed(res, CertificateGVK, CertName(s)) # {}
               /\ KindNamed(res, ServiceGVK, s) # {}
    <3>1. /\ OnlyOne(KindNamed(res, ServiceGVK, s))
          /\ OnlyOne(KindNamed(res, CertificateGVK, CertName(s)))
      BY <2>1, Zenon DEF Gathering
    <3> QED
      BY <3>1 DEF OnlyOne
  <2>2. ASSUME NEW c \in KindNamed(res, CertificateGVK, CertName(s)) PROVE s \in services
    <3>1. c \in DOMAIN res /\ IsKind(res[c], CertificateGVK) /\ res[c].name = CertName(s)
      BY DEF KindNamed
    <3>2. res[c].spec.dns \in services /\ res[c].name = CertName(res[c].spec.dns)
      BY <3>1, Zenon DEF Gathering, Generated
    <3>3. res[c].spec.dns = s
      BY <3>1, <3>2, CertNameInjective, Zenon
    <3> QED
      BY <3>2, <3>3
  <2> QED
    BY <2>1, <2>2
<1> QED
  BY <1>1 DEF Demanded

\* Both sets of the promise in one value, so that a step maps one state at a time.
Covered == <<Certified, Served>>

LEMMA WebhooksCovered ==
  ASSUME IInv, pc = "webhooks"
  PROVE  Covered = <<ServicesDemanded \cap processed, ServicesDemanded \cap processed>>
<1>1. Gathering(result, processed, issuer)
  BY IInvGathering
<1>2. Demanded(ServicesDemanded, result, processed)
  BY <1>1, GatheredDemanded, DemandTypes DEF IInv, TypeOK
<1> QED
  BY <1>2 DEF Demanded, Covered, Certified, Served

LEMMA WebhooksCoveredPrimed ==
  ASSUME IInv', pc' = "webhooks", input' = input, TypeOK
  PROVE  Covered' = <<ServicesDemanded \cap processed', ServicesDemanded \cap processed'>>
<1>1. Gathering(result', processed', issuer')
  BY Zenon DEF IInv, StartFresh, ResultIsGathered, CertificateChain, OncePerService, Gathering
<1>2. result' \in Seq(Object) /\ processed' \in SUBSET Name
  BY DEF IInv, TypeOK
<1>3. Demanded(ServicesDemanded, result', processed')
  BY <1>1, <1>2, GatheredDemanded, DemandTypes
<1>4. ServicesDemanded' = ServicesDemanded
  BY DEF ServicesDemanded, Demands
<1> QED
  BY <1>3, <1>4 DEF Demanded, Covered, Certified, Served

LEMMA RemainingCovered ==
  ASSUME IInv, Progress, pc = "remaining"
  PROVE  Covered = <<ServicesDemanded, ServicesDemanded>> /\ processed = ServicesDemanded
<1>1. processed = ServicesDemanded
  BY DemandTypes DEF Progress, IInv
<1>2. ASSUME NEW s \in processed
      PROVE  /\ KindNamed(result, CertificateGVK, CertName(s)) # {}
             /\ KindNamed(result, ServiceGVK, s) # {}
  <2>1. OnlyOne(KindNamed(result, ServiceGVK, s))
    BY DEF IInv, OncePerService
  <2> QED
    BY <2>1 DEF Progress, OnlyOne
<1> QED
  BY <1>1, <1>2 DEF Covered, Certified, Served

LEMMA RemainingCoveredPrimed ==
  ASSUME IInv', Progress', pc' = "remaining", input' = input, TypeOK
  PROVE  Covered' = <<ServicesDemanded, ServicesDemanded>>
<1>1. ServicesDemanded' = ServicesDemanded /\ ProcessedUpTo(Len(input))' = ProcessedUpTo(Len(input))
  BY DEF ServicesDemanded, Demands, ProcessedUpTo
<1>2. processed' = ServicesDemanded
  BY <1>1, DemandTypes DEF Progress
<1>3. ASSUME NEW s \in processed'
      PROVE  /\ KindNamed(result', CertificateGVK, CertName(s)) # {}
             /\ KindNamed(result', ServiceGVK, s) # {}
  <2>1. OnlyOne(KindNamed(result', ServiceGVK, s))
    BY DEF IInv, OncePerService
  <2> QED
    BY <2>1 DEF Progress, OnlyOne
<1> QED
  BY <1>1, <1>2, <1>3 DEF Covered, Certified, Served

\* What a step looks like to whoever reads the promise.
PromisedStep ==
  \/ UNCHANGED <<Demands, Met, Covered, Outcome>>
  \/ /\ Outcome = "working"
     /\ \E d \in Demands \ Met :
          /\ Met' = Met \cup {d}
          /\ Covered' = <<Certified \cup {d[2]}, Served \cup {d[2]}>>
     /\ UNCHANGED <<Demands, Outcome>>
  \/ /\ Outcome = "working" /\ Met = Demands /\ Outcome' = "delivered"
     /\ UNCHANGED <<Demands, Met, Covered>>
  \/ /\ Outcome = "working" /\ Outcome' = "aborted" /\ Covered' = <<{}, {}>>
     /\ UNCHANGED <<Demands, Met>>

LEMMA PromisedStepKeepsPromise ==
  ASSUME PromisedStep
  PROVE  [Promise!Next]_(Promise!vars)
BY DEF PromisedStep, Covered, Promise!Next, Promise!vars, Promise!Meet, Promise!Deliver,
       Promise!Abort

LEMMA DemandFields ==
  ASSUME TypeOK, NEW d \in Demands
  PROVE  /\ d[1] \in 1 .. Len(input) /\ NeedsService(input[d[1]])
         /\ d[2] = ServiceOf(input[d[1]]) /\ d = <<d[1], d[2]>>
<1>1. PICK i \in {j \in DOMAIN input : NeedsService(input[j])} : d = <<i, ServiceOf(input[i])>>
  BY Zenon DEF Demands
<1>2. d[1] = i /\ d[2] = ServiceOf(input[i])
  BY <1>1
<1> QED
  BY <1>1, <1>2, SameDomain

\* The loop passes a webhook without service, or another object.
LEMMA PassingPromised ==
  ASSUME IInv, Follows, IInv', SkipNonWebhook \/ KeepServiceless
  PROVE  PromisedStep
<1>1. /\ pc = "webhooks" /\ pc' = pc /\ processed' = processed /\ input' = input
      /\ pos' = pos + 1 /\ pos \in DOMAIN objects /\ ~NeedsService(Current)
  BY DEF SkipNonWebhook, KeepServiceless, AtWebhook, NeedsService
<1>2. TypeOK /\ pos \in Nat
  BY DEF IInv, TypeOK
<1>3. Like(Current, input[pos])
  BY <1>1, <1>2, SameDomain DEF Follows, Current
<1>4. ~NeedsService(input[pos])
  BY <1>1, <1>3, LikeLooks
<1>5. Demands' = Demands
  BY <1>1 DEF Demands
<1>6. Met' = Met
  <2>1. \A d \in Demands : d[1] < pos + 1 <=> d[1] < pos
    BY <1>2, <1>4, DemandFields
  <2> QED
    BY <1>1, <1>5, <2>1 DEF Met
<1>7. Covered' = Covered
  BY <1>1, <1>2, WebhooksCovered, WebhooksCoveredPrimed
<1>8. Outcome' = Outcome
  BY <1>1 DEF Outcome
<1> QED
  BY <1>5, <1>6, <1>7, <1>8 DEF PromisedStep

\* An iteration meets the demand of its webhook.
LEMMA ConfigureWebhookPromised ==
  ASSUME IInv, Follows, IInv', ConfigureWebhook
  PROVE  PromisedStep
<1> DEFINE service == ServiceOf(Current)
           d == <<pos, service>>
<1>1. /\ pc = "webhooks" /\ pc' = pc /\ processed' = processed \cup {service}
      /\ input' = input /\ pos' = pos + 1 /\ pos \in DOMAIN objects /\ NeedsService(Current)
  BY DEF ConfigureWebhook, AtServed, AtWebhook, NeedsService
<1>2. TypeOK /\ pos \in Nat
  BY DEF IInv, TypeOK
<1>3. Like(Current, input[pos])
  BY <1>1, <1>2, SameDomain DEF Follows, Current
<1>4. NeedsService(input[pos]) /\ ServiceOf(input[pos]) = service
  BY <1>1, <1>3, LikeLooks
<1>5. d \in Demands
  BY <1>1, <1>2, <1>4, SameDomain DEF Demands
<1>6. Demands' = Demands
  BY <1>1 DEF Demands
<1>7. Met = {e \in Demands : e[1] < pos} /\ Met' = {e \in Demands : e[1] < pos + 1}
  BY <1>1, <1>6 DEF Met
<1>8. \A e \in Demands : e[1] = pos => e = d
  BY <1>2, <1>4, DemandFields
<1>9. \A e \in Demands : e[1] \in Nat
  BY <1>2, DemandFields, SameDomain
<1>10. d[1] = pos /\ d[2] = service
  OBVIOUS
<1> HIDE DEF d
<1>11. d \in Demands \ Met /\ Met' = Met \cup {d}
  BY <1>2, <1>5, <1>7, <1>8, <1>9, <1>10
<1>12. service \in ServicesDemanded
  BY <1>5, <1>10, Zenon DEF ServicesDemanded
<1>13. Covered' = <<Certified \cup {d[2]}, Served \cup {d[2]}>>
  <2>1. Covered = <<ServicesDemanded \cap processed, ServicesDemanded \cap processed>>
    BY <1>1, WebhooksCovered
  <2>2. Certified = ServicesDemanded \cap processed /\ Served = ServicesDemanded \cap processed
    BY <2>1 DEF Covered
  <2>3. Covered' = <<ServicesDemanded \cap processed', ServicesDemanded \cap processed'>>
    BY <1>1, <1>2, WebhooksCoveredPrimed
  <2>4. ServicesDemanded \cap processed' = (ServicesDemanded \cap processed) \cup {service}
    BY <1>1, <1>12
  <2> QED
    BY <1>10, <2>2, <2>3, <2>4
<1>14. Outcome = "working" /\ Outcome' = Outcome
  BY <1>1 DEF Outcome
<1> QED
  BY <1>6, <1>11, <1>13, <1>14 DEF PromisedStep

\* A call that ends early, with an error or a panic, delivers nothing.
LEMMA AbortPromised ==
  ASSUME IInv, NilPortPanic \/ SecretLookupError \/ ServiceError
  PROVE  PromisedStep
<1>1. /\ pc = "webhooks" /\ input' = input /\ pos' = pos
      /\ \/ pc' = "panicked"
         \/ pc' = "failed" /\ result' = <<>>
  BY DEF NilPortPanic, SecretLookupError, ServiceError, AtServed, AtWebhook
<1>2. Demands' = Demands
  BY <1>1 DEF Demands
<1>3. Met' = Met
  BY <1>1, <1>2 DEF Met
<1>4. Covered' = <<{}, {}>>
  <2>1. CASE pc' = "panicked"
    BY <2>1 DEF Covered, Certified, Served
  <2>2. CASE result' = <<>>
    <3>1. \A gvk, name : KindNamed(<<>>, gvk, name) = {}
      BY DEF KindNamed
    <3> QED
      BY <2>2, <3>1 DEF Covered, Certified, Served
  <2> QED
    BY <1>1, <2>1, <2>2
<1>5. Outcome = "working" /\ Outcome' = "aborted"
  BY <1>1 DEF Outcome
<1> QED
  BY <1>2, <1>3, <1>4, <1>5 DEF PromisedStep

\* The steps around the loops.
LEMMA ChooseIssuerPromised ==
  ASSUME IInv, Progress, ChooseIssuer
  PROVE  PromisedStep
<1>1. /\ pc = "start" /\ pc' = "webhooks" /\ input' = input /\ pos' = pos
      /\ result' = result /\ processed' = processed
  BY DEF ChooseIssuer
<1>2. Demands' = Demands /\ ServicesDemanded' = ServicesDemanded
  BY <1>1 DEF Demands, ServicesDemanded
<1> QED
  BY <1>1, <1>2 DEF PromisedStep, Met, Covered, Certified, Served, Outcome

LEMMA ReturnUnchangedPromised ==
  ASSUME IInv, ReturnUnchanged
  PROVE  PromisedStep
<1>1. /\ pc = "start" /\ pc' = "done" /\ input' = input /\ pos' = pos
      /\ ~HasWebhooks(input)
  BY DEF ReturnUnchanged, IInv, StartFresh
<1>2. Demands = {} /\ ServicesDemanded = {}
  <2>1. \A i \in DOMAIN input : ~NeedsService(input[i])
    BY <1>1 DEF HasWebhooks, NeedsService
  <2> QED
    BY <2>1 DEF Demands, ServicesDemanded
<1>3. Demands' = {} /\ ServicesDemanded' = {}
  BY <1>1, <1>2 DEF Demands, ServicesDemanded
<1>4. Met = {} /\ Met' = {} /\ Covered = <<{}, {}>> /\ Covered' = <<{}, {}>>
  BY <1>2, <1>3 DEF Met, Covered, Certified, Served
<1>5. Outcome = "working" /\ Outcome' = "delivered"
  BY <1>1 DEF Outcome
<1> QED
  BY <1>2, <1>3, <1>4, <1>5 DEF PromisedStep

LEMMA PrependIssuerPromised ==
  ASSUME IInv, Progress, IInv', Progress', PrependIssuer
  PROVE  PromisedStep
<1>1. /\ pc = "webhooks" /\ pc' = "remaining" /\ input' = input
      /\ pos = Len(objects) + 1 /\ processed' = processed
  BY DEF PrependIssuer
<1>2. TypeOK
  BY DEF IInv
<1>3. Demands' = Demands
  BY <1>1 DEF Demands
<1>4. Met = Demands /\ Met' = Demands
  <2>1. \A d \in Demands : d[1] < pos
    BY <1>1, <1>2, DemandFields, SameDomain
  <2> QED
    BY <1>1, <1>3, <2>1 DEF Met
<1>5. Covered' = Covered
  <2>1. processed = ServicesDemanded
    <3>1. pos - 1 = Len(input)
      BY <1>1, <1>2, SameDomain
    <3>2. processed = ProcessedUpTo(pos - 1)
      BY <1>1, Zenon DEF Progress
    <3> QED
      BY <1>2, <3>1, <3>2, DemandTypes
  <2>2. Covered = <<ServicesDemanded, ServicesDemanded>>
    BY <1>1, <2>1, WebhooksCovered
  <2> QED
    BY <1>1, <1>2, <2>2, RemainingCoveredPrimed
<1>6. Outcome' = Outcome
  BY <1>1 DEF Outcome
<1> QED
  BY <1>3, <1>4, <1>5, <1>6 DEF PromisedStep

LEMMA CopyRemainingPromised ==
  ASSUME IInv, Progress, IInv', Progress', CopyRemaining
  PROVE  PromisedStep
<1>1. pc = "remaining" /\ pc' = "remaining" /\ input' = input
  BY DEF CopyRemaining
<1>2. TypeOK
  BY DEF IInv
<1>3. Demands' = Demands
  BY <1>1 DEF Demands
<1>4. Met' = Met
  BY <1>1, <1>3 DEF Met
<1>5. Covered' = Covered
  BY <1>1, <1>2, RemainingCovered, RemainingCoveredPrimed
<1>6. Outcome' = Outcome
  BY <1>1 DEF Outcome
<1> QED
  BY <1>3, <1>4, <1>5, <1>6 DEF PromisedStep

LEMMA ReturnPromised ==
  ASSUME Return
  PROVE  PromisedStep
<1>1. /\ pc = "remaining" /\ pc' = "done" /\ input' = input
      /\ result' = result /\ processed' = processed
  BY DEF Return
<1>2. Demands' = Demands /\ ServicesDemanded' = ServicesDemanded
  BY <1>1 DEF Demands, ServicesDemanded
<1>3. Met = Demands /\ Met' = Demands
  BY <1>1, <1>2 DEF Met
<1>4. Covered' = Covered
  BY <1>1, <1>2 DEF Covered, Certified, Served
<1>5. Outcome = "working" /\ Outcome' = "delivered"
  BY <1>1 DEF Outcome
<1> QED
  BY <1>2, <1>3, <1>4, <1>5 DEF PromisedStep

LEMMA NextPromised ==
  IInv /\ Follows /\ Progress /\ [Next]_vars => [Promise!Next]_(Promise!vars)
<1> SUFFICES ASSUME IInv, Follows, Progress, [Next]_vars PROVE PromisedStep
  BY PromisedStepKeepsPromise
<1>0. IInv' /\ Progress'
  BY NextIInv, NextProgress
<1>1. CASE UNCHANGED vars
  BY <1>1 DEF vars, PromisedStep, Demands, ServicesDemanded, Met, Covered, Certified, Served,
              Outcome
<1>2. CASE SkipNonWebhook \/ KeepServiceless
  BY <1>0, <1>2, PassingPromised
<1>3. CASE ConfigureWebhook
  BY <1>0, <1>3, ConfigureWebhookPromised
<1>4. CASE NilPortPanic \/ SecretLookupError \/ ServiceError
  BY <1>4, AbortPromised
<1>5. CASE ChooseIssuer
  BY <1>5, ChooseIssuerPromised
<1>6. CASE ReturnUnchanged
  BY <1>6, ReturnUnchangedPromised
<1>7. CASE PrependIssuer
  BY <1>0, <1>7, PrependIssuerPromised
<1>8. CASE CopyRemaining
  BY <1>0, <1>8, CopyRemainingPromised
<1>9. CASE Return
  BY <1>9, ReturnPromised
<1> QED
  BY <1>1, <1>2, <1>3, <1>4, <1>5, <1>6, <1>7, <1>8, <1>9 DEF Next

LEMMA InitPromised == Init => Promise!Init
<1> SUFFICES ASSUME Init PROVE Promise!Init
  OBVIOUS
<1>1. pc = "start" /\ pos = 1 /\ result = <<>> /\ processed = {} /\ TypeOK
  BY InitTypeOK DEF Init
<1>2. Met = {}
  BY <1>1, DemandFields DEF Met
<1>3. Certified = {} /\ Served = {}
  <2>1. \A gvk, name : KindNamed(<<>>, gvk, name) = {}
    BY DEF KindNamed
  <2> QED
    BY <1>1, <2>1 DEF Certified, Served
<1> QED
  BY <1>1, <1>2, <1>3 DEF Promise!Init, Outcome

\* Configure implements CertPromise, for every bundle and issuer: each iteration
\* meets the demand of one webhook with certificate and service at once, nothing
\* is delivered before all are met, and a call that fails or panics half-way
\* delivers none of what it gathered (Configure, processWebhooks).
THEOREM PromiseIsKept == Spec => KeepsPromise
<1>1. Spec => Promise!Init /\ [][Promise!Next]_(Promise!vars)
  BY InitPromised, NextPromised, AlwaysProgress, PTL DEF Spec
<1> QED
  BY <1>1 DEF KeepsPromise, Promise!Spec

-----------------------------------------------------------------------------
(* Ports.                                                                     *)

LEMMA UpdatedPort ==
  ASSUME NEW svc \in Object, svc.spec \in ServiceSpec, NEW port \in Port
  PROVE  UpdateServicePort(svc, port).spec.ports[1].port = port
<1> DEFINE ports == IF svc.spec.ports = <<>>
                      THEN <<[port |-> port, target |-> port]>>
                      ELSE [svc.spec.ports EXCEPT ![1].port = port]
<1>1. svc.spec.ports \in Seq(ServicePort)
  BY DEF ServiceSpec
<1>2. UpdateServicePort(svc, port).spec.ports = ports
  BY DEF UpdateServicePort, Object, ServiceSpec
<1>3. CASE svc.spec.ports = <<>>
  BY <1>2, <1>3
<1>4. CASE svc.spec.ports # <<>>
  <2>1. 1 \in DOMAIN svc.spec.ports /\ svc.spec.ports[1] \in ServicePort
    BY <1>1, <1>4, FirstElement
  <2>2. ports[1] = [svc.spec.ports[1] EXCEPT !.port = port]
    BY <1>1, <1>4, <2>1
  <2>3. [svc.spec.ports[1] EXCEPT !.port = port].port = port
    BY <2>1 DEF ServicePort
  <2> HIDE DEF ports
  <2> QED
    BY <1>2, <2>2, <2>3
<1> QED
  BY <1>3, <1>4

\* The Service of EnsureService, found or made, serves the asked port first.
LEMMA EnsuredPort ==
  ASSUME NEW objs \in Seq(Object), NEW service \in Name, NEW port \in Port, NEW suffix,
         ~EnsureServiceFails(objs, service)
  PROVE  EnsureService(objs, service, port, suffix).spec.ports[1].port = port
<1> DEFINE existing == NamedPositions(objs, ServiceGVK, service)
           svc == objs[Earliest(existing)]
           made(target, selector) == CreateService(service, port, target, selector)
<1>1. CASE existing = {}
  <2>1. \A target, selector : made(target, selector).spec.ports[1].port = port
    BY DEF CreateService, NewObject
  <2> HIDE DEF made
  <2>2. \E target, selector :
          EnsureService(objs, service, port, suffix) = made(target, selector)
    BY <1>1 DEF EnsureService, made
  <2> QED
    BY <2>1, <2>2
<1>2. CASE existing # {}
  <2>1. svc \in Object /\ svc.gvk = ServiceGVK
    BY <1>2, EarliestNamed DEF Is
  <2>2. svc.valid
    BY <1>2 DEF EnsureServiceFails
  <2>3. svc.spec \in ServiceSpec
    BY <2>1, <2>2 DEF Object, Converts, IsKind
  <2>4. EnsureService(objs, service, port, suffix) = UpdateServicePort(svc, port)
    BY <1>2 DEF EnsureService
  <2> QED
    BY <2>1, <2>3, <2>4, UpdatedPort
<1> QED
  BY <1>1, <1>2

Users(s) == {j \in DOMAIN input : NeedsService(input[j]) /\ ServiceOf(input[j]) = s}

PortWanted(s) == PortOf(input[Earliest(Users(s))])

\* The property, object by object.
PortRight(obj, services) ==
  IsKind(obj, ServiceGVK) /\ obj.name \in services =>
    obj.spec.ports[1].port = PortWanted(obj.name)

PortsRight == \A i \in DOMAIN result : PortRight(result[i], processed)

LEMMA PortsRightMeans == PortsRight => FirstWebhookSetsPort
BY DEF PortsRight, PortRight, FirstWebhookSetsPort, KindNamed, PortWanted, Users

\* The current webhook is the first that uses a service not processed so far.
LEMMA FirstUser ==
  ASSUME IInv, Follows, Progress, pc = "webhooks", pos \in DOMAIN objects,
         NeedsService(Current), ServiceOf(Current) \notin processed
  PROVE  PortWanted(ServiceOf(Current)) = PortOf(Current)
<1> DEFINE s == ServiceOf(Current)
<1>1. TypeOK
  BY DEF IInv
<1>2. Like(Current, input[pos])
  BY <1>1, SameDomain DEF Follows, Current
<1>3. /\ NeedsService(input[pos]) /\ ServiceOf(input[pos]) = s
      /\ PortOf(input[pos]) = PortOf(Current)
  BY <1>2, LikeLooks
<1>4. pos \in Users(s) /\ Users(s) \in SUBSET Nat
  BY <1>1, <1>3, SameDomain DEF Users
<1>5. \A j \in Users(s) : ~(j < pos)
  <2>1. SUFFICES ASSUME NEW j \in Users(s), j < pos PROVE s \in ProcessedUpTo(pos - 1)
    BY DEF Progress
  <2>2. j \in 1 .. pos - 1 /\ NeedsService(input[j]) /\ ServiceOf(input[j]) = s
    BY <1>1, <2>1, SameDomain DEF Users
  <2> QED
    BY <2>2 DEF ProcessedUpTo
<1>6. Earliest(Users(s)) \in Users(s) /\ Earliest(Users(s)) =< pos
  BY <1>4, EarliestIsFirst
<1>7. Earliest(Users(s)) = pos
  BY <1>4, <1>5, <1>6, SameDomain, <1>1
<1> QED
  BY <1>3, <1>7 DEF PortWanted

LEMMA ConfigureWebhookPorts ==
  ASSUME IInv, Follows, Progress, PortsRight, ConfigureWebhook
  PROVE  PortsRight'
<1> DEFINE service == ServiceOf(Current)
           svc == EnsureService(objects, service, PortOf(Current), <<"webhook", "service">>)
           Right(obj) == PortRight(obj, processed \cup {service})
<1>1. /\ TypeOK /\ AtServed /\ ~SecretLookupFails(objects, DeploymentOf(service))
      /\ pc = "webhooks" /\ input' = input /\ processed' = processed \cup {service}
      /\ pos \in DOMAIN objects /\ NeedsService(Current)
  BY DEF IInv, ConfigureWebhook, AtServed, AtWebhook, NeedsService
<1>2. /\ result \in Seq(Object) /\ Annotated \in Object /\ NewCertificate \in Object
      /\ IsWebhookConfiguration(Annotated) /\ objects \in Seq(Object)
      /\ service \in Name /\ PortOf(Current) \in Port
  BY <1>1, ServedTypes, WithWebhookTypes DEF TypeOK
<1>3. \A s : PortWanted(s)' = PortWanted(s)
  BY <1>1 DEF PortWanted, Users
<1>4. ASSUME NEW i \in DOMAIN result PROVE Right(result[i])
  <2>1. PortRight(result[i], processed)
    BY DEF PortsRight
  <2>2. IsKind(result[i], ServiceGVK) => result[i].name \in processed
    BY <1>1 DEF IInv, ResultIsGathered, Ensured
  <2> QED
    BY <2>1, <2>2 DEF PortRight
<1>5. Right(Annotated)
  <2>1. ~IsKind(Annotated, ServiceGVK)
    BY <1>2, KindsDiffer, Zenon
  <2> QED
    BY <2>1 DEF PortRight
<1>6. \A i \in DOMAIN result' : Right(result'[i])
  <2>1. CASE service \in processed
    <3>1. result' = Append(result, Annotated)
      BY <2>1, SharedService
    <3> HIDE DEF Right
    <3> QED
      BY <1>2, <1>4, <1>5, <3>1, AppendElements
  <2>2. CASE service \notin processed
    <3> DEFINE r1 == Append(result, NewCertificate)
               r2 == Append(r1, Annotated)
    <3>1. KindNamed(result, CertificateGVK, CertName(service)) = {}
      BY <1>1, <1>2, <2>2, CertifiedIffProcessed
    <3>2. WithWebhook = r2
      BY <3>1 DEF WithWebhook, WithCertificate, hasCertificate, NewCertificate
    <3>3. result' = Append(r2, svc) /\ ~EnsureServiceFails(objects, service)
      BY <2>2, <3>2 DEF ConfigureWebhook
    <3>4. /\ svc \in Object /\ svc.name = service
          /\ svc.spec.ports[1].port = PortOf(Current)
      BY <1>2, <3>3, EnsureServiceType, EnsuredPort
    <3>5. PortWanted(service) = PortOf(Current)
      BY <1>1, <2>2, FirstUser
    <3> HIDE DEF svc
    <3>6. Right(svc)
      BY <3>4, <3>5 DEF PortRight
    <3>7. Right(NewCertificate)
      <4>1. NewCertificate.gvk = CertificateGVK
        BY DEF NewCertificate, createCertificate, NewObject
      <4>2. IsKind(NewCertificate, CertificateGVK)
        BY <4>1, Zenon DEF IsKind
      <4>3. ~IsKind(NewCertificate, ServiceGVK)
        BY <4>2, KindsDiffer, Zenon
      <4> QED
        BY <4>3 DEF PortRight
    <3> HIDE DEF Right
    <3>8. r1 \in Seq(Object) /\ \A i \in DOMAIN r1 : Right(r1[i])
      BY <1>2, <1>4, <3>7, AppendElements, AppendProperties
    <3> HIDE DEF r1
    <3>9. r2 \in Seq(Object) /\ \A i \in DOMAIN r2 : Right(r2[i])
      BY <1>2, <1>5, <3>8, AppendElements, AppendProperties
    <3> HIDE DEF r2
    <3> QED
      BY <3>3, <3>4, <3>6, <3>9, AppendElements
  <2> QED
    BY <2>1, <2>2
<1>7. \A i \in DOMAIN result' : PortRight(result[i], processed)'
  BY <1>1, <1>3, <1>6 DEF PortRight
<1> QED
  BY <1>7 DEF PortsRight

\* An object that is no Service of a processed name asks for nothing.
LEMMA PortsRightAppend ==
  ASSUME PortsRight, result \in Seq(Object), NEW o \in Object, result' = Append(result, o),
         processed' = processed, input' = input,
         ~(IsKind(o, ServiceGVK) /\ o.name \in processed)
  PROVE  PortsRight'
<1>1. \A s : PortWanted(s)' = PortWanted(s)
  BY DEF PortWanted, Users
<1>2. \A i \in DOMAIN result' : PortRight(result'[i], processed)
  <2>1. PortRight(o, processed)
    BY DEF PortRight
  <2>2. \A i \in DOMAIN result : PortRight(result[i], processed)
    BY DEF PortsRight
  <2> QED
    BY <2>1, <2>2, AppendElements
<1> QED
  BY <1>1, <1>2 DEF PortsRight, PortRight

LEMMA NextPorts == IInv /\ Follows /\ Progress /\ PortsRight /\ [Next]_vars => PortsRight'
<1> SUFFICES ASSUME IInv, Follows, Progress, PortsRight, [Next]_vars PROVE PortsRight'
  OBVIOUS
<1>0. TypeOK /\ result \in Seq(Object) /\ objects \in Seq(Object)
  BY DEF IInv, TypeOK
<1>1. CASE ConfigureWebhook
  BY <1>1, ConfigureWebhookPorts
<1>2. CASE KeepServiceless
  <2>1. /\ result' = Append(result, Current) /\ processed' = processed /\ input' = input
        /\ IsWebhookConfiguration(Current) /\ Current \in Object
    BY <1>0, <1>2 DEF KeepServiceless, AtWebhook, Current
  <2>2. ~IsKind(Current, ServiceGVK)
    BY <2>1, KindsDiffer, Zenon
  <2> QED
    BY <1>0, <2>1, <2>2, PortsRightAppend
<1>3. CASE CopyRemaining
  <2>1. /\ result' = IF Handled(Current) THEN result ELSE Append(result, Current)
        /\ processed' = processed /\ input' = input /\ Current \in Object
    BY <1>0, <1>3 DEF CopyRemaining, Current
  <2>2. CASE Handled(Current)
    BY <2>1, <2>2 DEF PortsRight, PortRight, PortWanted, Users
  <2>3. CASE ~Handled(Current)
    BY <1>0, <2>1, <2>3, PortsRightAppend DEF Handled
  <2> QED
    BY <2>2, <2>3
<1>4. CASE PrependIssuer
  <2> DEFINE first == createSelfSignedIssuer(issuer.name)
  <2>1. /\ processed' = processed /\ input' = input
        /\ result' = IF SelfSigned(cfg) THEN <<first>> \o result ELSE result
    BY <1>4 DEF PrependIssuer
  <2>2. first \in Object /\ first.gvk = IssuerGVK
    BY createSelfSignedIssuerType DEF IInv, TypeOK, IssuerRef
  <2>3. ~IsKind(first, ServiceGVK)
    <3>1. IsKind(first, IssuerGVK)
      BY <2>2, Zenon DEF IsKind
    <3> QED
      BY <3>1, KindsDiffer, Zenon
  <2> HIDE DEF first
  <2>4. ASSUME NEW i \in DOMAIN (<<first>> \o result)
        PROVE  \/ (<<first>> \o result)[i] = first
               \/ \E j \in DOMAIN result : (<<first>> \o result)[i] = result[j]
    BY <1>0, <2>2
  <2>5. PortRight(first, processed)
    BY <2>3 DEF PortRight
  <2>6. \A i \in DOMAIN result' : PortRight(result'[i], processed)
    BY <2>1, <2>4, <2>5 DEF PortsRight
  <2>7. \A s : PortWanted(s)' = PortWanted(s)
    BY <2>1 DEF PortWanted, Users
  <2> QED
    BY <2>1, <2>6, <2>7 DEF PortsRight, PortRight
<1>5. CASE ReturnUnchanged
  <2>1. processed' = {}
    BY <1>5 DEF ReturnUnchanged, IInv, StartFresh
  <2> QED
    BY <2>1 DEF PortsRight, PortRight
<1>6. CASE SecretLookupError \/ ServiceError
  <2>1. result' = <<>>
    BY <1>6 DEF SecretLookupError, ServiceError
  <2> QED
    BY <2>1 DEF PortsRight
<1>7. CASE ChooseIssuer \/ SkipNonWebhook \/ NilPortPanic \/ Return \/ UNCHANGED vars
  <2>1. result' = result /\ processed' = processed /\ input' = input
    BY <1>7 DEF ChooseIssuer, SkipNonWebhook, NilPortPanic, Return, vars
  <2> QED
    BY <2>1 DEF PortsRight, PortRight, PortWanted, Users
<1> QED
  BY <1>1, <1>2, <1>3, <1>4, <1>5, <1>6, <1>7 DEF Next

\* Whatever the bundle holds and in whatever state it stops, a Service in the
\* result serves first the port of the first webhook that uses it, whether the
\* bundle brought the Service or not (EnsureService, UpdateServicePort).
THEOREM FirstPortWins == Spec => []FirstWebhookSetsPort
<1>1. Init => PortsRight
  BY DEF Init, PortsRight
<1> QED
  BY <1>1, AlwaysProgress, NextPorts, PortsRightMeans, PTL DEF Spec

-----------------------------------------------------------------------------
(* How the list that is delivered grows out of the one that came in: Arrive   *)
(* grows with the lists.                                                     *)

LEMMA ArriveNothing ==
  ASSUME NEW from, NEW into
  PROVE  Arrive(from, {}, into, {})
<1> DEFINE at == [i \in {} |-> 0]
<1>1. at \in [{} -> {}]
  OBVIOUS
<1> QED
  BY <1>1, Zenon DEF Arrive

LEMMA ArriveAll ==
  ASSUME NEW from, NEW S \in SUBSET Nat, NEW into, \A i \in S : into[i] = from[i]
  PROVE  Arrive(from, S, into, S)
<1> DEFINE at == [i \in S |-> i]
<1>1. at \in [S -> S] /\ \A i \in S : at[i] = i
  OBVIOUS
<1> HIDE DEF at
<1> QED
  BY <1>1 DEF Arrive

LEMMA ArriveSame ==
  ASSUME NEW from, NEW S, NEW into, NEW T, Arrive(from, S, into, T),
         NEW more, \A k \in T : more[k] = into[k]
  PROVE  Arrive(from, S, more, T)
<1>1. PICK at \in [S -> T] :
        /\ \A i, j \in S : i < j => at[i] < at[j]
        /\ \A k \in T : \E i \in S : at[i] = k
        /\ \A i \in S : into[at[i]] = from[i]
  BY DEF Arrive
<1>2. \A i \in S : at[i] \in T
  BY <1>1
<1> QED
  BY <1>1, <1>2 DEF Arrive

LEMMA ArriveShift ==
  ASSUME NEW from, NEW S \in SUBSET Nat, NEW into, NEW T \in SUBSET Nat, Arrive(from, S, into, T),
         NEW more, \A k \in T : more[k + 1] = into[k]
  PROVE  Arrive(from, S, more, {k + 1 : k \in T})
<1>1. PICK at \in [S -> T] :
        /\ \A i, j \in S : i < j => at[i] < at[j]
        /\ \A k \in T : \E i \in S : at[i] = k
        /\ \A i \in S : into[at[i]] = from[i]
  BY DEF Arrive
<1> DEFINE shifted == {k + 1 : k \in T}
           to == [i \in S |-> at[i] + 1]
<1>2. \A i \in S : at[i] \in T /\ at[i] \in Nat
  BY <1>1
<1>3. to \in [S -> shifted] /\ \A i \in S : to[i] = at[i] + 1
  BY <1>2
<1>4. \A i, j \in S : i < j => to[i] < to[j]
  BY <1>1, <1>2, <1>3
<1>5. \A k \in shifted : \E i \in S : to[i] = k
  BY <1>1, <1>3
<1>6. \A i \in S : more[to[i]] = from[i]
  BY <1>1, <1>2, <1>3
<1> HIDE DEF to, shifted
<1>7. Arrive(from, S, more, shifted)
  BY <1>3, <1>4, <1>5, <1>6 DEF Arrive
<1> QED
  BY <1>7 DEF shifted

LEMMA ArriveNext ==
  ASSUME NEW from, NEW S \in SUBSET Nat, NEW into, NEW T \in SUBSET Nat, Arrive(from, S, into, T),
         NEW n \in Nat, \A i \in S : i < n,
         NEW k \in Nat, \A t \in T : t < k,
         NEW more, \A t \in T : more[t] = into[t], more[k] = from[n]
  PROVE  Arrive(from, S \cup {n}, more, T \cup {k})
<1>1. PICK at \in [S -> T] :
        /\ \A i, j \in S : i < j => at[i] < at[j]
        /\ \A t \in T : \E i \in S : at[i] = t
        /\ \A i \in S : into[at[i]] = from[i]
  BY DEF Arrive
<1> DEFINE to == [i \in S \cup {n} |-> IF i = n THEN k ELSE at[i]]
<1>2. n \notin S
  OBVIOUS
<1>3. to[n] = k /\ \A i \in S : to[i] = at[i] /\ at[i] \in T
  BY <1>1, <1>2
<1>4. to \in [S \cup {n} -> T \cup {k}]
  BY <1>1
<1> HIDE DEF to
<1>5. \A i, j \in S \cup {n} : i < j => to[i] < to[j]
  <2> SUFFICES ASSUME NEW i \in S \cup {n}, NEW j \in S \cup {n}, i < j
               PROVE  to[i] < to[j]
    OBVIOUS
  <2>1. CASE i \in S /\ j \in S
    BY <2>1, <1>1, <1>3
  <2>2. CASE i \in S /\ j = n
    BY <2>2, <1>3
  <2>3. CASE i = n /\ j \in S
    <3>1. j < n /\ j \in Nat
      BY <2>3
    <3> QED
      BY <3>1, <2>3
  <2>4. CASE i = n /\ j = n
    BY <2>4
  <2> QED
    BY <2>1, <2>2, <2>3, <2>4
<1>6. \A t \in T \cup {k} : \E i \in S \cup {n} : to[i] = t
  BY <1>1, <1>3
<1>7. \A i \in S \cup {n} : more[to[i]] = from[i]
  BY <1>1, <1>3
<1> QED
  BY <1>4, <1>5, <1>6, <1>7 DEF Arrive

-----------------------------------------------------------------------------
(* Webhooks arrive.                                                          *)

WebhooksArrive(from, S, objs) == Arrive(from, S, Unmarked(objs), WebhooksOf(objs))

LEMMA AppendOther ==
  ASSUME NEW from, NEW S, NEW objs \in Seq(Object), NEW o \in Object,
         WebhooksArrive(from, S, objs), ~IsWebhookConfiguration(o)
  PROVE  WebhooksArrive(from, S, Append(objs, o))
<1> DEFINE new == Append(objs, o)
<1>1. /\ DOMAIN new = DOMAIN objs \cup {Len(objs) + 1}
      /\ new[Len(objs) + 1] = o /\ \A i \in DOMAIN objs : new[i] = objs[i]
  OBVIOUS
<1> HIDE DEF new
<1>2. WebhooksOf(new) = WebhooksOf(objs)
  BY <1>1 DEF WebhooksOf
<1>3. \A i \in WebhooksOf(objs) : Unmarked(new)[i] = Unmarked(objs)[i]
  BY <1>1 DEF WebhooksOf, Unmarked
<1>4. WebhooksArrive(from, S, new)
  BY <1>2, <1>3, ArriveSame DEF WebhooksArrive
<1> QED
  BY <1>4 DEF new

LEMMA PrependOther ==
  ASSUME NEW from, NEW S \in SUBSET Nat, NEW objs \in Seq(Object), NEW o \in Object,
         WebhooksArrive(from, S, objs), ~IsWebhookConfiguration(o)
  PROVE  WebhooksArrive(from, S, <<o>> \o objs)
<1> DEFINE new == <<o>> \o objs
<1>1. /\ DOMAIN objs = 1 .. Len(objs) /\ DOMAIN new = 1 .. Len(objs) + 1 /\ Len(objs) \in Nat
      /\ new[1] = o /\ \A i \in DOMAIN objs : new[i + 1] = objs[i]
  OBVIOUS
<1> HIDE DEF new
<1>2. WebhooksOf(new) = {i + 1 : i \in WebhooksOf(objs)}
  <2>1. ASSUME NEW i \in DOMAIN new, IsWebhookConfiguration(new[i])
        PROVE  \E j \in DOMAIN objs : i = j + 1 /\ IsWebhookConfiguration(objs[j])
    <3>1. i # 1
      BY <1>1, <2>1
    <3>2. i - 1 \in DOMAIN objs /\ i = (i - 1) + 1
      BY <1>1, <3>1
    <3>3. new[i] = objs[i - 1]
      BY <1>1, <3>2
    <3> QED
      BY <2>1, <3>2, <3>3
  <2>2. ASSUME NEW j \in DOMAIN objs, IsWebhookConfiguration(objs[j])
        PROVE  j + 1 \in DOMAIN new /\ IsWebhookConfiguration(new[j + 1])
    BY <1>1, <2>2
  <2> QED
    BY <2>1, <2>2 DEF WebhooksOf
<1>3. \A i \in WebhooksOf(objs) : Unmarked(new)[i + 1] = Unmarked(objs)[i]
  <2>1. ASSUME NEW i \in DOMAIN objs
        PROVE  Unmarked(new)[i + 1] = Unmarked(objs)[i]
    <3>1. i + 1 \in DOMAIN new /\ new[i + 1] = objs[i]
      BY <1>1
    <3> QED
      BY <3>1 DEF Unmarked
  <2> QED
    BY <2>1 DEF WebhooksOf
<1>4. WebhooksOf(objs) \in SUBSET Nat
  BY <1>1 DEF WebhooksOf
<1>5. WebhooksArrive(from, S, new)
  BY <1>2, <1>3, <1>4, ArriveShift DEF WebhooksArrive
<1> QED
  BY <1>5 DEF new

LEMMA AppendWebhook ==
  ASSUME NEW from, NEW S \in SUBSET Nat, NEW objs \in Seq(Object), NEW o \in Object,
         WebhooksArrive(from, S, objs), IsWebhookConfiguration(o),
         NEW n \in Nat, \A i \in S : i < n, from[n] = Unannotated(o)
  PROVE  WebhooksArrive(from, S \cup {n}, Append(objs, o))
<1> DEFINE new == Append(objs, o)
           k == Len(objs) + 1
<1>1. /\ DOMAIN objs = 1 .. Len(objs) /\ Len(objs) \in Nat /\ DOMAIN new = DOMAIN objs \cup {k}
      /\ new[k] = o /\ \A i \in DOMAIN objs : new[i] = objs[i]
  OBVIOUS
<1>2. k \in Nat /\ \A i \in DOMAIN objs : i < k
  BY <1>1
<1> HIDE DEF new, k
<1>3. WebhooksOf(new) = WebhooksOf(objs) \cup {k}
  BY <1>1 DEF WebhooksOf
<1>4. \A i \in WebhooksOf(objs) : i < k /\ Unmarked(new)[i] = Unmarked(objs)[i]
  BY <1>1, <1>2 DEF WebhooksOf, Unmarked
<1>5. Unmarked(new)[k] = from[n]
  BY <1>1 DEF Unmarked
<1>6. WebhooksOf(objs) \in SUBSET Nat
  BY <1>1 DEF WebhooksOf
<1>7. WebhooksArrive(from, S \cup {n}, new)
  BY <1>2, <1>3, <1>4, <1>5, <1>6, ArriveNext DEF WebhooksArrive
<1> QED
  BY <1>7 DEF new

-----------------------------------------------------------------------------
(* The loops.                                                                *)

\* Only webhooks are annotated.
OthersUntouched ==
  \A i \in DOMAIN input : ~IsWebhookConfiguration(input[i]) => objects[i] = input[i]

LEMMA NextOthersUntouched ==
  TypeOK /\ Follows /\ OthersUntouched /\ [Next]_vars => OthersUntouched'
<1> SUFFICES ASSUME TypeOK, Follows, OthersUntouched, [Next]_vars PROVE OthersUntouched'
  OBVIOUS
<1>1. CASE ServiceError \/ ConfigureWebhook
  <2>1. /\ input' = input /\ objects' = [objects EXCEPT ![pos] = Annotated]
        /\ pos \in DOMAIN objects /\ IsWebhookConfiguration(objects[pos])
    BY <1>1 DEF ServiceError, ConfigureWebhook, AtServed, AtWebhook, Current
  <2>2. IsWebhookConfiguration(input[pos])
    BY <2>1, SameDomain, LikeLooks DEF Follows
  <2>3. \A i \in DOMAIN input : i # pos => objects'[i] = objects[i]
    BY <2>1, SameDomain
  <2> QED
    BY <2>1, <2>2, <2>3 DEF OthersUntouched
<1>2. CASE UNCHANGED <<objects, input>>
  BY <1>2 DEF OthersUntouched
<1> QED
  BY <1>1, <1>2
  DEF Next, vars, ReturnUnchanged, ChooseIssuer, SkipNonWebhook, KeepServiceless, NilPortPanic,
      SecretLookupError, PrependIssuer, CopyRemaining, Return

LEMMA SameUnannotated ==
  ASSUME NEW a \in Object, NEW b \in Object, Like(a, b)
  PROVE  Unannotated(a) = Unannotated(b)
<1>1. a \in [gvk : GVK, name : Name, valid : BOOLEAN, spec : Spec_, inject : Name]
  BY DEF Object
<1>2. b \in [gvk : GVK, name : Name, valid : BOOLEAN, spec : Spec_, inject : Name]
  BY DEF Object
<1> QED
  BY <1>1, <1>2 DEF Like, Unannotated

\* The webhooks in front of the position.
WebhooksBefore(n) == {i \in WebhooksOf(input) : i < n}

\* What was copied of the others stands at the end of the result.
RemainingArrive(n) ==
  \E first \in 1 .. Len(result) + 1 :
    /\ Ahead(first - 1)
    /\ Arrive(input, {i \in Remaining : i < n}, result, first .. Len(result))

\* The webhook loop gathers nothing else.
Gathers(objs) ==
  \A i \in DOMAIN objs :
    IsWebhookConfiguration(objs[i]) \/ IsKind(objs[i], CertificateGVK) \/ IsKind(objs[i], ServiceGVK)

Delivering ==
  /\ pc = "webhooks" =>
       WebhooksArrive(Unmarked(input), WebhooksBefore(pos), result) /\ Gathers(result)
  /\ pc = "remaining" =>
       WebhooksArrive(Unmarked(input), WebhooksOf(input), result) /\ RemainingArrive(pos)

LEMMA PositionTypes ==
  ASSUME TypeOK
  PROVE  /\ pos \in Nat /\ Len(input) \in Nat /\ DOMAIN input = 1 .. Len(input)
         /\ WebhooksOf(input) \in SUBSET Nat
         /\ Remaining \in SUBSET Nat
<1>1. DOMAIN input = 1 .. Len(input) /\ Len(input) \in Nat
  BY DEF TypeOK
<1> QED
  BY <1>1 DEF TypeOK, WebhooksOf, Remaining

\* One more position: the object there is in front of it from now on.
LEMMA OnePast ==
  ASSUME TypeOK, NEW S \in SUBSET Nat
  PROVE  /\ pos \in S => {i \in S : i < pos + 1} = {i \in S : i < pos} \cup {pos}
         /\ pos \notin S => {i \in S : i < pos + 1} = {i \in S : i < pos}
         /\ \A i \in {j \in S : j < pos} : i < pos
<1>1. pos \in Nat
  BY PositionTypes
<1>2. \A i \in S : i < pos + 1 <=> i < pos \/ i = pos
  BY <1>1
<1> QED
  BY <1>1, <1>2

\* The webhook loop appends the webhook at the position and no other.
LEMMA AtWebhookInput ==
  ASSUME TypeOK, Follows, pos \in DOMAIN objects
  PROVE  /\ Current \in Object
         /\ pos \in WebhooksOf(input) <=> IsWebhookConfiguration(Current)
         /\ Unmarked(input)[pos] = Unannotated(Current)
         /\ OthersUntouched /\ ~IsWebhookConfiguration(Current) => Current = input[pos]
<1>1. pos \in DOMAIN input /\ Like(objects[pos], input[pos])
  BY SameDomain DEF Follows
<1>2. objects[pos] \in Object /\ input[pos] \in Object
  BY <1>1 DEF TypeOK
<1>3. Unannotated(objects[pos]) = Unannotated(input[pos])
  BY <1>1, <1>2, SameUnannotated
<1>4. IsWebhookConfiguration(objects[pos]) <=> IsWebhookConfiguration(input[pos])
  BY <1>1, LikeLooks
<1> QED
  BY <1>1, <1>2, <1>3, <1>4 DEF Current, Unmarked, WebhooksOf, OthersUntouched

LEMMA ConfigureWebhookArrives ==
  ASSUME IInv, Follows, Delivering, ConfigureWebhook
  PROVE  WebhooksArrive(Unmarked(input), WebhooksBefore(pos) \cup {pos}, result')
<1> DEFINE from == Unmarked(input)
           before == WebhooksBefore(pos)
<1>1. /\ TypeOK /\ AtServed /\ ~SecretLookupFails(objects, DeploymentOf(ServiceOf(Current)))
      /\ pc = "webhooks" /\ pos \in DOMAIN objects
  BY DEF IInv, ConfigureWebhook, AtServed, AtWebhook
<1>2. /\ result \in Seq(Object) /\ Annotated \in Object /\ NewCertificate \in Object
      /\ Current \in Object /\ IsWebhookConfiguration(Annotated)
  BY <1>1, ServedTypes, WithWebhookTypes DEF TypeOK
<1>3. before \in SUBSET Nat /\ pos \in Nat /\ \A i \in before : i < pos
  BY <1>1, PositionTypes, OnePast DEF WebhooksBefore
<1>4. from[pos] = Unannotated(Annotated)
  <2>1. Current \in [gvk : GVK, name : Name, valid : BOOLEAN, spec : Spec_, inject : Name]
    BY <1>2 DEF Object
  <2>2. Unannotated(Annotated) = Unannotated(Current)
    BY <2>1 DEF Annotated, SetAnnotation, Unannotated
  <2> QED
    BY <1>1, <2>2, AtWebhookInput
<1>5. WebhooksArrive(from, before, result)
  BY <1>1 DEF Delivering
<1> HIDE DEF from, before
<1>6. CASE ServiceOf(Current) \in processed
  <2>1. result' = Append(result, Annotated)
    BY <1>6, SharedService
  <2>2. WebhooksArrive(from, before \cup {pos}, Append(result, Annotated))
    BY <1>2, <1>3, <1>4, <1>5, AppendWebhook
  <2> QED
    BY <2>1, <2>2 DEF from, before
<1>7. CASE ServiceOf(Current) \notin processed
  <2> DEFINE r1 == Append(result, NewCertificate)
             r2 == Append(r1, Annotated)
  <2>1. PICK svc \in Object : svc.gvk = ServiceGVK /\ result' = Append(r2, svc)
    BY <1>7, NewService
  <2>2. ~IsWebhookConfiguration(NewCertificate) /\ ~IsWebhookConfiguration(svc)
    <3>1. NewCertificate.gvk = CertificateGVK
      BY <1>1, ServedTypes, createCertificateType DEF NewCertificate, TypeOK
    <3>2. IsKind(NewCertificate, CertificateGVK) /\ IsKind(svc, ServiceGVK)
      BY <2>1, <3>1, Zenon DEF IsKind
    <3> QED
      BY <3>2, KindsDiffer, Zenon
  <2>3. r1 \in Seq(Object) /\ r2 \in Seq(Object)
    BY <1>2, AppendProperties, Zenon
  <2>4. WebhooksArrive(from, before, r1)
    BY <1>2, <1>5, <2>2, AppendOther
  <2>5. WebhooksArrive(from, before \cup {pos}, r2)
    <3> HIDE DEF r1
    <3> QED
      BY <1>2, <1>3, <1>4, <2>3, <2>4, AppendWebhook
  <2>6. WebhooksArrive(from, before \cup {pos}, Append(r2, svc))
    <3> HIDE DEF r2
    <3> QED
      BY <2>1, <2>2, <2>3, <2>5, AppendOther
  <2> QED
    BY <2>1, <2>6 DEF from, before
<1> QED
  BY <1>6, <1>7

LEMMA GathersAppend ==
  ASSUME NEW objs \in Seq(Object), NEW o \in Object, Gathers(objs),
         IsWebhookConfiguration(o) \/ o.gvk = CertificateGVK \/ o.gvk = ServiceGVK
  PROVE  Gathers(Append(objs, o))
<1> DEFINE new == Append(objs, o)
<1>1. ASSUME NEW i \in DOMAIN new
      PROVE  \/ IsWebhookConfiguration(new[i])
             \/ IsKind(new[i], CertificateGVK) \/ IsKind(new[i], ServiceGVK)
  <2>1. CASE i \in DOMAIN objs /\ new[i] = objs[i]
    BY <2>1, Zenon DEF Gathers
  <2>2. CASE new[i] = o
    BY <2>2, Zenon DEF IsKind
  <2> QED
    BY <2>1, <2>2, AppendElements
<1> QED
  BY <1>1, Zenon DEF Gathers

LEMMA WebhookLoopGathers ==
  ASSUME IInv, Gathers(result), ConfigureWebhook
  PROVE  Gathers(result')
<1>1. TypeOK /\ AtServed /\ ~SecretLookupFails(objects, DeploymentOf(ServiceOf(Current)))
  BY DEF IInv, ConfigureWebhook
<1>2. /\ result \in Seq(Object) /\ Annotated \in Object /\ IsWebhookConfiguration(Annotated)
      /\ NewCertificate \in Object
  BY <1>1, ServedTypes, WithWebhookTypes DEF TypeOK
<1>3. NewCertificate.gvk = CertificateGVK
  BY <1>1, ServedTypes, createCertificateType DEF NewCertificate, TypeOK
<1>4. CASE ServiceOf(Current) \in processed
  BY <1>2, <1>4, SharedService, GathersAppend
<1>5. CASE ServiceOf(Current) \notin processed
  <2> DEFINE r1 == Append(result, NewCertificate)
             r2 == Append(r1, Annotated)
  <2>1. PICK svc \in Object : svc.gvk = ServiceGVK /\ result' = Append(r2, svc)
    BY <1>5, NewService
  <2>2. r1 \in Seq(Object) /\ r2 \in Seq(Object)
    BY <1>2, AppendProperties, Zenon
  <2>3. Gathers(r1)
    BY <1>2, <1>3, GathersAppend
  <2> HIDE DEF r1
  <2>4. Gathers(r2)
    BY <1>2, <2>2, <2>3, GathersAppend
  <2> HIDE DEF r2
  <2> QED
    BY <2>1, <2>2, <2>4, GathersAppend
<1> QED
  BY <1>4, <1>5

LEMMA WebhookLoopDelivers ==
  ASSUME IInv, Follows, Delivering, SkipNonWebhook \/ KeepServiceless \/ ConfigureWebhook
  PROVE  Delivering'
<1>1. /\ TypeOK /\ pc = "webhooks" /\ pc' = "webhooks" /\ pos' = pos + 1 /\ input' = input
      /\ pos \in DOMAIN objects /\ result \in Seq(Object)
  BY DEF IInv, TypeOK, SkipNonWebhook, KeepServiceless, ConfigureWebhook, AtServed, AtWebhook
<1>2. WebhooksArrive(Unmarked(input), WebhooksBefore(pos), result) /\ Gathers(result)
  BY <1>1 DEF Delivering
<1>3. WebhooksBefore(pos + 1) = IF IsWebhookConfiguration(Current)
                                  THEN WebhooksBefore(pos) \cup {pos} ELSE WebhooksBefore(pos)
  BY <1>1, PositionTypes, AtWebhookInput, OnePast DEF WebhooksBefore
<1>4. WebhooksArrive(Unmarked(input), WebhooksBefore(pos + 1), result')
  <2>1. CASE SkipNonWebhook
    <3>1. ~IsWebhookConfiguration(Current) /\ result' = result
      BY <2>1 DEF SkipNonWebhook
    <3> QED
      BY <1>2, <1>3, <3>1
  <2>2. CASE KeepServiceless
    <3>1. IsWebhookConfiguration(Current) /\ result' = Append(result, Current)
      BY <2>2 DEF KeepServiceless, AtWebhook
    <3>2. WebhooksBefore(pos) \in SUBSET Nat /\ pos \in Nat /\ \A i \in WebhooksBefore(pos) : i < pos
      BY <1>1, PositionTypes, OnePast DEF WebhooksBefore
    <3>3. Current \in Object /\ Unmarked(input)[pos] = Unannotated(Current)
      BY <1>1, AtWebhookInput
    <3>4. WebhooksArrive(Unmarked(input), WebhooksBefore(pos) \cup {pos}, Append(result, Current))
      BY <1>1, <1>2, <3>1, <3>2, <3>3, AppendWebhook
    <3> QED
      BY <1>3, <3>1, <3>4
  <2>3. CASE ConfigureWebhook
    <3>1. IsWebhookConfiguration(Current)
      BY <2>3 DEF ConfigureWebhook, AtServed, AtWebhook
    <3> QED
      BY <1>3, <2>3, <3>1, ConfigureWebhookArrives
  <2> QED
    BY <2>1, <2>2, <2>3
<1>5. Gathers(result')
  <2>1. CASE SkipNonWebhook
    BY <1>2, <2>1 DEF SkipNonWebhook
  <2>2. CASE KeepServiceless
    <3>1. IsWebhookConfiguration(Current) /\ result' = Append(result, Current) /\ Current \in Object
      BY <1>1, <2>2, AtWebhookInput DEF KeepServiceless, AtWebhook
    <3> QED
      BY <1>1, <1>2, <3>1, GathersAppend
  <2>3. CASE ConfigureWebhook
    BY <1>2, <2>3, WebhookLoopGathers
  <2> QED
    BY <2>1, <2>2, <2>3
<1> QED
  BY <1>1, <1>4, <1>5
     DEF Delivering, WebhooksArrive, WebhooksBefore, Unmarked, WebhooksOf, Gathers

LEMMA ChooseIssuerDelivers ==
  ASSUME IInv, Progress, ChooseIssuer
  PROVE  Delivering'
<1>1. /\ TypeOK /\ pc = "start" /\ pc' = "webhooks" /\ result = <<>> /\ pos = 1
      /\ UNCHANGED <<input, pos, result>>
  BY DEF IInv, StartFresh, Progress, ChooseIssuer
<1>2. WebhooksBefore(pos) = {}
  BY <1>1, PositionTypes DEF WebhooksBefore, WebhooksOf
<1>3. WebhooksOf(result) = {}
  BY <1>1 DEF WebhooksOf
<1>4. WebhooksArrive(Unmarked(input), WebhooksBefore(pos), result)
  BY <1>2, <1>3, ArriveNothing DEF WebhooksArrive
<1>5. Gathers(result)
  BY <1>1 DEF Gathers
<1> QED
  BY <1>1, <1>4, <1>5
     DEF Delivering, WebhooksArrive, WebhooksBefore, Unmarked, WebhooksOf, Gathers

LEMMA NothingCopied ==
  ASSUME NEW from, NEW objs \in Seq(Object)
  PROVE  LET first == Len(objs) + 1
         IN  first \in 1 .. Len(objs) + 1 /\ Arrive(from, {}, objs, first .. Len(objs))
<1> DEFINE first == Len(objs) + 1
<1>1. first \in 1 .. Len(objs) + 1 /\ first .. Len(objs) = {}
  OBVIOUS
<1>2. Arrive(from, {}, objs, first .. Len(objs))
  BY <1>1, ArriveNothing
<1> QED
  BY <1>1, <1>2

\* What the webhook loop gathered beside the webhooks has names of its own.
LEMMA GatheredApart ==
  ASSUME IInv, pc = "webhooks", Gathers(result), NEW i \in DOMAIN result,
         ~IsWebhookConfiguration(result[i])
  PROVE  /\ Added(result[i]) /\ ~IsKind(result[i], IssuerGVK)
         /\ \A j \in DOMAIN result : Is(result[j], result[i].gvk, result[i].name) => j = i
<1>1. Generated(result[i], processed, issuer) /\ Ensured(result[i], processed)
  BY DEF IInv, ResultIsGathered
<1>2. \A s \in processed : /\ OnlyOne(KindNamed(result, ServiceGVK, s))
                           /\ OnlyOne(KindNamed(result, CertificateGVK, CertName(s)))
  BY DEF IInv, OncePerService
<1>3. ASSUME NEW gvk, NEW name, IsKind(result[i], gvk), result[i].name = name,
             OnlyOne(KindNamed(result, gvk, name)),
             NEW j \in DOMAIN result, Is(result[j], result[i].gvk, result[i].name)
      PROVE  j = i
  <2>1. IsKind(result[j], gvk) /\ result[j].name = name
    BY <1>3 DEF Is, IsKind
  <2>2. j \in KindNamed(result, gvk, name) /\ i \in KindNamed(result, gvk, name)
    BY <1>3, <2>1 DEF KindNamed
  <2> QED
    BY <1>3, <2>2 DEF OnlyOne
<1>4. CASE IsKind(result[i], CertificateGVK)
  <2>1. result[i].spec.dns \in processed /\ result[i].name = CertName(result[i].spec.dns)
    BY <1>1, <1>4 DEF Generated
  <2>2. OnlyOne(KindNamed(result, CertificateGVK, CertName(result[i].spec.dns)))
    BY <1>2, <2>1
  <2>3. \A j \in DOMAIN result : Is(result[j], result[i].gvk, result[i].name) => j = i
    BY <1>3, <1>4, <2>1, <2>2, Zenon
  <2> QED
    BY <1>4, <2>3, KindsDiffer, Zenon DEF Added
<1>5. CASE IsKind(result[i], ServiceGVK)
  <2>1. result[i].name \in processed
    BY <1>1, <1>5 DEF Ensured
  <2>2. \A j \in DOMAIN result : Is(result[j], result[i].gvk, result[i].name) => j = i
    BY <1>2, <1>3, <1>5, <2>1, Zenon
  <2> QED
    BY <1>5, <2>1, <2>2, KindsDiffer, Zenon DEF Added
<1> QED
  BY <1>4, <1>5 DEF Gathers

\* The issuer in front of it has another kind.
LEMMA PrependIssuerAhead ==
  ASSUME IInv, TypeOK', Gathers(result), PrependIssuer
  PROVE  Ahead(Len(result))'
<1> DEFINE first == createSelfSignedIssuer(issuer.name)
<1>1. /\ TypeOK /\ pc = "webhooks" /\ processed' = processed /\ result \in Seq(Object)
      /\ result' = IF SelfSigned(cfg) THEN <<first>> \o result ELSE result
  BY DEF IInv, TypeOK, PrependIssuer
<1>2. \A o : Added(o)' = Added(o)
  BY <1>1 DEF Added
<1>3. \A i \in DOMAIN result :
        \/ IsWebhookConfiguration(result[i])
        \/ /\ Added(result[i])
           /\ \A j \in DOMAIN result : Is(result[j], result[i].gvk, result[i].name) => j = i
  BY <1>1, GatheredApart
<1>4. DOMAIN result = 1 .. Len(result) /\ Len(result) \in Nat
  BY <1>1
<1>5. CASE ~SelfSigned(cfg)
  BY <1>1, <1>2, <1>3, <1>4, <1>5 DEF Ahead
<1>6. CASE SelfSigned(cfg)
  <2>1. first \in Object /\ first.gvk = IssuerGVK
    <3>1. issuer.name \in Name
      BY <1>1 DEF TypeOK, IssuerRef
    <3> QED
      BY <3>1, createSelfSignedIssuerType
  <2> HIDE DEF first
  <2>2. /\ result' = <<first>> \o result /\ Len(result') = Len(result) + 1
        /\ result'[1] = first /\ \A i \in DOMAIN result : result'[i + 1] = result[i]
    BY <1>1, <1>6, <2>1
  <2>3. IsKind(first, IssuerGVK) /\ Added(first)
    BY <2>1, Zenon DEF IsKind, Added
  <2>4. \A i \in DOMAIN result : ~IsWebhookConfiguration(result[i]) => result[i].gvk # IssuerGVK
    BY <1>1, GatheredApart, Zenon DEF IsKind
  <2>5. \A i \in DOMAIN result : IsWebhookConfiguration(result[i]) => result[i].gvk # IssuerGVK
    <3> SUFFICES ASSUME NEW i \in DOMAIN result, IsWebhookConfiguration(result[i]),
                        result[i].gvk = IssuerGVK
                 PROVE  FALSE
      OBVIOUS
    <3>1. IsKind(result[i], IssuerGVK)
      BY Zenon DEF IsKind
    <3> QED
      BY <3>1, KindsDiffer, Zenon
  <2>6. \A k \in 1 .. Len(result') : k # 1 =>
          k - 1 \in DOMAIN result /\ result'[k] = result[k - 1] /\ result'[k].gvk # IssuerGVK
    BY <1>4, <2>2, <2>4, <2>5
  <2>7. ASSUME NEW k \in 1 .. Len(result'), ~IsWebhookConfiguration(result'[k])
        PROVE  /\ Added(result'[k])
               /\ \A j \in 1 .. Len(result') : Is(result'[j], result'[k].gvk, result'[k].name) => j = k
    <3>1. CASE k = 1
      <4>1. \A j \in 1 .. Len(result') : Is(result'[j], result'[k].gvk, result'[k].name) => j = k
        BY <2>1, <2>2, <2>6, <3>1 DEF Is
      <4> QED
        BY <2>2, <2>3, <3>1, <4>1
    <3>2. CASE k # 1
      <4>1. /\ Added(result[k - 1])
            /\ \A j \in DOMAIN result :
                 Is(result[j], result[k - 1].gvk, result[k - 1].name) => j = k - 1
        BY <1>3, <2>6, <2>7, <3>2
      <4>2. ASSUME NEW j \in 1 .. Len(result'), Is(result'[j], result'[k].gvk, result'[k].name)
            PROVE  j = k
        <5>1. j # 1
          BY <2>1, <2>2, <2>6, <3>2, <4>2 DEF Is
        <5>2. j - 1 \in DOMAIN result /\ result'[j] = result[j - 1] /\ result'[k] = result[k - 1]
          BY <2>6, <3>2, <5>1
        <5>3. j - 1 = k - 1
          BY <4>1, <4>2, <5>2
        <5> QED
          BY <5>3, <1>4, <2>2
      <4> QED
        BY <2>6, <3>2, <4>1, <4>2
    <3> QED
      BY <3>1, <3>2
  <2> QED
    BY <1>2, <2>7 DEF Ahead
<1> QED
  BY <1>5, <1>6

\* The copying leaves it as it is.
LEMMA AheadSame ==
  ASSUME NEW n, Ahead(n), processed' = processed, \A i \in 1 .. n : result'[i] = result[i]
  PROVE  Ahead(n)'
BY DEF Ahead, Added

LEMMA PrependIssuerDelivers ==
  ASSUME IInv, TypeOK', Delivering, PrependIssuer
  PROVE  Delivering'
<1> DEFINE first == createSelfSignedIssuer(issuer.name)
<1>1. /\ TypeOK /\ pc = "webhooks" /\ pc' = "remaining" /\ pos = Len(objects) + 1 /\ pos' = 1
      /\ input' = input /\ processed' = processed /\ result \in Seq(Object)
      /\ result' = IF SelfSigned(cfg) THEN <<first>> \o result ELSE result
  BY DEF IInv, TypeOK, PrependIssuer
<1>2. WebhooksBefore(pos) = WebhooksOf(input)
  BY <1>1, SameDomain, PositionTypes DEF WebhooksBefore, WebhooksOf
<1>3. WebhooksArrive(Unmarked(input), WebhooksOf(input), result)
  BY <1>1, <1>2 DEF Delivering
<1>4. first \in Object /\ ~IsWebhookConfiguration(first)
  <2>1. issuer.name \in Name
    BY <1>1 DEF TypeOK, IssuerRef
  <2>2. first \in Object /\ first.gvk = IssuerGVK
    BY <2>1, createSelfSignedIssuerType
  <2>3. IsKind(first, IssuerGVK)
    BY <2>2, Zenon DEF IsKind
  <2> QED
    BY <2>2, <2>3, KindsDiffer, Zenon
<1> HIDE DEF first
<1>5. WebhooksOf(input) \in SUBSET Nat
  BY <1>1, PositionTypes
<1>6. WebhooksArrive(Unmarked(input), WebhooksOf(input), <<first>> \o result)
  BY <1>1, <1>3, <1>4, <1>5, PrependOther
<1>7. WebhooksArrive(Unmarked(input), WebhooksOf(input), result')
  BY <1>1, <1>3, <1>6
<1>8. RemainingArrive(pos)'
  <2>1. {i \in Remaining : i < 1} = {} /\ Remaining' = Remaining
    BY <1>1, PositionTypes DEF Remaining, Handled
  <2>2. result' \in Seq(Object)
    BY DEF TypeOK
  <2>3. PICK k \in Nat : k = Len(result') + 1
    BY <2>2
  <2>4. k \in 1 .. Len(result') + 1 /\ Arrive(input, {}, result', k .. Len(result'))
    BY <2>2, <2>3, NothingCopied
  <2>5. Ahead(k - 1)'
    <3>1. Ahead(Len(result))'
      BY <1>1, PrependIssuerAhead DEF Delivering
    <3>2. k - 1 = Len(result')
      BY <2>2, <2>3
    <3> QED
      BY <3>1, <3>2 DEF Ahead
  <2> QED
    BY <1>1, <2>1, <2>4, <2>5 DEF RemainingArrive
<1> QED
  BY <1>1, <1>7, <1>8 DEF Delivering, WebhooksArrive, Unmarked, WebhooksOf

LEMMA CopyRemainingDelivers ==
  ASSUME IInv, Follows, OthersUntouched, Delivering, CopyRemaining
  PROVE  Delivering'
<1>1. /\ TypeOK /\ pc = "remaining" /\ pc' = "remaining" /\ pos \in DOMAIN objects
      /\ pos' = pos + 1 /\ input' = input /\ processed' = processed /\ result \in Seq(Object)
      /\ result' = IF Handled(Current) THEN result ELSE Append(result, Current)
  BY DEF IInv, TypeOK, CopyRemaining
<1>2. Current \in Object /\ (~IsWebhookConfiguration(Current) => Current = input[pos])
  BY <1>1, AtWebhookInput
<1>3. Remaining' = Remaining
  BY <1>1 DEF Remaining, Handled
<1>4. pos \in Remaining <=> ~Handled(Current)
  <2>1. pos \in DOMAIN input /\ Like(Current, input[pos])
    BY <1>1, SameDomain DEF Follows, Current
  <2>2. Handled(Current) <=> Handled(input[pos])
    <3>1. IsWebhookConfiguration(Current) <=> IsWebhookConfiguration(input[pos])
      BY <2>1, LikeLooks
    <3>2. IsKind(Current, ServiceGVK) <=> IsKind(input[pos], ServiceGVK)
      BY <2>1, LikeLooks
    <3>3. Current.name = input[pos].name
      BY <2>1 DEF Like
    <3> QED
      BY <3>1, <3>2, <3>3, Zenon DEF Handled
  <2> QED
    BY <2>1, <2>2 DEF Remaining
<1>5. PICK first \in 1 .. Len(result) + 1 :
        /\ Ahead(first - 1)
        /\ Arrive(input, {i \in Remaining : i < pos}, result, first .. Len(result))
  BY <1>1 DEF Delivering, RemainingArrive
<1>6. /\ WebhooksArrive(Unmarked(input), WebhooksOf(input), result)
      /\ Remaining \in SUBSET Nat /\ pos \in Nat /\ Len(result) \in Nat
  BY <1>1, PositionTypes DEF Delivering
<1>7. CASE Handled(Current)
  <2>1. result' = result /\ {i \in Remaining : i < pos + 1} = {i \in Remaining : i < pos}
    BY <1>1, <1>4, <1>6, <1>7, OnePast
  <2>2. RemainingArrive(pos)'
    <3>1. Ahead(first - 1)'
      BY <1>1, <1>5, <2>1, AheadSame
    <3> QED
      BY <1>1, <1>3, <1>5, <2>1, <3>1 DEF RemainingArrive
  <2>3. WebhooksArrive(Unmarked(input), WebhooksOf(input), result)'
    BY <1>1, <1>6, <2>1 DEF WebhooksArrive, Unmarked, WebhooksOf
  <2> QED
    BY <1>1, <2>2, <2>3 DEF Delivering
<1>8. CASE ~Handled(Current)
  <2> DEFINE new == Append(result, Current)
             k == Len(result) + 1
  <2>1. result' = new /\ {i \in Remaining : i < pos + 1} = {i \in Remaining : i < pos} \cup {pos}
    BY <1>1, <1>4, <1>6, <1>8, OnePast
  <2>2. Len(new) = k /\ k \in Nat /\ new[k] = Current /\ \A i \in 1 .. Len(result) : new[i] = result[i]
    BY <1>1, <1>2, <1>6
  <2>3. Current = input[pos] /\ ~IsWebhookConfiguration(Current)
    BY <1>2, <1>8 DEF Handled
  <2> DEFINE T == first .. Len(result)
             S == {i \in Remaining : i < pos}
  <2>4. T \in SUBSET Nat /\ (\A t \in T : t < k /\ new[t] = result[t]) /\ T \cup {k} = first .. k
    BY <1>6, <2>2
  <2>5. S \in SUBSET Nat /\ \A i \in S : i < pos
    BY <1>6
  <2>6. Arrive(input, S, result, T)
    BY <1>5
  <2>7. first \in 1 .. k + 1 /\ Ahead(first - 1)'
    <3>1. \A i \in 1 .. first - 1 : i \in 1 .. Len(result)
      BY <1>6
    <3>2. \A i \in 1 .. first - 1 : result'[i] = result[i]
      BY <2>1, <2>2, <3>1
    <3> QED
      BY <1>1, <1>5, <1>6, <3>2, AheadSame
  <2>8. WebhooksArrive(Unmarked(input), WebhooksOf(input), new)
    BY <1>1, <1>2, <1>6, <2>3, AppendOther
  <2> HIDE DEF new, k, T, S
  <2>9. Arrive(input, S \cup {pos}, new, T \cup {k})
    <3>1. new[k] = input[pos]
      BY <2>2, <2>3
    <3>2. pos \in Nat /\ k \in Nat /\ T \in SUBSET Nat /\ S \in SUBSET Nat
      BY <1>6, <2>2, <2>4, <2>5
    <3>3. (\A t \in T : t < k) /\ (\A t \in T : new[t] = result[t]) /\ \A i \in S : i < pos
      BY <2>4, <2>5
    <3> QED
      BY <2>6, <3>1, <3>2, <3>3, ArriveNext
  <2>10. Arrive(input, {i \in Remaining : i < pos + 1}, new, first .. Len(new))
    BY <2>1, <2>2, <2>4, <2>9 DEF S
  <2>11. RemainingArrive(pos)'
    BY <1>1, <1>3, <2>1, <2>2, <2>7, <2>10 DEF RemainingArrive
  <2>12. WebhooksArrive(Unmarked(input), WebhooksOf(input), result)'
    BY <1>1, <2>1, <2>8 DEF WebhooksArrive, Unmarked, WebhooksOf
  <2> QED
    BY <1>1, <2>11, <2>12 DEF Delivering
<1> QED
  BY <1>7, <1>8

DeliveryInv == OthersUntouched /\ Delivering /\ NothingLost

LEMMA ReturnLosesNothing ==
  ASSUME IInv, Delivering, Return
  PROVE  NothingLost'
<1>1. /\ TypeOK /\ pc = "remaining" /\ pos = Len(objects) + 1
      /\ UNCHANGED <<input, objects, result, processed>>
  BY DEF IInv, Return
<1>2. {i \in Remaining : i < pos} = Remaining
  BY <1>1, SameDomain, PositionTypes DEF Remaining
<1>3. \E first \in 1 .. Len(result) + 1 :
        Ahead(first - 1) /\ Arrive(input, Remaining, result, first .. Len(result))
  BY <1>1, <1>2 DEF Delivering, RemainingArrive
<1>4. Arrive(Unmarked(input), WebhooksOf(input), Unmarked(result), WebhooksOf(result))
  BY <1>1 DEF Delivering, WebhooksArrive
<1> QED
  BY <1>1, <1>3, <1>4
     DEF NothingLost, Unmarked, WebhooksOf, Remaining, Handled, Ahead, Added

LEMMA ReturnUnchangedLosesNothing ==
  ASSUME IInv, ReturnUnchanged
  PROVE  NothingLost'
<1>1. /\ TypeOK /\ objects = input /\ processed = {} /\ ~HasWebhooks(input)
      /\ result' = input /\ processed' = processed /\ input' = input
  BY DEF IInv, StartFresh, ReturnUnchanged
<1>2. WebhooksOf(input) = {}
  BY <1>1 DEF HasWebhooks, WebhooksOf
<1>3. Arrive(Unmarked(input), WebhooksOf(input), Unmarked(input), WebhooksOf(input))
  BY <1>2, ArriveNothing
<1>4. Remaining = 1 .. Len(input) /\ Remaining \in SUBSET Nat /\ 1 \in 1 .. Len(input) + 1
  BY <1>1, PositionTypes DEF Remaining, Handled, HasWebhooks
<1>5. Arrive(input, Remaining, input, 1 .. Len(input))
  BY <1>4, ArriveAll
<1>6. Remaining' = Remaining /\ Ahead(1 - 1)'
  BY <1>1 DEF Remaining, Handled, Ahead
<1>7. WebhooksOf(input)' = WebhooksOf(input) /\ WebhooksOf(result)' = WebhooksOf(input)
        /\ Unmarked(input)' = Unmarked(input) /\ Unmarked(result)' = Unmarked(input)
  BY <1>1 DEF WebhooksOf, Unmarked
<1> QED
  BY <1>1, <1>3, <1>4, <1>5, <1>6, <1>7 DEF NothingLost

LEMMA NextDelivery ==
  IInv /\ TypeOK' /\ Follows /\ Progress /\ DeliveryInv /\ [Next]_vars => DeliveryInv'
<1> SUFFICES ASSUME IInv, TypeOK', Follows, Progress, DeliveryInv, [Next]_vars
             PROVE  DeliveryInv'
  OBVIOUS
<1>1. OthersUntouched'
  BY NextOthersUntouched DEF DeliveryInv, IInv
<1>2. CASE SkipNonWebhook \/ KeepServiceless \/ ConfigureWebhook
  <2>1. pc' = "webhooks"
    BY <1>2 DEF SkipNonWebhook, KeepServiceless, ConfigureWebhook, AtServed, AtWebhook
  <2> QED
    BY <1>1, <1>2, <2>1, WebhookLoopDelivers DEF DeliveryInv, NothingLost
<1>3. CASE ChooseIssuer
  BY <1>1, <1>3, ChooseIssuerDelivers DEF DeliveryInv, NothingLost, ChooseIssuer
<1>4. CASE PrependIssuer
  BY <1>1, <1>4, PrependIssuerDelivers DEF DeliveryInv, NothingLost, PrependIssuer
<1>5. CASE CopyRemaining
  BY <1>1, <1>5, CopyRemainingDelivers DEF DeliveryInv, NothingLost, CopyRemaining
<1>6. CASE Return
  BY <1>1, <1>6, ReturnLosesNothing DEF DeliveryInv, Delivering, Return
<1>7. CASE ReturnUnchanged
  BY <1>1, <1>7, ReturnUnchangedLosesNothing DEF DeliveryInv, Delivering, ReturnUnchanged
<1>8. CASE NilPortPanic \/ SecretLookupError \/ ServiceError
  BY <1>1, <1>8
  DEF NilPortPanic, SecretLookupError, ServiceError, DeliveryInv, Delivering, NothingLost
<1>9. CASE UNCHANGED vars
  BY <1>1, <1>9
  DEF vars, DeliveryInv, Delivering, NothingLost, WebhooksArrive, RemainingArrive, WebhooksBefore,
      Unmarked, WebhooksOf, Remaining, Handled, Ahead, Added, Gathers
<1> QED
  BY <1>2, <1>3, <1>4, <1>5, <1>6, <1>7, <1>8, <1>9 DEF Next

\* For every bundle and every issuer: what is delivered has the webhooks of the
\* bundle in their order among certificates, Services and issuer, no two of these
\* of one name, and behind everything else the bundle's other objects, each once
\* and in their order, less the Services that were replaced (processWebhooks, and
\* the removal and the copying in Configure).
THEOREM NothingIsLost == Spec => []NothingLost
<1>1. Init => DeliveryInv
  BY DEF Init, DeliveryInv, OthersUntouched, Delivering, NothingLost
<1>2. IInv => TypeOK
  BY DEF IInv
<1>3. DeliveryInv => NothingLost
  BY DEF DeliveryInv
<1> QED
  BY <1>1, <1>2, <1>3, NextDelivery, AlwaysProgress, PTL DEF Spec
=============================================================================
