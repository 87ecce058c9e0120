---------------------------- MODULE PipelineProofs ----------------------------
(***************************************************************************)
(* Theorems of Pipeline, for every set of invocations, every set of filter *)
(* expressions and every bundle.                                           *)
(***************************************************************************)
EXTENDS Documents, ApplyOrderProofs

-----------------------------------------------------------------------------
(* The vocabulary of the instance Configure is that of the pipeline. *)

LEMMA SameGVKs ==
  /\ Configure!GVK = GVK
  /\ Configure!DeploymentGVK = DeploymentGVK /\ Configure!ServiceGVK = ServiceGVK
  /\ Configure!IssuerGVK = IssuerGVK /\ Configure!CertificateGVK = CertificateGVK
  /\ Configure!RoleBindingGVK = RoleBindingGVK
  /\ Configure!ClusterRoleBindingGVK = ClusterRoleBindingGVK
  /\ Configure!ValidatingGVK = ValidatingGVK /\ Configure!MutatingGVK = MutatingGVK
BY Zenon DEF Configure!GVK, GVK, Configure!Gvk, Gvk,
  Configure!DeploymentGVK, DeploymentGVK, Configure!ServiceGVK, ServiceGVK,
  Configure!IssuerGVK, IssuerGVK, Configure!CertificateGVK, CertificateGVK,
  Configure!RoleBindingGVK, RoleBindingGVK,
  Configure!ClusterRoleBindingGVK, ClusterRoleBindingGVK,
  Configure!ValidatingGVK, ValidatingGVK, Configure!MutatingGVK, MutatingGVK

LEMMA SamePredicates ==
  ASSUME NEW obj
  PROVE  /\ \A gvk : Configure!IsKind(obj, gvk) = IsKind(obj, gvk)
         /\ Configure!IsWebhookConfiguration(obj) = IsWebhookConfiguration(obj)
         /\ Configure!IsBinding(obj) = IsBinding(obj)
         /\ Configure!ServiceOf(obj) = ServiceOf(obj)
<1>1. \A gvk : Configure!IsKind(obj, gvk) = IsKind(obj, gvk)
  BY Zenon DEF Configure!IsKind, IsKind
<1>2. Configure!IsWebhookConfiguration(obj) = IsWebhookConfiguration(obj)
  BY <1>1, SameGVKs, Zenon DEF Configure!IsWebhookConfiguration, IsWebhookConfiguration
<1>3. Configure!IsBinding(obj) = IsBinding(obj)
  BY <1>1, SameGVKs, Zenon DEF Configure!IsBinding, IsBinding
<1>4. Configure!ServiceOf(obj) = ServiceOf(obj)
  BY Zenon DEF Configure!ServiceOf, ServiceOf, Configure!NoName, NoName
<1> QED
  BY <1>1, <1>2, <1>3, <1>4, Zenon

LEMMA SameSpecs ==
  /\ Configure!Name = Name
  /\ Configure!IssuerRef = IssuerRef
  /\ Configure!DeploymentSpec = DeploymentSpec /\ Configure!ServiceSpec = ServiceSpec
  /\ Configure!WebhookSpec = WebhookSpec /\ Configure!BindingSpec = BindingSpec
  /\ Configure!Spec_ = Spec_
BY DEF Configure!Spec_, Spec_, Configure!DeploymentSpec, DeploymentSpec,
  Configure!ServiceSpec, ServiceSpec, Configure!WebhookSpec, WebhookSpec,
  Configure!CertificateSpec, CertificateSpec, Configure!IssuerSpec, IssuerSpec,
  Configure!CRDSpec, CRDSpec, Configure!RoleSpec, RoleSpec, Configure!BindingSpec, BindingSpec,
  Configure!OpaqueSpec, OpaqueSpec, Configure!Name, Name, Configure!Selector, Selector,
  Configure!SecretVolume, SecretVolume, Configure!Port, Port, Configure!ServicePort, ServicePort,
  Configure!Client, Client, Configure!Rule, Rule, Configure!IssuerRef, IssuerRef

LEMMA SameObjects == Configure!Object = Object
<1>1. ASSUME NEW obj PROVE Configure!Converts(obj) = Converts(obj)
  BY SameGVKs, SamePredicates, SameSpecs, Zenon DEF Configure!Converts, Converts
<1> QED
  BY <1>1, SameGVKs, SameSpecs DEF Configure!Object, Object

-----------------------------------------------------------------------------
(* Types and phases.  TypeOK says nothing of what a phase has not reached    *)
(* yet; Stages adds what each phase finds when it begins.                    *)

Early == {"read", "config", "namespace", "tempDir", "source", "load", "extract"}
Unconfigured == Early \cup {"compile", "filter", "certificates"}

\* The documents that are out are the first of the list.
Out(n) == Len(output) = n /\ \A i \in 1 .. n : output[i] = sorted[i]

Stages ==
  /\ \A expr \in Expressions : \A i \in DOMAIN bundle.objects :
       Run(expr, bundle.objects[i]) \in Seq(Results)
  /\ pc \in Early => objects = <<>>
  /\ pc \in Early \cup {"compile"} => kept = <<>> /\ pos = 1
  /\ pc \in Unconfigured =>
       /\ step = "start" /\ at = 1 /\ caller = <<>> /\ result = <<>> /\ processed = {}
       /\ issuer = [name |-> NoName, kind |-> ""]
  /\ pc = "sort" => result \in Seq(Object)
  /\ errors = IF pc = "reported" THEN 1 ELSE 0
  /\ pc \notin {"write", "done", "cutShort", "reported"} => output = <<>>
  /\ pc = "write" => IF request.front = "run" THEN Out(pos - 1) ELSE output = <<>>
  /\ pc = "done" => output = sorted
  /\ pc = "cutShort" => \E n \in 0 .. Len(sorted) : Out(n)

LEMMA ConfigureTypes ==
  Configure!TypeOK <=>
    /\ kept \in Seq(Object)
    /\ Issuer \in IssuerRef
    /\ step \in {"start", "webhooks", "remaining", "done", "failed", "panicked"}
    /\ caller \in Seq(Object)
    /\ Len(caller) = Len(kept)
    /\ at \in 1 .. Len(kept) + 1
    /\ issuer \in IssuerRef
    /\ result \in Seq(Object)
    /\ processed \subseteq Name
BY SameObjects, SameSpecs DEF Configure!TypeOK, Configure!Terminal

\* A step of cert-manager keeps its types: the list and the settings it was
\* called with do not change while it runs.
LEMMA ConfigureStepTypes ==
  ASSUME Configure!TypeOK, Configure!Next
  PROVE  Configure!TypeOK'
<1>1. {} \subseteq Seq(Configure!Object) /\ {} \subseteq Configure!IssuerRef
  OBVIOUS
<1> QED
  BY <1>1, Configure!NextTypeOK, KeywordsAssumption, LiteralsAreStrings, Zenon

LEMMA IssuerType ==
  ASSUME request \in Request
  PROVE  Issuer \in IssuerRef
BY DEF Issuer, Request, Settings, IssuerRef

LEMMA EmptyList == <<>> \in Seq(Object) /\ NoName \in Name /\ Len(<<>>) = 0
BY EmptySeq, Zenon DEF Name, NoName

LEMMA InitTypeOK == Init => TypeOK /\ Stages
<1> SUFFICES ASSUME Init PROVE TypeOK /\ Stages
  OBVIOUS
<1>1. /\ request \in Request /\ bundle.objects \in Seq(Object)
      /\ \A expr \in Expressions : \A i \in DOMAIN bundle.objects :
           Run(expr, bundle.objects[i]) \in Seq(Results)
  BY InvocationsAssumption DEF Init
<1>2. TypeOK
  <2>1. <<>> \in Seq(Object)
    BY EmptyList
  <2>2. pc = "read" /\ objects = <<>> /\ kept = <<>> /\ sorted = <<>> /\ output = <<>> /\ errors = 0
    BY DEF Init
  <2> QED
    BY <1>1, <2>1, <2>2, Zenon DEF TypeOK
<1>3. Stages
  BY <1>1 DEF Init, Stages
<1> QED
  BY <1>2, <1>3

Rest == <<inputVars, listVars, pos, cmVars, outVars>>

Jumps ==
  \/ pc \in Early /\ pc' \in Early
  \/ pc = "compile" /\ pc' = "filter"
  \/ pc = "filter" /\ pc' = "certificates"
  \/ pc \notin {"write", "done", "cutShort", "reported"} /\ pc' \in {"failed", "report", "panicked"}

LEMMA JumpTypes ==
  ASSUME TypeOK, Stages, Jumps, UNCHANGED Rest
  PROVE  TypeOK' /\ Stages'
<1>1. UNCHANGED <<request, bundle, objects, kept, sorted, pos, step, at, caller, issuer, result,
                  processed, output, errors>>
  BY DEF Rest, inputVars, listVars, cmVars, outVars
<1>2. TypeOK'
  <2>1. pc' \in Early \cup {"filter", "certificates", "failed", "report", "panicked"}
    BY DEF Jumps
  <2>2. pc' = "filter" => pos = 1
    BY DEF Jumps, Stages, Early
  <2>3. pc # "reported"
    BY DEF Jumps, Early
  <2>4. Len(objects) \in Nat
    BY DEF TypeOK
  <2> QED
    BY <1>1, <2>1, <2>2, <2>3, <2>4 DEF TypeOK, Early, Ended
<1>3. Stages'
  BY <1>1 DEF Stages, Jumps, Early, Unconfigured
<1> QED
  BY <1>2, <1>3

\* The steps that only move to another phase.
LEMMA JumpSteps ==
  ASSUME TypeOK, Stages,
         \/ ReportFails \/ FlagMissing \/ Unreadable \/ ReadFlags \/ ReadResourceList
         \/ ExtractFunctionConfig \/ ValidateNamespace \/ MakeTempDir \/ TempDirFails
         \/ ResolveBundleSource \/ ResolveFails \/ Load \/ LoadFails \/ ExtractFails
         \/ CompileFilter \/ FilterFails \/ FilterEnds \/ CertManagerFails \/ CertManagerPanics
  PROVE  Jumps /\ UNCHANGED Rest
BY DEF ReportFails, FlagMissing, Unreadable, ReadFlags, ReadResourceList,
  ExtractFunctionConfig, ValidateNamespace, MakeTempDir, TempDirFails, ResolveBundleSource,
  ResolveFails, Load, LoadFails, ExtractFails, CompileFilter, FilterFails, FilterEnds,
  CertManagerFails, CertManagerPanics, GoTo, Fail, Jumps, Rest, Early

LEMMA ReportTypes ==
  ASSUME TypeOK, Stages, Report
  PROVE  TypeOK' /\ Stages'
BY DEF Report, TypeOK, Stages, Early, Unconfigured, Ended, inputVars, listVars, cmVars

LEMMA ExtractTypes ==
  ASSUME TypeOK, Stages, Extract
  PROVE  TypeOK' /\ Stages'
BY DEF Extract, TypeOK, Stages, Early, Unconfigured, Ended, inputVars, cmVars, outVars

LEMMA SkipFilterTypes ==
  ASSUME TypeOK, Stages, SkipFilter
  PROVE  TypeOK' /\ Stages'
BY DEF SkipFilter, TypeOK, Stages, Early, Unconfigured, Ended, inputVars, cmVars, outVars

LEMMA FilterObjectTypes ==
  ASSUME TypeOK, Stages, FilterObject
  PROVE  TypeOK' /\ Stages'
<1>1. /\ pc = "filter" /\ pc' = "filter" /\ pos \in DOMAIN objects /\ pos' = pos + 1
      /\ UNCHANGED <<request, bundle, objects, sorted, step, at, caller, issuer, result,
                     processed, output, errors>>
      /\ kept' = kept \/ kept' = Append(kept, objects[pos])
  BY DEF FilterObject, inputVars, cmVars, outVars
<1>2. objects \in Seq(Object) /\ kept \in Seq(Object)
  <2>1. bundle.objects \in Seq(Object) /\ objects \in {<<>>, bundle.objects}
        /\ kept \in Seq(Object)
    BY DEF TypeOK
  <2> QED
    BY <2>1, EmptyList, Zenon
<1>3. kept' \in Seq(Object) /\ pos' \in 1 .. Len(objects) + 1
  BY <1>1, <1>2
<1>4. TypeOK'
  BY <1>1, <1>3 DEF TypeOK, Ended
<1>5. Stages'
  BY <1>1 DEF Stages, Early, Unconfigured
<1> QED
  BY <1>4, <1>5

LEMMA SkipCertManagerTypes ==
  ASSUME TypeOK, Stages, SkipCertManager
  PROVE  TypeOK' /\ Stages'
BY DEF SkipCertManager, TypeOK, Stages, Early, Unconfigured, Ended, inputVars, listVars, outVars

\* Configure is called with fresh variables, so its types hold from the start.
LEMMA StartCertManagerTypes ==
  ASSUME TypeOK, Stages, StartCertManager
  PROVE  TypeOK' /\ Stages'
<1>1. /\ pc = "certificates" /\ pc' = "configure" /\ caller' = kept
      /\ UNCHANGED <<request, bundle, objects, kept, sorted, pos, step, at, issuer, result,
                     processed, output, errors>>
  BY DEF StartCertManager, inputVars, listVars, outVars
<1>2. /\ step = "start" /\ at = 1 /\ result = <<>> /\ processed = {}
      /\ issuer = [name |-> NoName, kind |-> ""] /\ output = <<>> /\ errors = 0
  BY <1>1 DEF Stages, Unconfigured
<1>3. issuer \in IssuerRef
  <2>1. "" \in STRING /\ NoName \in Name
    BY LiteralsAreStrings, EmptyList
  <2> QED
    BY <1>2, <2>1 DEF IssuerRef
<1>4. kept \in Seq(Object) /\ Len(kept) \in Nat /\ Issuer \in IssuerRef
  BY IssuerType DEF TypeOK
<1>5. Issuer' = Issuer
  BY <1>1 DEF Issuer
<1>6. Configure!TypeOK'
  <2>1. Issuer' \in IssuerRef /\ issuer' \in IssuerRef
    BY <1>1, <1>3, <1>4, <1>5
  <2>2. /\ kept' \in Seq(Object) /\ step' = "start"
        /\ caller' \in Seq(Object) /\ Len(caller') = Len(kept') /\ at' \in 1 .. Len(kept') + 1
        /\ processed' \subseteq Name
    <3>1. /\ kept' = kept /\ caller' = kept /\ step' = "start" /\ at' = 1 /\ processed' = {}
      BY <1>1, <1>2
    <3>2. 1 \in 1 .. Len(kept) + 1
      BY <1>4
    <3> QED
      BY <1>4, <3>1, <3>2, Zenon
  <2>3. result' = <<>>
    BY <1>1, <1>2
  <2>4. result' \in Seq(Object)
    BY <2>3, EmptyList, Zenon
  <2> QED
    BY <2>1, <2>2, <2>4, SameObjects, SameSpecs DEF Configure!TypeOK, Configure!Terminal
<1>7. TypeOK'
  BY <1>1, <1>2, <1>6 DEF TypeOK, Ended
<1>8. Stages'
  BY <1>1, <1>2 DEF Stages, Early, Unconfigured
<1> QED
  BY <1>7, <1>8

LEMMA CertManagerStepTypes ==
  ASSUME TypeOK, Stages, CertManagerStep
  PROVE  TypeOK' /\ Stages'
<1>1. /\ pc = "configure" /\ Configure!Next
      /\ UNCHANGED <<request, bundle, pc, objects, kept, sorted, pos, output, errors>>
  BY DEF CertManagerStep, inputVars, listVars, outVars
<1>2. Configure!TypeOK'
  BY <1>1, ConfigureStepTypes DEF TypeOK
<1>3. TypeOK'
  BY <1>1, <1>2 DEF TypeOK, Ended
<1>4. Stages'
  BY <1>1 DEF Stages, Early, Unconfigured
<1> QED
  BY <1>3, <1>4

LEMMA CertManagerEndsTypes ==
  ASSUME TypeOK, Stages, CertManagerEnds
  PROVE  TypeOK' /\ Stages'
<1>1. /\ pc = "configure" /\ pc' = "sort"
      /\ UNCHANGED <<request, bundle, objects, kept, sorted, pos, step, at, caller, issuer,
                     result, processed, output, errors>>
  BY DEF CertManagerEnds, GoTo, inputVars, listVars, cmVars, outVars
<1>2. result \in Seq(Object)
  BY <1>1, ConfigureTypes DEF TypeOK
<1>3. TypeOK'
  BY <1>1 DEF TypeOK, Ended
<1>4. Stages'
  BY <1>1, <1>2 DEF Stages, Early, Unconfigured
<1> QED
  BY <1>3, <1>4

LEMMA SortTypes ==
  ASSUME TypeOK, Stages, Sort
  PROVE  TypeOK' /\ Stages'
<1>1. /\ pc = "sort" /\ pc' = "write" /\ sorted' = SortForApply(result) /\ pos' = 1
      /\ UNCHANGED <<request, bundle, objects, kept, step, at, caller, issuer, result,
                     processed, output, errors>>
  BY DEF Sort, inputVars, cmVars, outVars
<1>2. result \in Seq(Object) /\ output = <<>> /\ errors = 0
  BY <1>1 DEF Stages
<1>3. sorted' \in Seq(Object)
  BY <1>1, <1>2, SortForApplySorts
<1>4. pos' \in 1 .. Len(sorted') + 1
  BY <1>1, <1>3
<1>5. TypeOK'
  BY <1>1, <1>3, <1>4 DEF TypeOK, Ended
<1>6. Stages'
  BY <1>1, <1>2 DEF Stages, Early, Unconfigured, Out
<1> QED
  BY <1>5, <1>6

LEMMA WriteDocumentTypes ==
  ASSUME TypeOK, Stages, WriteDocument
  PROVE  TypeOK' /\ Stages' /\ output' = Append(output, sorted[pos]) /\ Out(pos - 1)
<1>1. /\ pc = "write" /\ pc' = "write" /\ pos \in DOMAIN sorted /\ pos' = pos + 1
      /\ request.front = "run" /\ output' = Append(output, sorted[pos])
      /\ UNCHANGED <<request, bundle, objects, kept, sorted, step, at, caller, issuer, result,
                     processed, errors>>
  BY DEF WriteDocument, inputVars, listVars, cmVars
<1>2. /\ sorted \in Seq(Object) /\ output \in Seq(Object) /\ Out(pos - 1)
      /\ pos \in 1 .. Len(sorted) + 1
  BY <1>1 DEF TypeOK, Stages
<1>3. output' \in Seq(Object) /\ pos' \in 1 .. Len(sorted') + 1
  BY <1>1, <1>2
<1>4. Out(pos - 1)'
  <2>1. Len(output) = pos - 1 /\ Len(output') = pos /\ pos' - 1 = pos
    BY <1>1, <1>2 DEF Out
  <2>2. \A i \in 1 .. pos : output'[i] = sorted[i]
    BY <1>1, <1>2 DEF Out
  <2> QED
    BY <1>1, <2>1, <2>2 DEF Out
<1>5. TypeOK'
  BY <1>1, <1>3 DEF TypeOK, Ended
<1>6. Stages'
  BY <1>1, <1>4 DEF Stages, Early, Unconfigured
<1> QED
  BY <1>1, <1>2, <1>5, <1>6

\* The writing stops, in the middle or at the end.
LEMMA WriteStopsTypes ==
  ASSUME TypeOK, Stages, WriteFails \/ WriteEnds \/ WriteListFails
  PROVE  TypeOK' /\ Stages' /\ UNCHANGED Rest
<1>1. /\ pc = "write"
      /\ \/ pc' = "cutShort"
         \/ pc' = "done" /\ request.front = "run" /\ pos = Len(sorted) + 1
      /\ UNCHANGED <<request, bundle, objects, kept, sorted, pos, step, at, caller, issuer, result,
                     processed, output, errors>>
      /\ UNCHANGED Rest
  BY DEF WriteFails, WriteEnds, WriteListFails, GoTo, inputVars, listVars, cmVars, outVars, Rest
<1>2. /\ sorted \in Seq(Object) /\ output \in Seq(Object) /\ pos \in 1 .. Len(sorted) + 1
      /\ IF request.front = "run" THEN Out(pos - 1) ELSE output = <<>>
  BY <1>1 DEF TypeOK, Stages
<1>3. TypeOK'
  BY <1>1 DEF TypeOK, Ended
<1>4. \E n \in 0 .. Len(sorted) : Out(n)
  <2>1. CASE request.front = "run"
    BY <1>2, <2>1
  <2>2. CASE request.front # "run"
    BY <1>2, <2>2, EmptyList DEF Out
  <2> QED
    BY <2>1, <2>2
<1>5. (\E n \in 0 .. Len(sorted) : Out(n))'
  BY <1>1, <1>4 DEF Out
<1>6. pc' = "done" => output = sorted
  BY <1>1, <1>2 DEF Out
<1>7. Stages'
  BY <1>1, <1>5, <1>6 DEF Stages, Early, Unconfigured
<1> QED
  BY <1>1, <1>3, <1>7

LEMMA WriteResourceListTypes ==
  ASSUME TypeOK, Stages, WriteResourceList
  PROVE  TypeOK' /\ Stages'
BY DEF WriteResourceList, TypeOK, Stages, Early, Unconfigured, Ended, inputVars, listVars, cmVars

LEMMA NextTypeOK == TypeOK /\ Stages /\ [Next]_vars => TypeOK' /\ Stages'
<1> SUFFICES ASSUME TypeOK, Stages, [Next]_vars PROVE TypeOK' /\ Stages'
  OBVIOUS
<1>1. CASE UNCHANGED vars
  <2>1. Configure!TypeOK' <=> Configure!TypeOK
    BY <1>1 DEF vars, Configure!TypeOK, Issuer
  <2>2. TypeOK'
    BY <1>1, <2>1 DEF vars, TypeOK
  <2>3. \A n : Out(n)' <=> Out(n)
    BY <1>1 DEF vars, Out
  <2>4. Stages'
    BY <1>1, <2>3 DEF vars, Stages
  <2> QED
    BY <2>2, <2>4
<1>2. CASE \/ ReportFails \/ FlagMissing \/ Unreadable \/ ReadFlags \/ ReadResourceList
           \/ ExtractFunctionConfig \/ ValidateNamespace \/ MakeTempDir \/ TempDirFails
           \/ ResolveBundleSource \/ ResolveFails \/ Load \/ LoadFails \/ ExtractFails
           \/ CompileFilter \/ FilterFails \/ FilterEnds \/ CertManagerFails \/ CertManagerPanics
  BY <1>2, JumpSteps, JumpTypes
<1>3. CASE Report
  BY <1>3, ReportTypes
<1>4. CASE Extract
  BY <1>4, ExtractTypes
<1>5. CASE SkipFilter
  BY <1>5, SkipFilterTypes
<1>6. CASE FilterObject
  BY <1>6, FilterObjectTypes
<1>7. CASE SkipCertManager
  BY <1>7, SkipCertManagerTypes
<1>8. CASE StartCertManager
  BY <1>8, StartCertManagerTypes
<1>9. CASE CertManagerStep
  BY <1>9, CertManagerStepTypes
<1>10. CASE CertManagerEnds
  BY <1>10, CertManagerEndsTypes
<1>11. CASE Sort
  BY <1>11, SortTypes
<1>12. CASE WriteDocument
  BY <1>12, WriteDocumentTypes
<1>13. CASE WriteFails \/ WriteEnds \/ WriteListFails
  BY <1>13, WriteStopsTypes
<1>14. CASE WriteResourceList
  BY <1>14, WriteResourceListTypes
<1> QED
  BY <1>1, <1>2, <1>3, <1>4, <1>5, <1>6, <1>7, <1>8, <1>9, <1>10, <1>11, <1>12, <1>13, <1>14
     DEF Next

LEMMA Typed == Spec => [](TypeOK /\ Stages)
BY InitTypeOK, NextTypeOK, PTL DEF Spec

\* Whatever the invocation, every list of the pipeline holds manifests, the loops
\* of the filter, of cert-manager and of the output stay in range, and the output
\* is made of manifests or is the list that was read.
THEOREM TypeCorrect == Spec => []TypeOK
BY Typed, PTL

-----------------------------------------------------------------------------
(* The filter.  The verdict on a manifest is that of the expressions taken    *)
(* together, and the loop keeps the manifests it lets in, in their order.     *)

LEMMA StreamVerdict ==
  ASSUME NEW expr, NEW obj, Run(expr, obj) \in Seq(Results)
  PROVE  /\ matchesQuery(expr, obj) \in Verdicts
         /\ matchesQuery(expr, obj) = "true" => Yields(expr, obj, "true")
         /\ matchesQuery(expr, obj) = "no" => ~Yields(expr, obj, "true")
<1> DEFINE stream == Run(expr, obj)
           decisive == {i \in DOMAIN stream : stream[i] # "other"}
<1>1. CASE decisive = {}
  <2>1. matchesQuery(expr, obj) = "no"
    BY <1>1 DEF matchesQuery
  <2>2. ~Yields(expr, obj, "true")
    BY <1>1 DEF Yields
  <2> QED
    BY <2>1, <2>2 DEF Verdicts
<1>2. CASE decisive # {}
  <2>1. decisive \in SUBSET Nat
    OBVIOUS
  <2>2. Earliest(decisive) \in decisive
    <3> HIDE DEF decisive
    <3> QED
      BY <1>2, <2>1, EarliestIsFirst
  <2>3. matchesQuery(expr, obj) = stream[Earliest(decisive)]
    BY <1>2 DEF matchesQuery
  <2>4. PICK i \in DOMAIN stream : matchesQuery(expr, obj) = stream[i] /\ stream[i] # "other"
    BY <2>2, <2>3
  <2>5. stream[i] \in {"true", "error"}
    BY <2>4 DEF Results
  <2> QED
    BY <2>4, <2>5 DEF Yields, Verdicts
<1> QED
  BY <1>1, <1>2

LEMMA ListVerdict ==
  ASSUME NEW exprs \in Seq(Expressions), NEW obj,
         \A expr \in Expressions : Run(expr, obj) \in Seq(Results)
  PROVE  /\ matchAny(exprs, obj) \in Verdicts
         /\ matchAny(exprs, obj) = "true" => Holds(exprs, obj)
         /\ matchAny(exprs, obj) = "no" => ~Holds(exprs, obj)
<1> DEFINE decisive == {i \in DOMAIN exprs : matchesQuery(exprs[i], obj) # "no"}
<1>1. ASSUME NEW i \in DOMAIN exprs
      PROVE  /\ matchesQuery(exprs[i], obj) \in Verdicts
             /\ matchesQuery(exprs[i], obj) = "true" => Yields(exprs[i], obj, "true")
             /\ matchesQuery(exprs[i], obj) = "no" => ~Yields(exprs[i], obj, "true")
  <2>1. exprs[i] \in Expressions
    OBVIOUS
  <2> QED
    BY <2>1, StreamVerdict
<1>2. CASE decisive = {}
  <2>1. matchAny(exprs, obj) = "no"
    BY <1>2 DEF matchAny
  <2>2. ~Holds(exprs, obj)
    BY <1>1, <1>2 DEF Holds
  <2> QED
    BY <2>1, <2>2 DEF Verdicts
<1>3. CASE decisive # {}
  <2>1. decisive \in SUBSET Nat
    OBVIOUS
  <2>2. Earliest(decisive) \in decisive
    <3> HIDE DEF decisive
    <3> QED
      BY <1>3, <2>1, EarliestIsFirst
  <2>3. matchAny(exprs, obj) = matchesQuery(exprs[Earliest(decisive)], obj)
    BY <1>3 DEF matchAny
  <2>4. PICK i \in DOMAIN exprs :
          matchAny(exprs, obj) = matchesQuery(exprs[i], obj) /\ matchesQuery(exprs[i], obj) # "no"
    BY <2>2, <2>3
  <2> QED
    BY <1>1, <2>4 DEF Holds
<1> QED
  BY <1>2, <1>3

\* A verdict other than an error is right about the expressions.
LEMMA VerdictIsSelection ==
  ASSUME NEW include \in Seq(Expressions), NEW exclude \in Seq(Expressions), NEW obj,
         \A expr \in Expressions : Run(expr, obj) \in Seq(Results),
         shouldInclude(include, exclude, obj) # "error"
  PROVE  Selected(include, exclude, obj) <=> shouldInclude(include, exclude, obj) = "true"
<1>1. /\ matchAny(exclude, obj) \in Verdicts
      /\ matchAny(exclude, obj) = "true" => Holds(exclude, obj)
      /\ matchAny(exclude, obj) = "no" => ~Holds(exclude, obj)
  BY ListVerdict
<1>2. /\ matchAny(include, obj) \in Verdicts
      /\ matchAny(include, obj) = "true" => Holds(include, obj)
      /\ matchAny(include, obj) = "no" => ~Holds(include, obj)
  BY ListVerdict
<1> QED
  BY <1>1, <1>2 DEF shouldInclude, Selected, Verdicts

LEMMA SelectionAppend ==
  ASSUME NEW S, NEW whole \in Seq(S), NEW list \in Seq(S), NEW n \in Nat,
         n + 1 \in DOMAIN whole, NEW P \in SUBSET (1 .. n), Selection(list, whole, P)
  PROVE  Selection(Append(list, whole[n + 1]), whole, P \cup {n + 1})
<1> DEFINE new == Append(list, whole[n + 1])
           Q == P \cup {n + 1}
           UpTo(T, p) == {q \in T : q =< p}
<1>1. IsFiniteSet(1 .. n)
  BY FS_Interval
<1>2. IsFiniteSet(P)
  BY <1>1, FS_Subset
<1>3. n + 1 \notin P
  OBVIOUS
<1>4. Cardinality(P) \in Nat /\ Cardinality(Q) = Cardinality(P) + 1
  BY <1>2, <1>3, FS_AddElement, FS_CardinalityType
<1>5. /\ Len(list) = Cardinality(P)
      /\ \A p \in P : list[Cardinality(UpTo(P, p))] = whole[p]
  BY DEF Selection
<1>6. /\ Len(new) = Len(list) + 1 /\ new[Len(list) + 1] = whole[n + 1]
      /\ \A i \in 1 .. Len(list) : new[i] = list[i]
  OBVIOUS
<1>7. ASSUME NEW p \in P
      PROVE  new[Cardinality(UpTo(Q, p))] = whole[p]
  <2>1. UpTo(Q, p) = UpTo(P, p) /\ UpTo(P, p) \in SUBSET P /\ p \in UpTo(P, p)
    OBVIOUS
  <2> HIDE DEF UpTo, Q, new
  <2>2. IsFiniteSet(UpTo(P, p)) /\ Cardinality(UpTo(P, p)) =< Cardinality(P)
    BY <1>2, <2>1, FS_Subset
  <2>3. Cardinality(UpTo(P, p)) \in Nat /\ Cardinality(UpTo(P, p)) # 0
    BY <2>1, <2>2, FS_CardinalityType, FS_EmptySet
  <2>4. Cardinality(UpTo(P, p)) \in 1 .. Len(list)
    BY <1>4, <1>5, <2>2, <2>3
  <2> QED
    BY <1>5, <1>6, <2>1, <2>4
<1>8. new[Cardinality(UpTo(Q, n + 1))] = whole[n + 1]
  <2>0. \A q \in Q : q =< n + 1
    OBVIOUS
  <2>1. UpTo(Q, n + 1) = Q
    <3> HIDE DEF Q
    <3> QED
      BY <2>0
  <2> HIDE DEF UpTo, Q, new
  <2> QED
    BY <1>4, <1>5, <1>6, <2>1
<1>9. Len(new) = Cardinality(Q)
  <2> HIDE DEF UpTo, Q, new
  <2> QED
    BY <1>4, <1>5, <1>6
<1>10. \A p \in Q : new[Cardinality(UpTo(Q, p))] = whole[p]
  BY <1>7, <1>8
<1> HIDE DEF Q, new
<1>11. Selection(new, whole, Q)
  BY <1>9, <1>10 DEF Selection
<1> QED
  BY <1>11 DEF Q, new

LEMMA SelectionOfAll ==
  ASSUME NEW S, NEW list \in Seq(S)
  PROVE  Selection(list, list, DOMAIN list)
<1> DEFINE D == 1 .. Len(list)
<1>1. DOMAIN list = D /\ Len(list) \in Nat
  OBVIOUS
<1>2. Len(list) = Cardinality(D)
  BY <1>1, FS_Interval
<1>3. ASSUME NEW p \in D
      PROVE  Cardinality({q \in D : q =< p}) = p
  <2>1. {q \in D : q =< p} = 1 .. p /\ p \in Nat
    OBVIOUS
  <2>2. Cardinality(1 .. p) = p
    BY <2>1, FS_Interval
  <2> QED
    BY <2>1, <2>2
<1> HIDE DEF D
<1> QED
  BY <1>1, <1>2, <1>3 DEF Selection

Passing(n) == {i \in 1 .. n : Selected(request.include, request.exclude, objects[i])}

FilterInv ==
  /\ pc = "filter" => Selection(kept, objects, Passing(pos - 1))
  /\ Filtered => Selection(kept, objects, Passing(Len(objects)))

LEMMA ListTypes ==
  ASSUME TypeOK
  PROVE  objects \in Seq(Object) /\ kept \in Seq(Object) /\ Len(objects) \in Nat
<1>1. bundle.objects \in Seq(Object) /\ objects \in {<<>>, bundle.objects}
      /\ kept \in Seq(Object)
  BY DEF TypeOK
<1>2. objects \in Seq(Object)
  BY <1>1, EmptyList, Zenon
<1> QED
  BY <1>1, <1>2

LEMMA FilterInvMeans ==
  ASSUME TypeOK, FilterInv
  PROVE  FilterMeansItsExpressions
<1>1. DOMAIN objects = 1 .. Len(objects)
  BY ListTypes
<1> QED
  BY <1>1 DEF FilterInv, FilterMeansItsExpressions, Passing

\* A step that leaves the three lists and the request alone.
LEMMA FilterStill ==
  ASSUME FilterInv, UNCHANGED <<request, objects, kept>>,
         pc' = "filter" => pc = "filter" /\ pos' = pos,
         Filtered' => Filtered
  PROVE  FilterInv'
<1>1. \A n : Passing(n)' = Passing(n)
  BY DEF Passing
<1>2. \A P : Selection(kept, objects, P)' <=> Selection(kept, objects, P)
  BY DEF Selection
<1>3. pc' = "filter" => Selection(kept, objects, Passing(pos - 1))'
  BY <1>1, <1>2 DEF FilterInv, Selection
<1>4. Filtered' => Selection(kept, objects, Passing(Len(objects)))'
  BY <1>1, <1>2 DEF FilterInv, Selection
<1> QED
  BY <1>3, <1>4 DEF FilterInv

LEMMA FilterStillSteps ==
  ASSUME Next, ~Extract, ~SkipFilter, ~CompileFilter, ~FilterObject, ~FilterEnds
  PROVE  /\ UNCHANGED <<request, objects, kept>>
         /\ pc' = "filter" => pc = "filter" /\ pos' = pos
         /\ Filtered' => Filtered
BY DEF Next, Report, ReportFails, FlagMissing, Unreadable, ReadFlags, ReadResourceList,
  ExtractFunctionConfig, ValidateNamespace, MakeTempDir, TempDirFails, ResolveBundleSource,
  ResolveFails, Load, LoadFails, ExtractFails, FilterFails, SkipCertManager, StartCertManager,
  CertManagerStep, CertManagerEnds, CertManagerFails, CertManagerPanics, Sort, WriteDocument,
  WriteFails, WriteEnds, WriteResourceList, WriteListFails, GoTo, Fail, Filtered, Planned,
  inputVars, listVars, cmVars, outVars

LEMMA SkipFilterInv ==
  ASSUME TypeOK, SkipFilter
  PROVE  FilterInv'
<1>1. /\ pc' = "certificates" /\ kept' = objects /\ objects' = objects /\ request' = request
      /\ request.include = <<>> /\ request.exclude = <<>>
  BY DEF SkipFilter, Filters, inputVars
<1>2. objects \in Seq(Object) /\ Len(objects) \in Nat
  BY ListTypes
<1>3. \A obj : Selected(request'.include, request'.exclude, obj)
  <2>1. \A obj : Selected(<<>>, <<>>, obj)
    BY DEF Selected, Holds
  <2> QED
    BY <1>1, <2>1, Zenon
<1>4. Passing(Len(objects))' = DOMAIN objects
  <2>1. Passing(Len(objects))' = 1 .. Len(objects')
    BY <1>3, Zenon DEF Passing
  <2>2. 1 .. Len(objects) = DOMAIN objects
    BY <1>2
  <2> QED
    BY <1>1, <2>1, <2>2, Zenon
<1>5. Selection(objects, objects, DOMAIN objects)
  BY <1>2, SelectionOfAll
<1>6. Selection(kept', objects', Passing(Len(objects))')
  BY <1>1, <1>4, <1>5
<1> QED
  BY <1>1, <1>6 DEF FilterInv

LEMMA CompileFilterInv ==
  ASSUME TypeOK, Stages, CompileFilter
  PROVE  FilterInv'
<1>1. /\ pc' \in {"filter", "failed", "report"}
      /\ kept' = <<>> /\ pos' = 1
  BY DEF CompileFilter, GoTo, Fail, Stages, listVars
<1>2. Passing(pos - 1)' = {}
  BY <1>1 DEF Passing
<1>3. Cardinality({}) = 0
  BY FS_EmptySet
<1>4. Selection(kept', objects', Passing(pos - 1)')
  BY <1>1, <1>2, <1>3, EmptyList DEF Selection
<1> QED
  BY <1>1, <1>4 DEF FilterInv, Filtered, Planned

LEMMA FilterObjectInv ==
  ASSUME TypeOK, Stages, FilterInv, FilterObject
  PROVE  FilterInv'
<1> DEFINE n == pos - 1
<1>1. /\ pc = "filter" /\ pc' = "filter" /\ pos \in DOMAIN objects /\ pos' = pos + 1
      /\ Verdict # "error" /\ UNCHANGED <<request, bundle, objects>>
      /\ kept' = IF Verdict = "true" THEN Append(kept, objects[pos]) ELSE kept
  BY DEF FilterObject, inputVars
<1>2. objects \in Seq(Object) /\ kept \in Seq(Object)
  BY ListTypes
<1>3. n \in Nat /\ n + 1 = pos /\ pos' - 1 = pos /\ n + 1 \in DOMAIN objects
  BY <1>1, <1>2
<1>4. \A expr \in Expressions : Run(expr, objects[pos]) \in Seq(Results)
  <2>1. objects = bundle.objects
    BY <1>1 DEF TypeOK
  <2> QED
    BY <1>1, <2>1 DEF Stages
<1>5. request.include \in Seq(Expressions) /\ request.exclude \in Seq(Expressions)
  BY DEF TypeOK, Request
<1>6. Selected(request.include, request.exclude, objects[pos]) <=> Verdict = "true"
  BY <1>1, <1>4, <1>5, VerdictIsSelection DEF Verdict
<1>7. Passing(n) \in SUBSET (1 .. n) /\ Selection(kept, objects, Passing(n))
  BY <1>1 DEF FilterInv, Passing
<1>8. Passing(pos - 1)' = Passing(pos)
  BY <1>1, <1>3 DEF Passing
<1>9. CASE Verdict = "true"
  <2>1. Passing(pos) = Passing(n) \cup {n + 1}
    BY <1>3, <1>6, <1>9 DEF Passing
  <2>2. Selection(Append(kept, objects[n + 1]), objects, Passing(n) \cup {n + 1})
    <3> HIDE DEF n
    <3> QED
      BY <1>2, <1>3, <1>7, SelectionAppend
  <2>3. kept' = Append(kept, objects[n + 1])
    BY <1>1, <1>3, <1>9
  <2>4. Selection(kept', objects', Passing(pos - 1)')
    BY <1>1, <1>8, <2>1, <2>2, <2>3, Zenon
  <2> QED
    BY <1>1, <2>4 DEF FilterInv, Filtered, Planned
<1>10. CASE Verdict # "true"
  <2>1. Passing(pos) = Passing(n)
    BY <1>3, <1>6, <1>10 DEF Passing
  <2>2. Selection(kept', objects', Passing(pos - 1)')
    BY <1>1, <1>7, <1>8, <1>10, <2>1, Zenon
  <2> QED
    BY <1>1, <2>2 DEF FilterInv, Filtered, Planned
<1> QED
  BY <1>9, <1>10

LEMMA FilterEndsInv ==
  ASSUME TypeOK, FilterInv, FilterEnds
  PROVE  FilterInv'
<1>1. /\ pc = "filter" /\ pc' = "certificates" /\ pos = Len(objects) + 1
      /\ UNCHANGED <<request, objects, kept>>
  BY DEF FilterEnds, GoTo, inputVars, listVars
<1>2. Len(objects) = pos - 1
  BY <1>1, ListTypes
<1>3. Passing(Len(objects))' = Passing(pos - 1)
  BY <1>1, <1>2 DEF Passing
<1>4. Selection(kept', objects', Passing(Len(objects))')
  BY <1>1, <1>3 DEF FilterInv
<1> QED
  BY <1>1, <1>4 DEF FilterInv

LEMMA NextFilterInv ==
  TypeOK /\ Stages /\ FilterInv /\ [Next]_vars => FilterInv'
<1> SUFFICES ASSUME TypeOK, Stages, FilterInv, [Next]_vars PROVE FilterInv'
  OBVIOUS
<1>1. CASE UNCHANGED vars
  BY <1>1, FilterStill DEF vars, Filtered, Planned
<1>2. CASE Extract
  BY <1>2 DEF Extract, FilterInv, Filtered, Planned
<1>3. CASE SkipFilter
  BY <1>3, SkipFilterInv
<1>4. CASE CompileFilter
  BY <1>4, CompileFilterInv
<1>5. CASE FilterObject
  BY <1>5, FilterObjectInv
<1>6. CASE FilterEnds
  BY <1>6, FilterEndsInv
<1>7. CASE Next /\ ~Extract /\ ~SkipFilter /\ ~CompileFilter /\ ~FilterObject /\ ~FilterEnds
  BY <1>7, FilterStillSteps, FilterStill
<1> QED
  BY <1>1, <1>2, <1>3, <1>4, <1>5, <1>6, <1>7

LEMMA FilterInductive == Spec => [](TypeOK /\ FilterInv)
<1>1. Init => FilterInv
  BY DEF Init, FilterInv, Filtered, Planned
<1> QED
  BY <1>1, NextFilterInv, Typed, PTL DEF Spec

\* Whatever the expressions are and in whatever order they and their results come,
\* the filter keeps exactly the manifests that no exclude expression holds for and,
\* when there are include expressions, one of them does, in the bundle's order; an
\* error never lets a manifest in or out (Matches, applyFilters).
THEOREM FilterIsFaithful == Spec => []FilterMeansItsExpressions
BY FilterInductive, FilterInvMeans, PTL

-----------------------------------------------------------------------------
(* The delivery.  What a caller sees of a state is one of: nothing planned,   *)
(* a list of which the first documents are out, all of it, or a refusal.      *)

Planning == IF Planned THEN {sorted} ELSE {}
Seen == IF errors = 0 THEN output ELSE <<>>
Told == CASE pc = "done" -> "delivered"
          [] pc \in {"failed", "reported", "cutShort", "panicked"} -> "refused"
          [] OTHER -> "working"

LEMMA ToldIsOutcome ==
  ASSUME TypeOK, Stages
  PROVE  Told = CASE LooksDone -> "delivered"
                  [] ~LooksDone /\ pc \in Ended -> "refused"
                  [] OTHER -> "working"
<1>1. errors = IF pc = "reported" THEN 1 ELSE 0
  BY DEF Stages
<1>2. LooksDone <=> pc = "done"
  BY <1>1 DEF LooksDone
<1>3. pc \in Ended <=> pc \in {"done", "failed", "reported", "cutShort", "panicked"}
  BY DEF Ended
<1> QED
  BY <1>2, <1>3 DEF Told

LEMMA ToldIsOutcomePrimed ==
  ASSUME TypeOK', Stages'
  PROVE  Told' = (CASE LooksDone -> "delivered"
                    [] ~LooksDone /\ pc \in Ended -> "refused"
                    [] OTHER -> "working")'
<1>1. errors' = IF pc' = "reported" THEN 1 ELSE 0
  BY DEF Stages
<1>2. LooksDone' <=> pc' = "done"
  BY <1>1 DEF LooksDone
<1>3. pc' \in Ended <=> pc' \in {"done", "failed", "reported", "cutShort", "panicked"}
  BY DEF Ended
<1> QED
  BY <1>2, <1>3 DEF Told

PromisedGrowth ==
  Promise!Begins(Seen, Seen') /\ \E list \in Planning : Promise!Begins(Seen', list)

PromisedStep ==
  \/ UNCHANGED <<Planning, Seen, Told>>
  \/ /\ Told = "working" /\ Planning = {} /\ \E list \in Planning' : Planning' = {list}
     /\ UNCHANGED <<Seen, Told>>
  \/ Told = "working" /\ PromisedGrowth /\ UNCHANGED <<Planning, Told>>
  \/ /\ Told = "working" /\ Told' = "delivered" /\ PromisedGrowth
     /\ \E list \in Planning : Len(Seen') = Len(list)
     /\ UNCHANGED Planning
  \/ Told = "working" /\ Told' = "refused" /\ UNCHANGED <<Planning, Seen>>

LEMMA PromisedStepKeepsPromise ==
  ASSUME TypeOK, Stages, TypeOK', Stages', PromisedStep
  PROVE  [Promise!Next]_(Promise!vars)
BY ToldIsOutcome, ToldIsOutcomePrimed, Zenon
   DEF PromisedStep, PromisedGrowth, Planning, Seen, Promise!Next, Promise!vars, Promise!Plan,
       Promise!Write, Promise!Deliver, Promise!Refuse, Promise!Grows

\* Nothing is planned before the sort, and nothing is out before the writing.
Unplanned == pc \in Unconfigured \cup {"configure", "sort", "report"}

LEMMA UnplannedSeesNothing ==
  ASSUME Stages, Unplanned
  PROVE  Planning = {} /\ Seen = <<>> /\ Told = "working"
BY DEF Stages, Unplanned, Unconfigured, Early, Planning, Planned, Seen, Told

LEMMA JumpPromised ==
  ASSUME TypeOK, Stages, TypeOK', Stages', Jumps, UNCHANGED Rest, pc \notin Ended
  PROVE  PromisedStep
<1>1. output' = output /\ errors' = errors /\ sorted' = sorted
  BY DEF Rest, listVars, outVars
<1>2. Unplanned
  BY DEF TypeOK, Jumps, Unplanned, Unconfigured, Early, Ended
<1>3. Planning = {} /\ Seen = <<>> /\ Told = "working"
  BY <1>2, UnplannedSeesNothing
<1>4. Seen' = Seen
  BY <1>1 DEF Seen
<1>5. Planning' = {} /\ Told' \in {"working", "refused"}
  BY DEF Jumps, Early, Planning, Planned, Told
<1> QED
  BY <1>3, <1>4, <1>5 DEF PromisedStep

\* A step between two phases in which nothing is planned.
LEMMA SilentPromised ==
  ASSUME Stages, Stages', Unplanned, Unplanned'
  PROVE  PromisedStep
<1>1. Planning = {} /\ Seen = <<>> /\ Told = "working"
  BY UnplannedSeesNothing
<1>2. Planning' = {} /\ Seen' = <<>> /\ Told' = "working"
  BY DEF Stages, Unplanned, Unconfigured, Early, Planning, Planned, Seen, Told
<1> QED
  BY <1>1, <1>2 DEF PromisedStep

LEMMA SilentSteps ==
  ASSUME \/ Extract \/ SkipFilter \/ FilterObject \/ SkipCertManager \/ StartCertManager
         \/ CertManagerStep \/ CertManagerEnds
  PROVE  Unplanned /\ Unplanned'
BY DEF Extract, SkipFilter, FilterObject, SkipCertManager, StartCertManager, CertManagerStep,
  CertManagerEnds, GoTo, Unplanned, Unconfigured, Early

\* The results of the list tell of the failure.
LEMMA ReportPromised ==
  ASSUME TypeOK, Stages, Report
  PROVE  PromisedStep
<1>1. pc = "report" /\ pc' = "reported" /\ errors' = 1
  BY DEF Report
<1>2. Planning = {} /\ Seen = <<>> /\ Told = "working"
  BY <1>1, UnplannedSeesNothing DEF Unplanned
<1>3. Planning' = {} /\ Seen' = <<>> /\ Told' = "refused"
  BY <1>1 DEF Planning, Planned, Seen, Told
<1> QED
  BY <1>2, <1>3 DEF PromisedStep

LEMMA SortPromised ==
  ASSUME TypeOK, Stages, Sort
  PROVE  PromisedStep
<1>1. pc = "sort" /\ pc' = "write" /\ output' = output /\ errors' = errors
  BY DEF Sort, outVars
<1>2. Planning = {} /\ Seen = <<>> /\ Told = "working"
  BY <1>1, UnplannedSeesNothing DEF Unplanned
<1>3. Planning' = {sorted'} /\ Seen' = Seen /\ Told' = "working"
  BY <1>1 DEF Planning, Planned, Seen, Told
<1> QED
  BY <1>2, <1>3 DEF PromisedStep

LEMMA WriteDocumentPromised ==
  ASSUME TypeOK, Stages, WriteDocument
  PROVE  PromisedStep
<1>1. /\ pc = "write" /\ pc' = "write" /\ sorted' = sorted /\ errors' = errors
      /\ pos \in DOMAIN sorted
  BY DEF WriteDocument, listVars
<1>2. output' = Append(output, sorted[pos]) /\ Out(pos - 1)
  BY WriteDocumentTypes
<1>3. output \in Seq(Object) /\ sorted \in Seq(Object) /\ errors = 0
  BY <1>1 DEF TypeOK, Stages
<1>4. Seen = output /\ Seen' = output' /\ Planning = {sorted} /\ Planning' = Planning
      /\ Told = "working" /\ Told' = Told
  BY <1>1, <1>3 DEF Seen, Planning, Planned, Told
<1>5. Promise!Begins(output, output') /\ Promise!Begins(output', sorted)
  BY <1>1, <1>2, <1>3 DEF Out, Promise!Begins
<1> QED
  BY <1>4, <1>5 DEF PromisedStep, PromisedGrowth

LEMMA WriteStopsPromised ==
  ASSUME TypeOK, Stages, WriteFails \/ WriteEnds \/ WriteListFails
  PROVE  PromisedStep
<1>1. /\ pc = "write"
      /\ \/ pc' = "cutShort"
         \/ pc' = "done" /\ request.front = "run" /\ pos = Len(sorted) + 1
      /\ UNCHANGED <<sorted, output, errors>>
  BY DEF WriteFails, WriteEnds, WriteListFails, GoTo, listVars, outVars
<1>2. output \in Seq(Object) /\ sorted \in Seq(Object) /\ errors = 0
  BY <1>1 DEF TypeOK, Stages
<1>3. Seen = output /\ Seen' = output /\ Planning = {sorted} /\ Planning' = Planning
      /\ Told = "working"
  BY <1>1, <1>2 DEF Seen, Planning, Planned, Told
<1>4. CASE pc' = "cutShort"
  BY <1>3, <1>4 DEF PromisedStep, Told
<1>5. CASE pc' = "done" /\ request.front = "run" /\ pos = Len(sorted) + 1
  <2>0. Out(pos - 1)
    BY <1>1, <1>5, Zenon DEF Stages
  <2>9. Len(sorted) \in Nat /\ pos - 1 = Len(sorted)
    BY <1>2, <1>5
  <2>1. Len(output) = Len(sorted) /\ \A i \in 1 .. Len(sorted) : output[i] = sorted[i]
    BY <2>0, <2>9 DEF Out
  <2>2. Promise!Begins(output, output) /\ Promise!Begins(output, sorted)
    BY <1>2, <2>1 DEF Promise!Begins
  <2>3. Told' = "delivered"
    BY <1>5 DEF Told
  <2> QED
    BY <1>3, <2>1, <2>2, <2>3 DEF PromisedStep, PromisedGrowth
<1> QED
  BY <1>1, <1>4, <1>5

LEMMA WriteResourceListPromised ==
  ASSUME TypeOK, Stages, WriteResourceList
  PROVE  PromisedStep
<1>1. /\ pc = "write" /\ pc' = "done" /\ output' = sorted /\ request.front = "krm"
      /\ UNCHANGED <<sorted, errors>>
  BY DEF WriteResourceList, listVars
<1>2. output = <<>> /\ sorted \in Seq(Object) /\ errors = 0
  BY <1>1 DEF TypeOK, Stages
<1>3. Seen = <<>> /\ Seen' = sorted /\ Planning = {sorted} /\ Planning' = Planning
      /\ Told = "working" /\ Told' = "delivered"
  BY <1>1, <1>2 DEF Seen, Planning, Planned, Told
<1>4. Promise!Begins(<<>>, sorted) /\ Promise!Begins(sorted, sorted)
  BY <1>2, EmptyList DEF Promise!Begins
<1> QED
  BY <1>3, <1>4 DEF PromisedStep, PromisedGrowth

LEMMA NextPromised ==
  TypeOK /\ Stages /\ [Next]_vars => [Promise!Next]_(Promise!vars)
<1> SUFFICES ASSUME TypeOK, Stages, [Next]_vars PROVE [Promise!Next]_(Promise!vars)
  OBVIOUS
<1>0. TypeOK' /\ Stages'
  BY NextTypeOK
<1>1. CASE UNCHANGED vars
  BY <1>1 DEF vars, Promise!vars, Planned, LooksDone
<1>2. CASE \/ ReportFails \/ FlagMissing \/ Unreadable \/ ReadFlags \/ ReadResourceList
           \/ ExtractFunctionConfig \/ ValidateNamespace \/ MakeTempDir \/ TempDirFails
           \/ ResolveBundleSource \/ ResolveFails \/ Load \/ LoadFails \/ ExtractFails
           \/ CompileFilter \/ FilterFails \/ FilterEnds \/ CertManagerFails \/ CertManagerPanics
  <2>1. Jumps /\ UNCHANGED Rest
    BY <1>2, JumpSteps
  <2>2. pc \notin Ended
    BY <1>2 DEF ReportFails, FlagMissing, Unreadable, ReadFlags, ReadResourceList,
      ExtractFunctionConfig, ValidateNamespace, MakeTempDir, TempDirFails, ResolveBundleSource,
      ResolveFails, Load, LoadFails, ExtractFails, CompileFilter, FilterFails, FilterEnds,
      CertManagerFails, CertManagerPanics, Ended
  <2> QED
    BY <1>0, <2>1, <2>2, JumpPromised, PromisedStepKeepsPromise
<1>3. CASE Report
  BY <1>0, <1>3, ReportPromised, PromisedStepKeepsPromise
<1>4. CASE \/ Extract \/ SkipFilter \/ FilterObject \/ SkipCertManager \/ StartCertManager
           \/ CertManagerStep \/ CertManagerEnds
  BY <1>0, <1>4, SilentSteps, SilentPromised, PromisedStepKeepsPromise
<1>5. CASE Sort
  BY <1>0, <1>5, SortPromised, PromisedStepKeepsPromise
<1>6. CASE WriteDocument
  BY <1>0, <1>6, WriteDocumentPromised, PromisedStepKeepsPromise
<1>7. CASE WriteFails \/ WriteEnds \/ WriteListFails
  BY <1>0, <1>7, WriteStopsPromised, PromisedStepKeepsPromise
<1>8. CASE WriteResourceList
  BY <1>0, <1>8, WriteResourceListPromised, PromisedStepKeepsPromise
<1> QED
  BY <1>1, <1>2, <1>3, <1>4, <1>5, <1>6, <1>7, <1>8 DEF Next

LEMMA InitPromised == Init => Promise!Init
BY DEF Init, Promise!Init, Planned, LooksDone, Ended

\* Whatever the invocation and whatever fails, the pipeline keeps the delivery's
\* promise: a caller that is not told of a failure has got the whole list front to
\* back, and one that is told has got no generated document, or with `run' the first
\* few of the list (execute, Execute).
THEOREM DeliveryIsKept == Spec => DeliversOrRefuses
<1>1. Spec => Promise!Init /\ [][Promise!Next]_(Promise!vars)
  BY InitPromised, NextPromised, Typed, PTL DEF Spec
<1> QED
  BY <1>1 DEF DeliversOrRefuses, Promise!Spec

-----------------------------------------------------------------------------
(* The order of what is applied.  Configure gathers for every webhook what it *)
(* needs, in an order of its own; the sort puts it in front of the webhook.   *)

Backed ==
  /\ \A w \in DOMAIN result : Configure!NeedsService(result[w]) =>
       /\ \E j \in DOMAIN result :
            IsKind(result[j], ServiceGVK) /\ result[j].name = ServiceOf(result[w])
       /\ \E c \in DOMAIN result : Configure!Certifies(result[c], result[w], issuer)
  /\ Configure!SelfSigned(Issuer) =>
       \E k \in DOMAIN result : IsKind(result[k], IssuerGVK) /\ result[k].name = issuer.name

OrderInv ==
  /\ pc = "configure" => Configure!IInv /\ Configure!ServedAreProcessed
  /\ pc = "sort" /\ Enabled /\ Configure!HasWebhooks(kept) => Backed
  /\ AppliesFrontToBack

\* A new call of Configure meets its invariant.
LEMMA StartOrder ==
  ASSUME TypeOK, Stages, StartCertManager
  PROVE  OrderInv'
<1>1. /\ pc = "certificates" /\ pc' = "configure" /\ caller' = kept /\ kept' = kept
      /\ step' = step /\ result' = result /\ processed' = processed
  BY DEF StartCertManager, listVars
<1>2. step' = "start" /\ result' = <<>> /\ processed' = {}
  BY <1>1 DEF Stages, Unconfigured
<1>3. Configure!TypeOK'
  BY <1>1, StartCertManagerTypes DEF TypeOK
<1>4. Configure!StartFresh' /\ Configure!ResultIsGathered'
  BY <1>1, <1>2 DEF Configure!StartFresh, Configure!ResultIsGathered
<1>5. Configure!CertificateChain' /\ Configure!OncePerService'
  BY <1>2 DEF Configure!CertificateChain, Configure!OncePerService
<1>6. Configure!ServedAreProcessed'
  BY <1>2 DEF Configure!ServedAreProcessed
<1> QED
  BY <1>1, <1>3, <1>4, <1>5, <1>6
     DEF Configure!IInv, OrderInv, AppliesFrontToBack, Webhooked, Planned

LEMMA ConfigureOrder ==
  ASSUME OrderInv, CertManagerStep
  PROVE  OrderInv'
<1>1. pc = "configure" /\ pc' = "configure" /\ Configure!Next
  BY DEF CertManagerStep
<1>2. Configure!IInv /\ Configure!ServedAreProcessed
  BY <1>1 DEF OrderInv
<1>3. {} \subseteq Seq(Configure!Object) /\ {} \subseteq Configure!IssuerRef
  OBVIOUS
<1>4. Configure!IInv'
  BY <1>1, <1>2, <1>3, Configure!NextIInv, KeywordsAssumption, LiteralsAreStrings, Zenon
<1>5. Configure!ServedAreProcessed'
  BY <1>1, <1>2, <1>3, Configure!NextServedAreProcessed, KeywordsAssumption,
     LiteralsAreStrings, Zenon
<1> QED
  BY <1>1, <1>4, <1>5 DEF OrderInv, AppliesFrontToBack, Webhooked, Planned

\* What Configure delivers holds for every webhook what it needs.
LEMMA DeliveredIsBacked ==
  ASSUME Configure!IInv, Configure!ServedAreProcessed, step = "done",
         Configure!HasWebhooks(kept)
  PROVE  Backed
<1>1. /\ Configure!Chained(result, issuer)
      /\ Configure!SelfSigned(Issuer) =>
           result # <<>> /\ Configure!Is(result[1], Configure!IssuerGVK, issuer.name)
  BY DEF Configure!IInv, Configure!CertificateChain
<1>2. Configure!Settled(result, processed)
  BY DEF Configure!ServedAreProcessed
<1>3. \A s \in processed :
        Configure!OnlyOne(Configure!KindNamed(result, Configure!ServiceGVK, s))
  BY DEF Configure!IInv, Configure!OncePerService
<1>4. result \in Seq(Object)
  BY ConfigureTypes DEF Configure!IInv
<1>5. ASSUME NEW w \in DOMAIN result, Configure!NeedsService(result[w])
      PROVE  \E j \in DOMAIN result :
               IsKind(result[j], ServiceGVK) /\ result[j].name = ServiceOf(result[w])
  <2>1. ServiceOf(result[w]) \in processed
    BY <1>2, <1>5, SamePredicates, Zenon DEF Configure!Settled
  <2>2. PICK j : j \in Configure!KindNamed(result, Configure!ServiceGVK, ServiceOf(result[w]))
    BY <1>3, <2>1, Zenon DEF Configure!OnlyOne
  <2>3. /\ j \in DOMAIN result /\ Configure!IsKind(result[j], Configure!ServiceGVK)
        /\ result[j].name = ServiceOf(result[w])
    BY <2>2, Zenon DEF Configure!KindNamed
  <2> QED
    BY <2>3, SamePredicates, SameGVKs, Zenon
<1>6. ASSUME NEW w \in DOMAIN result, Configure!NeedsService(result[w])
      PROVE  \E c \in DOMAIN result : Configure!Certifies(result[c], result[w], issuer)
  <2>1. PICK c \in 1 .. w - 1 : Configure!Certifies(result[c], result[w], issuer)
    BY <1>1, <1>6, Zenon DEF Configure!Chained
  <2>2. c \in DOMAIN result
    BY <1>4
  <2> QED
    BY <2>1, <2>2
<1>7. ASSUME Configure!SelfSigned(Issuer)
      PROVE  \E k \in DOMAIN result : IsKind(result[k], IssuerGVK) /\ result[k].name = issuer.name
  <2>1. 1 \in DOMAIN result
    BY <1>1, <1>4, <1>7, FirstElement
  <2>2. result[1].gvk = IssuerGVK /\ result[1].name = issuer.name
    BY <1>1, <1>7, SameGVKs, Zenon DEF Configure!Is
  <2>3. IsKind(result[1], IssuerGVK)
    BY <2>2, Zenon DEF IsKind
  <2> QED
    BY <2>1, <2>2, <2>3
<1> QED
  BY <1>5, <1>6, <1>7 DEF Backed

LEMMA EndsOrder ==
  ASSUME OrderInv, CertManagerEnds
  PROVE  OrderInv'
<1>1. /\ pc = "configure" /\ step = "done" /\ pc' = "sort"
      /\ UNCHANGED <<request, kept, step, at, caller, issuer, result, processed>>
  BY DEF CertManagerEnds, GoTo, inputVars, listVars, cmVars
<1>2. Configure!HasWebhooks(kept) => Backed
  BY <1>1, DeliveredIsBacked DEF OrderInv
<1>3. Issuer' = Issuer
  BY <1>1 DEF Issuer
<1>4. Configure!HasWebhooks(kept)' => Backed'
  BY <1>1, <1>2, <1>3 DEF Backed
<1> QED
  BY <1>1, <1>4 DEF OrderInv, AppliesFrontToBack, Webhooked, Planned

LEMMA SortOrder ==
  ASSUME TypeOK, Stages, OrderInv, Sort
  PROVE  OrderInv'
<1>1. /\ pc = "sort" /\ pc' = "write" /\ sorted' = SortForApply(result)
      /\ UNCHANGED <<request, kept, issuer>>
  BY DEF Sort, inputVars, cmVars
<1>2. result \in Seq(Object)
  BY <1>1 DEF Stages
<1>3. Enabled' = Enabled /\ Issuer' = Issuer
  BY <1>1 DEF Enabled, Issuer
<1>4. SUFFICES ASSUME Webhooked', NEW w \in DOMAIN sorted', Configure!NeedsService(sorted'[w])
               PROVE  /\ Before(w, ServiceGVK, ServiceOf(sorted[w]))'
                      /\ \E c \in 1 .. w - 1 :
                           /\ Configure!Certifies(sorted'[c], sorted'[w], issuer')
                           /\ Configure!SelfSigned(Issuer') => Before(c, IssuerGVK, issuer.name)'
  BY <1>1 DEF OrderInv, AppliesFrontToBack
<1>5. Backed
  <2>1. Enabled' /\ Configure!HasWebhooks(kept)'
    BY <1>4 DEF Webhooked
  <2>2. Configure!HasWebhooks(kept)
    BY <1>1, <2>1
  <2> QED
    BY <1>1, <1>3, <2>1, <2>2 DEF OrderInv
<1> DEFINE target == SortForApply(result)
<1>6. /\ target \in Seq(Object) /\ Len(target) = Len(result)
      /\ \E from \in Bijection(DOMAIN result, DOMAIN result) :
           \A place \in DOMAIN result : target[place] = result[from[place]]
  BY <1>2, SortForApplySorts
<1>7. w \in DOMAIN target /\ Configure!NeedsService(target[w])
  BY <1>1, <1>4
<1>8. PICK i \in DOMAIN result : target[w] = result[i]
  <2>1. PICK from \in Bijection(DOMAIN result, DOMAIN result) :
          \A place \in DOMAIN result : target[place] = result[from[place]]
    BY <1>6
  <2>2. DOMAIN target = DOMAIN result
    BY <1>2, <1>6
  <2> HIDE DEF target
  <2> QED
    BY <1>7, <2>1, <2>2 DEF Bijection, Injection
<1>9. getUnstructuredPriority(target[w]) = 12
  <2>1. IsWebhookConfiguration(target[w])
    BY <1>7, SamePredicates, Zenon DEF Configure!NeedsService
  <2> QED
    BY <2>1, WebhookPriorities
<1>10. PICK s \in DOMAIN result :
         IsKind(result[s], ServiceGVK) /\ result[s].name = ServiceOf(result[i])
  BY <1>5, <1>7, <1>8 DEF Backed
<1>11. PICK c \in DOMAIN result : Configure!Certifies(result[c], result[i], issuer)
  BY <1>5, <1>7, <1>8 DEF Backed
<1>12. getUnstructuredPriority(result[s]) = 9 /\ getUnstructuredPriority(result[c]) = 11
  <2>1. IsKind(result[c], CertificateGVK)
    BY <1>11, SamePredicates, SameGVKs, Zenon DEF Configure!Certifies
  <2> QED
    BY <1>10, <2>1, WebhookPriorities
<1>13. PICK ps \in 1 .. w - 1 : target[ps] = result[s]
  BY <1>2, <1>7, <1>9, <1>12, SortedBefore
<1>14. PICK pcert \in 1 .. w - 1 : target[pcert] = result[c]
  BY <1>2, <1>7, <1>9, <1>12, SortedBefore
<1>15. Configure!SelfSigned(Issuer) =>
         \E k \in 1 .. pcert - 1 : IsKind(target[k], IssuerGVK) /\ target[k].name = issuer.name
  <2> SUFFICES ASSUME Configure!SelfSigned(Issuer)
               PROVE  \E k \in 1 .. pcert - 1 :
                        IsKind(target[k], IssuerGVK) /\ target[k].name = issuer.name
    OBVIOUS
  <2>1. PICK k \in DOMAIN result : IsKind(result[k], IssuerGVK) /\ result[k].name = issuer.name
    BY <1>5 DEF Backed
  <2>2. getUnstructuredPriority(result[k]) = 10
    BY <2>1, WebhookPriorities
  <2>3. pcert \in DOMAIN target
    BY <1>6, <1>7, <1>14
  <2>4. getUnstructuredPriority(target[pcert]) = 11
    BY <1>12, <1>14
  <2>5. PICK q \in 1 .. pcert - 1 : target[q] = result[k]
    BY <1>2, <2>2, <2>3, <2>4, SortedBefore
  <2> QED
    BY <2>1, <2>5
<1>16. Before(w, ServiceGVK, ServiceOf(sorted[w]))'
  <2>1. ServiceOf(sorted'[w]) = ServiceOf(result[i])
    BY <1>1, <1>8
  <2>2. IsKind(sorted'[ps], ServiceGVK) /\ sorted'[ps].name = ServiceOf(sorted'[w])
    BY <1>1, <1>10, <1>13, <2>1
  <2> QED
    BY <1>13, <2>2 DEF Before
<1>17. Configure!Certifies(sorted'[pcert], sorted'[w], issuer')
  BY <1>1, <1>8, <1>11, <1>14
<1>18. Configure!SelfSigned(Issuer') => Before(pcert, IssuerGVK, issuer.name)'
  <2>1. Configure!SelfSigned(Issuer') => Configure!SelfSigned(Issuer)
    BY <1>3
  <2> QED
    BY <1>1, <1>15, <2>1 DEF Before
<1> QED
  BY <1>14, <1>16, <1>17, <1>18

\* The order is a fact about the list to be written, the webhooks that were kept and
\* the issuer, which no step touches once the list is sorted.
LEMMA WritingOrder ==
  ASSUME OrderInv, Planned, Planned', UNCHANGED <<request, kept, sorted, issuer>>
  PROVE  OrderInv'
<1>1. Webhooked' <=> Webhooked
  BY DEF Webhooked, Enabled
<1>2. AppliesFrontToBack' <=> AppliesFrontToBack
  BY <1>1 DEF AppliesFrontToBack, Before, Issuer
<1> QED
  BY <1>2 DEF OrderInv, Planned

LEMMA OtherSteps ==
  ASSUME Next, ~StartCertManager, ~CertManagerStep, ~CertManagerEnds, ~Sort
  PROVE  \/ pc' \notin {"configure", "sort", "write", "done", "cutShort"}
         \/ pc' = "sort" /\ ~Enabled'
         \/ Planned /\ Planned' /\ UNCHANGED <<request, kept, sorted, issuer>>
BY DEF Next, Report, ReportFails, FlagMissing, Unreadable, ReadFlags, ReadResourceList,
  ExtractFunctionConfig, ValidateNamespace, MakeTempDir, TempDirFails, ResolveBundleSource,
  ResolveFails, Load, LoadFails, Extract, ExtractFails, SkipFilter, CompileFilter, FilterObject,
  FilterFails, FilterEnds, SkipCertManager, CertManagerFails, CertManagerPanics, WriteDocument,
  WriteFails, WriteEnds, WriteResourceList, WriteListFails, GoTo, Fail, Planned, Enabled,
  inputVars, listVars, cmVars, outVars

LEMMA NextOrder ==
  TypeOK /\ Stages /\ OrderInv /\ [Next]_vars => OrderInv'
<1> SUFFICES ASSUME TypeOK, Stages, OrderInv, [Next]_vars PROVE OrderInv'
  OBVIOUS
<1>1. CASE StartCertManager
  BY <1>1, StartOrder
<1>2. CASE CertManagerStep
  BY <1>2, ConfigureOrder
<1>3. CASE CertManagerEnds
  BY <1>3, EndsOrder
<1>4. CASE Sort
  BY <1>4, SortOrder
<1>5. CASE Next /\ ~StartCertManager /\ ~CertManagerStep /\ ~CertManagerEnds /\ ~Sort
  <2>1. CASE pc' \notin {"configure", "sort", "write", "done", "cutShort"}
    BY <2>1 DEF OrderInv, AppliesFrontToBack, Webhooked, Planned
  <2>2. CASE pc' = "sort" /\ ~Enabled'
    BY <2>2 DEF OrderInv, AppliesFrontToBack, Webhooked, Planned
  <2>3. CASE Planned /\ Planned' /\ UNCHANGED <<request, kept, sorted, issuer>>
    BY <2>3, WritingOrder
  <2> QED
    BY <1>5, <2>1, <2>2, <2>3, OtherSteps
<1>6. CASE UNCHANGED vars
  <2>1. UNCHANGED <<request, pc, kept, sorted, step, at, caller, issuer, result, processed>>
    BY <1>6 DEF vars
  <2>2. Issuer' = Issuer /\ Enabled' = Enabled
    BY <2>1 DEF Issuer, Enabled
  <2>3. Configure!IInv' <=> Configure!IInv
    BY <2>1, <2>2 DEF Configure!IInv, Configure!TypeOK, Configure!StartFresh,
      Configure!ResultIsGathered, Configure!CertificateChain, Configure!OncePerService
  <2>4. Configure!ServedAreProcessed' <=> Configure!ServedAreProcessed
    BY <2>1 DEF Configure!ServedAreProcessed
  <2>5. Backed' <=> Backed
    BY <2>1, <2>2 DEF Backed
  <2>6. AppliesFrontToBack' <=> AppliesFrontToBack
    BY <2>1, <2>2 DEF AppliesFrontToBack, Webhooked, Planned, Before
  <2> QED
    BY <2>1, <2>2, <2>3, <2>4, <2>5, <2>6 DEF OrderInv
<1> QED
  BY <1>1, <1>2, <1>3, <1>4, <1>5, <1>6

LEMMA OrderInductive == Spec => [](TypeOK /\ OrderInv)
<1>1. Init => OrderInv
  BY DEF Init, OrderInv, AppliesFrontToBack, Webhooked, Planned
<1> QED
  BY <1>1, NextOrder, Typed, PTL DEF Spec

\* Whatever the bundle holds and whatever the filter took away, unless cert-manager is
\* switched off: in the list that is written, a webhook with a service comes after that
\* service and after a certificate for it, and the certificate after the generated
\* issuer when there is one (ApplyTransformations, Configure and SortForApply together).
THEOREM AppliesInOrder == Spec => []AppliesFrontToBack
<1>1. OrderInv => AppliesFrontToBack
  BY DEF OrderInv
<1> QED
  BY <1>1, OrderInductive, PTL

-----------------------------------------------------------------------------
(* What arrives.  Of a list that the phases hand on, Sourced says which of its *)
(* manifests are those the filter kept, and that the others are what Configure *)
(* added, each of a name of its own.  It does not depend on the order.         *)

Keepers == {i \in DOMAIN kept : ~Replaced(kept[i])}

SourcedBy(list, place) ==
  /\ place \in [Keepers -> DOMAIN list]
  /\ \A i, j \in Keepers : place[i] = place[j] => i = j
  /\ \A i \in Keepers : Plain(list[place[i]]) = Plain(kept[i])
  /\ \A p \in DOMAIN list :
       \/ \E i \in Keepers : place[i] = p
       \/ /\ Enabled /\ Configure!Added(list[p])
          /\ \A q \in DOMAIN list : Is(list[q], list[p].gvk, list[p].name) =>
               q = p \/ \E i \in Keepers : place[i] = q

Sourced(list) == list \in Seq(Object) /\ \E place : SourcedBy(list, place)

LEMMA PlainLooks ==
  ASSUME NEW a \in Object, NEW b \in Object, Plain(a) = Plain(b)
  PROVE  a.gvk = b.gvk /\ a.name = b.name
<1>1. a \in [gvk : GVK, name : Name, valid : BOOLEAN, spec : Spec_, inject : Name]
  BY DEF Object
<1>2. b \in [gvk : GVK, name : Name, valid : BOOLEAN, spec : Spec_, inject : Name]
  BY DEF Object
<1>3. /\ Plain(a).gvk = a.gvk /\ Plain(a).name = a.name
      /\ Plain(b).gvk = b.gvk /\ Plain(b).name = b.name
  BY <1>1, <1>2 DEF Plain, Configure!Unannotated
<1> QED
  BY <1>3

LEMMA NamedLooks ==
  ASSUME NEW a, NEW b, a.gvk = b.gvk, a.name = b.name
  PROVE  /\ Replaced(a) <=> Replaced(b)
         /\ Configure!Added(a) <=> Configure!Added(b)
BY DEF Replaced, IsKind, Configure!Added, Configure!IsKind

\* Without cert-manager every manifest is where it was.
LEMMA KeptIsSourced ==
  ASSUME kept \in Seq(Object), processed = {}
  PROVE  Sourced(kept)
<1> DEFINE place == [i \in Keepers |-> i]
<1>1. Keepers = DOMAIN kept
  BY DEF Keepers, Replaced
<1>2. place \in [Keepers -> DOMAIN kept] /\ \A i \in DOMAIN kept : place[i] = i
  BY <1>1
<1> HIDE DEF place
<1>3. SourcedBy(kept, place)
  BY <1>1, <1>2 DEF SourcedBy
<1> QED
  BY <1>3 DEF Sourced

\* The functions of NothingLost, of the webhooks and of the others, are one that
\* places all manifests that are not replaced.
LEMMA DeliveredIsSourced ==
  ASSUME kept \in Seq(Object), result \in Seq(Object), Enabled, step = "done",
         Configure!NothingLost
  PROVE  Sourced(result)
<1> DEFINE W == Configure!WebhooksOf(kept)
           V == Configure!WebhooksOf(result)
           R == Configure!Remaining
<1>1. PICK first \in 1 .. Len(result) + 1 :
        /\ Configure!Ahead(first - 1)
        /\ Configure!Arrive(kept, R, result, first .. Len(result))
  BY DEF Configure!NothingLost
<1>2. Configure!Arrive(Configure!Unmarked(kept), W, Configure!Unmarked(result), V)
  BY DEF Configure!NothingLost
<1>3. PICK f \in [W -> V] :
        /\ \A i, j \in W : i < j => f[i] < f[j]
        /\ \A k \in V : \E i \in W : f[i] = k
        /\ \A i \in W : Configure!Unmarked(result)[f[i]] = Configure!Unmarked(kept)[i]
  BY <1>2 DEF Configure!Arrive
<1>4. PICK g \in [R -> first .. Len(result)] :
        /\ \A i, j \in R : i < j => g[i] < g[j]
        /\ \A k \in first .. Len(result) : \E i \in R : g[i] = k
        /\ \A i \in R : result[g[i]] = kept[i]
  BY <1>1 DEF Configure!Arrive
<1>5. /\ DOMAIN kept = 1 .. Len(kept) /\ DOMAIN result = 1 .. Len(result)
      /\ Len(kept) \in Nat /\ Len(result) \in Nat
  OBVIOUS
<1>6. /\ \A i \in W : i \in DOMAIN kept /\ IsWebhookConfiguration(kept[i])
      /\ \A i \in V : i \in DOMAIN result /\ IsWebhookConfiguration(result[i])
      /\ \A i \in DOMAIN result : IsWebhookConfiguration(result[i]) => i \in V
      /\ \A i \in R : i \in DOMAIN kept /\ ~IsWebhookConfiguration(kept[i])
  BY SamePredicates, Zenon DEF Configure!WebhooksOf, Configure!Remaining, Configure!Handled
<1>7. \A i \in DOMAIN kept : i \in Keepers <=> i \in W \/ i \in R
  <2> SUFFICES ASSUME NEW i \in DOMAIN kept
               PROVE  i \in Keepers <=> i \in W \/ i \in R
    OBVIOUS
  <2>1. i \in Keepers <=> ~Replaced(kept[i])
    BY DEF Keepers
  <2>2. i \in W <=> IsWebhookConfiguration(kept[i])
    BY SamePredicates, Zenon DEF Configure!WebhooksOf
  <2>3. i \in R <=> ~IsWebhookConfiguration(kept[i]) /\ ~Replaced(kept[i])
    BY SamePredicates, SameGVKs, Zenon DEF Configure!Remaining, Configure!Handled, Replaced
  <2>4. IsWebhookConfiguration(kept[i]) => ~Replaced(kept[i])
    BY KindsDiffer, Zenon DEF Replaced
  <2> QED
    BY <2>1, <2>2, <2>3, <2>4, Zenon
<1>8. \A i \in W : f[i] \in V /\ Plain(result[f[i]]) = Plain(kept[i])
  BY <1>3, <1>6 DEF Configure!Unmarked, Plain
<1>9. \A i \in R : g[i] \in DOMAIN result /\ ~IsWebhookConfiguration(result[g[i]])
  BY <1>4, <1>5, <1>6
<1> DEFINE place == [i \in Keepers |-> IF i \in W THEN f[i] ELSE g[i]]
<1> HIDE DEF W, V, R
<1>10. Keepers \subseteq DOMAIN kept
  BY DEF Keepers
<1>11. /\ \A i \in Keepers : i \in W => place[i] = f[i]
       /\ \A i \in Keepers : i \notin W => place[i] = g[i] /\ i \in R
  BY <1>7, <1>10
<1>12. place \in [Keepers -> DOMAIN result]
  BY <1>6, <1>7, <1>8, <1>9, <1>10
<1> HIDE DEF place
<1>13. ASSUME NEW i \in Keepers, NEW j \in Keepers, place[i] = place[j]
       PROVE  i = j
  <2>1. i \in 1 .. Len(kept) /\ j \in 1 .. Len(kept)
    BY <1>5, <1>10
  <2>2. CASE i \in W /\ j \in W
    <3>1. f[i] = f[j] /\ f[i] \in 1 .. Len(result) /\ f[j] \in 1 .. Len(result)
      BY <1>5, <1>6, <1>8, <1>11, <1>13, <2>2
    <3> QED
      BY <1>3, <2>1, <2>2, <3>1
  <2>3. CASE i \notin W /\ j \notin W
    <3>1. g[i] = g[j] /\ i \in R /\ j \in R /\ g[i] \in 1 .. Len(result) /\ g[j] \in 1 .. Len(result)
      BY <1>5, <1>9, <1>11, <1>13, <2>3
    <3> QED
      BY <1>4, <2>1, <3>1
  <2>4. CASE i \in W /\ j \notin W
    BY <1>6, <1>8, <1>9, <1>11, <1>13, <2>4
  <2>5. CASE i \notin W /\ j \in W
    BY <1>6, <1>8, <1>9, <1>11, <1>13, <2>5
  <2> QED
    BY <2>2, <2>3, <2>4, <2>5
<1>14. ASSUME NEW i \in Keepers
       PROVE  Plain(result[place[i]]) = Plain(kept[i])
  BY <1>4, <1>8, <1>11
<1>15. ASSUME NEW p \in DOMAIN result, ~\E i \in Keepers : place[i] = p
       PROVE  p \in 1 .. first - 1 /\ ~IsWebhookConfiguration(result[p])
  <2>1. p \notin first .. Len(result)
    <3> SUFFICES ASSUME p \in first .. Len(result) PROVE FALSE
      OBVIOUS
    <3>1. PICK i \in R : g[i] = p
      BY <1>4
    <3>2. i \in Keepers /\ i \notin W
      BY <1>6, <1>7, <3>1
    <3> QED
      BY <1>11, <1>15, <3>1, <3>2
  <2>2. ~IsWebhookConfiguration(result[p])
    <3> SUFFICES ASSUME IsWebhookConfiguration(result[p]) PROVE FALSE
      OBVIOUS
    <3>1. PICK i \in W : f[i] = p
      BY <1>3, <1>6
    <3>2. i \in Keepers
      BY <1>6, <1>7, <3>1
    <3> QED
      BY <1>11, <1>15, <3>1, <3>2
  <2> QED
    BY <1>5, <2>1, <2>2
<1>16. \A i \in 1 .. first - 1 :
         \/ IsWebhookConfiguration(result[i])
         \/ /\ Configure!Added(result[i])
            /\ \A j \in 1 .. first - 1 : Is(result[j], result[i].gvk, result[i].name) => j = i
  BY <1>1, SamePredicates, Zenon DEF Configure!Ahead, Configure!Is, Is
<1>17. ASSUME NEW p \in DOMAIN result, ~\E i \in Keepers : place[i] = p
       PROVE  /\ Configure!Added(result[p])
              /\ \A q \in DOMAIN result : Is(result[q], result[p].gvk, result[p].name) =>
                   q = p \/ \E i \in Keepers : place[i] = q
  BY <1>15, <1>16, <1>17
<1>18. SourcedBy(result, place)
  BY <1>12, <1>13, <1>14, <1>17 DEF SourcedBy
<1> QED
  BY <1>18 DEF Sourced

\* The order of the list does not matter.
LEMMA SortedIsSourced ==
  ASSUME Sourced(result)
  PROVE  Sourced(SortForApply(result))
<1> DEFINE target == SortForApply(result)
<1>1. result \in Seq(Object)
  BY DEF Sourced
<1>2. /\ target \in Seq(Object) /\ Len(target) = Len(result)
      /\ \E from \in Bijection(DOMAIN result, DOMAIN result) :
           \A k \in DOMAIN result : target[k] = result[from[k]]
  BY <1>1, SortForApplySorts
<1> HIDE DEF target
<1>3. PICK place : SourcedBy(result, place)
  BY DEF Sourced
<1>4. PICK from \in Bijection(DOMAIN result, DOMAIN result) :
        \A k \in DOMAIN result : target[k] = result[from[k]]
  BY <1>2
<1> DEFINE D == DOMAIN result
           to == [p \in D |-> CHOOSE k \in D : from[k] = p]
<1>5. /\ \A k \in D : from[k] \in D
      /\ \A j, k \in D : from[j] = from[k] => j = k
      /\ \A p \in D : \E k \in D : from[k] = p
  BY <1>4 DEF Bijection, Injection, Surjection, IsInjective
<1>6. DOMAIN target = D
  BY <1>1, <1>2
<1>7. \A k \in D : target[k] = result[from[k]]
  BY <1>4
<1> HIDE DEF D
<1>8. \A p \in D : to[p] \in D /\ from[to[p]] = p
  BY <1>5
<1> HIDE DEF to
<1>9. \A k \in D : to[from[k]] = k
  BY <1>5, <1>8
<1> DEFINE moved == [i \in Keepers |-> to[place[i]]]
<1>10. /\ \A i \in Keepers : place[i] \in D
       /\ \A i, j \in Keepers : place[i] = place[j] => i = j
       /\ \A i \in Keepers : Plain(result[place[i]]) = Plain(kept[i])
  BY <1>3 DEF SourcedBy, D
<1>11. /\ moved \in [Keepers -> DOMAIN target]
       /\ \A i \in Keepers : moved[i] = to[place[i]]
  BY <1>6, <1>8, <1>10
<1> HIDE DEF moved
<1>12. \A i, j \in Keepers : moved[i] = moved[j] => i = j
  BY <1>8, <1>10, <1>11
<1>13. \A i \in Keepers : Plain(target[moved[i]]) = Plain(kept[i])
  BY <1>7, <1>8, <1>10, <1>11
<1>14. ASSUME NEW k \in D, \E i \in Keepers : place[i] = from[k]
       PROVE  \E i \in Keepers : moved[i] = k
  BY <1>9, <1>11, <1>14
<1>15. ASSUME NEW p \in D, ~\E i \in Keepers : moved[i] = p
       PROVE  /\ Enabled /\ Configure!Added(target[p])
              /\ \A q \in D : Is(target[q], target[p].gvk, target[p].name) =>
                   q = p \/ \E i \in Keepers : moved[i] = q
  <2>1. from[p] \in D /\ ~\E i \in Keepers : place[i] = from[p]
    BY <1>5, <1>14, <1>15
  <2>2. /\ Enabled /\ Configure!Added(result[from[p]])
        /\ \A q \in D : Is(result[q], result[from[p]].gvk, result[from[p]].name) =>
             q = from[p] \/ \E i \in Keepers : place[i] = q
    BY <1>3, <2>1, Zenon DEF SourcedBy, D
  <2>3. ASSUME NEW q \in D, Is(target[q], target[p].gvk, target[p].name)
        PROVE  q = p \/ \E i \in Keepers : moved[i] = q
    <3>1. from[q] \in D /\ target[q] = result[from[q]] /\ target[p] = result[from[p]]
      BY <1>5, <1>7
    <3>2. from[q] = from[p] \/ \E i \in Keepers : place[i] = from[q]
      BY <2>2, <2>3, <3>1
    <3> QED
      BY <1>5, <1>14, <3>2
  <2> QED
    BY <1>7, <2>2, <2>3
<1>16. SourcedBy(target, moved)
  BY <1>6, <1>11, <1>12, <1>13, <1>15 DEF SourcedBy
<1> QED
  BY <1>2, <1>16 DEF Sourced, target

-----------------------------------------------------------------------------
(* What follows of a list that is sourced. *)

LEMMA CopiesArrive ==
  ASSUME kept \in Seq(Object), Sourced(sorted), NEW i \in DOMAIN kept, ~Replaced(kept[i])
  PROVE  LET n == Copies(kept, kept[i])
         IN  \/ Copies(sorted, kept[i]) = n
             \/ Copies(sorted, kept[i]) = n + 1 /\ Enabled /\ Configure!Added(kept[i])
<1>1. PICK place : SourcedBy(sorted, place)
  BY DEF Sourced
<1> DEFINE A == {j \in DOMAIN kept : Plain(kept[j]) = Plain(kept[i])}
           B == {p \in DOMAIN sorted : Plain(sorted[p]) = Plain(kept[i])}
           C == {p \in B : \E j \in Keepers : place[j] = p}
           f == [j \in A |-> place[j]]
<1>2. /\ kept \in Seq(Object) /\ sorted \in Seq(Object) /\ kept[i] \in Object
      /\ DOMAIN kept = 1 .. Len(kept) /\ DOMAIN sorted = 1 .. Len(sorted)
      /\ Len(kept) \in Nat /\ Len(sorted) \in Nat
  BY DEF Sourced
<1>3. /\ place \in [Keepers -> DOMAIN sorted]
      /\ \A j, k \in Keepers : place[j] = place[k] => j = k
      /\ \A j \in Keepers : Plain(sorted[place[j]]) = Plain(kept[j])
  BY <1>1 DEF SourcedBy
<1>4. \A j \in A : j \in Keepers
  <2> SUFFICES ASSUME NEW j \in DOMAIN kept, Plain(kept[j]) = Plain(kept[i])
               PROVE  ~Replaced(kept[j])
    BY DEF Keepers
  <2>1. kept[j] \in Object
    BY <1>2
  <2> QED
    BY <1>2, <2>1, PlainLooks, NamedLooks
<1>5. \A j \in Keepers : j \in DOMAIN kept
  BY DEF Keepers
<1>6. IsFiniteSet(A) /\ IsFiniteSet(B)
  <2>1. A \in SUBSET (1 .. Len(kept)) /\ B \in SUBSET (1 .. Len(sorted))
    BY <1>2
  <2>2. IsFiniteSet(1 .. Len(kept)) /\ IsFiniteSet(1 .. Len(sorted))
    BY <1>2, FS_Interval
  <2> HIDE DEF A, B
  <2> QED
    BY <2>1, <2>2, FS_Subset, Zenon
<1>7. /\ f \in [A -> C]
      /\ \A j \in A : f[j] = place[j]
  BY <1>3, <1>4
<1>8. \A j, k \in A : f[j] = f[k] => j = k
  BY <1>3, <1>4, <1>7
<1>9. \A p \in C : \E j \in A : f[j] = p
  <2> SUFFICES ASSUME NEW p \in C PROVE \E j \in A : f[j] = p
    OBVIOUS
  <2>1. PICK j \in Keepers : place[j] = p
    OBVIOUS
  <2>2. j \in A
    BY <1>3, <1>5, <2>1
  <2> QED
    BY <1>7, <2>1, <2>2
<1>10. Cardinality(C) = Cardinality(A) /\ IsFiniteSet(C)
  <2>1. f \in [A -> C] /\ IsFiniteSet(A)
    BY <1>6, <1>7
  <2> HIDE DEF A, B, C, f
  <2> QED
    BY <1>8, <1>9, <2>1, SameSize
<1>11. Copies(kept, kept[i]) = Cardinality(A) /\ Copies(sorted, kept[i]) = Cardinality(B)
  BY DEF Copies
<1>12. CASE B = C
  BY <1>10, <1>11, <1>12
<1>13. CASE B # C
  <2>1. PICK p \in B : p \notin C
    BY <1>13
  <2>2. /\ Enabled /\ Configure!Added(sorted[p])
        /\ \A q \in DOMAIN sorted : Is(sorted[q], sorted[p].gvk, sorted[p].name) =>
             q = p \/ \E j \in Keepers : place[j] = q
    BY <1>1, <2>1 DEF SourcedBy
  <2>3. \A q \in B : sorted[q].gvk = kept[i].gvk /\ sorted[q].name = kept[i].name
    BY <1>2, PlainLooks
  <2>4. Configure!Added(kept[i])
    BY <2>1, <2>2, <2>3, NamedLooks
  <2>5. ASSUME NEW q \in B, q \notin C PROVE q = p
    <3>1. Is(sorted[q], sorted[p].gvk, sorted[p].name)
      BY <2>1, <2>3, <2>5 DEF Is
    <3> QED
      BY <2>2, <2>5, <3>1
  <2>6. B = C \cup {p}
    BY <2>1, <2>5
  <2>7. Cardinality(B) = Cardinality(C) + 1
    <3>1. p \notin C
      BY <2>1
    <3> HIDE DEF B, C
    <3> QED
      BY <1>10, <2>6, <3>1, FS_AddElement
  <2> QED
    BY <1>10, <1>11, <2>2, <2>4, <2>7
<1> QED
  BY <1>12, <1>13

LEMMA OnlyAddedArrives ==
  ASSUME kept \in Seq(Object), Sourced(sorted), NEW p \in DOMAIN sorted
  PROVE  Copies(kept, sorted[p]) > 0 \/ (Enabled /\ Configure!Added(sorted[p]))
<1>1. PICK place : SourcedBy(sorted, place)
  BY DEF Sourced
<1>2. CASE \E i \in Keepers : place[i] = p
  <2> DEFINE A == {j \in DOMAIN kept : Plain(kept[j]) = Plain(sorted[p])}
  <2>1. PICK i \in Keepers : place[i] = p
    BY <1>2
  <2>2. i \in A
    BY <1>1, <2>1 DEF SourcedBy, Keepers
  <2>3. A \in SUBSET (1 .. Len(kept)) /\ Len(kept) \in Nat
    OBVIOUS
  <2>4. IsFiniteSet(1 .. Len(kept))
    BY <2>3, FS_Interval
  <2> HIDE DEF A
  <2>5. IsFiniteSet(A)
    BY <2>3, <2>4, FS_Subset, Zenon
  <2>6. Cardinality(A) \in Nat /\ Cardinality(A) # 0
    BY <2>2, <2>5, FS_CardinalityType, FS_EmptySet
  <2>7. Cardinality(A) > 0
    BY <2>6
  <2> QED
    BY <2>7 DEF Copies, A
<1>3. CASE ~\E i \in Keepers : place[i] = p
  BY <1>1, <1>3 DEF SourcedBy
<1> QED
  BY <1>2, <1>3

LEMMA NamesAreGiven ==
  ASSUME kept \in Seq(Object), Sourced(sorted), NEW p \in DOMAIN sorted,
         Cardinality(NamedAs(sorted, sorted[p])) > 1
  PROVE  NamedAs(kept, sorted[p]) # {} /\ ~Replaced(sorted[p])
<1>1. PICK place : SourcedBy(sorted, place)
  BY DEF Sourced
<1>2. PICK q \in NamedAs(sorted, sorted[p]) : q # p
  <2>1. NamedAs(sorted, sorted[p]) # {p}
    <3> SUFFICES ASSUME NamedAs(sorted, sorted[p]) = {p} PROVE FALSE
      OBVIOUS
    <3>1. Cardinality({p}) = 1
      BY FS_Singleton, Zenon
    <3>2. Cardinality(NamedAs(sorted, sorted[p])) = 1
      BY <3>1, Zenon
    <3> HIDE DEF NamedAs
    <3> QED
      BY <3>2
  <2>2. p \in NamedAs(sorted, sorted[p])
    BY DEF NamedAs, Is
  <2> QED
    BY <2>1, <2>2
<1>3. q \in DOMAIN sorted /\ Is(sorted[q], sorted[p].gvk, sorted[p].name)
  BY <1>2 DEF NamedAs
<1>4. PICK i \in Keepers : place[i] = p \/ place[i] = q
  BY <1>1, <1>2, <1>3 DEF SourcedBy
<1>5. /\ i \in DOMAIN kept /\ kept[i] \in Object /\ ~Replaced(kept[i])
      /\ place[i] \in DOMAIN sorted /\ sorted[place[i]] \in Object
      /\ Plain(sorted[place[i]]) = Plain(kept[i])
  BY <1>1 DEF SourcedBy, Keepers, Sourced
<1>6. sorted[place[i]].gvk = kept[i].gvk /\ sorted[place[i]].name = kept[i].name
  BY <1>5, PlainLooks
<1>7. kept[i].gvk = sorted[p].gvk /\ kept[i].name = sorted[p].name
  BY <1>3, <1>4, <1>6 DEF Is
<1>8. i \in NamedAs(kept, sorted[p])
  BY <1>5, <1>7 DEF NamedAs, Is
<1>9. ~Replaced(sorted[p])
  BY <1>5, <1>7, NamedLooks
<1> QED
  BY <1>8, <1>9

KeptInv ==
  /\ pc = "configure" =>
       /\ Enabled
       /\ Configure!IInv /\ Configure!Follows /\ Configure!Progress /\ Configure!DeliveryInv
  /\ pc = "sort" => Sourced(result)
  /\ Planned => Sourced(sorted)

\* Nothing has happened yet to the list that Configure is called with.
LEMMA StartKept ==
  ASSUME TypeOK, Stages, StartCertManager
  PROVE  KeptInv'
<1>1. /\ pc = "certificates" /\ pc' = "configure" /\ caller' = kept /\ kept' = kept
      /\ step' = step /\ at' = at /\ result' = result /\ processed' = processed
  BY DEF StartCertManager, listVars
<1>2. step' = "start" /\ at' = 1
  BY <1>1 DEF Stages, Unconfigured
<1>3. Configure!IInv'
  BY <1>1, StartOrder DEF OrderInv
<1>4. Configure!Follows'
  BY <1>1 DEF Configure!Follows, Configure!Like
<1>5. Configure!Progress'
  BY <1>2 DEF Configure!Progress
<1>6. Configure!DeliveryInv'
  BY <1>1, <1>2
  DEF Configure!DeliveryInv, Configure!OthersUntouched, Configure!Delivering, Configure!NothingLost
<1>7. Enabled'
  BY DEF StartCertManager, inputVars, Enabled
<1> QED
  BY <1>1, <1>3, <1>4, <1>5, <1>6, <1>7 DEF KeptInv, Planned

LEMMA ConfigureKept ==
  ASSUME KeptInv, CertManagerStep
  PROVE  KeptInv'
<1>1. pc = "configure" /\ pc' = "configure" /\ Configure!Next
  BY DEF CertManagerStep
<1>2. Configure!IInv /\ Configure!Follows /\ Configure!Progress /\ Configure!DeliveryInv
  BY <1>1 DEF KeptInv
<1>3. {} \subseteq Seq(Configure!Object) /\ {} \subseteq Configure!IssuerRef
  OBVIOUS
<1>4. Configure!TypeOK
  BY <1>2, Zenon DEF Configure!IInv
<1>5. Configure!IInv'
  BY <1>1, <1>2, <1>3, Configure!NextIInv, KeywordsAssumption, LiteralsAreStrings, Zenon
<1>6. Configure!TypeOK'
  BY <1>1, <1>3, <1>4, Configure!NextTypeOK, KeywordsAssumption, LiteralsAreStrings, Zenon
<1>7. Configure!Follows'
  BY <1>1, <1>2, <1>3, <1>4, Configure!NextFollows, KeywordsAssumption, LiteralsAreStrings, Zenon
<1>8. Configure!Progress'
  BY <1>1, <1>2, <1>3, Configure!NextProgress, KeywordsAssumption, LiteralsAreStrings, Zenon
<1>9. Configure!DeliveryInv'
  BY <1>1, <1>2, <1>3, <1>6, Configure!NextDelivery, KeywordsAssumption, LiteralsAreStrings, Zenon
<1>10. Enabled'
  BY <1>1 DEF KeptInv, CertManagerStep, inputVars, Enabled
<1> QED
  BY <1>1, <1>5, <1>7, <1>8, <1>9, <1>10 DEF KeptInv, Planned

LEMMA SourcedSame ==
  ASSUME UNCHANGED <<request, kept, processed>>, NEW list, Sourced(list)
  PROVE  Sourced(list)'
<1>1. Keepers' = Keepers /\ Enabled' = Enabled
  BY DEF Keepers, Replaced, Enabled
<1>2. \A obj : Configure!Added(obj)' <=> Configure!Added(obj)
  BY DEF Configure!Added
<1>3. PICK place : SourcedBy(list, place)
  BY DEF Sourced
<1>4. SourcedBy(list, place)'
  BY <1>1, <1>2, <1>3 DEF SourcedBy
<1> QED
  BY <1>4 DEF Sourced

\* Configure delivers a list that is sourced, and without it the list is the one
\* the filter kept.
LEMMA EndsKept ==
  ASSUME TypeOK, KeptInv, CertManagerEnds
  PROVE  KeptInv'
<1>1. /\ pc = "configure" /\ step = "done" /\ pc' = "sort"
      /\ UNCHANGED <<request, kept, result, processed>>
  BY DEF CertManagerEnds, GoTo, inputVars, listVars, cmVars
<1>2. Enabled /\ Configure!IInv /\ Configure!NothingLost
  BY <1>1 DEF KeptInv, Configure!DeliveryInv
<1>3. result \in Seq(Object)
  BY <1>2, ConfigureTypes DEF Configure!IInv
<1>4. Sourced(result)
  BY <1>1, <1>2, <1>3, DeliveredIsSourced DEF TypeOK
<1> QED
  BY <1>1, <1>4, SourcedSame DEF KeptInv, Planned

LEMMA SkipKept ==
  ASSUME TypeOK, Stages, SkipCertManager
  PROVE  KeptInv'
<1>1. /\ pc = "certificates" /\ pc' = "sort" /\ result' = kept
      /\ UNCHANGED <<request, kept, processed>>
  BY DEF SkipCertManager, inputVars, listVars
<1>2. kept \in Seq(Object) /\ processed = {}
  BY <1>1 DEF TypeOK, Stages, Unconfigured
<1>3. Sourced(kept)
  BY <1>2, KeptIsSourced
<1> QED
  BY <1>1, <1>3, SourcedSame DEF KeptInv, Planned

LEMMA SortKept ==
  ASSUME KeptInv, Sort
  PROVE  KeptInv'
<1>1. /\ pc = "sort" /\ pc' = "write" /\ sorted' = SortForApply(result)
      /\ UNCHANGED <<request, kept, processed>>
  BY DEF Sort, inputVars, cmVars
<1>2. Sourced(SortForApply(result))
  BY <1>1, SortedIsSourced DEF KeptInv
<1> QED
  BY <1>1, <1>2, SourcedSame DEF KeptInv, Planned

LEMMA OtherStepsKeep ==
  ASSUME Next, ~SkipCertManager, ~StartCertManager, ~CertManagerStep, ~CertManagerEnds, ~Sort
  PROVE  \/ pc' \notin {"configure", "sort", "write", "done", "cutShort"}
         \/ Planned /\ Planned' /\ UNCHANGED <<request, kept, sorted, processed>>
BY DEF Next, Report, ReportFails, FlagMissing, Unreadable, ReadFlags, ReadResourceList,
  ExtractFunctionConfig, ValidateNamespace, MakeTempDir, TempDirFails, ResolveBundleSource,
  ResolveFails, Load, LoadFails, Extract, ExtractFails, SkipFilter, CompileFilter, FilterObject,
  FilterFails, FilterEnds, CertManagerFails, CertManagerPanics, WriteDocument,
  WriteFails, WriteEnds, WriteResourceList, WriteListFails, GoTo, Fail, Planned,
  inputVars, listVars, cmVars, outVars

LEMMA NextKept ==
  TypeOK /\ Stages /\ KeptInv /\ [Next]_vars => KeptInv'
<1> SUFFICES ASSUME TypeOK, Stages, KeptInv, [Next]_vars PROVE KeptInv'
  OBVIOUS
<1>1. CASE SkipCertManager
  BY <1>1, SkipKept
<1>2. CASE StartCertManager
  BY <1>2, StartKept
<1>3. CASE CertManagerStep
  BY <1>3, ConfigureKept
<1>4. CASE CertManagerEnds
  BY <1>4, EndsKept
<1>5. CASE Sort
  BY <1>5, SortKept
<1>6. CASE /\ Next /\ ~SkipCertManager /\ ~StartCertManager /\ ~CertManagerStep
           /\ ~CertManagerEnds /\ ~Sort
  <2>1. CASE pc' \notin {"configure", "sort", "write", "done", "cutShort"}
    BY <2>1 DEF KeptInv, Planned
  <2>2. CASE Planned /\ Planned' /\ UNCHANGED <<request, kept, sorted, processed>>
    BY <2>2, SourcedSame DEF KeptInv, Planned
  <2> QED
    BY <1>6, <2>1, <2>2, OtherStepsKeep
<1>7. CASE UNCHANGED vars
  <2>1. UNCHANGED <<request, pc, kept, sorted, step, at, caller, issuer, result, processed>>
    BY <1>7 DEF vars
  <2>2. Issuer' = Issuer /\ Enabled' = Enabled
    BY <2>1 DEF Issuer, Enabled
  <2>3. Configure!IInv' <=> Configure!IInv
    BY <2>1, <2>2 DEF Configure!IInv, Configure!TypeOK, Configure!StartFresh,
      Configure!ResultIsGathered, Configure!CertificateChain, Configure!OncePerService
  <2>4. Configure!Follows' <=> Configure!Follows
    BY <2>1 DEF Configure!Follows
  <2>5. Configure!Progress' <=> Configure!Progress
    BY <2>1 DEF Configure!Progress, Configure!ProcessedUpTo
  <2>6. Configure!DeliveryInv' <=> Configure!DeliveryInv
    BY <2>1 DEF Configure!DeliveryInv, Configure!OthersUntouched, Configure!Delivering,
      Configure!NothingLost, Configure!WebhooksArrive, Configure!RemainingArrive,
      Configure!WebhooksBefore, Configure!Unmarked, Configure!WebhooksOf, Configure!Remaining,
      Configure!Handled, Configure!Ahead, Configure!Added, Configure!Gathers
  <2>7. Sourced(result) => Sourced(result)'
    BY <2>1, SourcedSame
  <2>8. Sourced(sorted) => Sourced(sorted)'
    BY <2>1, SourcedSame
  <2> QED
    BY <2>1, <2>2, <2>3, <2>4, <2>5, <2>6, <2>7, <2>8 DEF KeptInv, Planned
<1> QED
  BY <1>1, <1>2, <1>3, <1>4, <1>5, <1>6, <1>7

LEMMA KeptInductive == Spec => [](TypeOK /\ KeptInv)
<1>1. Init => KeptInv
  BY DEF Init, KeptInv, Planned
<1> QED
  BY <1>1, NextKept, Typed, PTL DEF Spec

\* Whatever the bundle and whatever the filter took away: once the list to be written
\* is there, every manifest the filter kept is in it as often as it was, less the
\* Services that were replaced, unless one more was added that is like it; and
\* nothing else is in it but what was added (ApplyTransformations).
THEOREM KeptManifestsAreDelivered == Spec => []KeptManifestsArrive
<1>1. TypeOK /\ KeptInv => KeptManifestsArrive
  <2> SUFFICES ASSUME TypeOK, KeptInv, Planned
               PROVE  KeptManifestsArrive
    BY DEF KeptManifestsArrive
  <2>1. kept \in Seq(Object) /\ Sourced(sorted)
    BY DEF TypeOK, KeptInv
  <2> QED
    BY <2>1, CopiesArrive, OnlyAddedArrives DEF KeptManifestsArrive
<1> QED
  BY <1>1, KeptInductive, PTL

\* Whatever the bundle: a name that is written twice is one that the filter let through,
\* and not that of a Service that was replaced; no two generated manifests meet
\* (createCertificate, createSelfSignedIssuer, EnsureService).
THEOREM GeneratedNamesMeetNothing == Spec => []GeneratedNamesAreUnique
<1>1. TypeOK /\ KeptInv => GeneratedNamesAreUnique
  <2> SUFFICES ASSUME TypeOK, KeptInv, Planned
               PROVE  GeneratedNamesAreUnique
    BY DEF GeneratedNamesAreUnique
  <2>1. kept \in Seq(Object) /\ Sourced(sorted)
    BY DEF TypeOK, KeptInv
  <2> QED
    BY <2>1, NamesAreGiven DEF GeneratedNamesAreUnique
<1> QED
  BY <1>1, KeptInductive, PTL

-----------------------------------------------------------------------------
(* What stands in a document.  The functions on nested values are defined by  *)
(* recursion over the depth; module Recursion has the proof that they satisfy *)
(* their equations.                                                          *)

\* A value is a leaf, or a map or list of values nested less deep.
NestedStep(n, below) ==
  Leaf \cup IF n = 0 THEN {} ELSE LET values == below IN Maps(values) \cup Lists(values)

NestedBy == INSTANCE Recursion WITH Step <- NestedStep

\* The equation of NestedTo.
LEMMA NestedIs ==
  \A n \in Nat : NestedTo[n] = Leaf \cup IF n = 0 THEN {}
                                         ELSE Maps(NestedTo[n - 1]) \cup Lists(NestedTo[n - 1])
<1>1. \A x, y : NestedStep(0, x) = NestedStep(0, y)
  BY DEF NestedStep
<1>2. \E f : f = [n \in Nat |-> NestedStep(n, f[n - 1])]
  BY <1>1, NestedBy!Defined, Zenon
<1>3. NestedTo = CHOOSE f : f = [n \in Nat |-> NestedStep(n, f[n - 1])]
  BY Zenon DEF NestedTo, NestedStep
<1>4. NestedTo = [n \in Nat |-> NestedStep(n, NestedTo[n - 1])]
  BY <1>2, <1>3, Zenon
<1> QED
  BY <1>4 DEF NestedStep

\* A leaf is no map or list; null and the empty text are leaves.
LEMMA LeafShape ==
  /\ \A v \in Leaf : v.t # "map" /\ v.t # "list"
  /\ Null \in Leaf /\ EmptyText \in Leaf /\ Null # EmptyText
<1>1. \A v \in Leaf : v.t # "map" /\ v.t # "list"
  BY DEF Leaf, Null
<1>2. <<>> \in Name
  BY DEF Name
<1> QED
  BY <1>1, <1>2 DEF Leaf, Null, EmptyText, Text, NoName

\* A nested value is a leaf, a map with different keys, or a list.
LEMMA Shapes ==
  ASSUME NEW n \in Nat, NEW v \in NestedTo[n]
  PROVE  \/ v \in Leaf
         \/ /\ n - 1 \in Nat
            /\ v = Map(v.entries) /\ v.t = "map"
            /\ \A e \in v.entries :
                 e = Entry(e.key, e.value) /\ e.key \in STRING /\ e.value \in NestedTo[n - 1]
            /\ \A d, e \in v.entries : d.key = e.key => d = e
         \/ /\ n - 1 \in Nat
            /\ v = List(v.items) /\ v.t = "list"
            /\ v.items \in Seq(NestedTo[n - 1])
<1> DEFINE below == NestedTo[n - 1]
<1>1. v \in Leaf \/ (n # 0 /\ v \in Maps(below)) \/ (n # 0 /\ v \in Lists(below))
  BY NestedIs
<1> HIDE DEF below
<1>2. CASE n # 0 /\ v \in Maps(below)
  BY <1>2 DEF Maps, Map, Entry, below
<1>3. CASE n # 0 /\ v \in Lists(below)
  BY <1>3 DEF Lists, List, below
<1> QED
  BY <1>1, <1>2, <1>3

\* Leaves, maps and lists of values nested less deep are nested values.
LEMMA LeafNests ==
  ASSUME NEW n \in Nat
  PROVE  Leaf \subseteq NestedTo[n]
BY NestedIs

LEMMA MapNests ==
  ASSUME NEW n \in Nat, n - 1 \in Nat, NEW E,
         \A e \in E : /\ e = Entry(e.key, e.value)
                      /\ e.key \in STRING /\ e.value \in NestedTo[n - 1],
         \A d, e \in E : d.key = e.key => d = e
  PROVE  Map(E) \in NestedTo[n]
<1> DEFINE below == NestedTo[n - 1]
<1>1. \A e \in E : e \in [key : STRING, value : below]
  BY DEF Entry
<1> HIDE DEF below
<1>2. Map(E) \in Maps(below)
  BY <1>1 DEF Maps, Map
<1> QED
  BY <1>2, NestedIs DEF below

LEMMA ListNests ==
  ASSUME NEW n \in Nat, n - 1 \in Nat, NEW items \in Seq(NestedTo[n - 1])
  PROVE  List(items) \in NestedTo[n]
<1> DEFINE below == NestedTo[n - 1]
<1>1. items \in Seq(below)
  OBVIOUS
<1> HIDE DEF below
<1>2. List(items) \in Lists(below)
  BY <1>1 DEF Lists, List
<1> QED
  BY <1>2, NestedIs DEF below

\* What a value is cleaned to, the leaves it has and whether it is full, made of
\* what its parts are.
CleanMapOf(value, below) ==
  LET entries == cleanMap(value.entries, [e \in value.entries |-> below[e.value]])
  IN  IF entries = {} THEN Null ELSE Map(entries)

CleanListOf(value, below) ==
  LET items == cleanItems(value.items, [i \in DOMAIN value.items |-> below[value.items[i]]])
  IN  IF items = <<>> THEN Null ELSE List(items)

CleanOf(value, below) ==
  CASE value.t = "map" -> CleanMapOf(value, below)
    [] value.t = "list" -> CleanListOf(value, below)
    [] value = EmptyText -> Null
    [] OTHER -> value

MapLeavesOf(value, below) ==
  LeavesOfMap(value.entries, [e \in value.entries |-> below[e.value]])

ListLeavesOf(value, below) ==
  LeavesOfList([i \in DOMAIN value.items |->
                  IF value.items[i] = EmptyText
                    THEN Bare(EmptyText) ELSE below[value.items[i]]])

LeavesOf(value, below) ==
  CASE value.t = "map" -> MapLeavesOf(value, below)
    [] value.t = "list" -> ListLeavesOf(value, below)
    [] value \in {Null, EmptyText} -> <<>>
    [] OTHER -> Bare(value)

FullOf(value, below) ==
  CASE value.t = "map" -> value.entries # {} /\ \A e \in value.entries : below[e.value]
    [] value.t = "list" ->
         /\ value.items # <<>>
         /\ \A i \in DOMAIN value.items : value.items[i] = EmptyText \/ below[value.items[i]]
    [] OTHER -> value \notin {Null, EmptyText}

CleanStep(n, below) == [value \in NestedTo[n] |-> CleanOf(value, below)]
LeavesStep(n, below) == [value \in NestedTo[n] |-> LeavesOf(value, below)]
FullStep(n, below) == [value \in NestedTo[n] |-> FullOf(value, below)]

CleanBy == INSTANCE Recursion WITH Step <- CleanStep
LeavesBy == INSTANCE Recursion WITH Step <- LeavesStep
FullBy == INSTANCE Recursion WITH Step <- FullStep

\* The three of a leaf, of a map and of a list.
LEMMA LeafParts ==
  ASSUME NEW v \in Leaf, NEW below
  PROVE  /\ CleanOf(v, below) = IF v = EmptyText THEN Null ELSE v
         /\ LeavesOf(v, below) = IF v \in {Null, EmptyText} THEN <<>> ELSE Bare(v)
         /\ FullOf(v, below) = (v \notin {Null, EmptyText})
<1>1. v.t # "map" /\ v.t # "list"
  BY LeafShape
<1>2. CleanOf(v, below) = IF v = EmptyText THEN Null ELSE v
  BY <1>1 DEF CleanOf
<1>3. LeavesOf(v, below) = IF v \in {Null, EmptyText} THEN <<>> ELSE Bare(v)
  BY <1>1 DEF LeavesOf
<1>4. FullOf(v, below) = (v \notin {Null, EmptyText})
  BY <1>1 DEF FullOf
<1> QED
  BY <1>2, <1>3, <1>4

LEMMA MapParts ==
  ASSUME NEW v, v.t = "map", NEW below
  PROVE  /\ CleanOf(v, below) = CleanMapOf(v, below)
         /\ LeavesOf(v, below) = MapLeavesOf(v, below)
         /\ FullOf(v, below) = (v.entries # {} /\ \A e \in v.entries : below[e.value])
<1>0. v # EmptyText /\ v # Null
  BY DEF EmptyText, Text, Null
<1>1. CleanOf(v, below) = CleanMapOf(v, below)
  BY <1>0 DEF CleanOf
<1>2. LeavesOf(v, below) = MapLeavesOf(v, below)
  BY <1>0 DEF LeavesOf
<1>3. FullOf(v, below) = (v.entries # {} /\ \A e \in v.entries : below[e.value])
  BY <1>0 DEF FullOf
<1> QED
  BY <1>1, <1>2, <1>3

LEMMA ListParts ==
  ASSUME NEW v, v.t = "list", NEW below
  PROVE  /\ CleanOf(v, below) = CleanListOf(v, below)
         /\ LeavesOf(v, below) = ListLeavesOf(v, below)
         /\ FullOf(v, below) =
              (/\ v.items # <<>>
               /\ \A i \in DOMAIN v.items : v.items[i] = EmptyText \/ below[v.items[i]])
<1>0. v # EmptyText /\ v # Null
  BY DEF EmptyText, Text, Null
<1>1. CleanOf(v, below) = CleanListOf(v, below)
  BY <1>0 DEF CleanOf
<1>2. LeavesOf(v, below) = ListLeavesOf(v, below)
  BY <1>0 DEF LeavesOf
<1>3. FullOf(v, below) =
        (/\ v.items # <<>>
         /\ \A i \in DOMAIN v.items : v.items[i] = EmptyText \/ below[v.items[i]])
  BY <1>0 DEF FullOf
<1> QED
  BY <1>1, <1>2, <1>3

\* Without depth there are leaves only.
LEMMA DepthZero == NestedTo[0] = Leaf
BY NestedIs

\* The equations of the three functions.
LEMMA CleanIs ==
  \A n \in Nat : \A v \in NestedTo[n] : cleanTo[n][v] = CleanOf(v, cleanTo[n - 1])
<1>1. \A x, y : CleanStep(0, x) = CleanStep(0, y)
  <2> TAKE x, y
  <2>1. \A v \in NestedTo[0] : CleanOf(v, x) = CleanOf(v, y)
    BY DepthZero, LeafParts
  <2> QED
    BY <2>1, Zenon DEF CleanStep
<1>2. \E f : f = [n \in Nat |-> CleanStep(n, f[n - 1])]
  BY <1>1, CleanBy!Defined, Zenon
<1>3. cleanTo = CHOOSE f : f = [n \in Nat |-> CleanStep(n, f[n - 1])]
  BY Zenon DEF cleanTo, CleanStep, CleanOf, CleanMapOf, CleanListOf
<1>4. cleanTo = [n \in Nat |-> CleanStep(n, cleanTo[n - 1])]
  BY <1>2, <1>3, Zenon
<1>5. \A n \in Nat : cleanTo[n] = CleanStep(n, cleanTo[n - 1])
  BY <1>4, Zenon
<1> QED
  BY <1>5, Zenon DEF CleanStep

LEMMA LeavesIs ==
  \A n \in Nat : \A v \in NestedTo[n] : leavesTo[n][v] = LeavesOf(v, leavesTo[n - 1])
<1>1. \A x, y : LeavesStep(0, x) = LeavesStep(0, y)
  <2> TAKE x, y
  <2>1. \A v \in NestedTo[0] : LeavesOf(v, x) = LeavesOf(v, y)
    BY DepthZero, LeafParts
  <2> QED
    BY <2>1, Zenon DEF LeavesStep
<1>2. \E f : f = [n \in Nat |-> LeavesStep(n, f[n - 1])]
  BY <1>1, LeavesBy!Defined, Zenon
<1>3. leavesTo = CHOOSE f : f = [n \in Nat |-> LeavesStep(n, f[n - 1])]
  BY Zenon DEF leavesTo, LeavesStep, LeavesOf, MapLeavesOf, ListLeavesOf
<1>4. leavesTo = [n \in Nat |-> LeavesStep(n, leavesTo[n - 1])]
  BY <1>2, <1>3, Zenon
<1>5. \A n \in Nat : leavesTo[n] = LeavesStep(n, leavesTo[n - 1])
  BY <1>4, Zenon
<1> QED
  BY <1>5, Zenon DEF LeavesStep

LEMMA FullIs ==
  \A n \in Nat : \A v \in NestedTo[n] : fullTo[n][v] = FullOf(v, fullTo[n - 1])
<1>1. \A x, y : FullStep(0, x) = FullStep(0, y)
  <2> TAKE x, y
  <2>1. \A v \in NestedTo[0] : FullOf(v, x) = FullOf(v, y)
    BY DepthZero, LeafParts
  <2> QED
    BY <2>1, Zenon DEF FullStep
<1>2. \E f : f = [n \in Nat |-> FullStep(n, f[n - 1])]
  BY <1>1, FullBy!Defined, Zenon
<1>3. fullTo = CHOOSE f : f = [n \in Nat |-> FullStep(n, f[n - 1])]
  BY Zenon DEF fullTo, FullStep, FullOf
<1>4. fullTo = [n \in Nat |-> FullStep(n, fullTo[n - 1])]
  BY <1>2, <1>3, Zenon
<1>5. \A n \in Nat : fullTo[n] = FullStep(n, fullTo[n - 1])
  BY <1>4, Zenon
<1> QED
  BY <1>5, Zenon DEF FullStep

\* The leaves of a map are those of what is left of it when the entries that are
\* taken out had none and the others keep theirs.
LEMMA MapKeepsLeaves ==
  ASSUME NEW E, NEW cleaned, NEW under, NEW after,
         \A d, e \in E : d.key = e.key => d = e,
         \A e \in E : IF cleaned[e] = Null THEN DOMAIN under[e] = {}
                                           ELSE after[Entry(e.key, cleaned[e])] = under[e]
  PROVE  LeavesOfMap(cleanMap(E, cleaned), after) = LeavesOfMap(E, under)
<1> DEFINE C == cleanMap(E, cleaned)
           paths(entries, of) ==
             UNION {{<<e.key, rest>> : rest \in DOMAIN of[e]} : e \in entries}
           leaf(entries, of, path) == of[CHOOSE e \in entries : e.key = path[1]][path[2]]
<1>1. \A e \in E : cleaned[e] # Null =>
        /\ Entry(e.key, cleaned[e]) \in C
        /\ Entry(e.key, cleaned[e]).key = e.key
  BY DEF cleanMap, Entry
<1>2. ASSUME NEW d \in C
      PROVE  \E e \in E : cleaned[e] # Null /\ d = Entry(e.key, cleaned[e]) /\ d.key = e.key
  BY DEF cleanMap, Entry
<1> HIDE DEF C
<1>3. ASSUME NEW path \in paths(C, after) PROVE path \in paths(E, under)
  <2>1. PICK d \in C : \E rest \in DOMAIN after[d] : path = <<d.key, rest>>
    OBVIOUS
  <2>2. PICK e \in E : cleaned[e] # Null /\ d = Entry(e.key, cleaned[e]) /\ d.key = e.key
    BY <1>2
  <2> QED
    BY <2>1, <2>2
<1>4. ASSUME NEW path \in paths(E, under)
      PROVE  path \in paths(C, after) /\ leaf(C, after, path) = leaf(E, under, path)
  <2>1. PICK e \in E : \E rest \in DOMAIN under[e] : path = <<e.key, rest>>
    OBVIOUS
  <2> DEFINE d == Entry(e.key, cleaned[e])
  <2>2. cleaned[e] # Null /\ after[d] = under[e] /\ d \in C /\ d.key = e.key
    BY <2>1, <1>1
  <2>3. \A x \in C : x.key = e.key => x = d
    BY <1>2
  <2> HIDE DEF d
  <2>4. path[1] = e.key
    BY <2>1
  <2>5. (CHOOSE x \in E : x.key = path[1]) = e
    BY <2>4
  <2>6. (CHOOSE x \in C : x.key = path[1]) = d
    BY <2>2, <2>3, <2>4
  <2>7. leaf(C, after, path) = after[d][path[2]] /\ leaf(E, under, path) = under[e][path[2]]
    BY <2>5, <2>6
  <2>8. \E rest \in DOMAIN after[d] : path = <<d.key, rest>>
    BY <2>1, <2>2
  <2>9. path \in paths(C, after)
    BY <2>2, <2>8
  <2> QED
    BY <2>2, <2>7, <2>9
<1>5. paths(C, after) = paths(E, under)
  BY <1>3, <1>4
<1> HIDE DEF paths, leaf
<1>6. [path \in paths(C, after) |-> leaf(C, after, path)]
      = [path \in paths(E, under) |-> leaf(E, under, path)]
  BY <1>4, <1>5
<1> QED
  BY <1>6, Zenon DEF LeavesOfMap, paths, leaf, C

\* The same for the items of a list.
LEMMA ListKeepsLeaves ==
  ASSUME NEW m \in Nat, NEW along, NEW S, \A i \in S : i \in 1 .. m
  PROVE  /\ DOMAIN along = 1 .. m
         /\ \A i \in 1 .. m : i \notin S => DOMAIN along[i] = {}
         => LeavesOfList(Chosen(along, S)) = LeavesOfList(along)
<1> DEFINE c == Cardinality(S)
           ch == Chosen(along, S)
           rests(list) == UNION {DOMAIN list[i] : i \in DOMAIN list}
           with(list, path) == {i \in DOMAIN list : path[2] \in DOMAIN list[i]}
           column(list, path) ==
             [n \in 1 .. Cardinality(with(list, path)) |-> list[Nth(with(list, path), n)][path[2]]]
<1>0. SUFFICES ASSUME DOMAIN along = 1 .. m,
                      \A i \in 1 .. m : i \notin S => DOMAIN along[i] = {}
      PROVE  LeavesOfList(ch) = LeavesOfList(along)
  OBVIOUS
<1>1. /\ c \in Nat
      /\ \A n \in 1 .. c : Nth(S, n) \in S
      /\ \A i \in S : \E n \in 1 .. c : Nth(S, n) = i
  BY NthEnumerates
<1>2. DOMAIN ch = 1 .. c /\ \A n \in 1 .. c : ch[n] = along[Nth(S, n)]
  BY DEF Chosen
<1> HIDE DEF c, ch
<1>3. rests(ch) = rests(along)
  <2>1. ASSUME NEW rest \in rests(ch) PROVE rest \in rests(along)
    BY <1>0, <1>1, <1>2
  <2>2. ASSUME NEW rest \in rests(along) PROVE rest \in rests(ch)
    <3>1. PICK i \in 1 .. m : rest \in DOMAIN along[i]
      BY <1>0
    <3>2. i \in S
      BY <1>0, <3>1
    <3>3. PICK n \in 1 .. c : Nth(S, n) = i
      BY <1>1, <3>2
    <3> QED
      BY <3>1, <3>3, <1>2
  <2> QED
    BY <2>1, <2>2
<1>4. ASSUME NEW path PROVE column(ch, path) = column(along, path)
  <2> DEFINE Q == with(along, path)
             R == {j \in 1 .. c : Nth(S, j) \in Q}
  <2>1. Q \subseteq S
    BY <1>0
  <2>2. with(ch, path) = R
    BY <1>0, <1>1, <1>2
  <2>3. /\ Cardinality(R) = Cardinality(Q)
        /\ \A n \in 1 .. Cardinality(Q) : Nth(R, n) \in 1 .. c /\ Nth(S, Nth(R, n)) = Nth(Q, n)
    <3>1. \A j : j \in R <=> j \in 1 .. c /\ Nth(S, j) \in Q
      OBVIOUS
    <3> HIDE DEF Q, R
    <3>2. \A j : j \in R <=> j \in 1 .. Cardinality(S) /\ Nth(S, j) \in Q
      BY <3>1 DEF c
    <3> QED
      BY <2>1, <3>2, NthOfNth DEF c
  <2> HIDE DEF Q, R
  <2>4. \A n \in 1 .. Cardinality(Q) : ch[Nth(R, n)] = along[Nth(Q, n)]
    BY <2>3, <1>2
  <2>5. [n \in 1 .. Cardinality(R) |-> ch[Nth(R, n)][path[2]]]
        = [n \in 1 .. Cardinality(Q) |-> along[Nth(Q, n)][path[2]]]
    BY <2>3, <2>4
  <2> QED
    BY <2>2, <2>5, Zenon DEF Q
<1> HIDE DEF rests, column
<1>5. [path \in {<<AnyItem, rest>> : rest \in rests(ch)} |-> column(ch, path)]
      = [path \in {<<AnyItem, rest>> : rest \in rests(along)} |-> column(along, path)]
  BY <1>3, <1>4, Zenon
<1> QED
  BY <1>5, Zenon DEF LeavesOfList, rests, column, with, ch

\* What cleaning makes of a value that is nested at most n deep.
Cleans(n, v) ==
  /\ cleanTo[n][v] \in NestedTo[n] /\ cleanTo[n][v] # EmptyText
  /\ cleanTo[n][v] = Null \/ fullTo[n][cleanTo[n][v]]
  /\ leavesTo[n][cleanTo[n][v]] = leavesTo[n][v]

\* What an entry or item that goes is cleaned to has no leaf.
LEMMA NullHasNoLeaf ==
  \A n \in Nat : leavesTo[n][Null] = <<>> /\ DOMAIN leavesTo[n][Null] = {}
BY LeafShape, LeafNests, LeavesIs, LeafParts

\* Leaves stay what they are, but for the empty text, which goes.
LEMMA LeafCleans ==
  ASSUME NEW n \in Nat, NEW v \in Leaf
  PROVE  Cleans(n, v)
<1>1. v \in NestedTo[n] /\ Null \in NestedTo[n]
  BY LeafShape, LeafNests
<1>2. cleanTo[n][v] = IF v = EmptyText THEN Null ELSE v
  BY <1>1, CleanIs, LeafParts
<1>3. \A x \in Leaf : x \in NestedTo[n]
        /\ leavesTo[n][x] = IF x \in {Null, EmptyText} THEN <<>> ELSE Bare(x)
  BY LeafNests, LeavesIs, LeafParts
<1>4. v \notin {Null, EmptyText} => fullTo[n][v]
  BY <1>1, FullIs, LeafParts
<1>5. CASE v = EmptyText
  BY <1>1, <1>2, <1>3, <1>5, LeafShape DEF Cleans
<1>6. CASE v # EmptyText
  BY <1>1, <1>2, <1>4, <1>6 DEF Cleans
<1> QED
  BY <1>5, <1>6

\* The entries of a map, whether or not a map of them is empty.
LEMMA EntriesClean ==
  ASSUME NEW n \in Nat, \A v \in NestedTo[n] : Cleans(n, v), NEW E,
         \A e \in E : e = Entry(e.key, e.value) /\ e.key \in STRING /\ e.value \in NestedTo[n],
         \A d, e \in E : d.key = e.key => d = e
  PROVE  LET C == cleanMap(E, [e \in E |-> cleanTo[n][e.value]])
         IN  /\ \A e \in C : /\ e = Entry(e.key, e.value)
                             /\ e.key \in STRING /\ e.value \in NestedTo[n]
                             /\ fullTo[n][e.value]
             /\ \A d, e \in C : d.key = e.key => d = e
             /\ LeavesOfMap(C, [e \in C |-> leavesTo[n][e.value]])
                = LeavesOfMap(E, [e \in E |-> leavesTo[n][e.value]])
<1> DEFINE cleaned == [e \in E |-> cleanTo[n][e.value]]
           C == cleanMap(E, cleaned)
           under == [e \in E |-> leavesTo[n][e.value]]
           after == [e \in C |-> leavesTo[n][e.value]]
<1> HIDE DEF cleaned
<1>1. ASSUME NEW d \in C
      PROVE  \E e \in E : cleaned[e] # Null /\ d = Entry(e.key, cleaned[e])
                          /\ d.key = e.key /\ d.value = cleaned[e]
  BY DEF cleanMap, Entry
<1>2. \A e \in E : cleaned[e] # Null =>
        Entry(e.key, cleaned[e]) \in C /\ Entry(e.key, cleaned[e]).value = cleaned[e]
  BY DEF cleanMap, Entry
<1>3. \A e \in E : /\ cleaned[e] \in NestedTo[n]
                   /\ cleaned[e] # Null => fullTo[n][cleaned[e]]
                   /\ leavesTo[n][cleaned[e]] = under[e]
  BY DEF Cleans, cleaned
<1> HIDE DEF C
<1>4. \A d \in C : /\ d = Entry(d.key, d.value) /\ d.key \in STRING
                   /\ d.value \in NestedTo[n] /\ fullTo[n][d.value]
  BY <1>1, <1>3
<1>5. \A d, e \in C : d.key = e.key => d = e
  BY <1>1
<1>6. \A e \in E : IF cleaned[e] = Null THEN DOMAIN under[e] = {}
                                        ELSE after[Entry(e.key, cleaned[e])] = under[e]
  BY <1>2, <1>3, NullHasNoLeaf
<1> HIDE DEF under, after
<1>7. LeavesOfMap(cleanMap(E, cleaned), after) = LeavesOfMap(E, under)
  BY <1>6, MapKeepsLeaves
<1> QED
  BY <1>4, <1>5, <1>7, Zenon DEF C, cleaned, under, after

\* A map is cleaned well when the values nested less deep are.
LEMMA MapCleans ==
  ASSUME NEW n \in Nat, n - 1 \in Nat, \A v \in NestedTo[n - 1] : Cleans(n - 1, v),
         NEW m \in NestedTo[n], m.t = "map"
  PROVE  Cleans(n, m)
<1> DEFINE below == n - 1
           E == m.entries
           C == cleanMap(E, [e \in E |-> cleanTo[below][e.value]])
<1>1. /\ \A e \in E : /\ e = Entry(e.key, e.value)
                      /\ e.key \in STRING /\ e.value \in NestedTo[below]
      /\ \A d, e \in E : d.key = e.key => d = e
  BY Shapes, LeafShape DEF List
<1>2. /\ \A e \in C : /\ e = Entry(e.key, e.value)
                      /\ e.key \in STRING /\ e.value \in NestedTo[below]
                      /\ fullTo[below][e.value]
      /\ \A d, e \in C : d.key = e.key => d = e
      /\ LeavesOfMap(C, [e \in C |-> leavesTo[below][e.value]])
         = LeavesOfMap(E, [e \in E |-> leavesTo[below][e.value]])
  <2> HIDE DEF below, E
  <2> QED
    BY <1>1, EntriesClean DEF below
<1>3. cleanTo[n][m] = IF C = {} THEN Null ELSE Map(C)
  BY CleanIs, MapParts, Zenon DEF CleanMapOf
<1>4. leavesTo[n][m] = LeavesOfMap(E, [e \in E |-> leavesTo[below][e.value]])
  BY LeavesIs, MapParts, Zenon DEF MapLeavesOf
<1> HIDE DEF E, C
<1>5. CASE C = {}
  <2>1. LeavesOfMap(C, [e \in C |-> leavesTo[below][e.value]]) = <<>>
    BY <1>5 DEF LeavesOfMap
  <2> QED
    BY <1>2, <1>3, <1>4, <1>5, <2>1, NullHasNoLeaf, LeafShape, LeafNests DEF Cleans
<1>6. CASE C # {}
  <2>1. Map(C) \in NestedTo[n] /\ Map(C).t = "map" /\ Map(C).entries = C /\ Map(C) # EmptyText
    BY <1>2, MapNests DEF Map, EmptyText, Text
  <2>2. fullTo[n][Map(C)]
    <3>1. fullTo[n][Map(C)] = FullOf(Map(C), fullTo[below])
      BY <2>1, FullIs
    <3> QED
      BY <1>2, <1>6, <2>1, <3>1, MapParts
  <2>3. leavesTo[n][Map(C)] = LeavesOfMap(C, [e \in C |-> leavesTo[below][e.value]])
    <3>1. leavesTo[n][Map(C)] = LeavesOf(Map(C), leavesTo[below])
      BY <2>1, LeavesIs
    <3> QED
      BY <2>1, <3>1, MapParts, Zenon DEF MapLeavesOf
  <2> QED
    BY <1>2, <1>3, <1>4, <1>6, <2>1, <2>2, <2>3 DEF Cleans
<1> QED
  BY <1>5, <1>6

\* The items of a list, whether or not a list of them is empty.
LEMMA ItemsClean ==
  ASSUME NEW n \in Nat, \A v \in NestedTo[n] : Cleans(n, v), NEW items \in Seq(NestedTo[n])
  PROVE  LET C == cleanItems(items, [i \in DOMAIN items |-> cleanTo[n][items[i]]])
         IN  /\ C \in Seq(NestedTo[n])
             /\ \A k \in DOMAIN C : C[k] = EmptyText \/ fullTo[n][C[k]]
             /\ LeavesOfList([k \in DOMAIN C |-> IF C[k] = EmptyText
                                THEN Bare(EmptyText) ELSE leavesTo[n][C[k]]])
                = LeavesOfList([i \in DOMAIN items |-> IF items[i] = EmptyText
                                  THEN Bare(EmptyText) ELSE leavesTo[n][items[i]]])
<1> DEFINE values == NestedTo[n]
           cleaned == [i \in DOMAIN items |-> cleanTo[n][items[i]]]
           made == [i \in DOMAIN items |->
                      IF items[i] = EmptyText THEN EmptyText ELSE cleaned[i]]
           stays == {i \in DOMAIN items : items[i] = EmptyText \/ cleaned[i] # Null}
           C == Chosen(made, stays)
           along == [i \in DOMAIN items |-> IF items[i] = EmptyText
                       THEN Bare(EmptyText) ELSE leavesTo[n][items[i]]]
           after == [k \in DOMAIN C |-> IF C[k] = EmptyText
                       THEN Bare(EmptyText) ELSE leavesTo[n][C[k]]]
<1>1. /\ Len(items) \in Nat /\ DOMAIN items = 1 .. Len(items)
      /\ \A i \in DOMAIN items : items[i] \in values
  OBVIOUS
<1>2. \A i \in DOMAIN items : /\ cleaned[i] \in values /\ cleaned[i] # EmptyText
                              /\ cleaned[i] = Null \/ fullTo[n][cleaned[i]]
                              /\ leavesTo[n][cleaned[i]] = leavesTo[n][items[i]]
  BY <1>1 DEF Cleans
<1> HIDE DEF cleaned
<1>3. \A i \in DOMAIN items : /\ made[i] \in values
                              /\ made[i] = EmptyText <=> items[i] = EmptyText
                              /\ made[i] # EmptyText => made[i] = cleaned[i]
  BY <1>1, <1>2
<1>4. made \in Seq(values)
  BY <1>1, <1>3
<1>5. /\ C \in Seq(values) /\ Len(C) = Cardinality(stays) /\ Cardinality(stays) \in Nat
      /\ \A k \in DOMAIN C : \E i \in stays : C[k] = made[i]
  <2>1. \A i \in stays : i \in DOMAIN made
    OBVIOUS
  <2> HIDE DEF made, stays, values
  <2> QED
    BY <1>4, <2>1, ChosenElements
<1>6. \A k \in DOMAIN C : C[k] = EmptyText \/ fullTo[n][C[k]]
  BY <1>2, <1>3, <1>5
<1>7. /\ DOMAIN C = 1 .. Cardinality(stays)
      /\ \A k \in 1 .. Cardinality(stays) : C[k] = made[Nth(stays, k)]
  BY DEF Chosen
<1>8. \A k \in 1 .. Cardinality(stays) : Nth(stays, k) \in stays
  BY <1>1, NthEnumerates
<1>9. \A i \in stays : along[i] = IF made[i] = EmptyText
                                    THEN Bare(EmptyText) ELSE leavesTo[n][made[i]]
  BY <1>2, <1>3
<1>10. \A i \in DOMAIN items : i \notin stays => DOMAIN along[i] = {}
  <2> SUFFICES ASSUME NEW i \in DOMAIN items, i \notin stays PROVE DOMAIN along[i] = {}
    OBVIOUS
  <2>1. items[i] # EmptyText /\ cleaned[i] = Null
    OBVIOUS
  <2>2. along[i] = leavesTo[n][Null]
    BY <1>2, <2>1
  <2> QED
    BY <2>2, NullHasNoLeaf
<1> HIDE DEF made, C
<1>11. after = Chosen(along, stays)
  <2>1. \A k \in 1 .. Cardinality(stays) : along[Nth(stays, k)] =
          IF C[k] = EmptyText THEN Bare(EmptyText) ELSE leavesTo[n][C[k]]
    BY <1>7, <1>8, <1>9
  <2> HIDE DEF along, stays
  <2> QED
    BY <1>7, <2>1, Zenon DEF Chosen
<1>12. LeavesOfList(Chosen(along, stays)) = LeavesOfList(along)
  <2>1. DOMAIN along = 1 .. Len(items) /\ \A i \in stays : i \in 1 .. Len(items)
    BY <1>1
  <2>2. \A i \in 1 .. Len(items) : i \notin stays => DOMAIN along[i] = {}
    BY <1>1, <1>10
  <2> HIDE DEF along, stays
  <2> QED
    BY <1>1, <2>1, <2>2, ListKeepsLeaves
<1>13. C = cleanItems(items, cleaned)
  BY Zenon DEF cleanItems, C, made
<1> HIDE DEF after, along, stays
<1>14. LeavesOfList(after) = LeavesOfList(along)
  BY <1>11, <1>12, Zenon
<1> QED
  BY <1>5, <1>6, <1>13, <1>14, Zenon DEF after, along, cleaned

\* So is a list.
LEMMA ListCleans ==
  ASSUME NEW n \in Nat, n - 1 \in Nat, \A v \in NestedTo[n - 1] : Cleans(n - 1, v),
         NEW l \in NestedTo[n], l.t = "list"
  PROVE  Cleans(n, l)
<1> DEFINE below == n - 1
           items == l.items
           C == cleanItems(items, [i \in DOMAIN items |-> cleanTo[below][items[i]]])
           ends(list) == [i \in DOMAIN list |-> IF list[i] = EmptyText
                            THEN Bare(EmptyText) ELSE leavesTo[below][list[i]]]
<1>1. items \in Seq(NestedTo[below])
  BY Shapes, LeafShape DEF Map
<1>2. /\ C \in Seq(NestedTo[below])
      /\ \A k \in DOMAIN C : C[k] = EmptyText \/ fullTo[below][C[k]]
      /\ LeavesOfList(ends(C)) = LeavesOfList(ends(items))
  <2> HIDE DEF below, items
  <2>1. below \in Nat /\ \A v \in NestedTo[below] : Cleans(below, v)
    BY DEF below
  <2> QED
    BY <1>1, <2>1, ItemsClean, Zenon
<1>3. cleanTo[n][l] = IF C = <<>> THEN Null ELSE List(C)
  BY CleanIs, ListParts, Zenon DEF CleanListOf
<1>4. leavesTo[n][l] = LeavesOfList(ends(items))
  BY LeavesIs, ListParts, Zenon DEF ListLeavesOf
<1> HIDE DEF items, C
<1>5. CASE C = <<>>
  <2>1. LeavesOfList(ends(C)) = <<>>
    BY <1>5 DEF LeavesOfList
  <2> HIDE DEF ends
  <2> QED
    BY <1>2, <1>3, <1>4, <1>5, <2>1, NullHasNoLeaf, LeafShape, LeafNests DEF Cleans
<1>6. CASE C # <<>>
  <2>1. List(C) \in NestedTo[n] /\ List(C).t = "list" /\ List(C).items = C /\ List(C) # EmptyText
    BY <1>2, ListNests DEF List, EmptyText, Text
  <2>2. fullTo[n][List(C)]
    <3>1. fullTo[n][List(C)] = FullOf(List(C), fullTo[below])
      BY <2>1, FullIs
    <3> QED
      BY <1>2, <1>6, <2>1, <3>1, ListParts
  <2>3. leavesTo[n][List(C)] = LeavesOfList(ends(C))
    <3>1. leavesTo[n][List(C)] = LeavesOf(List(C), leavesTo[below])
      BY <2>1, LeavesIs
    <3>2. ListLeavesOf(List(C), leavesTo[below]) = LeavesOfList(ends(List(C).items))
      BY Zenon DEF ListLeavesOf
    <3> HIDE DEF ends
    <3> QED
      BY <2>1, <3>1, <3>2, ListParts
  <2> HIDE DEF ends
  <2> QED
    BY <1>2, <1>3, <1>4, <1>6, <2>1, <2>2, <2>3 DEF Cleans
<1> QED
  BY <1>5, <1>6

\* Cleaning keeps the leaves of every value, however deep it is nested, and leaves
\* nothing empty in it.
LEMMA AllClean ==
  \A n \in Nat : \A v \in NestedTo[n] : Cleans(n, v)
<1> DEFINE S == {n \in Nat : \A v \in NestedTo[n] : Cleans(n, v)}
<1>1. 0 \in S
  BY DepthZero, LeafCleans
<1>2. ASSUME NEW n \in Nat, n \in S PROVE n + 1 \in S
  <2> DEFINE k == n + 1
  <2>1. k \in Nat /\ k - 1 \in Nat /\ k - 1 = n
    OBVIOUS
  <2>2. \A v \in NestedTo[k - 1] : Cleans(k - 1, v)
    BY <1>2, <2>1
  <2> HIDE DEF k
  <2>3. ASSUME NEW v \in NestedTo[k] PROVE Cleans(k, v)
    <3>1. v \in Leaf \/ v.t = "map" \/ v.t = "list"
      BY <2>1, Shapes
    <3> QED
      BY <2>1, <2>2, <3>1, LeafCleans, MapCleans, ListCleans, Zenon
  <2> QED
    BY <2>1, <2>3 DEF k
<1> HIDE DEF S
<1>3. Nat \subseteq S
  BY <1>1, <1>2, NestedBy!Induction
<1> QED
  BY <1>3 DEF S

-----------------------------------------------------------------------------
(* How deep the documents are nested.                                        *)

\* One entry more.
LEMMA EntryNests ==
  ASSUME NEW n \in Nat, n - 1 \in Nat, NEW E, Map(E) \in NestedTo[n],
         NEW key \in STRING, NEW value \in NestedTo[n - 1], \A e \in E : e.key # key
  PROVE  Map(E \cup {Entry(key, value)}) \in NestedTo[n]
<1> DEFINE F == E \cup {Entry(key, value)}
<1>1. /\ \A e \in E : /\ e = Entry(e.key, e.value)
                      /\ e.key \in STRING /\ e.value \in NestedTo[n - 1]
      /\ \A d, e \in E : d.key = e.key => d = e
  <2>1. Map(E).t = "map" /\ Map(E).entries = E
    BY DEF Map
  <2> QED
    BY <2>1, Shapes, LeafShape DEF List
<1>2. \A e \in F : /\ e = Entry(e.key, e.value)
                   /\ e.key \in STRING /\ e.value \in NestedTo[n - 1]
  BY <1>1 DEF Entry
<1>3. \A d, e \in F : d.key = e.key => d = e
  BY <1>1 DEF Entry
<1> HIDE DEF F
<1> QED
  BY <1>2, <1>3, MapNests DEF F

\* Names of one word and of three.
LEMMA Tuples ==
  ASSUME NEW T, NEW a \in T, NEW b \in T, NEW c \in T
  PROVE  <<a>> \in Seq(T) /\ <<a, b, c>> \in Seq(T)
OBVIOUS

\* The leaves the documents are made of, and the empty map.
LEMMA LeavesNest ==
  ASSUME NEW n \in Nat
  PROVE  /\ Null \in NestedTo[n] /\ EmptyText \in NestedTo[n]
         /\ \A name \in Name : Text(name) \in NestedTo[n]
         /\ \A number \in Int : Scalar(number) \in NestedTo[n]
         /\ \A string \in STRING : Word(string) \in NestedTo[n]
         /\ n - 1 \in Nat => Map({}) \in NestedTo[n]
<1>1. \A name \in Name : Text(name) \in NestedTo[n]
  BY LeafNests DEF Leaf, Text
<1>2. \A number \in Int : Scalar(number) \in NestedTo[n]
  BY LeafNests DEF Leaf, Scalar
<1>3. Null \in NestedTo[n] /\ EmptyText \in NestedTo[n]
  BY LeafNests, LeafShape
<1>4. ASSUME NEW string \in STRING PROVE Word(string) \in NestedTo[n]
  <2>1. <<string>> \in Name
    BY Tuples, Zenon DEF Name
  <2> QED
    BY <1>1, <1>3, <2>1 DEF Word
<1>5. n - 1 \in Nat => Map({}) \in NestedTo[n]
  BY MapNests
<1> QED
  BY <1>1, <1>2, <1>3, <1>4, <1>5

\* Maps with one entry and with two.
LEMMA PairNests ==
  ASSUME NEW n \in Nat, n - 1 \in Nat, NEW k \in STRING, NEW l \in STRING, k # l,
         NEW x \in NestedTo[n - 1], NEW y \in NestedTo[n - 1]
  PROVE  Map({Entry(k, x)}) \in NestedTo[n] /\ Map({Entry(k, x), Entry(l, y)}) \in NestedTo[n]
<1>1. Map({} \cup {Entry(k, x)}) \in NestedTo[n]
  BY LeavesNest, EntryNests
<1>2. {} \cup {Entry(k, x)} = {Entry(k, x)}
  OBVIOUS
<1>3. Map({Entry(k, x)} \cup {Entry(l, y)}) \in NestedTo[n]
  BY <1>1, <1>2, EntryNests DEF Entry
<1>4. {Entry(k, x)} \cup {Entry(l, y)} = {Entry(k, x), Entry(l, y)}
  OBVIOUS
<1> QED
  BY <1>1, <1>2, <1>3, <1>4

\* A selector has one value for each key.
LEMMA LabelsNest ==
  ASSUME NEW n \in Nat, n - 1 \in Nat, NEW selector \in Selector
  PROVE  Labels(selector) \in NestedTo[n]
<1> DEFINE value(key) == (CHOOSE label \in selector : label.key = key).value
           E == {Entry(key, Text(value(key))) : key \in {label.key : label \in selector}}
<1>1. ASSUME NEW label \in selector
      PROVE  label.key \in STRING /\ value(label.key) \in Name
  BY DEF Selector
<1> HIDE DEF value
<1>2. \A e \in E : \E label \in selector : e = Entry(label.key, Text(value(label.key)))
  OBVIOUS
<1> HIDE DEF E
<1>3. \A e \in E : /\ e = Entry(e.key, e.value)
                   /\ e.key \in STRING /\ e.value \in NestedTo[n - 1]
  BY <1>1, <1>2, LeavesNest DEF Entry
<1>4. \A d, e \in E : d.key = e.key => d = e
  BY <1>2 DEF Entry
<1>5. Map(E) \in NestedTo[n]
  BY <1>3, <1>4, MapNests
<1> QED
  BY <1>5, Zenon DEF Labels, E, value

\* The parts of typed objects, each with the depth it needs.
LEMMA PortFieldsNest ==
  ASSUME NEW n \in Nat, n - 1 \in Nat, NEW port \in ServicePort
  PROVE  PortFields(port) \in NestedTo[n]
<1>1. port.port \in Int /\ port.target \in Int
  BY DEF ServicePort, Port
<1>2. "port" \in STRING /\ "targetPort" \in STRING /\ "port" # "targetPort"
  BY FieldLiterals
<1>3. Scalar(port.port) \in NestedTo[n - 1] /\ Scalar(port.target) \in NestedTo[n - 1]
  BY <1>1, LeavesNest
<1> QED
  BY <1>2, <1>3, PairNests DEF PortFields

LEMMA VolumeFieldsNest ==
  ASSUME NEW n \in Nat, n - 1 \in Nat, n - 2 \in Nat, NEW volume \in SecretVolume
  PROVE  VolumeFields(volume) \in NestedTo[n]
<1> DEFINE secret == Map({Entry("secretName", Text(volume.secret))})
<1>1. volume.secret \in Name /\ volume.volume \in Name
  BY DEF SecretVolume
<1>2. /\ "name" \in STRING /\ "secret" \in STRING /\ "secretName" \in STRING
      /\ "name" # "secret" /\ "name" # "secretName"
  BY FieldLiterals
<1>3. n - 1 \in Nat /\ (n - 1) - 1 \in Nat /\ (n - 1) - 1 = n - 2
  OBVIOUS
<1>4. Text(volume.volume) \in NestedTo[n - 1] /\ Text(volume.secret) \in NestedTo[n - 2]
  BY <1>1, LeavesNest
<1>5. secret \in NestedTo[n - 1]
  BY <1>2, <1>3, <1>4, PairNests
<1> HIDE DEF secret
<1>6. Map({Entry("name", Text(volume.volume)), Entry("secret", secret)}) \in NestedTo[n]
  BY <1>2, <1>4, <1>5, PairNests
<1> QED
  BY <1>6 DEF VolumeFields, secret

LEMMA ServiceFieldsNest ==
  ASSUME NEW n \in Nat, n - 1 \in Nat, NEW client \in Client
  PROVE  ServiceFields(client) \in NestedTo[n]
<1>1. client.service \in Name /\ client.port \in Int
  BY DEF Client, Port
<1>2. "name" \in STRING /\ "port" \in STRING /\ "name" # "port"
  BY FieldLiterals
<1>3. Text(client.service) \in NestedTo[n - 1] /\ Scalar(client.port) \in NestedTo[n - 1]
  BY <1>1, LeavesNest
<1> DEFINE name == Entry("name", Text(client.service))
           port == Entry("port", Scalar(client.port))
<1>4. Map({name}) \in NestedTo[n] /\ Map({name, port}) \in NestedTo[n]
  BY <1>2, <1>3, PairNests
<1>5. {name} \cup Optional(client.port # NilPort, port) \in {{name}, {name, port}}
  BY DEF Optional
<1> QED
  BY <1>4, <1>5 DEF ServiceFields

LEMMA ClientFieldsNest ==
  ASSUME NEW n \in Nat, n - 1 \in Nat, n - 2 \in Nat, n - 3 \in Nat, NEW client \in Client
  PROVE  ClientFields(client) \in NestedTo[n]
<1> DEFINE service == Entry("service", ServiceFields(client))
           config == Map(Optional(client.service # NoName, service))
<1>1. "service" \in STRING /\ "clientConfig" \in STRING /\ "service" # "clientConfig"
  BY FieldLiterals
<1>2. /\ n - 1 \in Nat /\ (n - 1) - 1 \in Nat /\ (n - 1) - 1 = n - 2
      /\ n - 2 \in Nat /\ (n - 2) - 1 \in Nat
  OBVIOUS
<1>3. ServiceFields(client) \in NestedTo[n - 2]
  BY <1>2, ServiceFieldsNest
<1>4. Map({service}) \in NestedTo[n - 1] /\ Map({}) \in NestedTo[n - 1]
  BY <1>1, <1>2, <1>3, PairNests, LeavesNest
<1>5. Optional(client.service # NoName, service) \in {{}, {service}}
  BY DEF Optional
<1>6. config \in NestedTo[n - 1]
  BY <1>4, <1>5
<1> HIDE DEF config
<1>7. Map({Entry("clientConfig", config)}) \in NestedTo[n]
  BY <1>1, <1>6, PairNests
<1> QED
  BY <1>7 DEF ClientFields, config, service

LEMMA CertificateFieldsNest ==
  ASSUME NEW n \in Nat, n - 1 \in Nat, n - 2 \in Nat, NEW spec \in CertificateSpec
  PROVE  CertificateFields(spec) \in NestedTo[n]
<1> DEFINE secret == Entry("secretName", Text(spec.secret))
           names == List(<<Text(spec.dns)>>)
           ref == Map({Entry("name", Text(spec.issuer.name)),
                       Entry("kind", Word(spec.issuer.kind))})
<1>1. /\ spec.secret \in Name /\ spec.dns \in Name
      /\ spec.issuer.name \in Name /\ spec.issuer.kind \in STRING
  BY DEF CertificateSpec, IssuerRef
<1>2. /\ "secretName" \in STRING /\ "dnsNames" \in STRING /\ "issuerRef" \in STRING
      /\ "name" \in STRING /\ "kind" \in STRING /\ "name" # "kind"
      /\ "secretName" # "dnsNames" /\ "issuerRef" \notin {"secretName", "dnsNames"}
  BY FieldLiterals
<1>3. n - 1 \in Nat /\ (n - 1) - 1 \in Nat /\ (n - 1) - 1 = n - 2
  OBVIOUS
<1>4. Text(spec.secret) \in NestedTo[n - 1]
  BY <1>1, LeavesNest
<1>5. names \in NestedTo[n - 1]
  <2>1. Text(spec.dns) \in NestedTo[n - 2]
    BY <1>1, LeavesNest
  <2>2. <<Text(spec.dns)>> \in Seq(NestedTo[n - 2])
    BY <2>1, Tuples
  <2> QED
    BY <1>3, <2>2, ListNests
<1>6. ref \in NestedTo[n - 1]
  <2>1. Text(spec.issuer.name) \in NestedTo[n - 2] /\ Word(spec.issuer.kind) \in NestedTo[n - 2]
    BY <1>1, LeavesNest
  <2> QED
    BY <1>2, <1>3, <2>1, PairNests
<1> HIDE DEF names, ref
<1>7. Map({secret, Entry("dnsNames", names)}) \in NestedTo[n]
  BY <1>2, <1>4, <1>5, PairNests
<1>8. Map({secret, Entry("dnsNames", names)} \cup {Entry("issuerRef", ref)}) \in NestedTo[n]
  BY <1>2, <1>6, <1>7, EntryNests DEF Entry
<1>9. {secret, Entry("dnsNames", names)} \cup {Entry("issuerRef", ref)}
      = {secret, Entry("dnsNames", names), Entry("issuerRef", ref)}
  OBVIOUS
<1> QED
  BY <1>8, <1>9 DEF CertificateFields, names, ref

\* The metadata, whichever of the optional entries are in it.
LEMMA MetadataNests ==
  ASSUME NEW n \in Nat, n - 1 \in Nat, n - 2 \in Nat,
         NEW obj, obj.name \in Name, obj.inject \in Name
  PROVE  Metadata(obj) \in NestedTo[n]
<1> DEFINE name == Entry("name", Text(obj.name))
           time == Entry("creationTimestamp", Null)
           space == Entry("namespace", Text(<<"target">>))
           notes == Map({Entry("inject", Text(obj.inject))})
           note == Entry("annotations", notes)
           E == {name, time} \cup Optional(IsNamespaced(obj.gvk), space)
           F == E \cup Optional(obj.inject # NoName, note)
<1>1. /\ "name" \in STRING /\ "creationTimestamp" \in STRING /\ "namespace" \in STRING
      /\ "annotations" \in STRING /\ "inject" \in STRING /\ "target" \in STRING
      /\ "name" # "creationTimestamp" /\ "namespace" \notin {"name", "creationTimestamp"}
      /\ "annotations" \notin {"name", "creationTimestamp", "namespace"}
      /\ "inject" # "annotations"
  BY FieldLiterals
<1>2. n - 1 \in Nat /\ (n - 1) - 1 \in Nat /\ (n - 1) - 1 = n - 2
  OBVIOUS
<1>3. Text(obj.name) \in NestedTo[n - 1] /\ Null \in NestedTo[n - 1]
  BY LeavesNest
<1>4. Text(<<"target">>) \in NestedTo[n - 1]
  <2>1. <<"target">> \in Name
    BY <1>1, Tuples, Zenon DEF Name
  <2> QED
    BY <2>1, LeavesNest
<1>5. notes \in NestedTo[n - 1]
  <2>1. Text(obj.inject) \in NestedTo[n - 2]
    BY LeavesNest
  <2> QED
    BY <1>1, <1>2, <2>1, PairNests
<1>6. name.key = "name" /\ time.key = "creationTimestamp" /\ space.key = "namespace"
  BY DEF Entry
<1> HIDE DEF notes
<1>7. Map({name, time}) \in NestedTo[n]
  BY <1>1, <1>3, PairNests
<1>8. Map(E) \in NestedTo[n] /\ E \subseteq {name, time, space}
  <2>1. Map({name, time} \cup {space}) \in NestedTo[n]
    <3> HIDE DEF name, time
    <3> QED
      BY <1>1, <1>4, <1>6, <1>7, EntryNests
  <2>2. {name, time} \cup {} = {name, time}
    OBVIOUS
  <2> HIDE DEF name, time, space
  <2> QED
    BY <1>7, <2>1, <2>2 DEF Optional
<1>9. Map(F) \in NestedTo[n]
  <2> HIDE DEF name, time, space, E
  <2>1. \A e \in E : e.key # "annotations"
    BY <1>1, <1>6, <1>8
  <2>2. Map(E \cup {Entry("annotations", notes)}) \in NestedTo[n]
    BY <1>1, <1>5, <1>8, <2>1, EntryNests
  <2>3. E \cup {} = E
    OBVIOUS
  <2> QED
    BY <1>8, <2>2, <2>3 DEF Optional
<1> QED
  BY <1>9 DEF Metadata, notes

\* The deepest is a webhook configuration: a list of clients, a map with a map that
\* holds the service.
LEMMA SpecNests ==
  ASSUME NEW n \in Nat, n - 1 \in Nat, n - 2 \in Nat, n - 3 \in Nat, n - 4 \in Nat,
         NEW obj \in Object, NEW content \in NestedTo[n]
  PROVE  Spec_Fields(obj, content) \in NestedTo[n]
<1>1. /\ obj.valid /\ IsKind(obj, ServiceGVK) => obj.spec \in ServiceSpec
      /\ obj.valid /\ IsKind(obj, DeploymentGVK) => obj.spec \in DeploymentSpec
      /\ obj.valid /\ IsWebhookConfiguration(obj) => obj.spec \in WebhookSpec
  BY Zenon DEF Object, Converts
<1>2. /\ n - 1 \in Nat /\ (n - 1) - 1 \in Nat /\ (n - 1) - 1 = n - 2
      /\ n - 2 \in Nat /\ (n - 2) - 1 \in Nat /\ (n - 2) - 2 \in Nat
      /\ (n - 1) - 2 \in Nat /\ (n - 1) - 3 \in Nat
  OBVIOUS
<1>3. /\ "selfSigned" \in STRING /\ "ports" \in STRING /\ "selector" \in STRING
      /\ "strategy" \in STRING /\ "volumes" \in STRING
      /\ "ports" # "selector" /\ "selector" # "strategy" /\ "selfSigned" # "ports"
      /\ "volumes" \notin {"selector", "strategy"}
  BY FieldLiterals
<1>4. Map({}) \in NestedTo[n - 1]
  BY <1>2, LeavesNest
<1> DEFINE issuerSpec == Map({Entry("selfSigned", Map({}))})
           ports == List(Each(obj.spec.ports, PortFields))
           labels == Labels(obj.spec.selector)
           service == Map({Entry("ports", ports), Entry("selector", labels)})
           volumes == List(Each(obj.spec.volumes, VolumeFields))
           deployment == Map({Entry("selector", labels), Entry("strategy", Map({})),
                              Entry("volumes", volumes)})
           clients == List(Each(obj.spec.clients, ClientFields))
<1>5. issuerSpec \in NestedTo[n]
  BY <1>3, <1>4, PairNests
<1>6. ASSUME obj.spec \in CertificateSpec PROVE CertificateFields(obj.spec) \in NestedTo[n]
  BY <1>6, CertificateFieldsNest
<1>7. ASSUME obj.spec \in ServiceSpec \/ obj.spec \in DeploymentSpec
      PROVE  labels \in NestedTo[n - 1]
  <2>1. obj.spec.selector \in Selector
    BY <1>7 DEF ServiceSpec, DeploymentSpec
  <2> QED
    BY <1>2, <2>1, LabelsNest
<1>8. ASSUME obj.spec \in ServiceSpec PROVE service \in NestedTo[n]
  <2> DEFINE list == obj.spec.ports
             made == Each(list, PortFields)
  <2>1. list \in Seq(ServicePort)
    BY <1>8 DEF ServiceSpec
  <2>2. \A port \in ServicePort : PortFields(port) \in NestedTo[n - 2]
    BY <1>2, PortFieldsNest
  <2> HIDE DEF list
  <2>3. made \in Seq(NestedTo[n - 2])
    BY <2>1, <2>2 DEF Each
  <2> HIDE DEF made
  <2>4. List(made) \in NestedTo[n - 1]
    BY <1>2, <2>3, ListNests
  <2>5. ports \in NestedTo[n - 1] /\ labels \in NestedTo[n - 1]
    BY <1>7, <1>8, <2>4 DEF made, list
  <2> HIDE DEF ports, labels
  <2> QED
    BY <1>3, <2>5, PairNests
<1>9. ASSUME obj.spec \in DeploymentSpec PROVE deployment \in NestedTo[n]
  <2> DEFINE list == obj.spec.volumes
             made == Each(list, VolumeFields)
             some == {Entry("selector", labels), Entry("strategy", Map({}))}
  <2>1. list \in Seq(SecretVolume)
    BY <1>9 DEF DeploymentSpec
  <2>2. \A volume \in SecretVolume : VolumeFields(volume) \in NestedTo[n - 2]
    BY <1>2, VolumeFieldsNest
  <2> HIDE DEF list
  <2>3. made \in Seq(NestedTo[n - 2])
    BY <2>1, <2>2 DEF Each
  <2> HIDE DEF made
  <2>4. List(made) \in NestedTo[n - 1]
    BY <1>2, <2>3, ListNests
  <2>5. volumes \in NestedTo[n - 1] /\ labels \in NestedTo[n - 1]
    BY <1>7, <1>9, <2>4 DEF made, list
  <2> HIDE DEF volumes, labels
  <2>6. Map(some) \in NestedTo[n]
    BY <1>3, <1>4, <2>5, PairNests
  <2>7. \A e \in some : e.key # "volumes"
    BY <1>3 DEF Entry
  <2> HIDE DEF some
  <2>8. Map(some \cup {Entry("volumes", volumes)}) \in NestedTo[n]
    BY <1>3, <2>5, <2>6, <2>7, EntryNests
  <2>9. deployment = Map(some \cup {Entry("volumes", volumes)})
    BY DEF some, Map
  <2> QED
    BY <2>8, <2>9, Zenon
<1>10. ASSUME obj.spec \in WebhookSpec PROVE clients \in NestedTo[n]
  <2> DEFINE list == obj.spec.clients
             made == Each(list, ClientFields)
  <2>1. list \in Seq(Client)
    BY <1>10 DEF WebhookSpec
  <2>2. \A client \in Client : ClientFields(client) \in NestedTo[n - 1]
    BY <1>2, ClientFieldsNest
  <2> HIDE DEF list
  <2>3. made \in Seq(NestedTo[n - 1])
    BY <2>1, <2>2 DEF Each
  <2> HIDE DEF made
  <2>4. List(made) \in NestedTo[n]
    BY <1>2, <2>3, ListNests
  <2> QED
    BY <2>4 DEF made, list
<1> HIDE DEF issuerSpec, service, deployment, clients
<1>11. Spec_Fields(obj, content) =
         CASE obj.spec \in IssuerSpec -> issuerSpec
           [] obj.spec \in CertificateSpec -> CertificateFields(obj.spec)
           [] obj.valid /\ IsKind(obj, ServiceGVK) -> service
           [] obj.valid /\ IsKind(obj, DeploymentGVK) -> deployment
           [] obj.valid /\ IsWebhookConfiguration(obj) -> clients
           [] OTHER -> content
  BY Zenon DEF Spec_Fields, issuerSpec, service, deployment, clients
<1> QED
  BY <1>1, <1>5, <1>6, <1>8, <1>9, <1>10, <1>11

\* The document of a manifest is a map, nested five deep or as deep as its content.
LEMMA ObjectNests ==
  ASSUME NEW n \in Nat, n - 5 \in Nat, NEW obj \in Object, NEW content \in NestedTo[n - 1]
  PROVE  /\ ToUnstructured(obj, content) \in NestedTo[n]
         /\ ToUnstructured(obj, content).t = "map"
<1> DEFINE kind == Entry("kind", Text(<<obj.gvk.group, obj.gvk.version, obj.gvk.kind>>))
           metadata == Entry("metadata", Metadata(obj))
           spec == Entry("spec", Spec_Fields(obj, content))
           status == Entry("status", Map({}))
<1>1. /\ n - 1 \in Nat /\ (n - 1) - 1 \in Nat /\ (n - 1) - 2 \in Nat
      /\ (n - 1) - 3 \in Nat /\ (n - 1) - 4 \in Nat
  OBVIOUS
<1>2. /\ "kind" \in STRING /\ "metadata" \in STRING /\ "spec" \in STRING /\ "status" \in STRING
      /\ "kind" # "metadata" /\ "spec" \notin {"kind", "metadata"}
      /\ "status" \notin {"kind", "metadata", "spec"}
  BY FieldLiterals
<1>3. Text(<<obj.gvk.group, obj.gvk.version, obj.gvk.kind>>) \in NestedTo[n - 1]
  <2>1. obj.gvk.group \in STRING /\ obj.gvk.version \in STRING /\ obj.gvk.kind \in STRING
    BY DEF Object, GVK
  <2>2. <<obj.gvk.group, obj.gvk.version, obj.gvk.kind>> \in Name
    BY <2>1, Tuples, Zenon DEF Name
  <2> QED
    BY <1>1, <2>2, LeavesNest
<1>4. Metadata(obj) \in NestedTo[n - 1]
  <2>1. obj.name \in Name /\ obj.inject \in Name
    BY DEF Object
  <2> QED
    BY <1>1, <2>1, MetadataNests
<1>5. Spec_Fields(obj, content) \in NestedTo[n - 1]
  BY <1>1, SpecNests
<1>6. Map({}) \in NestedTo[n - 1]
  BY <1>1, LeavesNest
<1>7. kind.key = "kind" /\ metadata.key = "metadata" /\ spec.key = "spec"
  BY DEF Entry
<1>8. Map({kind, metadata}) \in NestedTo[n]
  BY <1>1, <1>2, <1>3, <1>4, PairNests
<1>9. Map({kind, metadata} \cup {spec}) \in NestedTo[n]
  <2> HIDE DEF kind, metadata
  <2> QED
    BY <1>1, <1>2, <1>5, <1>7, <1>8, EntryNests
<1>10. Map({kind, metadata} \cup {spec} \cup {status}) \in NestedTo[n]
  <2> HIDE DEF kind, metadata, spec
  <2> QED
    BY <1>1, <1>2, <1>6, <1>7, <1>9, EntryNests
<1>11. ToUnstructured(obj, content) = Map({kind, metadata} \cup {spec} \cup {status})
  <2>1. ToUnstructured(obj, content) = Map({kind, metadata, spec, status})
    BY Zenon DEF ToUnstructured
  <2> HIDE DEF kind, metadata, spec, status
  <2> QED
    BY <2>1 DEF Map
<1> HIDE DEF kind, metadata, spec, status
<1> QED
  BY <1>10, <1>11 DEF Map

\* The document itself is the map of the entries that are left, be there none.
LEMMA DocumentCleans ==
  ASSUME NEW obj \in Object, bundle.content \in NestedTo[MaxDepth - 1]
  PROVE  /\ Leaves(Document(obj)) = Leaves(Uncleaned(obj))
         /\ \A e \in Document(obj).entries : fullTo[MaxDepth - 1][e.value]
<1> DEFINE n == MaxDepth
           below == n - 1
           m == Uncleaned(obj)
           E == m.entries
           C == cleanMap(E, [e \in E |-> cleanTo[below][e.value]])
<1>1. n \in Nat /\ n - 1 \in Nat /\ n - 5 \in Nat /\ below \in Nat
  BY MaxDepthAssumption
<1>2. m \in NestedTo[n] /\ m.t = "map"
  BY <1>1, ObjectNests DEF Uncleaned
<1> HIDE DEF m
<1>3. /\ \A e \in E : /\ e = Entry(e.key, e.value)
                      /\ e.key \in STRING /\ e.value \in NestedTo[below]
      /\ \A d, e \in E : d.key = e.key => d = e
  BY <1>1, <1>2, Shapes, LeafShape DEF List
<1>4. /\ \A e \in C : /\ e = Entry(e.key, e.value)
                      /\ e.key \in STRING /\ e.value \in NestedTo[below]
                      /\ fullTo[below][e.value]
      /\ \A d, e \in C : d.key = e.key => d = e
      /\ LeavesOfMap(C, [e \in C |-> leavesTo[below][e.value]])
         = LeavesOfMap(E, [e \in E |-> leavesTo[below][e.value]])
  <2> HIDE DEF below, E
  <2> QED
    BY <1>1, <1>3, EntriesClean, AllClean
<1>5. Document(obj) = Map(C)
  BY Zenon DEF Document, CleanUnstructured, cleanValue, m
<1>6. leavesTo[n][m] = LeavesOfMap(E, [e \in E |-> leavesTo[below][e.value]])
  BY <1>1, <1>2, LeavesIs, MapParts, Zenon DEF MapLeavesOf
<1> HIDE DEF E, C
<1>7. Map(C) \in NestedTo[n] /\ Map(C).t = "map" /\ Map(C).entries = C
  BY <1>1, <1>4, MapNests DEF Map
<1>8. leavesTo[n][Map(C)] = LeavesOfMap(C, [e \in C |-> leavesTo[below][e.value]])
  <2>1. leavesTo[n][Map(C)] = LeavesOf(Map(C), leavesTo[below])
    BY <1>1, <1>7, LeavesIs
  <2>2. leavesTo[n][Map(C)] = MapLeavesOf(Map(C), leavesTo[below])
    BY <1>7, <2>1, MapParts
  <2>3. MapLeavesOf(Map(C), leavesTo[below]) =
          LeavesOfMap(Map(C).entries, [e \in Map(C).entries |-> leavesTo[below][e.value]])
    BY Zenon DEF MapLeavesOf
  <2> QED
    BY <1>7, <2>2, <2>3
<1>9. Leaves(Document(obj)) = Leaves(Uncleaned(obj))
  BY <1>4, <1>5, <1>6, <1>8, Zenon DEF Leaves, m
<1> QED
  BY <1>4, <1>5, <1>7, <1>9

-----------------------------------------------------------------------------
(* What is written. *)

\* No step changes what was given.
LEMMA NextKeepsInput == [Next]_vars => bundle' = bundle
BY DEF Next, vars, Fail, GoTo, inputVars, Report, ReportFails, FlagMissing, Unreadable, ReadFlags,
  ReadResourceList, ExtractFunctionConfig, ValidateNamespace, MakeTempDir, TempDirFails,
  ResolveBundleSource, ResolveFails, Load, LoadFails, Extract, ExtractFails, SkipFilter,
  CompileFilter, FilterObject, FilterFails, FilterEnds, SkipCertManager, StartCertManager,
  CertManagerStep, CertManagerEnds, CertManagerFails, CertManagerPanics, Sort,
  WriteDocument, WriteFails, WriteEnds, WriteResourceList, WriteListFails

Given == bundle.content \in NestedTo[MaxDepth - 1]

LEMMA InputInductive == Spec => []Given
<1>1. Init => Given
  BY ContentAssumption DEF Init, Given
<1>2. Given /\ [Next]_vars => Given'
  BY NextKeepsInput DEF Given
<1> QED
  BY <1>1, <1>2, PTL DEF Spec

\* What was written are manifests.
LEMMA DeliveredAreObjects == TypeOK => Delivered \subseteq Object
<1> SUFFICES ASSUME TypeOK, pc = "done" PROVE \A i \in DOMAIN output : output[i] \in Object
  BY DEF Delivered
<1>1. output \in Seq(Object)
  BY DEF TypeOK
<1> QED
  BY <1>1

\* However deep the values of a manifest are nested, both front ends write every
\* text and every scalar that stands in it, at its path and in its order, and
\* nothing else; an empty text in a list is one of them (CleanUnstructured).
THEOREM LeavesAreWritten == Spec => []LeavesSurvive
<1>1. TypeOK /\ Given => LeavesSurvive
  BY DeliveredAreObjects, DocumentCleans DEF LeavesSurvive, Given
<1> QED
  BY <1>1, Typed, InputInductive, PTL

\* However deep the values of a manifest are nested, no field of what is written is
\* without value, not even one that lost its value to the cleaning (cleanMap).
THEOREM DocumentsAreFull == Spec => []NothingEmptyIsWritten
<1>1. TypeOK /\ Given => NothingEmptyIsWritten
  BY DeliveredAreObjects, DocumentCleans DEF NothingEmptyIsWritten, Given
<1> QED
  BY <1>1, Typed, InputInductive, PTL
=============================================================================
