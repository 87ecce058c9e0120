------------------------------- MODULE Pipeline -------------------------------
(***************************************************************************)
(* One invocation of the program, from its input to what it writes and how *)
(* it exits, under both front ends: the command `run' and the KRM function *)
(* `krm'.  The phases hand on a list of manifests:                         *)
(*                                                                         *)
(*   objects   what the extraction and the conversion gave,                *)
(*   kept      what the filter left of it,                                 *)
(*   result    what certmanager.Configure made of that (the variables step *)
(*             to processed are its own, module CertManager),              *)
(*   sorted    the list to be written.                                     *)
(*                                                                         *)
(* Finding, loading and converting a bundle are one step each here, which  *)
(* fails or gives a list; ImageSource, ImageUnpack and Manifests take them *)
(* apart.  A document on stdout is represented by the manifest it was made *)
(* of; module Documents says what stands in it.                            *)
(***************************************************************************)
EXTENDS ApplyOrder, ResourceFilter, FiniteSets

CONSTANTS Invocations,    \* pairs [request, bundle] the program may be run with
          KeywordWords    \* the words that contain webhook, cert, tls or serving

Settings == [enabled : {"unset", "true", "false"}, name : Name, kind : STRING]

\* flag: the namespace is given as a flag; readable: the configuration, or the
\* ResourceList on stdin, parses; decodes: the list holds a functionConfig of
\* kind Extractor; valid: the namespace is a DNS label; tempDir: --temp-dir is
\* given; items: the manifests in the ResourceList.
Request ==
  [front : {"run", "krm"}, flag : BOOLEAN, readable : BOOLEAN, decodes : BOOLEAN,
   valid : BOOLEAN, tempDir : BOOLEAN, include : Seq(Expressions), exclude : Seq(Expressions),
   certManager : Settings, items : Seq(STRING)]

ASSUME InvocationsAssumption ==
  \A inv \in Invocations :
    /\ inv.request \in Request
    /\ inv.bundle.objects \in Seq(Object)
    /\ \A expr \in Expressions : \A i \in DOMAIN inv.bundle.objects :
         Run(expr, inv.bundle.objects[i]) \in Seq(Results)

ASSUME KeywordsAssumption ==
  {"webhook", "cert", "tls", "serving"} \subseteq KeywordWords

VARIABLES request, bundle,   \* the input, never changed
          pc,                \* the phase, or how the invocation ended
          objects, kept, sorted,
          pos,               \* position of the loops of the filter and of render.YAML
          step, at, caller, issuer, result, processed,   \* certmanager.Configure
          output,            \* the documents on stdout, by manifest
          errors             \* error results in the ResourceList on stdout

cmVars == <<step, at, caller, issuer, result, processed>>
inputVars == <<request, bundle>>
listVars == <<objects, kept, sorted>>
outVars == <<output, errors>>
vars == <<request, bundle, pc, objects, kept, sorted, pos, step, at, caller, issuer,
          result, processed, output, errors>>

\* run: the default of the flag; krm: boolValue(..., true) in ToConfig.
Enabled == request.certManager.enabled # "false"

Issuer == [name |-> request.certManager.name, kind |-> request.certManager.kind]

\* The instance is one of the module with CertManager's theorems, which adds
\* nothing but those.
Configure == INSTANCE CertManagerProofs WITH
  Inputs <- {}, Configs <- {}, input <- kept, cfg <- Issuer,
  pc <- step, pos <- at, objects <- caller

Ended == {"done", "reported", "failed", "cutShort", "panicked"}

Init ==
  /\ \E inv \in Invocations : request = inv.request /\ bundle = inv.bundle
  /\ pc = "read"
  /\ objects = <<>> /\ kept = <<>> /\ sorted = <<>>
  /\ pos = 1
  /\ step = "start" /\ at = 1 /\ caller = <<>> /\ issuer = [name |-> NoName, kind |-> ""]
  /\ result = <<>> /\ processed = {}
  /\ output = <<>> /\ errors = 0

-----------------------------------------------------------------------------
(* Errors. *)

\* Mutant: the results of the list are forgotten.
Report_Silent ==
  /\ pc = "report"
  /\ pc' = "reported"
  /\ output' = request.items
  /\ UNCHANGED <<inputVars, listVars, pos, cmVars, errors>>

\* AddErrorf on the list that was read, which still has its items, and
\* WriteResourceList; the function returns no error.
Report ==
  /\ pc = "report"
  /\ pc' = "reported"
  /\ errors' = 1
  /\ output' = request.items
  /\ UNCHANGED <<inputVars, listVars, pos, cmVars>>

\* A ResourceList cut short does not parse, so its reader gets no document.
ReportFails ==
  /\ pc = "report"
  /\ pc' = "failed"
  /\ UNCHANGED <<inputVars, listVars, pos, cmVars, outVars>>

\* The error of a phase is returned, and the program exits with status 1; the
\* KRM function reports it in its output once it has its configuration.
Fail ==
  /\ pc' = IF request.front = "krm" /\ pc \notin {"read", "config"} THEN "report" ELSE "failed"
  /\ UNCHANGED <<inputVars, listVars, pos, cmVars, outVars>>

GoTo(next) == pc' = next /\ UNCHANGED <<inputVars, listVars, pos, cmVars, outVars>>

-----------------------------------------------------------------------------
(* Configuration. *)

\* cobra asks for the flag, whatever the environment says.
FlagMissing ==
  /\ pc = "read"
  /\ request.front = "run" /\ ~request.flag
  /\ Fail

Unreadable ==
  /\ pc = "read"
  /\ ~request.readable
  /\ Fail

ReadFlags ==
  /\ pc = "read"
  /\ request.front = "run" /\ request.flag /\ request.readable
  /\ GoTo("namespace")

ReadResourceList ==
  /\ pc = "read"
  /\ request.front = "krm" /\ request.readable
  /\ GoTo("config")

ExtractFunctionConfig ==
  /\ pc = "config"
  /\ IF request.decodes THEN GoTo("namespace") ELSE Fail

ValidateNamespace ==
  /\ pc = "namespace"
  /\ IF request.valid THEN GoTo("tempDir") ELSE Fail

\* Only the command makes the directory, and only if it was named.
MakeTempDir ==
  /\ pc = "tempDir"
  /\ GoTo("source")

TempDirFails ==
  /\ pc = "tempDir"
  /\ request.front = "run" /\ request.tempDir
  /\ Fail

-----------------------------------------------------------------------------
(* The bundle. *)

ResolveBundleSource == pc = "source" /\ GoTo("load")
ResolveFails        == pc = "source" /\ Fail

Load      == pc = "load" /\ GoTo("extract")
LoadFails == pc = "load" /\ Fail

\* Manifests and ConvertToUnstructured.
Extract ==
  /\ pc = "extract"
  /\ pc' = "compile"
  /\ objects' = bundle.objects
  /\ UNCHANGED <<inputVars, kept, sorted, pos, cmVars, outVars>>

ExtractFails == pc = "extract" /\ Fail

-----------------------------------------------------------------------------
(* ApplyTransformations: the filter. *)

Filters == request.include # <<>> \/ request.exclude # <<>>

SkipFilter ==
  /\ pc = "compile"
  /\ ~Filters
  /\ pc' = "certificates"
  /\ kept' = objects
  /\ UNCHANGED <<inputVars, objects, sorted, pos, cmVars, outVars>>

CompileFilter ==
  /\ pc = "compile"
  /\ Filters
  /\ IF Parses(request.include) /\ Parses(request.exclude) THEN GoTo("filter") ELSE Fail

Verdict == shouldInclude(request.include, request.exclude, objects[pos])

\* Mutant: the position stays where a manifest is left out.
FilterObject_Stays ==
  /\ pc = "filter"
  /\ pos \in DOMAIN objects
  /\ Verdict # "error"
  /\ kept' = IF Verdict = "true" THEN Append(kept, objects[pos]) ELSE kept
  /\ pos' = IF Verdict = "true" THEN pos + 1 ELSE pos
  /\ UNCHANGED <<inputVars, pc, objects, sorted, cmVars, outVars>>

FilterObject ==
  /\ pc = "filter"
  /\ pos \in DOMAIN objects
  /\ Verdict # "error"
  /\ kept' = IF Verdict = "true" THEN Append(kept, objects[pos]) ELSE kept
  /\ pos' = pos + 1
  /\ UNCHANGED <<inputVars, pc, objects, sorted, cmVars, outVars>>

FilterFails ==
  /\ pc = "filter"
  /\ pos \in DOMAIN objects
  /\ Verdict = "error"
  /\ Fail

FilterEnds ==
  /\ pc = "filter"
  /\ pos = Len(objects) + 1
  /\ GoTo("certificates")

-----------------------------------------------------------------------------
(* ApplyTransformations: cert-manager and the order. *)

\* Mutant: the list from before the filter is handed on.
SkipCertManager_Unfiltered ==
  /\ pc = "certificates"
  /\ ~Enabled
  /\ pc' = "sort"
  /\ result' = objects
  /\ UNCHANGED <<inputVars, listVars, pos, step, at, caller, issuer, processed, outVars>>

SkipCertManager ==
  /\ pc = "certificates"
  /\ ~Enabled
  /\ pc' = "sort"
  /\ result' = kept
  /\ UNCHANGED <<inputVars, listVars, pos, step, at, caller, issuer, processed, outVars>>

StartCertManager ==
  /\ pc = "certificates"
  /\ Enabled
  /\ pc' = "configure"
  /\ caller' = kept
  /\ UNCHANGED <<inputVars, listVars, pos, step, at, issuer, result, processed, outVars>>

CertManagerStep ==
  /\ pc = "configure"
  /\ UNCHANGED <<inputVars, pc, listVars, pos, outVars>>
  /\ Configure!Next

CertManagerEnds == pc = "configure" /\ step = "done" /\ GoTo("sort")
CertManagerFails == pc = "configure" /\ step = "failed" /\ Fail

\* A nil dereference ends the program, under either front end.
CertManagerPanics == pc = "configure" /\ step = "panicked" /\ GoTo("panicked")

\* Mutant: the list keeps the order Configure gave it.
Sort_Unsorted ==
  /\ pc = "sort"
  /\ pc' = "write"
  /\ sorted' = result
  /\ pos' = 1
  /\ UNCHANGED <<inputVars, objects, kept, cmVars, outVars>>

\* Mutant: the writing goes on where the filter stopped.
Sort_KeepsPosition ==
  /\ pc = "sort"
  /\ pc' = "write"
  /\ sorted' = SortForApply(result)
  /\ UNCHANGED <<inputVars, objects, kept, pos, cmVars, outVars>>

Sort ==
  /\ pc = "sort"
  /\ pc' = "write"
  /\ sorted' = SortForApply(result)
  /\ pos' = 1
  /\ UNCHANGED <<inputVars, objects, kept, cmVars, outVars>>

-----------------------------------------------------------------------------
(* Output. *)

\* render.YAML: one document after the other.
WriteDocument ==
  /\ pc = "write"
  /\ request.front = "run"
  /\ pos \in DOMAIN sorted
  /\ output' = Append(output, sorted[pos])
  /\ pos' = pos + 1
  /\ UNCHANGED <<inputVars, pc, listVars, cmVars, errors>>

\* Encoding a document, or writing it, fails; those before it are out.
WriteFails ==
  /\ pc = "write"
  /\ request.front = "run"
  /\ pos \in DOMAIN sorted
  /\ GoTo("cutShort")

WriteEnds ==
  /\ pc = "write"
  /\ request.front = "run"
  /\ pos = Len(sorted) + 1
  /\ GoTo("done")

\* A new list, which has neither the items nor the functionConfig that were read.
WriteResourceList ==
  /\ pc = "write"
  /\ request.front = "krm"
  /\ pc' = "done"
  /\ output' = sorted
  /\ UNCHANGED <<inputVars, listVars, pos, cmVars, errors>>

WriteListFails ==
  /\ pc = "write"
  /\ request.front = "krm"
  /\ GoTo("cutShort")

Next ==
  \/ Report \/ ReportFails
  \/ FlagMissing \/ Unreadable \/ ReadFlags \/ ReadResourceList \/ ExtractFunctionConfig
  \/ ValidateNamespace \/ MakeTempDir \/ TempDirFails
  \/ ResolveBundleSource \/ ResolveFails \/ Load \/ LoadFails \/ Extract \/ ExtractFails
  \/ SkipFilter \/ CompileFilter \/ FilterObject \/ FilterFails \/ FilterEnds
  \/ SkipCertManager \/ StartCertManager \/ CertManagerStep \/ CertManagerEnds
  \/ CertManagerFails \/ CertManagerPanics \/ Sort
  \/ WriteDocument \/ WriteFails \/ WriteEnds \/ WriteResourceList \/ WriteListFails

Spec == Init /\ [][Next]_vars
FairSpec == Spec /\ WF_vars(Next)
-----------------------------------------------------------------------------
(* Properties. *)

Planned == pc \in {"write", "done", "cutShort"}
Filtered == Planned \/ pc \in {"certificates", "configure", "sort"}

\* The lists hold manifests, the loops stay in range, and the output is either
\* manifests or what the ResourceList on stdin held.
TypeOK ==
  /\ request \in Request
  /\ bundle.objects \in Seq(Object)
  /\ pc \in {"read", "config", "namespace", "tempDir", "source", "load", "extract", "compile",
             "filter", "certificates", "configure", "sort", "write", "report"} \cup Ended
  /\ objects \in {<<>>, bundle.objects}
  /\ kept \in Seq(Object)
  /\ pc = "filter" => pos \in 1 .. Len(objects) + 1
  /\ pc = "write" => pos \in 1 .. Len(sorted) + 1
  /\ pc = "configure" => Configure!TypeOK
  /\ sorted \in Seq(Object)
  /\ IF pc = "reported" THEN output = request.items ELSE output \in Seq(Object)
  /\ errors \in {0, 1}

\* What a caller that reads the exit status and the results takes for success.
LooksDone == pc \in {"done", "reported"} /\ errors = 0

Promise == INSTANCE DeliveryPromise WITH
  plan    <- IF Planned THEN {sorted} ELSE {},
  written <- IF errors = 0 THEN output ELSE <<>>,
  outcome <- CASE LooksDone -> "delivered"
               [] ~LooksDone /\ pc \in Ended -> "refused"
               [] OTHER -> "working"

\* Whatever fails and wherever, a caller of either front end that is not told of
\* a failure has got the whole list, and one that is told has got no generated
\* manifest, or with `run' the first few of the list (execute, Execute).
DeliversOrRefuses == Promise!Spec

\* list is what whole holds at the positions, in that order.
Selection(list, whole, positions) ==
  /\ Len(list) = Cardinality(positions)
  /\ \A p \in positions : list[Cardinality({q \in positions : q =< p})] = whole[p]

\* A manifest passes the filter exactly if no exclude expression yields true for
\* it and, when there are include expressions, one of them does: neither the
\* order of the expressions and their results nor an error of one of them ever
\* lets a manifest in or out (Matches).
FilterMeansItsExpressions ==
  Filtered =>
    Selection(kept, objects,
      {i \in DOMAIN objects : Selected(request.include, request.exclude, objects[i])})

Webhooked == Planned /\ Enabled /\ Configure!HasWebhooks(kept)

Before(i, gvk, name) == \E j \in 1 .. i - 1 : IsKind(sorted[j], gvk) /\ sorted[j].name = name

\* Whatever the filter took away, unless cert-manager is switched off: front to
\* back, a webhook with a service comes after that service and after a
\* certificate for it, and the certificate after the issuer when that is a
\* generated one (ApplyTransformations, SortForApply).
AppliesFrontToBack ==
  Webhooked =>
    \A w \in DOMAIN sorted : Configure!NeedsService(sorted[w]) =>
      /\ Before(w, ServiceGVK, ServiceOf(sorted[w]))
      /\ \E c \in 1 .. w - 1 :
           /\ Configure!Certifies(sorted[c], sorted[w], issuer)
           /\ Configure!SelfSigned(Issuer) => Before(c, IssuerGVK, issuer.name)

Plain(obj) == Configure!Unannotated(obj)

Copies(list, obj) == Cardinality({i \in DOMAIN list : Plain(list[i]) = Plain(obj)})

Replaced(obj) == IsKind(obj, ServiceGVK) /\ obj.name \in processed

\* From the filter to the output no manifest is lost or doubled, apart from the
\* Services of webhooks, which are replaced, and the certificates and issuers that
\* are added, one of which may be like one of the bundle; and what was filtered out
\* comes back only as what is added.
KeptManifestsArrive ==
  Planned =>
    /\ \A i \in DOMAIN kept : ~Replaced(kept[i]) =>
         LET n == Copies(kept, kept[i])
         IN  \/ Copies(sorted, kept[i]) = n
             \/ Copies(sorted, kept[i]) = n + 1 /\ Enabled /\ Configure!Added(kept[i])
    /\ \A i \in DOMAIN sorted :
         Copies(kept, sorted[i]) > 0 \/ (Enabled /\ Configure!Added(sorted[i]))

NamedAs(list, obj) == {i \in DOMAIN list : Is(list[i], obj.gvk, obj.name)}

\* A name is written twice only if the bundle brings a manifest of that name,
\* and the Service of a webhook not even then: what is generated never meets
\* something else that is generated (Configure).
GeneratedNamesAreUnique ==
  Planned =>
    \A i \in DOMAIN sorted :
      Cardinality(NamedAs(sorted, sorted[i])) > 1 =>
        NamedAs(kept, sorted[i]) # {} /\ ~Replaced(sorted[i])

\* Every phase returns: an invocation comes to an end.
Ends == <>(pc \in Ended)
=============================================================================
