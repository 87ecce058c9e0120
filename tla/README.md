# Verification of olm-extractor

`bundle-extract` turns an OLM bundle (a directory, a container image, or a
package of an operator catalog) into Kubernetes manifests that can be applied
without OLM. This directory holds TLA+ modules of the program, TLC
configurations that check them on small instances, and theorems that TLAPS
proves for every instance. Paths below are relative to the repository.

## 1. The system

The program is sequential: one goroutine, no server, no database. What makes it
hard is not parallelism inside a process but

- maps whose iteration order Go does not define, and in-place changes of lists
  that several loops still read,
- names: objects refer to each other by names that one phase invents, another
  replaces and a third derives from a different name,
- partial work: a phase fails after it changed something, a process ends between
  creating a directory and removing it,
- invocations that run at the same time over one directory for temporary files.

### Components

| Component | State it keeps | Operations | Interacts with |
|---|---|---|---|
| `cmd/run/run.go` | configuration | `execute`: source, load, extract, convert, transform, print | everything below; stops at the first error |
| `pkg/krm`, `cmd/krm` | the `ResourceList` read from stdin | `Execute`: the same phases; after the configuration is read, errors become results in the output | as above |
| `pkg/api/v1alpha1` | none | `ToConfig`: function configuration to internal configuration, with defaults | `pkg/krm` |
| `pkg/catalog` | catalog directory | `ResolveBundleSource`, `ResolveBundleImage`: package, channel, entry, bundle, image | `bundle.ExtractImage` |
| `pkg/bundle` | `BundleResource` (directory, directory to remove) | `Load`, `resolve`, `ExtractImage`, `Cleanup` | `pkg/registry`, file system |
| `pkg/registry` | temporary directory | `ExtractImage`, `unpackImage`, `layerContainsRelevantPaths` | registry, `pkg/util/tar` |
| `pkg/util/tar` | files in the target directory | `ExtractAll`, `ExtractEntry` and one function per entry type | file system |
| `pkg/extract` | the list of objects, the mapping of names | `Manifests`: collect, rename, sort; `ApplyTransformations` | `pkg/kube`, OLM's RBAC resolver, `pkg/filter`, `pkg/certmanager` |
| `pkg/certmanager` | `objects`, `webhookObjects`, processed services | `Configure` | `pkg/kube` |
| `pkg/kube` | none (changes objects through pointers) | find, convert, annotate, build services, sort, clean empty values | - |
| `pkg/filter` | compiled queries | include and exclude objects by jq expressions | jq |
| `pkg/render`, `pkg/util/slices`, `cmd/main.go`, `internal/version` | none | output, list helpers, wiring | - |

One run calls, in order: `catalog.ResolveBundleSource` (in catalog mode it pulls
the catalog image through `bundle.ExtractImage`), `bundle.Load` (it pulls the
bundle image the same way, unless the source is a directory),
`extract.Manifests`, `kube.ConvertToUnstructured`, `extract.ApplyTransformations`
(filter, `certmanager.Configure`, sort), and the output. The phases share no
state but the list of objects they hand on, whose elements are pointers, and the
file system.

### What makes each part correct

- **Sources.** What is read is what was asked for, whoever else uses the
  temporary directory; a user's directory is never removed; nothing is left
  behind; a package resolves to a bundle of its own channel.
- **Layers.** A successful extraction holds what the image holds under the wanted
  prefixes, whole, and nothing of the base system.
- **Extraction.** Every manifest of the bundle once; no OLM-generated name left;
  applying the result grants each service account exactly what the bundle
  declares; nothing refers to something that comes later.
- **cert-manager.** Every webhook with a service gets a certificate issued for the
  service, an annotation that names it, and one Service; nothing else is lost,
  doubled or reordered; a failed run delivers nothing.
- **Filter.** A manifest is kept exactly if its expressions say so, whatever the
  order of the expressions and of the values each of them yields; an error is
  never a selection.
- **Cleaning.** What has a value survives at its place; what has none is gone.
- **Pipeline.** A caller who is not told of a failure has got the whole list, in an
  order that applies front to back; what the filter kept arrives; nothing that is
  generated meets something else of its name.

## 2. The modules

| Module | Models | Composes |
|---|---|---|
| `KubeObjects` | `pkg/kube`: object kinds, lookup, annotations, Services | - |
| `ApplyOrder` | both copies of the apply order and the sort | `KubeObjects` |
| `Manifests` | `extract.Manifests`: every phase, the name mapping, the sort | `ApplyOrder` |
| `CertManager` | `certmanager.Configure` | `KubeObjects` |
| `CertPromise` | abstract: what `Configure` promises | implemented by `CertManager` |
| `ResourceFilter` | `pkg/filter` | `KubeObjects` |
| `Pipeline` | `cmd/run`, `pkg/krm`, `ApplyTransformations`, the output | `CertManager` (an instance), `ResourceFilter`, `ApplyOrder` |
| `DeliveryPromise` | abstract: what a run promises to whoever reads its output | implemented by `Pipeline` |
| `Cleaning` | `kube.ToUnstructured`, `kube.CleanUnstructured` | `KubeObjects` |
| `Documents` | what stands in the documents of a run | `Pipeline`, `Cleaning` |
| `ImageSource` | `catalog.ResolveBundleSource`, `bundle.Load` and what they call, in several invocations | - |
| `ImageUnpack` | `registry.unpackImage` and `pkg/util/tar` | - |
| `MCCertManager`, `MCManifests`, `MCPipeline`, `MCImageSource`, `MCImageUnpack` | instances for TLC | the modules they are named after; `MCPipeline` takes `Documents` |
| `KubeObjectsProofs`, `ApplyOrderProofs`, `CertManagerProofs`, `PipelineProofs`, `ImageSourceProofs`, `ImageUnpackProofs` | theorems; those about `Documents` are in `PipelineProofs` | the modules they are named after |
| `ManifestsProofs` | theorems of `Manifests` | `ApplyOrderProofs` |
| `Recursion` | theorems: what a function defined by recursion over the numbers is | instantiated by `PipelineProofs` |

`PROJECT.json` names the source lines of every definition. Definitions whose name
ends in an underscore and a description (`hasCertificate_AnyName`) are variants
with one plausible bug; no specification uses them, they show that a property
would notice.

### KubeObjects and ApplyOrder

A name is the sequence of its words: `op-webhook-service` is
`<<"op", "webhook", "service">>`, so that the suffix tests and the concatenations
of the code keep their meaning. An object has its group, version and kind, a name,
a specification reduced to the fields that some phase reads, `inject` (the
CA-injection annotation) and `valid` (it converts from its unstructured form).
`NilPort` is the pointer that was not set.

`StableSort` says where each element goes: to the place with as many elements at
or before it as have a smaller priority, or the same priority and an earlier
position (`NotAfter`). `sort.Slice` does exactly this up to twelve elements and
keeps no order among equals beyond; `sortKubernetesResources` and `SortForApply`
are the two sorts of the code, over the two copies of the priorities.

### CertManager

`pos` is the position of the running loop, `objects` the caller's list (changed
through its pointers), `result` the list being built, `processed` the set of
services. Actions follow the code: `ReturnUnchanged` and `ChooseIssuer`; per
object of the webhook loop `SkipNonWebhook`, `KeepServiceless`, `NilPortPanic`,
`SecretLookupError`, `ServiceError` or `ConfigureWebhook`; then `PrependIssuer`,
`CopyRemaining` per remaining object, and `Return`. The functions they call
(`selectWebhookSecret`, `EnsureService`, `UpdateServicePort`, ...) are operators
with the names of the source. The target namespace is left out: there is one.

`CertPromise` knows demands only (a webhook with its service): each is met at
once by a certificate and a service, and nothing is delivered while one is unmet.
`CertManager` implements it under the mapping of `Promise`.

### ResourceFilter

A jq expression is a constant operator `Run` that gives, for a manifest, a stream
of values; the filter tells true, an error and everything else apart.
`matchesQuery`, `matchAny` and `shouldInclude` give a verdict, `Selected` what the
expressions together mean without any order.

### Pipeline, Documents and Cleaning

`pc` is the phase: `read`, `config` (KRM only), `namespace`, `tempDir`, `source`,
`load`, `extract`, `compile`, `filter`, `certificates`, `configure`, `sort`,
`write`, and how the invocation ended. `request` is the command line or the
`ResourceList`, `bundle` what extraction and conversion will give. `objects`,
`kept`, `result` and `sorted` are the lists the phases hand on. Configure is the
specification `CertManager` itself, instantiated with the filter's list as its
input, so that a step of the phase `configure` is a step of that module; the
instance is of `CertManagerProofs`, which adds only theorems, to have them at hand.

`Fail` is what an error does: the command returns it and exits with a status, the
KRM function, once it has its configuration, goes on to `Report`, which writes the
list it read with an error result and returns success. `WriteDocument` writes one
document of `render.YAML`; `WriteResourceList` the whole output of the KRM
function, a new list. Finding, loading and extracting are one step each that may
fail; the modules above and below take them apart.

`Documents` looks into what was written. `Cleaning` has JSON values, the conversion
of typed objects with their fields without value, and `cleanValue`, which removes
those. A map is a set of entries with different keys, since the code goes over its maps
in any order; a list is a sequence. `NestedTo[n]` are the values nested at most `n`
deep, and `cleanValue` is the function `cleanTo` for the depth that a document can have:
the code's recursion ends because a decoded value is finite, the model's because
`MaxDepth` is. `cleanMap` and `cleanItems` are the two loops; they get what their
elements were cleaned to as a function. In `Documents` the leaves of a value are its
texts and scalars, by path; a path does not count the items of a list, so that the
leaves along a list are a sequence, in the order of the items.

`DeliveryPromise` knows a plan, what was written and an outcome. `Promise` in
`Pipeline` maps to it: the plan is the sorted list, the outcome is `delivered`
when status and results look like success.

### Manifests

`pc` is the phase. `pending` holds the service accounts that the loop over the
permissions has still to visit: OLM returns a Go map, so `CollectAccount` takes
any of them. `mapping` is `oldToNew`; `NormalizeObject` renames the object at
`pos` and the references it holds, as `applyNameMapping` does. `RunAgain` is a
second invocation on the same bundle, which remembers the result of the first in
`previous`. Phases without a loop whose order could matter are one action each.

### ImageSource

Processes are invocations. Each walks through `Start`, `Stat`, `MakeTemp`,
`Extract`, `ReadCatalog` or `ReadBundle` and `Cleanup`, in catalog mode once for
the catalog and once for the bundle. `tmp` and `dir` are the fields of
`BundleResource`. `dirs` is the file system they share, `holds` what was extracted
where. Failures are actions of their own (`MakeFails`, `ExtractFails`,
`ReadBroken`, `CleanupFails`), and `Crash` stops a process anywhere. `left` is a
history variable: why a directory has no owner any more. The lookup in the catalog
is made of operators named as the functions of `pkg/catalog`; each gives a set with
what it found or nothing. That a name of `MkdirTemp` is new is the guard of
`MakeTemp`; `MkdirTemp` itself is external.

### ImageUnpack

`layer` counts down as the code's loop does; `entry` is the position in the tar
stream; `fs` is the target directory. `Accepted` and `Extracted` are the checks
and the effects of `ExtractEntry` by type; what `os.OpenFile`, `os.MkdirAll` and
`os.Remove` do to existing files, directories and links is external and written
from how the code uses them. `ReadFails`, `EntryRefused` and `CopyFails` are the
errors.

## 3. What TLC checks

Every run ends within two minutes.

| Run | Distinct states | Shows |
|---|---|---|
| `cert_manager` | 115,194 | `CertificateChain`, `OncePerService`, `FirstWebhookSetsPort`, `SecretIsMounted`, `NothingLost`, the refinement `KeepsPromise`, termination |
| `manifests` | 132,350 | `GrantsPreserved`, `ReferencesPrecede`, `NoGeneratedNames`, `EveryManifestOnce`, `ConversionIsServed`, termination |
| `pipeline` | 235,644 | `FilterMeansItsExpressions`, `AppliesFrontToBack`, `KeptManifestsArrive`, `GeneratedNamesAreUnique`, `LeavesSurvive`, `NothingEmptyIsWritten`, the refinement `DeliversOrRefuses`, termination |
| `image_source` | 187,362 | `ReadsItsOwn`, `UserDirsKept`, `OnlyFailuresLeave`, `ResolvedFromChannel`, termination |
| `image_unpack` | 57,836 | `CompleteOrExhausted`, `OnlyRelevantLayers`, `OldestExtractedWins`, `FilesAreWhole`, termination |

Seven runs check a sentence of a document or a comment that the code does not
keep, and find the behaviour that breaks it:

| Run | The sentence | What happens |
|---|---|---|
| `cert_manager_selector` | the selector of a created Service comes from the deployment (`docs/webhook-certificates.md:255`) | for `op-service` the deployment is looked up by another suffix and not found |
| `manifests_deterministic` | names are deterministic (`pkg/extract/normalize.go:42`) | they are numbered in map order |
| `manifests_unique` | name and kind identify a resource (`normalize.go:25`) | webhook configurations and bundled roles collide with clean names |
| `pipeline_issuer` | the spec of the generated Issuer is `selfSigned: {}` (`docs/spec.md:350`) | the empty map, and then the spec that held only it, are cleaned away |
| `image_unpack_order` | the order of the layers is for efficiency (`pkg/registry/layer.go:75`) | it decides which files and which version of a file are extracted |
| `image_source_cleanup` | temporary files are cleaned up (`pkg/bundle/bundle.go:42`) | a failed pull leaves its directory |
| `image_source_catalog` | `package:version` resolves to the version, a package to the latest (`docs/spec.md:226`) | versions are compared with entry names, the first entry is taken |

Further differences between documents and code, which the models follow the code
in and which have no run of their own:

- a webhook without a port is dereferenced (`pkg/kube/webhook.go:35`,
  `NilPortPanic`), where `docs/webhook-certificates.md:254` gives it the port 443;
- the Service made for a webhook deployment is `<deployment>-webhook-service`
  (`pkg/kube/kube.go:268`), the configurations refer to `<deployment>-service`, so
  that without cert-manager nothing of that name backs them (`docs/spec.md:631`);
- the KRM function returns success when a phase fails and says so in its results
  only (`pkg/krm/execute.go:54`), where `docs/spec.md:660` asks for a status; and
  when it succeeds, the items it was given are not part of its output;
- `--namespace` must be a flag even where the environment sets it (`cmd/run/run.go`),
  `FlagMissing`;
- the operator's name is that of the first deployment for the issuer
  (`pkg/certmanager/certmanager.go:147`), of the last for clean names
  (`pkg/extract/normalize.go:87`);
- a RoleBinding's reference is looked up among the renamed Roles whatever its kind
  (`normalize.go:244`), where the comment at `normalize.go:170` says that the mapping
  is applied to the cross-references: a bundled ClusterRole with a name like those OLM
  generates is renamed, and a bundled RoleBinding to it keeps the old name and grants
  nothing. The bundles of `MCManifests` have such a pair; `NoGeneratedNames` names it as
  the one case in which a replaced name is left.

### Bounds, and why they are enough

- `MCCertManager`: every sorted list of up to `MaxObjects` = 4 of sixteen
  manifests, under three issuer settings. The properties relate a webhook, another
  webhook on its service, the Service, and the deployment or a bundled
  certificate: four objects. The manifests cover each branch of `Configure`
  (services with the port, with another, without ports or unusable; deployments
  with and without a keyword; clients that are URLs, lack a port or come second;
  objects that do not convert; the older API versions).
- `MCManifests`: up to `MaxPermissions` = 2 permissions in each list, two accounts,
  up to two deployments, five lists of webhooks and five lists of further objects,
  `MaxRuns` = 2. Two roles of one kind are the least that a count tells apart, and
  two runs the least that can differ. The further objects include a RoleBinding to a
  Role and one to a ClusterRole whose names look generated. `Size` keeps a bundle to twelve manifests,
  because `sort.Slice` sorts up to twelve elements by insertion and is stable
  there, which is how `StableSort` models it. `MCCountWord` is longer than the
  counts this reaches.
- `MCPipeline`: every sorted bundle of up to `MaxObjects` = 3 of ten manifests, and
  one that holds eight of them, for both front ends, seven pairs of include and
  exclude lists and three cert-manager settings; fourteen requests that go wrong or
  differ in one point; and one bundle of one manifest with each of several hundred contents,
  all empty values and their nestings two deep in maps and lists. `MaxDepth` = 5 is
  what the documents the program makes itself need, a webhook configuration being a
  map, a list, a map, a map and a map. Three manifests
  are a webhook, what it needs and a neighbour, and the long bundle has both
  webhooks on one service, one on another, a bundled certificate and a
  deployment. The certificate is the one `Configure` generates, so that a copy of
  what was kept is added to it. The expressions select, fail, and do both in either order; one does
  not parse.
- `MCImageSource`: two invocations, seven requests, three names for temporary
  directories, one more than two invocations hold at a time, so that a name is
  free, used again after its removal, or blocked by a directory left behind. The
  catalog has two packages with a channel of the same name, a channel with two
  entries whose head comes last, and a bundle without image.
- `MCImageUnpack`: images of up to `MaxLayers` = 3 of thirteen layers, for both sets
  of prefixes the callers use. Three layers are enough for a file to be written,
  overwritten and hidden, or for an early end to pass over something older. The
  layers hold complete and partial content, a patch, a whiteout, a link over a
  file, a hard link, a file without write permission, a directory in the place of
  a file, and the four ways an archive spells a path: with and without a leading dot,
  absolute, and leading out of the target directory, the last two of which are refused.

### Fairness

The code is a sequence of loops over finite lists, so each specification assumes
weak fairness of the steps that make progress, process by process in
`ImageSource`, and of no failure: a termination property never rests on something
going wrong. (`Manifests`, `Pipeline` and `CertManager` state it for `Next` as a
whole: no step of theirs can be repeated but `RunAgain`, `MaxRuns` - 1 times, so that
every behaviour ends, with failures or without.) In `ImageSource` a pull is assumed to return, which the context and
the transport of the registry client are responsible for, and `MkdirTemp` may fail
when it finds no free name. `CHECK_DEADLOCK FALSE` stands in the configurations
because the command returns.

## 4. What is proved

TLAPS checks the eight proof modules to the last leaf.

**CertManager**, for every set of inputs, issuer settings and keywords:

- `TypeCorrect`: `Spec => []TypeOK`.
- `CertificatesPrecedeWebhooks`: `Spec => []CertificateChain`.
- `ServicesProcessedOnce`: `Spec => []OncePerService`.

`CertificateChain` and `OncePerService` are not inductive: that the certificate or
the Service about to be appended does not meet one that is there needs to be known
of the list gathered so far. The inductive invariant is

    IInv == TypeOK /\ StartFresh /\ ResultIsGathered /\ CertificateChain /\ OncePerService

where `ResultIsGathered` says that while webhooks are processed every certificate
in the result is the generated one of a processed service, from the issuer of this
call, and every Service has the name of a processed service; and `StartFresh` that
the loop starts with empty lists. `hasCertificate` looks for a name, so the
argument needs that certificate names are different for different services
(`CertNameInjective`), and the removal of the bundle's Services needs that a
Service of a processed name is one `Handled` leaves out. `KubeObjectsProofs` has
the lemmas about lookup, annotation and the construction of Services: what each
returns, and that it leaves name and kind alone.

Four more compare what is returned with what was passed in:

- `CertificatesAreMounted`: `Spec => []SecretIsMounted`. `SecretsAreLookedUp` says
  that every generated certificate has the secret that the lookup would find in the
  caller's original list, and that this lookup succeeds.
- `PromiseIsKept`: `Spec => KeepsPromise`, the refinement of `CertPromise`. An
  iteration that configures a webhook meets its demand and covers its service
  (`PromisedStep`); that all are met at the end is `Progress`, by which the processed
  services are those the webhooks before the position need.
- `FirstPortWins`: `Spec => []FirstWebhookSetsPort`. `PortsRight` says it of the
  services processed; by `Progress` the current webhook is the first that needs a
  service not processed yet (`FirstUser`).

- `NothingIsLost`: `Spec => []NothingLost`. `Arrive` says that some positions of one
  list map to some positions of another by a strictly increasing function that is
  onto them and keeps the elements; each step of `Configure` extends it by one element or puts
  something generated beside or in front of it. `Delivering` says it of the webhooks
  before the position and of the remaining objects up to it, and
  `OthersUntouched` that no object but a webhook is annotated. That what stands in
  front is either a webhook or something added, and that no two additions share a
  name (`Ahead`), follows for certificates and Services from `OncePerService`
  (`GatheredApart`), and for the issuer because while webhooks are processed none is
  gathered (`Gathers`).

They rest on `Follows`: what the loops read of the caller's list is still what was
passed in, since only annotations are written.

`ServedAreProcessed` (`CertManagerProofs`), invariant too, adds for the pipeline that
each webhook with a service in the result has its service processed.

**ApplyOrder**, for lists of any length:

- `SortForApplySorts`: the sorted list is a permutation of the list, and ordered by
  the kinds. The count of elements at or before one grows strictly along the order
  of the sort (`RankGrows`), so that it is a bijection on the positions
  (`RankIsBijective`), by the pigeonhole of finite sets. Neither permutation nor
  order uses which of two equal elements comes first, so the theorem says as much
  of a sort that is not stable.

**Pipeline**, for every set of invocations, expressions, results of expressions and
keywords:

- `TypeCorrect`: `Spec => []TypeOK`, with `Stages`: which lists are still empty in
  which phase, that Configure's variables are those of a new call before it is
  called, and what part of the list is out (`Out(pos - 1)`).
- `FilterIsFaithful`: `Spec => []FilterMeansItsExpressions`. `FilterInv` says the
  same of the positions passed so far; `VerdictIsSelection` takes the ordered
  verdict of one manifest to the unordered meaning.
- `DeliveryIsKept`: `Spec => DeliversOrRefuses`, the refinement: every action maps to
  a step of `DeliveryPromise` or to none (`PromisedStep`).
- `AppliesInOrder`: `Spec => []AppliesFrontToBack`, the theorem that composes the
  others: while Configure runs, its inductive invariant holds of the instance
  (`OrderInv`); when it ends, every webhook is `Backed` by its service and its
  certificate, in no order; and the sort puts them in front of it, since their
  kinds have smaller priorities (`SortedBefore`).
- `KeptManifestsAreDelivered`: `Spec => []KeptManifestsArrive`, and
  `GeneratedNamesMeetNothing`: `Spec => []GeneratedNamesAreUnique`. Both follow of a
  list that is `Sourced`: a one-to-one function places each manifest that was kept and
  not replaced, and whatever stands elsewhere was added and shares its name with no
  other addition. `KeptInv` carries this through the phases: while Configure runs, its
  invariants hold of the instance; when it ends, the two functions of `NothingLost`,
  of the webhooks and of the rest, make one (`DeliveredIsSourced`); and a bijection of
  the positions, which the sort is, takes a sourced list to a sourced one
  (`SortedIsSourced`). Counting copies is then counting the places of the function, to
  which at most one addition comes (`CopiesArrive`).
- `LeavesAreWritten`: `Spec => []LeavesSurvive`, and `DocumentsAreFull`:
  `Spec => []NothingEmptyIsWritten`, for every content of a manifest and every depth
  (`MaxDepth`). By induction over the depth (`AllClean`), a value is cleaned to one that
  is full or to nothing, never to the empty text, and has the leaves it had (`Cleans`).
  For a map: an entry that goes had no leaf, and keys are unique (`MapKeepsLeaves`). For
  a list: the items that stay keep their order, and of those the ones that have a leaf
  at a path are selected next; two selections in a row are one (`ListKeepsLeaves`,
  `NthOfNth`). The invariant behind both is that the content stays that of the input
  (`Given`) and that what is written are manifests; `ObjectNests` shows that the document of
  one, the deepest that the program makes, is a value nested at most `MaxDepth` deep, for
  which the functions are defined.

**Recursion.** The functions on nested values are defined by recursion over the depth,
`f[n \in Nat] == Step(n, f[n - 1])`, which says only that `f` is a function with this
equation, chosen if there is any. `Defined` proves that there is one, provided that the
step at zero does not use its second argument: there are approximations up to every
number (`Reach`), and they agree (`Agree`). The step is a constant operator of the
module, and `PipelineProofs` instantiates it for each of its four functions; so does
`Induction`, which speaks of a set of numbers and not of a predicate, need no operator
for an argument.

**Manifests**, for every set of bundles and namespaces, any number of runs and any order in
which OLM's map yields the accounts:

- `TypeCorrect`: `Spec => []TypeOK`.
- `NothingMissingOrTwice`: `Spec => []EveryManifestOnce`.
- `GeneratedNamesAreGone`: `Spec => []NoGeneratedNames`. The property looks at what a
  binding refers to, not at what the code looks up, and names the one case in which a
  replaced name is left, a binding that refers to a role of the other kind
  (`CrossesKinds`, section 3).
- `ReferencesComeFirst`: `Spec => []ReferencesPrecede`.
- `ConvertersAreServed`: `Spec => []ConversionIsServed`. The property says which port the
  CRD calls and which one its Service serves: that of the last webhook naming the CRD,
  and that of the first webhook of the same deployment. Nothing in the code makes them
  the same.
- `GrantsArePreserved`: `Spec => []GrantsPreserved`, see below.

None of them is inductive: they speak of the end, and the list is renamed in place and
then sorted, so that what was collected is no longer there to be compared with. The
inductive invariant is

    IInv == Types /\ Gathering /\ HalfClean /\ Clean /\ InOrder

`Gathering` says of each collecting phase what the list holds so far: `Gathered(objs,
accounts, rest)` for the accounts taken from the map and for the part of `Rest` that the
phases have appended. It fixes the elements, and for every kind their number, as sums
(`RBACCount`) that do not depend on the order of the accounts. `HalfClean` and `Clean`
say that the list is obtained from a list that is complete in this sense: element by
element through `Cleaned`, up to the position of the renaming, and after the sort
through a bijection of the positions. `InOrder` is the order of the kinds. Because a
clean name never looks like a generated one (`CleanName`), cleaning what is clean
changes nothing (`CleanedAlready`), which is what lets `Cleaned` speak of both halves
of the list while it is renamed. The list and the mapping belong together
(`Renamable`): every generated name has an entry, no two names of a kind have the same
new one, since each is given its own count (`CountsApart`), and each new one ends in a
kind or a count (`MappingApart`).

`GrantsArePreserved` compares what two lists grant when they are applied: a grant is a
rule of a role that a binding, by its reference, ties to an account. It takes three
steps.

- The renaming grants neither more nor less (`GrantsMove`). Two names become one only
  if they were one (`NewKeysApart`), because the mapping is one-to-one for each kind and
  nothing that keeps its name has a clean one; so a binding meets the roles afterwards
  that it met before, and by the bijection of the sort nothing else changed.
- Of manifests with one name the last is applied. Wherever two have one name before
  the renaming they are the same manifest (`OnePerKey`), since OLM names a permission by
  its account and a hash of the whole permission (`SamePermission`); so it does not
  matter which one is applied, after the sort either (`StillAgreeing`).
- A complete list grants what is declared (`GrantsOfComplete`): the roles and bindings
  in it are those made of a permission or the bundle's own (`RBACOrigin`), a binding of the
  first sort meets exactly the role of its permission (`DeclaredMeans`), and one of the
  second only roles of the bundle.

The property has a precondition, `OwnStandApart`, which the code does not establish: the
roles and bindings the bundle brings have different names among themselves, and neither
those names nor the ones they refer to are a generated or a new clean one. Without it
the grants do change: `manifests_unique` shows a bundled role that meets a clean name.
It also leaves out the RoleBinding to a renamed ClusterRole (section 3). Most bundles of
the run satisfy it, those with generated names of their own among them.

**ImageSource**, for any number of invocations, any requests, catalogs and
directory names:

- `TypeCorrect`: `Spec => []TypeOK`.
- `DirectoriesAreRead`, `UserDirectoriesStay`, `SuccessLeavesNothing`: the three
  invariants of the run about directories, from one inductive invariant, `DirInv`.
  It adds that a process with something to remove has it as its directory, that
  this directory exists, and that the process is between making and removing it
  (`HoldsItsDirectory`), and that references are not names of temporary
  directories (`HasReferences`).
- `ImageIsOfTheChannel`: `Spec => []ResolvedFromChannel`. `WorksOnCatalog` adds
  that what is extracted and read as a catalog is the catalog of the request;
  `ResolvedIsBacked` shows the lookup itself, function by function.

**ImageUnpack**, for every set of images and prefixes:

- `TypeCorrect`: `Spec => []TypeOK`; that the directory stays one needs that a path
  beside another has its parents (`BesideParents`).
- `ScanIsComplete`: `Spec => []CompleteOrExhausted`. `Passed` adds that of the layers
  behind the scan exactly those with something wanted are extracted.
- `NothingCutShort`: `Spec => []FilesAreWhole`, since files are whole in every state
  that has not failed.
- `BaseLayersStayOut`: `Spec => []OnlyRelevantLayers`. A file is opened through a
  link, so the argument needs where links come from: `LinksAreSeen` says that each
  link in the directory is that of an entry already extracted.
- `LastExtractedStays`: `Spec => []OldestExtractedWins`. `LastStays` says the same of
  the entries extracted so far, within the current layer too; an entry that opens
  another file's path is a later write of it or was led there by a link
  (`OpensItself`).

**Assumptions.** `LiteralsAreStrings` (`KubeObjects`, `ImageUnpack`),
`ManifestLiterals` (`Manifests`) and `FieldLiterals` (`Cleaning`) state that the string literals of the model are
strings, which the prover does not know. The others give the constants their types.
Some say more:

- `DirsAssumption` and `RefsAssumption` (`ImageSource`): users do not name temporary
  directories of the program;
- `MaxDepthAssumption` (`Cleaning`) and `ContentAssumption` (`Documents`): a document is
  nested at most `MaxDepth` deep, and the program's own, five deep, are among them;
- `KeywordsAssumption` (`CertManager`, `Pipeline`): a keyword contains itself;
- `WordsAssumption` (`Manifests`): the words a clean name ends with are not hashes of
  OLM, being shorter, and two counts have two words;
- `CountAssumption` (`Manifests`): `CountWord` reaches as far as the bundles count;
- `HashAssumption` (`Manifests`): permissions of one hash are the same permission. OLM
  hashes the whole of it;
- `InvocationsAssumption` (`Pipeline`): an expression gives a finite stream of the three
  results;
- `WholeAssumption` (`ImageUnpack`): no file of an archive has the content that stands
  for a file cut short.

TLC evaluates all of them.

**Only model-checked.** Termination, which needs fairness and which the prover does not
reach. Every invariant and refinement of a passing run is stated by a theorem.

## 5. What is not modelled

- jq itself: an expression is a function of the manifest. That gojq gets the map of
  the object and not a copy (`pkg/filter/filter.go:106`) matters only to an
  expression that writes to its input.
- YAML and JSON text, the order of fields, log and error texts.
- Registry authentication and transport options: they choose how a pull is made,
  and a pull is one step that succeeds or fails.
- Sorting beyond twelve objects, where `sort.Slice` is not stable: the order of
  objects of one priority is then unspecified, of different priorities the same.
- Names from the tenth on (`generateResourceName` turns the count into one
  character): the word of a count is a constant, `CountWord`. The theorems hold for
  any number of counts; the instance TLC checks does not reach the tenth, and that
  such a name is no legal name is outside of the model.
- `pkg/util/slices` (the quantifiers and selections of the modules that use it),
  `cmd/main.go`, `internal/version`: no behaviour of their own.

## 6. Plan

Written, in this order, because the rest depends on it or because most can go
wrong: `KubeObjects`, `CertManager` with `CertPromise`, `Manifests`, `ImageUnpack`,
`ImageSource`; then `ResourceFilter`, `Pipeline` with `DeliveryPromise`, `Cleaning`
and `Documents`. The proofs
followed in the order of the dependencies: `KubeObjects`, `CertManager`, `ApplyOrder`,
`Pipeline`, `ImageSource`, `ImageUnpack`, `Manifests`, and the documents of `Pipeline`
last. To come: counts beyond nine in TLC, once a smaller instance of `Manifests` can
hold ten roles.
