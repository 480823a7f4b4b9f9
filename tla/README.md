# TLA+ models of the NRI policy-validator plugin

This directory holds TLA+ models of the policy-validator NRI plugin and of its
two-layer authorization engine. It also holds the TLC configurations that
model-check those models, and TLAPS proofs about them. Every definition is
translated from the Go source. The definition-to-code map in `PROJECT.json`
gives the file and lines each definition stands for.

## The system

The container runtime calls the plugin's `ValidateContainerAdjustment` handler
(`src/unnamed/part_003`, `pluginPolicyValidator`) with a request. The request
holds:
- the pod;
- the *plugin map*, naming the plugins that took part in the adjustment;
- the adjustment itself, with an owner recorded for each field it sets.

Handling a request goes through these stages, in this order:

1. **The handler** takes the subject from the pod's annotations
   (`extractSubjectFromPod`). The user annotation comes first, then the group
   annotation, else the service account.
2. **`ValidationManager.ValidateContainerAdjustment`** (`src/unnamed/part_002`)
   builds a `ValidationContext`: the pod's namespace, the subject and the plugin
   name.
3. **`ExtendedValidator`** runs the default (legacy) validator if there is one.
   `NewValidationManager` always leaves it nil.
4. **`PolicyBasedValidator`** runs:
   - a pod check, which rejects a request without a pod;
   - the **restrictions layer**, when restrictions are configured. This is
     `RestrictionsValidator` in `src/pkg/api/restrictions.go`. It loops over
     the plugin map, checks each plugin's mutation capabilities
     (`validatePluginMutations`) and its access to the pod
     (`validatePodAccess`), and stops at the first failure.
   - the **RBAC layer**. It loops over the plugin map, writes each plugin's
     name into the shared context, and calls `validatePluginAccess`. That
     function looks for the rules matching the namespace, then for one naming
     both the plugin and the subject, and falls back to `DefaultDeny`.
5. **Glob patterns** (`globMatch`, the same code in both files) match
   namespaces, pod names and plugin names.

Before serving, `main` loads its configuration. It calls
`LoadConfigFromFile`, and `LoadConfigFromDir` does the same for a directory:
it lists `*.yaml`, or `*.yml` when there is no `.yaml` file, and merges the
files field by field in listing order. The configuration is then validated
(`ValidateConfig`, `validatePolicy`, `validateRestrictions`,
`validateMutationRestriction`).

Go iterates a map in an unspecified order. The plugin map is a map, so both
loops visit its plugins in an order the code does not control, and the two
loops need not use the same order. This is the main source of interleavings in
an otherwise sequential program.

## Modules

| Module | Models | Source |
|---|---|---|
| `Glob` | `globMatch` (the exact, prefix, suffix and lone-star forms), over sequences of characters with `Star` for `*` | restrictions.go 369-385, part_002 526-542 |
| `Capabilities` | `extractMutationCapabilities`: the capability set of the fields an adjustment sets | restrictions.go 200-268 |
| `Restrictions` | `checkMutationRestriction`, `podMatches`, `checkPodRestriction`, `findPluginRestrictions`, `validatePluginMutations`, `validatePodAccess` | restrictions.go |
| `Policy` | `findMatchingRules`, `namespaceMatches`, `pluginAllowed`, `subjectAllowed`, `validatePluginAccess` | part_002 448-523 |
| `Config` | `ValidateConfig` and its helpers, as predicates on a configuration record | part_002 150-277 |
| `Request` | the context the manager builds (`ContextOf`), the RBAC loop's write of the plugin name (`SetPluginName`), `extractSubjectFromPod`, `NewValidationManager`'s zero policy (`PolicyOf`) | part_002, part_003 |
| `AdmissionRules` | the order-free verdict `Allowed(c, r)`, with no loops | (abstract) |
| `PolicyValidator` | the handler as a state machine: state, actions, invariants and documented claims | part_002, part_003, restrictions.go |
| `Admission` | the abstract specification: a request is taken, then decided in one step by `Allowed` | (abstract) |
| `ConfigLoader` | `LoadConfigFromFile` and `LoadConfigFromDir` as a state machine, with another process writing the directory | part_002 28-40, 91-147 |
| `MCGlob`, `MCPolicyValidator`, `MCConfigLoader` | TLC instances | — |
| `PolicyValidatorProofs`, `PolicyValidatorSafety`, `PolicyValidatorRefinement`, `ConfigLoaderProofs`, `GlobProofs` | TLAPS proofs | — |

### The state machine (`PolicyValidator`)

The variables:
- `cfg`: the validated `ValidationConfig` the manager was built from;
- `defaultValidator`: always nil, as `NewValidationManager` leaves it
  (part_002 56-60), whatever `enableDefaultValidator` says;
- `req`: the current request;
- `vctx`: the `ValidationContext`, as a record;
- `pc`: where the handling is;
- `todo`: the plugins the running map loop has not visited yet;
- `verdict`: the error the handler returns, or nil, as a record of result,
  stage and plugin.

The actions:
- `Receive(r)`: the handler takes request `r`, extracts the subject, and the
  manager builds the context.
- `DefaultValidation`: the step of `ExtendedValidator`. There is no default
  validator.
- `PodCheck`: a nil pod is rejected. Otherwise the restrictions loop starts, or
  the RBAC loop when there are no restrictions.
- `RestrictPlugin(p)`: one iteration of `RestrictionsValidator`'s loop. `p` is
  chosen with `\E p \in todo`, which stands for Go's map order. The step rejects
  on a mutation failure, then on a pod-access failure, and otherwise removes
  `p` from `todo`.
- `RestrictionsPassed`: the loop has run out of plugins, and the RBAC loop
  starts on the whole map again.
- `PolicyPlugin(p)`: one iteration of the RBAC loop. It sets
  `vctx.pluginName` (the context is shared and overwritten), calls
  `validatePluginAccess`, and either rejects or removes `p` from `todo`.
- `PolicyPassed`: the loop has run out of plugins, and the handler returns nil.

`Reject` is the common "return an error" tail of the three rejecting steps.
Each of these actions is the whole body of the code it stands for, including
its early returns.

### The configuration loader (`ConfigLoader`)

The directory `dir` is a function from file names to contents. A file name is
a pair: a rank, for the base name's place in lexical order, and an extension.
A content is one of:
- `Absent`: there is no such file;
- `Unreadable`: `ReadFile` fails;
- `Malformed`: `yaml.Unmarshal` fails;
- a YAML text: a record saying, for each key, which value it sets or that it is
  left out. `enableDefaultValidator` can be `"true"`, `"false"` or missing.

`Unmarshal` turns a text into a `ValidationConfig`: a left-out key keeps its
zero value. `filepath.Glob` returns its matches sorted, so the loop visits the
listed files by increasing rank (`FirstRank`).

The loader's steps:
- `GlobYaml` is the first `Glob`. A bad pattern is an error. An empty listing
  falls back to `.yml`.
- `GlobYml` is the second `Glob`. No file at all is an error.
- `LoadFile` is one iteration of the loop. It loads the next file as it is now.
  A read or parse error returns at once, and the partial merge is dropped.
  Otherwise the file is merged (`Merge`): each set field replaces the
  accumulator's, and the boolean is copied only when it is true.
- `Finish` returns the merged configuration.
- `Write(n, c)` is another process creating, replacing, corrupting or removing
  a file during the load. There are at most `MaxWrites` of them.

`seen` is a history variable: every state the directory has been in since the
load began.

## Runs

The instances are built in `MCPolicyValidator`:
- **Glob strings:** sequences over `a`, `b` and `*`.
- **Patterns:** `a*`, `*a`, `b*`, `*` and plain names. Each form of `globMatch`
  decides some request.
- **Namespaces:** `a` and `ba`. Each falls inside some patterns and outside
  others.
- **Plugins:** `a` and `b`. Every subset of them is a plugin map, the empty map
  included.
- **Fields:** `env`, `memory` and `namespaces`. Every subset is an adjustment.
- **Subjects:** a user, a group and the default service account, given through
  the annotations.

Each layer has its own run so that its interesting cases fit in the state space.
A third run combines the two layers.

| Run | Checks | Result | What it shows |
|---|---|---|---|
| `glob_reference` (`MCGlob.cfg`) | `GlobAgreesWithReference` | pass | `globMatch` agrees with the pattern rules of the design document, for every pattern and string of up to 3 characters over `a`, `b` and `*` |
| `restrictions_layer` | `TypeOK`, `VerdictCorrect`, `GlobalDenyEnforced`, `Answered` | pass (about 100k states) | the restrictions loop, under every map order, denies exactly the requests `Allowed` denies, never admits a capability a global deny names, and always finishes |
| `policy_layer` | the same, plus `ImplementsAdmission` | pass | the same for the RBAC layer, and the handler implements `Admission` |
| `layers_combined` | the same as `policy_layer`, plus `RejectionJustified` | pass | the two loops in sequence: every order of the first loop combined with every order of the second |
| `attribution` | `BlameOnlyOwnMutations` | violation | a plugin is rejected for a field another plugin set |
| `matched_rules` | `MatchedRulesDecide` | violation | when `defaultDeny` is false, matching rules that grant nothing still admit |
| `default_action` | `DefaultActionDenyHonoured` | violation | `defaultAction: deny` is never consulted |
| `loader` (`MCLoader.cfg`) | `LoaderTypeOK`, `LoadMatchesDirectory` | pass (about 24k states) | on a directory nobody writes, `LoadConfigFromDir` returns `DirLoad`: the result stated without the loop |
| `loader_last_file` | `LastFileWins` | violation | a later file's `enableDefaultValidator: false` does not override an earlier `true` |
| `loader_snapshot` | `SnapshotConsistent` | violation | two writes during a load give a merge of files from two states of the directory |
| `pod_actions` | `ServedPodRestrictionActionsValid` | violation | a misspelt pod-restriction action passes validation and is served; `checkPodRestriction` passes every pod under such an action |

The properties:
- **`VerdictCorrect`** is the central safety property. Whatever order each loop
  takes, a finished request is admitted exactly when `Allowed` admits it.
  `Allowed` says that the pod is known, every plugin passes every restriction
  that applies to it, and the policy grants every plugin.
- **`Answered`** is the liveness property: every request taken is eventually
  answered. Go's `range` over a finite map already visits each key once and
  ends, so this checks the handler's control around the loops (every branch
  returns), not the loops themselves.
- **`ImplementsAdmission`** is the refinement: `A!ASpec` under the mapping
  `Decision`.
- **`GlobalDenyEnforced`** is the design document's first testable property. No
  admitted adjustment holds a capability that a global deny restriction names.
  The code applies the global restrictions only inside each plugin's check.
  They are therefore enforced only because the loop checks the whole adjustment
  for each plugin of the map. `OwnersAssumption` states what the runtime
  guarantees: every field an adjustment sets has an owner in the plugin map.
- **`RejectionJustified`** is an action property. Every step that returns an
  error names something that really failed: a nil pod, or a plugin of the
  request's map. The named plugin must fail the check of the named stage:
  - the mutations check;
  - the pod-access check, after its mutations passed;
  - the RBAC check, on the context the manager built for this request with
    that plugin's name in it.

  The RBAC layer checks the shared `ValidationContext`, so this property is
  also about a stale context being used.
- **`LoadMatchesDirectory`** compares the loop with `DirLoad`, which says what a
  load should return:
  - the `.yaml` family if the directory has one, else the `.yml` family;
  - an error for a bad pattern or an empty listing;
  - otherwise the error of the first listed file that fails;
  - otherwise, for each key, the value of the last listed file that sets it,
    with the boolean set only by `true`.

The violation runs each check one claim that a comment, the design document or
a field's documentation makes of the code. TLC finds each claim broken by what
the code does. `PROJECT.json` lists them as findings.

Every property of a passing run has a mutant in `PROJECT.json` that TLC must
then find violated. The mutants are:
- a context kept from the previous request;
- an allowlist checked by intersection instead of by subset;
- a loop that does not advance;
- a `defaultDeny` that is ignored;
- a missing nil-pod check;
- a restrictions layer that is skipped;
- an RBAC loop that starts with an empty map;
- global restrictions that are skipped;
- a merge that overwrites every field;
- an error return that keeps the partial merge;
- a restrictions check that tests pod access before the mutations.

**Why these bounds are enough.** A third plugin would only add more orders of
the same kind of step. With two plugins, one can pass and the other fail, in
either order, and in both loops. Two namespaces and four pattern forms cover
every outcome of `globMatch`: match and no match for the exact, prefix, suffix
and star forms. The empty map, the nil pod, a nil restrictions config and a nil
policy are all among the inputs. Each request is handled on its own, so one
request after another adds nothing.

**The loader's bounds.** The loader instance has three names: ranks 1 and 2 of
`.yaml`, and rank 1 of `.yml`. Each name can hold any of three texts, or be
absent, unreadable or malformed. The texts are chosen so that:
- two files conflict on the policy;
- one file sets the boolean true, another sets it false, and a third leaves it
  out.

Every outcome of `DirLoad` is therefore among the initial directories: both
families, the fallback, an error in the first or in the second file, and each
merge order. `loader` allows one write, and the invariant is about loads that
no write touches. The snapshot run needs `MaxWrites = 2`, because one write
cannot tear a load: the files read before the write and the files read after it
are read from the same state of the directory.

**Fairness.** `WF_vars(Validate)` says that once a request is being handled,
the handler keeps taking steps. The handler is a sequential Go function with no
blocking call or wait between receiving a request and returning. New requests
(`Receive`) get no fairness, because the runtime may stop sending them. The
loader's `Spec` has `WF_vars(Load)`: the loader runs in one goroutine with
nothing to wait for.

## Proofs

`PolicyValidatorProofs` (extends `PolicyValidator`) proves these theorems for
every value of the constants:
- **`TypeCorrect`**: `Spec => []TypeOK`.
- **`VerdictCorrectness`**: `Spec => []VerdictCorrect`.

They rest on two named assumptions. `RequestsAssumption` says that `None` is not
a request. `SubjectsAssumption` says that a policy's subjects are
kind-and-name records.

Neither invariant is inductive as it stands. `TypeInv` strengthens `TypeOK` with
two facts: a request being handled is a request, and the running loop's `todo`
lies inside the request's plugin map. `PhaseInv` says what each phase has
established:
- during the restrictions loop, every visited plugin passed both checks;
- during the RBAC loop, every plugin passed the restrictions layer and every
  visited plugin was granted;
- a finished request carries the verdict `Allowed` gives.

`IInv == TypeInv /\ PhaseInv` is checked by TLC as an invariant on the three
layer runs. The proof shows `Init => IInv` and `IInv /\ [Next]_vars => IInv'`,
with one step per action.

The lemmas it uses:
- `ContextRename`: overwriting the plugin name of a context derived from the
  request gives the same context whatever name was there. This is why the
  shared `vctx` is safe.
- `MutationsAdmitted`, `PodAccessAdmitted` and `AccessGranted`: the per-plugin
  checks of the code are the per-plugin conjuncts of `Allowed`.
- `AllowedByChecks`: `Allowed` is the conjunction of those per-plugin checks.

`PolicyValidatorRefinement` proves **`RefinesAdmission`**:
`Spec => A!AInit /\ [][A!ANext]_A!avars`. This is the safety part of
`ImplementsAdmission`:
- `Receive` maps to `ATake`;
- every step that ends the handling (a `Reject`, or `PolicyPassed`) maps to
  `ADecide`, by `IInv'`;
- every other step is a stutter.

`PolicyValidatorSafety` (extends `PolicyValidatorProofs`) proves two more
theorems:
- **`GlobalDenyCorrect`**: `Spec => []GlobalDenyEnforced`. The invariant needs
  one more fact than `IInv`: `VerdictPending`, which says a request that has
  not finished has the verdict Pending. It follows that `Allow` is only ever
  the verdict of a finished request. The argument then has two cases:
  - the plugin map has a plugin, whose check covered the global restrictions
    (`Allowed`, from `VerdictCorrect`);
  - the map is empty, and `OwnersAssumption` leaves the adjustment with no
    field and so with no capability.
- **`RejectionsJustified`**: `Spec => RejectionJustified`. Each step that
  returns an error is shown to satisfy `FailsStage`, one case per rejecting
  action. For the RBAC step, `TypeOK` says that `vctx` is the current
  request's context with at most a plugin name written in. `ContextRename`
  then makes the checked context the request's own.

`GlobProofs` (extends `MCGlob`) proves **`GlobCorrect`**:
`Spec => []GlobAgreesWithReference`. Its lemma `GlobMatchIsReference` holds for
every pattern and string, of any length and over any alphabet. TLC enumerates
only strings of up to three characters. Two lemmas carry the argument:
- `PrefixIsLeadingSubstring`: `IsPrefix` is the leading-substring test of the
  reference;
- `SuffixIsTrailingSubstring`: `IsSuffix`, defined through `Reverse`, is the
  trailing-substring test. Positions from the end are mapped to positions from
  the start.

`ConfigLoaderProofs` proves two theorems, for every set of names and ranks,
every content and every bound on the writes:
- **`LoaderTypeCorrect`**: `Spec => []LoaderTypeOK`;
- **`LoadCorrect`**: `Spec => []LoadMatchesDirectory`.

Both rest on two named assumptions:
- `LoaderAssumption`: ranks are naturals, and names are rank-extension pairs;
- `RanksWellOrdered`: every non-empty set of ranks has a least element. This
  holds for every finite listing. It is stated as an assumption because the
  library's least-number theorem takes an operator parameter, which the
  provers cannot instantiate.

The inductive invariant `LInv` strengthens `LoaderTypeOK`. While nobody has written
the directory (`NoWrite`), it says what the loop has done so far (`LoopInv`):
- `ext` is the family of the directory;
- every processed file comes before every file still to read;
- every processed file loaded;
- `merged` is `MergeOf` the processed files.

The lemmas it uses:
- `MergeAdd`: merging one more file, of a rank after all the merged ones, is
  the merge over the larger set;
- `FirstRankIs` and `LastRankIs`: `CHOOSE` on ranks has a unique answer.

A write makes `NoWrite` false forever, so the loading clauses stop
constraining. TLC checked `LInv` on the instance with two writes before it was
proved.

Lemmas first show that the instance's copies of the operators
(`A!Allowed`, `A!ValidateConfig`) equal the originals.

**What is only model-checked:**
- `Answered`, and the fairness conjunct of `ImplementsAdmission`. Both need
  liveness reasoning and `ENABLED`, which the prover does not handle.
- The documented-claim violations.

## Not modelled

- **The link from the loader to the handler.** `PolicyValidator` serves any
  configuration of its instance that passes `ValidateConfig`. `ConfigLoader`
  abstracts the configuration's values to small sets. The two are checked
  separately because `main` runs the load once, before any request.
- **The plugin's other stages and startup:** `Configure`, `Synchronize` and the
  NRI stub. These only log or connect. `main` is modelled only by `Init`: it
  loads, validates and builds the manager before serving.
- **`CreateExampleConfig` and `ValidateExamplePolicy`:** fixed example values.
- **The cgroup-monitor example:** it reads cgroup files and logs them. This is
  pure I/O with no decision to check.
- **The OpenShift validator design:** stubbed interfaces with no
  implementation.
- **The documentation and unit tests.** The unit tests' scenarios are among the
  policy-layer instances.

## Plan

- The hazards without a property yet. `PROJECT.json` lists them:
  - the `resources` capability is implied by memory, cpu and unified changes;
  - `seccomp` is never reported;
  - subjects can be spoofed through pod annotations.
- Proofs of the loader's refinement of an abstract "load the directory"
  specification, step by step.
