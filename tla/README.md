# TLA+ models of pharmer's catalog and release scripts

This directory holds TLA+ specifications of the state-changing parts of the
repository's Python tooling under `src/`, together with the TLC configurations
that check them. It covers three groups of code:

- the catalog maintenance scripts in `src/data/hack/`;
- the build, packaging and release-registry targets of `src/hack/make.py`;
- the cluster helper `src/hack/kluster.py`.

Every module is translated from the source. Each definition is mapped to the
lines it models in `PROJECT.json` (`"map"`).

## The system

### Catalog file (`files/cloud_provider.json`)

Every script under `data/hack` has its own copy of the same two functions:

- `read_json` either returns the parsed file or, on `IOError`, returns `{}`.
- `write_json` truncates the file with `io.open(..., 'w')` and then writes `json.dumps(...)`.

A script run works like this:

1. It reads the whole catalog.
2. It mutates the catalog in memory.
3. It writes the catalog back once.

An uncaught exception (`KeyError`, `ValueError`, a network error) ends the
process before the write, so the file is left as it was. A process killed
during the write leaves a truncated file. `json.load` then raises `ValueError`
in every later run.

### Version-lifecycle scripts

The catalog scripts split into five operations:

| Script | What it does to the catalog |
|---|---|
| `kube_version.py add` | Appends a `1.7.0` entry to every environment except `prod`. |
| `kube_version.py release` | Appends a `1.5.7` entry to `prod` only. |
| `kube_version.py deprecate V` | Sets `deprecated` on every kubernetes entry with version V. |
| `onebox.py release` | Copies `prod` to `onebox` where `onebox` is absent: first for kubernetes, then for every db engine. |
| `db.py release` | Deletes every provider's `db` section. |

The versions used by `add` and `release` are hard-coded.

### Provider adapters

Each adapter produces a provider's instance types:

- **`vultr.py sls`** reconciles the catalog's vultr instance types with the live plan list from `api.vultr.com`.
  - A known plan has its `deprecated` flag updated.
  - New plans are appended.
  - Plans that are deprecated or smaller than 1 GB are skipped.
- **`aliyun.py sls`** is the Merge/Dedup engine. It folds an exported listing (`ali.json`) into one record per `external_sku`:
  - the first occurrence wins;
  - later occurrences add `regions[0]`;
  - regions are sorted and deduplicated;
  - records come out in ascending SKU order.
- **`softlayer.py sls`** generates the cross product of a hard-coded CPU → memory table. The SKU has the form `{cpu}c{mem}m`. It is not modelled (see below).
- **`hertzner.py sls`** parses Hetzner's free-text product descriptions with suffix rules and `int()`.

### Release registry (`make.py update_registry`)

One release runs these steps in order:

1. **Download:** `gsutil cp` the bucket's `versions.json` into `dist/`.
2. **Merge:** add the build's version to that copy. If there is no local file, start from `{}`.
3. **Upload:** `gsutil cp` the merged file back to the bucket.
4. **Publish:** write and upload `latest.txt`.

Every `call(...)` ignores its exit status.

### Cluster helper (`kluster.py`)

The helper keeps a context file, `kluster.json`, read and written with
`libbuild.read_json`/`write_json`.

- `set k v` expands a short flag (`p`, `z`, `c`, `n`) and stores a known key.
- `create name` first writes `name` into the context. Then it looks up the
  provider, zone and credential, and runs `appctl cluster create`.
- `delete` runs `appctl cluster delete` on the named cluster, then pops `name`.
- `ssh` and `info` only read the context; `version` prints the build metadata.
- `push` and `push_cmd` call functions that `make.py` does not have
  (`build_kubernetes_salt`), or that it has with a missing key
  (`build_cmd('start-kubernetes')`). They always fail.

No `appctl` exit status is checked.

### Build targets (`make.py gen/fmt/vet/lint/version/default/install/build/push`)

`gen_assets` (the `gen` target) runs `go-bindata` once per cloud in `CLOUDS`
order, with `die(status)` after each. `fmt` ends the process when `goimports`
fails and ignores `gofmt`'s status; `vet`, `lint` and `version` change
nothing. `default` and `build` run `gen` and `fmt` and then compile. `install` compiles without regenerating. `push` uploads whatever
`dist/` holds.

### How the parts interact

All the catalog scripts and the vultr adapter rewrite the same file with no
lock. Section 5 of the spec makes the caller responsible for running them one
at a time. The other adapters write to `/tmp`, and their output is merged into
the catalog by hand.

## Modules

| Module | Models | State | Actions |
|---|---|---|---|
| `CatalogStore` | `read_json` and `write_json` shared by every script | `file` (a document, `Missing` or `Corrupt`), `last` (the latest run and its outcome) | `Invoke(op, fails, doc)`: a read error, a `KeyError` abort, or a write that may crash to `Corrupt` |
| `VersionLifecycle` | `kube_version.py`, `onebox.py`, `db.py` | `file` holds kube and db timelines per provider | `KubeAdd`, `KubeRelease`, `KubeDeprecate(v)`, `OneboxRelease`, `DbRelease` |
| `VultrSync` | `vultr.py sls`, plus the plan list changing at Vultr | `file.vms`, `remote` (plan id → deprecated flag, ram in MB) | `Sync`, `PlanAdded`, `PlanFlagChanged`, `PlanWithdrawn` |
| `MergeDedup` | `aliyun.py sls` | `data` (the listing), `out`, `done` | `Sls` |
| `HetznerParse` | `hertzner.py sls` | `data` (products), `out`, `done` | `Sls` |
| `ReleaseRegistry` | `make.py update_registry` | `bucket`, `latest`, `local[m]`, `pc[m]`, `build[m]`, for each work tree `m` | `Start`, `Download`, `Merge`, `Upload`, `Publish` |
| `AbstractRegistry` | what the registry promises: a release lists its own version in an append-only history, and on ending may point `latest` at it | `listed`, `latest`, `pending` (versions whose release is under way) | `Begin(v)`, `List(v)`, `Finish(v)` |
| `VultrLoop` | `vultr.py sls` one loop iteration at a time (extends `VultrSync`) | `pc`, `mem` (the vms list), `work` (the fetched plan dict), `i` | `LoopStart`, `Fetch`, `FixVm`, `AddPlan(k)`, `LoopWrite`, `RemoteBetweenRuns` |
| `Kluster` | `kluster.py` (extends `CatalogStore`: `file` is `kluster.json`) | `file`, `last`, `clusters` (what appctl holds) | `SetFlag(k, v)`, `Create(n)`, `Delete`, `Ssh`, `Info`, `Version`, `Push(op)` |
| `DevTools` | `kluster.py` and `make.py` together: `kluster` imports `make`, and `server()` is `make.default()` | the variables of both (`make.py`'s last outcome is `blast`) | `KlusterNext`, `B!BuildNext` and `Server`, interleaved; the two scripts share no state, so the composition checks both in one run rather than an interaction |
| `BuildPipeline` | every `make.py` target but `update_registry` | `data[c]` (revision of a cloud's data files), `bindata[c]`, `installed`, `dist`, `pushed`, `last` | `Gen`, `Fmt`, `Report(op)` (vet, lint, version), `Default`, `Install`, `Build(name)`, `Push`, `Edit(c)` |

Each `MC*.tla` module gives the constants small values, and its `.cfg` file
checks the spec with those values.

### How the modules correspond to the code

- **One script run is one action.** The script is atomic with respect to the file. An action includes:
  - the whole loop body;
  - every error path that can end the run, as an `Abort` with the exception's name;
  - the write, together with its crash window.
- **Data is abstracted:**
  - A timeline entry keeps only its version and its `deprecated` flag.
  - A vm keeps its SKU, flag and GB.
  - Aliyun records keep their SKU, regions and one value standing for their other fields.
- **Conversions are modelled by what they do:**
  - Hetzner texts are word sequences. `endswith` compares the last words. `int()` succeeds only on a single numeral word and otherwise yields `ValueError`.
  - `int(int(ram)/1024)` is floor division.
- **Loops refined step by step:** `VultrLoop` takes one iteration of the `sls()` loops per step. It is checked to implement the one-step `Sync` with the identity mapping, because `VultrLoop` extends `VultrSync`.
- **Failed external calls:**
  - Every unchecked `appctl` call in `Kluster` may leave `clusters` unchanged.
  - `go-bindata` and `go build` in `BuildPipeline` either succeed or end the process through `die`.
- **The two pure adapters are operators.** Init chooses an input, and `Sls` computes the output once. The runs set `CHECK_DEADLOCK FALSE` because the script exits after one run. These modules have no separate type invariant. Their property compares the whole output with a reference written from the spec alone (`HetznerParse`'s reference uses none of the code's operators), so it also fixes the output's shape.

## Runs

| Run | Config | Expect | What it shows |
|---|---|---|---|
| `lifecycle` | `MCVersionLifecycle.cfg` | pass | Across any sequence of add, release, deprecate, onebox and db runs, with crashes, `onebox` stays a fork of `prod` (`OneboxForkedFromProd`), and kubernetes timelines stay append-only (`KubeTimelinesAppendOnly`). |
| `backfill_after_db` | `MCVersionLifecycle_backfill.cfg` | violation | After `db.py`, `onebox.py` always dies with `KeyError` and loses its kubernetes backfill. |
| `vultr` | `MCVultrLoop.cfg` | pass | `sls()` runs one loop iteration at a time, with plans added, flagged, re-offered and withdrawn between runs. External SKUs stay unique (`UniqueSku`). Each successful run keeps every known vm, adds exactly the live plans of at least 1 GB, and copies each plan's flag (`SyncMirrorsRemote`). Every run is a step of `VultrSync`'s atomic `Sync` (`LoopImplementsSync`), a failed fetch included. |
| `vultr_withdrawn` | `MCVultrSync_withdrawn.cfg` | violation | A plan withdrawn from the API makes every later sync die with `KeyError` instead of deprecating the vm. |
| `registry` | `MCReleaseRegistry.cfg` | pass | With releases serialised and calls succeeding, the bucket's history only grows (`RegistryKeepsReleases`), and `latest.txt` names a listed version (`LatestIsListed`). The detailed spec implements `AbstractRegistry` (`RegistryRefinesAbstract`), under the mapping `listed <- Listed(bucket)` and `pending <- Releasing`, the builds of busy work trees. |
| `devtools` | `MCDevTools.cfg` | pass | `kluster.py` and `make.py` runs interleave, with write crashes, silently failing `appctl` calls and failing `go-bindata` and `goimports`. A cluster appears only in a step that leaves the context naming it (`CreateRecordsNameFirst`). A `default` or `build` that completes, including one started by `kluster server`, has embedded every cloud's data files as they stand (`BuiltFromFreshAssets`). |
| `registry_failed_call` | `MCReleaseRegistry_failed.cfg` | violation | A failed, unchecked download followed by the upload replaces the history with the one new version. |
| `registry_failed_upload` | `MCReleaseRegistry_upload.cfg` | violation | A failed, unchecked upload of `versions.json` followed by the publish leaves `latest.txt` naming a version the history does not list (`LatestIsListed`), in five steps. |
| `dedup` | `MCMergeDedup.cfg` | pass | On one-region records, `sls` equals the spec's Merge/Dedup contract for every listing of up to 3 records. |
| `dedup_multiregion` | `MCMergeDedup_multiregion.cfg` | violation | A later record with two regions loses its second region. |
| `hetzner_keyword_cpu` | `MCHetznerParse.cfg` | violation | Compared with the rules of spec 4.2 written independently (`FreeTextRulesPerSpec`), the code agrees on every listing of up to 2 products except one whose CPU text puts a multiplier keyword before ` Core CPU` (`Intel Xeon Hexa Core CPU`): `int()` raises `ValueError` and nothing is written, where the spec gives 6. |

Each violation run is recorded in `PROJECT.json` under `"findings"`, with the
line of code responsible and the statement in the spec that it contradicts.

Each property of a passing run also has a mutant in `PROJECT.json`. A mutant
is a plausible bug in a mapped definition, and TLC finds the property violated
when the bug is present. The mutants are:

- the `onebox not in kubes` guard dropped;
- the `env == 'prod'` test dropped;
- the `del vultr[sku]` dropped in the fix-up loop, for `UniqueSku`;
- a deprecated flag only ever set, never cleared, in the fix-up loop, for `SyncMirrorsRemote`;
- the `if ram` test dropped in the add loop, for `LoopImplementsSync`;
- an empty merge base;
- `latest.txt` published before `versions.json`;
- the last record winning in the dedup;
- `read_json` without its `except IOError`, for `TypeOK`;
- the vultr plan's ram copied in MB unconverted, for `VultrTypeOK`;
- a build with an empty version published, for `RegistryTypeOK`;
- the download skipped when a local copy exists, for `RegistryRefinesAbstract`;
- `appctl` run before the name is written, for `CreateRecordsNameFirst`;
- the short flag stored unexpanded, for `KlusterTypeOK`;
- `go-bindata`'s status ignored, for `BuiltFromFreshAssets`.

### Bounds and why they are enough

- **Lifecycle:**
  - two symmetric providers and one db engine;
  - environments `prod`, `onebox` and `qa`;
  - initial timelines empty or `<<1.5.7>>`;
  - the `TimelineBound` constraint caps timelines at 3 entries.

  These bounds allow a provider with and without `onebox`, with and without `db`, and an `add` both before and after the backfill. Every violation needs at most 3 steps. The run takes about 650k states and 100 s.
- **Vultr:**
  - three symmetric SKUs;
  - RAM 512 and 2048 MB, so there is a plan that rounds down to 0 GB and is dropped, and a plan that is kept (the `vultr_withdrawn` run also has 1024 MB);
  - the remote may add, flag, re-offer and withdraw plans between runs.

  A run can delete a matched plan from the dict, add a new one and skip a 0 GB plan. The run takes about 240k states and 20 s.
- **Registry:** three work trees and three builds. This allows two work trees to keep stale local copies from different earlier runs while the third publishes. Work trees are symmetric. The run takes about 5k states.
- **Devtools:**
  - two symmetric cluster names, one opaque value per key, and a readable and an unreadable credential. These allow two creates in a row, a create with keys missing, and a delete after a failed `appctl` call.
  - three clouds, so `gen_assets` can die after the first or the second and leave bindata of mixed revisions, and one edit per cloud.
  - the build names `pharmer` (in `BIN_MATRIX`) and `kubernetes` (not in it).

  `last` and `blast` only record the latest outcome: no step reads them, and
  `BuiltFromFreshAssets` and `CreateRecordsNameFirst` read only the values a
  step sets. `MCDevTools.cfg` therefore fingerprints states by `StateView`,
  which leaves them out. Action properties are still checked on every
  transition. Without the view the product of the two scripts' outcomes made
  the run take over three minutes with two clouds; with it the run takes
  about 62k states and 20 s with three.
- **Dedup:** two SKUs, two regions and listings of up to 3 records. This covers duplicates out of order, repeated regions, and a SKU seen first in the second record.
- **Hetzner:** texts that exercise every branch of each elif chain:
  - a numeral before ` Core CPU`, and the keyword `Hexa` before it;
  - Quad and Hexa;
  - every RAM suffix;
  - an unmatched text;
  - vServer and dedicated names.

## Fairness and liveness

No run checks a liveness property. Most operations are commands a person runs,
and nothing in the code makes them happen on their own. The two processes that
do run on by themselves once started are straight-line code or loops over
fixed lists: `update_registry` is four calls in a row, and the two loops of
vultr's `sls()` walk the `vms` list and a copy of the plan items
(`vultr.items()`). That they end holds by their construction, and the way a
release really fails to list its version, an ignored failed call, is a safety
question, checked by `registry_failed_call` and `registry_failed_upload`. A hung `urlopen` is the one way a
run does not end, and no fairness could rule it out.

## Refinement

- `ReleaseRegistry` instantiates `AbstractRegistry` with `listed <- Listed(bucket)` and `pending <- Releasing`. Its `RegistrySpec` has `AR!AbstractSpec` as a property.
  - `Start` is `Begin`. `Upload` is `List`, or a stutter when the version is already listed. `Publish` is `Finish`.
  - The abstract spec rules out a version being listed, or named in `latest.txt`, without a release of it under way.
- `VultrLoop` extends `VultrSync`. Its `LoopSpec` has `VultrSpec` as a property.
  - Its `pc`, `mem`, `work` and `i` are hidden by being ignored.
  - Remote plan changes happen only while no run is between its fetch and its write. The run has read the plan list already, so later changes commute with the rest of its steps.

## Not modelled

Two divergences from the spec can be read off a single line of code. They have no run of their own:

- **`db.py release`** deletes every provider's `db` section (line 36). Spec section 3 makes the per-engine timelines append-only as well. The `backfill_after_db` run checks the consequence that takes several steps.
- **`kube_version.py release`** always appends the hard-coded 1.5.7 (line 55), while `add` stages 1.7.0 (line 49). The spec's `release(version_spec)` promotes a staged version.

- **What `make.py fmt` writes:** `Fmt` keeps its exit (`die` on `goimports`), but the rewritten Go sources are left out, as no property reads them.
- **`libbuild`:** it is outside the repository. `go_build` is taken to produce the artifact or end the process. `read_json` is taken to behave like the catalog scripts' version.
- **What `kluster.py info` and `version` print:** the actions keep only their outcome (`info` fails with `ValueError` on a corrupt context). `server` is `make.default`, which `DevTools` composes.
- **A hung `urlopen`:** there is no timeout. A hang is a run that never takes its next step, which no property can rule out. The failed call is modelled as `NetworkError`.
- **Command lines the `globals()[argv[1]]` dispatchers reject:** a missing command, an unknown name, or a wrong number of arguments, such as the spec's `release("1.7.0")`, which raises `TypeError`. These end the process before anything is read, and change only its exit status. Modelling them in the lifecycle run doubled its state space and pushed it past five minutes.
- **An Aliyun record with an empty `regions` list:** it would raise `IndexError`. The export writes at least one region per record.
- **`softlayer.py sls`:** a constant cross product of a fixed table written to `/tmp`. The only thing that could go wrong is in its one format string, and every property of it would restate that string.
- **Concurrent invocations of the catalog scripts:** the spec excludes them in section 5.

A `Catalog` composition of the lifecycle scripts and the vultr sync on one
file is not built. Each script is one atomic read-modify-write of its own
section, so the only property it could check, that each leaves the other's
section alone, would hold by the shape of the model.

## Questions not checked

Three questions are left without a run. Each would be a violation run of its
own, and none checks something the code or the spec promises:

1. `ReleaseRegistry` with `Serialized = FALSE`, to show the lost update between work trees. It would be a check of what spec section 5 already excludes.
2. The build pipeline and the registry composed: `push` and `update_registry` under one version. Nothing in the code orders the two targets, so `latest.txt` naming a version whose binaries were never pushed is reachable in two steps; no document claims otherwise.
3. `install` after a `gen` that died midway compiles bindata of mixed revisions (hazard `make.py:189`). `install` promises nothing about freshness, so it has no property; `BuiltFromFreshAssets` covers `default` and `build`.
