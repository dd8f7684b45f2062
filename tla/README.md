# Model-checking the implementors registration of the generated documentation

The repository holds two scripts of a generated documentation site:

| file | what it does |
| --- | --- |
| `src/crates.js` | `window.ALL_CRATES = [...]`: the catalogue of the 184 crates of the site |
| `src/implementors/forge/interface/test/trait.Test.js` | a *fragment*: builds the object `implementors` (crate name -> list of the types of that crate that implement `forge::interface::test::Test`; 36, 10 and 5 records for three crates) and hands it to the page |

The last line of the fragment is the whole hand-over protocol:

```js
if (window.register_implementors) {window.register_implementors(implementors);}
else {window.pending_implementors = implementors;}
```

The other side, the page's renderer (the *registrar*), sets
`window.register_implementors` and takes what is pending. Its code is not part
of the repository; the written specification (`spec.md`) describes it, and the
model follows that description wherever the source is silent. Definitions
obtained that way are marked `spec_modelled` in `PROJECT.json`.

## 1. Inventory

### Components, state, operations

| component | state | operations | where |
| --- | --- | --- | --- |
| Implementor record | none (immutable data: `text`, `synthetic`, `types`) | - | `trait.Test.js` 2-4 |
| Fragment | the local `implementors` object | `implementors = {}`; `implementors[crate] = [...]` (three times); submit (last line) | `trait.Test.js` 1-5 |
| Registry bridge | `window.register_implementors`, `window.pending_implementors` | submit: call the registrar, or overwrite the pending slot; attach: install the registrar, take the pending object and clear the slot; second attach: rejected or overwriting, by the registrar's policy | submit: `trait.Test.js` 5; attach: `spec.md` 4.1 |
| Registrar, display model | the merged model, module -> list; what it reported | ingest: every module of a well-formed object replaces the model's entry for that module; a malformed object is dropped whole and reported | `spec.md` 4.3, 7 |
| Module catalogue | `window.ALL_CRATES` | one assignment | `crates.js` 1 |
| Rendering, navigation, search | - | - | not in the repository |

### How the components interact

Everything is in-process and synchronous. The scripts of a page share the
global object `window`; each script runs to its end before the next starts, so
a script is atomic. What is *not* fixed is the order in which the browser runs
them: a fragment is loaded asynchronously and may run before or after the
registrar's script. A fragment that finds a registrar calls it, and the
registrar's ingest runs inside that call. A fragment that finds none leaves
its object in `window.pending_implementors` for the registrar to pick up.

### What is hard

* **Order of the scripts.** Both branches of the fragment's last line must
  lead to the same display, and neither order may deliver an object twice or
  not at all.
* **One pending slot.** `window.pending_implementors` is a single variable,
  not a queue. A second fragment that runs before the registrar overwrites the
  first. The written specification promises a FIFO queue.
* **Progress.** A pending object is shown only if a registrar attaches.
* **A slot nobody clears.** The fragment writes
  `window.pending_implementors` and never clears it. The registrar must, or
  whoever reads the slot next takes the same object again.

These four are the hazards of `PROJECT.json`; all sit on line 5 of the
fragment. What the registrar does with an object once it has it (replace per
module, drop a malformed object whole) is checked as well, but it is the
written specification's promise about code that is not in the repository,
not a hazard of the code that is.

### What makes each component correct

| component | properties |
| --- | --- |
| Fragment / object | no key occurs twice in an object or in the display (part of `TypeOK`) |
| Registry bridge | delivered is always a suffix of submitted (`DeliveredIsSuffixOfSubmitted`); after the attach a fragment is delivered in the step in which it runs and nothing is left pending (`ImmediateDeliveryOnceAttached`); every fragment is delivered exactly once in order, also when the registrar is replaced (`EverySubmittedFragmentDelivered`, holds only with at most one early fragment); the slots implement the three-state bridge (`ImplementsRegistryBridge`); the latest fragment is eventually delivered (`LatestEventuallyDelivered`) |
| Registrar / display | the display never shows a list older than the latest well-formed submitted one for that module (`DisplayNeverStale`); every module of every accepted fragment is on display with the latest accepted list, whatever was dropped in between (`EveryAcceptedModuleShown`) |
| Catalogue | names every crate a fragment uses (an `ASSUME` of `MCImplementorsPage`, evaluated when TLC starts) |

## 2. Modules

| module | models | how state and actions correspond to the code |
| --- | --- | --- |
| `Implementors` | the data layer | A JavaScript object is a sequence of `<<key, value>>` pairs with distinct keys in insertion order. `EmptyObject` is `{}`, `Assign` is `obj[k] = v`, `Build` is the body of a fragment, `TraitTest` the three assignments of `trait.Test.js` with their real list lengths, `Merge` the registrar's replace-per-module merge. A record keeps its three fields `text`, `synthetic` and `types`; the implementing type, which `types` names by its path and `text` by its markup, is abstracted to (crate, position), because no property can tell two markups of the same type apart. Neither the object nor the call names the trait outside that markup, so the display is the module map of the one trait the page is about. |
| `ImplementorsPage` | the page: scripts and `window` | Variables `register_implementors` and `pending_implementors` are the two slots of `window` the fragment reads and writes (`slots`), `ALL_CRATES` the slot `crates.js` writes; `display` is the registrar's model, `dropped` the fragments it dropped, `reported` the second attaches it reported; `submitted` and `delivered` are history variables used only by the properties. `RunFragment(f)` is one run of a fragment script, `Submit` its last line with both branches, `LoadCrates` is `crates.js`. The registrar's script is `Attach` (first attach) and `RejectAttach` or `OverwriteAttach` (second attach, by the constant `SecondAttach`); `TakePending` is its flush, `Ingest` its sink, which merges a `WellFormed` object and drops any other. `LoadFragment` and the guards in `Next` are the browser: which script runs next, within the bounds. |
| `RegistryBridge` | the abstract bridge of `spec.md` 4.1 | `state`, `queue`, `registrar`, `sink`; `Submit` (buffer while no registrar is attached, forward when one is), `Attach`, and `Replace` for a second attach that overwrites (one that is rejected is a stuttering step). |
| `MCImplementorsPage` | constants for TLC | Four fragments: `Test` (the repository's file), `Regenerated` (the file after a rebuild in which `smoke_test` has 9 implementors: it re-registers a module with another list), `Extra` (a crate no other fragment has) and `Broken` (a good list for `testcases`, then `smoke_test` holding no list). Two registrars. Only `Test` is a file of the repository; the others are what the generator, or a broken generator, may put beside it. |

`ImplementorsPage` composes `Implementors` (by `EXTENDS`) and is related to
`RegistryBridge` by the refinement mapping `Bridge`:

| abstract | concrete |
| --- | --- |
| `state` | `"Active"` if `register_implementors` is set, else `"Buffering"` if an object is pending, else `"Empty"` |
| `queue` | `<<pending_implementors>>`, or `<<>>` if nothing is pending |
| `registrar` | `register_implementors` |
| `sink` | `delivered` |

Where the written specification leaves a choice, the model takes both or
says which:

* A second attach is rejected or overwrites, by the constant `SecondAttach`.
  Either way it is recorded in `reported`. An overwriting attach is the
  registrar's script run again: it installs the new registrar and takes
  what is pending, which is nothing if the first attach cleared the slot.
* The attach leaves nothing pending.
* A malformed fragment is one with a module key that holds no record list
  (a member of the constant `Malformed`). It is dropped whole: validation
  comes before the merge. That order is this model's reading; the written
  specification only asks that the fragment be dropped. The other kind of
  malformed fragment of `spec.md` 7, one without a capability id, cannot be
  told from the object: no fragment of the repository carries one.
* The abstract bridge's submit is never called from inside an ingest
  (section 4).

## 3. Runs

| run | cfg | result | what it shows |
| --- | --- | --- | --- |
| `page_safety` | `PageSafety.cfg` | pass, 53 714 states | In every order of the scripts, with a malformed fragment among them: `TypeOK`, `DeliveredIsSuffixOfSubmitted`, `DisplayNeverStale`, `EveryAcceptedModuleShown`, `ImmediateDeliveryOnceAttached`. |
| `page_lost_fragment` | `PageLostFragment.cfg` | **violation** | `EverySubmittedFragmentDelivered` fails in three steps: fragment, fragment, attach. The second fragment overwrote the first in the pending slot. |
| `page_one_early` | `PageOneEarly.cfg` | pass, 10 930 states | With at most one fragment before the attach and a second attach rejected, `ImplementsRegistryBridge` (refinement of `RegistryBridge!Spec`) and `EverySubmittedFragmentDelivered` hold. |
| `page_overwrite` | `PageOverwrite.cfg` | pass, 16 390 states | The same two properties when a second attach replaces the registrar: nothing is delivered again to the new registrar. |
| `page_liveness` | `PageLiveness.cfg` | pass, 53 714 states | `LatestEventuallyDelivered` under weak fairness of the attach. |

Read together, `page_lost_fragment` and `page_one_early` say exactly when the
code keeps the promise of the written specification: the single slot is a
correct FIFO queue of capacity one. A generated trait page includes one
fragment script, so it stays within that capacity; a page that loaded two
fragments ahead of the renderer would silently show only the second.
What the code guarantees without that assumption is the weaker pair checked
by `page_safety`: nothing delivered twice, out of order or stale, and nothing
skipped after the first delivery.

Every property of a passing run is paired in `PROJECT.json` with a faulty
variant of a modelled definition (`SubmitAlwaysPending`,
`SubmitKeepsFirstPending`, `SubmitAndKeepPending`, `SubmitWithoutElse`,
`IngestMergesUntilMalformed`, `TakePendingWithoutClear`,
`AssignAlwaysAppends`) under which TLC finds the property violated.

`page_one_early` and `page_overwrite` bound the early fragments to one, so
they cannot see the overwrite of the pending slot; `page_lost_fragment` is
the run that does.

### Bounds

| bound | value | why it is enough |
| --- | --- | --- |
| `Fragments` | 4 (`MCFragments`) | one real fragment, one that overlaps it on a module with a different list, one disjoint, one malformed whose good part overlaps the real one: every case of the merge (new module, replaced module, untouched module) and of the drop (before, between and after good fragments) occurs |
| `MaxRuns` | 5; 2 in `page_lost_fragment` | fragment runs of a page, any fragment any number of times. Five runs hold two early fragments (the overwrite of the slot), the attach, and three later ones: a replacement, a drop and a repeat. The merge is by replacement, so a longer page adds no case |
| `MaxEarly` | `MaxRuns` = no restriction (`page_safety`, `page_liveness`, `page_lost_fragment`); 1 (`page_one_early`, `page_overwrite`) | the number of fragment runs before a registrar is attached; 2 is the smallest number at which the pending slot is overwritten |
| `Registrars` | 2 | one attaches, the other is rejected or replaces it, and the first may replace it back |

Deadlock checking is off in every run: a page whose scripts have all run is
at rest, and that is a legitimate end.

### Fairness

`FairSpec` adds `WF_vars(\E r \in Registrars : Attach(r))`: the registrar's
script is part of every page and, once the page is loaded, nothing can
disable its attach except an earlier attach. No fairness is assumed for
fragments or for `crates.js`: a fragment script may fail to load, and the
properties must hold without it.

## 4. Not modelled

* The HTML of a record's `text`, and rendering in general.
* A display model with a capability level, and a fragment dropped for a
  missing capability id. The written specification has
  `submitFragment(capabilityId, entriesByModule)`; the fragment calls
  `window.register_implementors(implementors)` with the object alone, whose
  keys are crate names. What a registrar would do with the fragments of two
  traits on one page depends on code that is not in the repository, so no
  run asks.
* The full catalogue: `AllCrates` is a parameter, instantiated with the part
  of the list the fragments refer to. Nothing in the repository reads
  `window.ALL_CRATES`.
* A submit made from inside an ingest, and the drain loop the written
  specification asks for in that case. A fragment is a script of its own and
  a script runs to its end before the next starts, so no fragment of the
  repository can run while the registrar is ingesting another; and with one
  pending slot there is no queue to drain. How a registrar would behave if
  its ingest called a fragment is a property of code that is not here.
* An ingest that fails for a reason other than the shape of the fragment.
  The written specification names no other failure.

## 5. Plan

Done, in this order: `Implementors`, `ImplementorsPage` with
`MCImplementorsPage` and the safety run, the violation run for the lost
fragment, `RegistryBridge` and the refinement run, the liveness run; then
malformed fragments and the all-or-nothing ingest, and both policies for a
second attach with `Replace` in the abstract bridge.

Every line of the two source files is mapped. Of the operations the written
specification gives the bridge and the registrar, all are actions except
the two section 4 names: the reentrant submit with its drain loop, and the
capability level of the display model. Neither can be modelled from this
repository. What could still be added is larger instances, not new
behaviour.
