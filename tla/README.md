# A TLA+ project for llm-compressor

llm-compressor applies compression algorithms (quantization, pruning,
smoothing) to large language models. Its numerics are tensor algebra; what
is hard to get right around them is *control*: a session whose modifiers are
driven through a life cycle by several pipelines, a model that is cut into
subgraphs and calibrated one after the other from a cache that a second thread
reads, hooks that all modifiers share and switch off, statistics that have to
survive exactly until the last member of a fused group has used them, and ranks
that must issue the same collectives in the same order. This directory models
that control in TLA+, checks it with TLC on small instances, and proves a part
of it with TLAPS for all instances.

Paths below are relative to the repository; `llmcompressor/` is
`src/llmcompressor/`. The map from every definition to the lines it models is in
`PROJECT.json`.

## 1. Inventory

### The system and how its parts interact

```
 oneshot ── resets, initializes, finalizes ──> session / lifecycle ──> modifiers
    │                                              ▲                    │ │
    └── runs ──> pipeline registry                 │ calibration events │ │ register
                   ├ independent (one modifier     │                    │ ▼
                   │   at a time, patches recipe)  │                    │ hooks
                   ├ sequential ───────────────────┤                    │
                   │    trace, partition ──> subgraphs                  │
                   │    intermediates cache <── prefetch thread         │
                   ├ basic ────────────────────────┤                    │
                   └ data free ────────────────────┘                    ▼
                                     observers, Hessians, smoothing, collectives
 model_free_ptq ── jobs per shard ──> observers, fused groups, files
```

| part | state it keeps | operations | what makes it correct |
|---|---|---|---|
| lifecycle (`core/lifecycle.py`, `core/session.py`) | recipe, `initialized_`, `finalized`, `_last_event_type`, `global_step` | initialize, event, finalize, reset, reset_stage | flags speak for all modifiers; batch events reach modifiers in order; finalized is final |
| modifier (`modifiers/modifier.py`) | `initialized_`, `finalized_`, `started_`, `ended_` | initialize, update_event, finalize | callbacks run in their order, once, never after finalize |
| oneshot and pipelines (`entrypoints/oneshot.py`, `pipelines/`) | arguments, patched recipe | one call from reset to post-processing, with an exception after any step | no initialized modifier gets out of reach; a call that succeeds has applied its whole recipe |
| partitioning (`pipelines/sequential/helpers.py`) | queue, in-degrees, partitions | visit a node, place an attribute, build subgraphs | an executable order, at most the asked number of targets, inputs written before they are read |
| sequential pipeline and cache (`pipelines/sequential/pipeline.py`, `pipelines/cache.py`) | cache per batch, future of the worker, batch index | fetch, forward, update, delete, epoch end, prefetch | no missing argument, no stale value, the right version of each value, termination |
| hooks (`modifiers/utils/hooks.py`) | shared flag, shared set of kept handles, handles per modifier | register, remove, enter and leave a context | disabling is scoped; every hook can be removed |
| weight calibration (`modifiers/quantization`, `modifiers/gptq`, `observers`, `utils/dist.py`) | statistics, scales, global scales, Hessians, pending collectives | forward, sync, observe, reduce, compress, broadcast, clean up | ranks agree, fused weights share one scale of the original weights, all data is used, nothing is left |
| several quantizers and smoothers of one recipe (`modifiers/quantization/quantization/mixin.py`, `observers`) | schemes, statuses and observers of modules, which all modifiers use; importance; their hooks and Hessians | initialize, start, epoch end, end, finalize | what one modifier does with a module does not reach the scales of another |
| smoothing (`modifiers/transform/awq`, `modifiers/transform/smoothquant`) | statistics and cached arguments per mapping, weights under search | collect, reduce, search, smooth | every mapping once, from the data of all ranks; what the model computes does not change |
| `model_free_ptq` (`entrypoints/model_free/`) | jobs, files, index, config | check index, copy, plan, validate, quantize shards in threads, write config and index | tensors have one place; fused weights share scales across shards; config only over a complete set |
| REAP (`modifiers/pruning/reap/`) | saliencies per layer, expert and rank, experts, routers, config | collect in hooks, reduce, decide, broadcast, prune, update the config | all ranks keep the same experts, chosen from all samples; routers, experts and config fit together |
| magnitude and constant pruning (`modifiers/pruning/{constant,magnitude,utils}`) | masks as buffers of layers, records of each modifier, schedules | start, update, apply, finalize | what was zero stays zero; no pruned element comes back; no mask is left |
| SparseGPT and Wanda (`modifiers/pruning/{sparsegpt,wanda}`) | mask and pruned columns | one block or group of columns at a time | as much is pruned as asked, in the asked structure, and what was zero before |
| GPTQ columns (`modifiers/gptq/gptq_quantize.py`) | permutation, blocks, errors | permute, quantize a column, propagate errors, put back | each column has its group's scale, and each error reaches each later column once |
| rotations (`modifiers/transform/{spinquant,quip}`, `modeling/{fuse,offset_norm}.py`) | matrices in weights and hooks, norms | untie, center embeddings, fuse norms, apply matrices | everything cancels: the model computes what it did, or what it would with centered embeddings |
| AutoRound (`modifiers/autoround/`) | inputs of layers, the last tuned output, quantization parameters taken off a layer | capture, tune, put back, freeze | a layer is tuned on its own inputs and keeps the parameters of other modifiers |
| calibration data (`datasets/utils.py`) | datasets of the ranks | compare, divide, sample | ranks divide the samples evenly, and none is read twice (it is, section 5) |
| mixture of experts (`modeling/moe/`) | fused and linear experts, scales | linearize, quantize, repack, pack scales | every row comes back, with its scale |
| saving (`transformers/compression/`) | embeddings and their ties, config, files, barriers | untie, retie, write in order, wait | the config describes the tables; no rank leaves before the files are there; none waits forever |
| autowrapper (`pipelines/sequential/ast_utils/`) | local names, wrapped functions | analyze names and control flow, wrap, rewrite | the rewritten function computes what the original does |
| recipe and factory | the modifiers of a recipe | parsing, discovery | modelled as a sequence of modifiers only |
| logging, metrics, thin helpers; definitions of models that are patched or vendored | none of interest | | not modelled |

### What is hard here

- **Loops that raise half way.** Every session call visits the modifiers of a
  recipe and runs their callbacks, which may raise; the same objects are reused
  by the next call.
- **Shared mutable context.** One session, one hook flag, one set of kept
  handles, one `dataset_args` for all pipelines, a `recipe.modifiers` that the
  independent pipeline replaces.
- **Two threads on one cache.** `iter_prefetch` reads batch *i + 1* while the main
  thread updates and deletes batch *i*, and both may raise.
- **Two passes over the same batches** with a compression in between, and the
  choice which of them writes.
- **Statistics with a life time.** An observer with statistics ignores its weight;
  fused groups may be divided over epochs and ranks; modifiers of one pipeline share
  the observers of a module, and change weights that others have observed.
- **Collectives without waiting.** Ranks issue reductions and broadcasts and await
  them later; nothing but the order says what belongs together, and a rank
  decides from its own data which ones it issues.
- **Greedy matching of names** in shards that divide fused weights arbitrarily.
- **Positions**: in a block, in a weight, before and after a permutation, rows that
  are columns of a transposed tensor. All are integers, and mixing them up fails
  silently.
- **Code that rewrites code**: which names a wrapped statement reads and assigns is
  judged without running it.
- **Changes that must cancel**: rotations, fused norms, smoothing factors, untied and
  retied embeddings.

`PROJECT.json` lists the hazards, each with its line and with the properties that
would catch it going wrong.

## 2. Modules

| module | models | composes |
|---|---|---|
| `Lifecycle` | session life cycle and the state machine of the modifiers | |
| `ModifierProtocol` | abstract: the callbacks of one modifier object | |
| `Oneshot`, `SessionProofs` | oneshot, the registry and the pipelines as clients of the life cycle | extends `Lifecycle`; implements `ModifierProtocol` |
| `Subgraphs` | interface of partitioning and execution: which names a subgraph reads, writes, deletes | |
| `Partition`, `CalibrationProofs` | `topological_partition`, `partition_graph` | extends `Subgraphs` |
| `LayerwiseCalibration` | abstract: calibration layer by layer | |
| `SequentialPipeline`, `SequentialPipelineProofs` | the sequential pipeline, the cache and its worker thread | extends `Subgraphs`; implements `LayerwiseCalibration` |
| `Autowrap` | the rewriting of forward functions, and running what it makes of them | |
| `Datasets`, `CalibrationProofs` | how samples are divided among ranks | |
| `AutoRound`, `CalibrationProofs` | AutoRound in its pipelines, beside another quantization modifier | |
| `Hooks`, `SessionProofs` | hooks and the contexts that disable them | |
| `Masking`, `PruningProofs` | magnitude and constant pruning, and the masks they share | |
| `WeightCalibration`, `WeightCalibrationProofs` | epoch ends of `QuantizationModifier` and `GPTQModifier` on ranks, observers and fusion | |
| `Quantizers`, `WeightsProofs` | several quantization modifiers and smoothers of a recipe, in one pipeline or each in its own | |
| `GptqColumns`, `WeightsProofs` | the order in which GPTQ quantizes columns and propagates errors | |
| `Smoothing`, `WeightsProofs` | AWQ and SmoothQuant in the sequential pipeline on ranks | |
| `Rotations` | SpinQuant and QuIP, fusing of norms, offset norms | |
| `Reap`, `PruningProofs` | pruning of experts on ranks | |
| `Sparsify`, `PruningProofs` | which elements SparseGPT and Wanda prune | |
| `Experts`, `PruningProofs` | experts from linearization to repacking | |
| `Saving`, `CheckpointProofs` | embeddings, config and files of a saved model, on ranks | |
| `ModelFree`, `CheckpointProofs` | `model_free_ptq` | |
| `Inductions` | induction over numbers and finite sets, functions defined by recursion, quotients and multiples: what the proofs of several components need | |

`Partition` shows that what it makes satisfies `Executable` and `NothingWasted`;
`SequentialPipeline` assumes exactly these of its `Partitions`. That is how the two
fit together without multiplying their state spaces. `Oneshot` and `Lifecycle`
share their state, because a failing callback and the position of a pipeline
interact.

Four `MC` modules hold the instances that are expected to pass. `MCLifecycle`,
`MCEntrypoints`, `MCCalibration` and `MCWeights` each put
components side by side that do not interact: a variable `component`,
chosen in the initial state, says which of them moves, and the others rest in
one of their own initial states. The states are thus those of the components
one by one, added and not multiplied, and a property of a component that rests
holds of its initial state only. `MCOneshot`, `MCWeightCalibration`, `MCSmoothing`,
`MCQuantizers` (two runs), `MCModelFree`, `MCSparsify` and `MCDatasets` are the instances of the
runs that are expected to find a violation (section 5).

Definitions whose comment starts with *Mutant* change one definition the way a
plausible bug would; no specification uses them. `PROJECT.json` says which
property each one breaks.

### How state and actions correspond to the code

**Lifecycle.** `call` is the session call in progress and the position of its
loop; `BeginInitialize`, `InitializeModifier`, `EndInitialize` are
`CompressionLifecycle.initialize` before, in and after the loop over the modifiers,
likewise for finalize, reset and event. A visit runs a callback, so a visit has two
outcomes, and an outcome that raises ends the call with whatever the passed
modifiers have become. The rejections (`RejectFinalize`, `RejectEventState`,
`RejectEventOrder`, `RejectLossMissing`) are the code's `raise` statements in the
order the code reaches them; `RejectLossMissing` *has* recorded the order, as the
code does. `delivered` and `refused` are history. `CurrentIndex` is 0: the event is
built without the step that the life cycle stores (see section 5).

**Oneshot.** `pc` follows one call: reset, initialize, pipeline, finalize,
post-process, or unwinding. It extends `Lifecycle` and runs its actions, so every
interleaving of a raising callback with the position of the pipeline is a
behaviour. `hooked`, `calib`, `epochs` and `unfinalizable` are what modifiers do in
the callbacks: hooks they hold, events they have handled. The recipe of one call
may be given to the next, objects included.

**Partition.** The graph is arbitrary and chosen in the initial state. `VisitNode`
is one iteration of the while loop, `PlaceAttribute` one of the loop over
`get_attr` nodes. Nodes that become ready together enter the queue in any order.

**SequentialPipeline.** `pc` is the place of the main thread in the loop body,
`future` the read of the worker. A cached value is absent, or was computed before
or after the modules that compute it were compressed; that is all the properties
tell apart. `FetchBatch`/`AwaitBatch`/`Forward`/`Write` are the body of the two
batch loops, `SequentialEpochEnd` the event between them, `MainRaises` an exception
of the main thread anywhere.

**Hooks.** `contexts` is the stack of open `disable_hooks` contexts, left in the
order a `with` statement leaves them on every path.

**WeightCalibration.** A weight, scale or Hessian is represented by the set of
ranks whose data it is based on, a global scale by the statistics of each member
of its group. `sent` is the sequence of collectives a rank has issued; a collective
is complete when all ranks have issued one at that position, and what is received
is decided by the position alone, as in the process group. Modules on the CPU, which
broadcasts may skip (`skip_cpu`, `utils/dist.py:70`), are left out. `Step` of a rank goes
through the phases of the code: forward with hooks, sync of activations, update
of activation scales, observation (with fusion and deletion of statistics),
reduction of Hessians, compression of the rank's own modules, broadcast, cleanup.

**Quantizers.** A weight is the sequence of what has been done to it (smoothed,
rounded), and statistics and scales are the weight they were computed from, so a stale one
is one that does not fit. `nextEvent`, `running`, `turn` and `epoch` say which modifier
of which pipeline handles which event next, `waiting` the pipelines to come. The epoch ends do what the
code does with the observers: observe each module of the epoch whose status or scheme says
so, whoever attached its observer, and delete the statistics of those a scale is taken
of. `IsQuantRecipe` keeps to recipes the library accepts and a user would write: a
module has one configuration, and is smoothed before it is quantized. Ranks and
fused groups belong to `WeightCalibration`, the search to `Smoothing`.

**Smoothing.** A factor is represented by its mapping, the number of times the data
of each rank is in the statistics it is computed from, and the ranks whose loss it
was chosen by. `divided`, `multiplied` and `embedded` are the factors that have gone
into the output of a layer, into its weight, and into the cached output of a layer;
`Smooth` adds factors to the first two. `quantized` are the layers that hold weights of
a grid point. `SearchPoint` is one iteration of the grid: quantized weights, a forward
of the parent with its cached arguments, an all-reduce of the loss. `MappingsSupported` is what the code
relies on in the mappings it resolves, and `SmoothedBeforeRead` what it relies on in the
sequential targets.

**ModelFree.** `Loaded(s)` is what the job of a shard loads, `Output(s)` what it
writes, per tensor the set of tensors its scales are computed from.
`MatchNamesSetEager` is the function itself, folded over the sorted names. Jobs run
concurrently and any of them may raise; `ValidateIndex` to `UpdateIndex` are the
statements of `model_free_ptq` in order. What belongs to compressed-tensors
(`build_inverse_weight_maps`, `exec_jobs_dynamic`, `update_safetensors_index`) is
modelled from how it is used and from
`tests/llmcompressor/entrypoints/model_free/`. The checkpoint has several shards and an
index; without one the check of the index returns at once. `quantizedConfig` says whether
this run has written its config: a `quantization_config` that the checkpoint brings along
is not told apart, and without a `config.json` nothing is written.

**Datasets.** Each rank compares, gathers fingerprints (an `all_gather` that returns
when all have sent), and divides or keeps its own. `share` are the positions
of the rank's part, over which it builds its sampler, and `taken` the positions its data
loader reads: the sampler yields indices of the part, from 0 on, and the loader takes
them for indices of the whole dataset. `RoundsDown` lists the products
that floating point puts just below an integer; a dataset is the sequence of the
lengths of its samples, since sampling by length needs no more.

**Autowrap.** A statement is a record with the names it reads and assigns; its text
is left out. `VisitStatement` is the visit of one statement of `forward` by
`AutoWrapper`, with `Analyze` for `NameAnalyzer` and `IsValid` for
`ControlFlowAnalyzer`; `RunStatement` runs one statement of the original and of what it
has become side by side, with Python's rules for names as the only semantics: a
value is the operation that computed it with the values it has read. The model was
compared with the code: for all programs of the instance and all outcomes of
their tests, the text that `AutoWrapper` produces, and what CPython computes with it and
with the original, are what the model says. `IsFaithful` names the programs the
property is about; section 5 says what happens to the others.

**AutoRound.** An activation is its batch and the set of tuned layers it has gone
through, so that "own, untuned inputs" can be said. `BeginTuning` and `EndTuning` are
what the modifier does around the library: take the quantization parameters off all
modules of the layer, and put back those the library has not set.

**Masking.** `masks` has the buffers of the layers, each shared by all modifiers that
target it; `masked` the record each modifier keeps. An event visits the modifiers one
after the other (`visits`); `OptimPostStep` lets the optimizer change any weight before.
Sparsities are counts of `SparsityUnits`, times the `Span` of a schedule, so that no step
of it is rounded; `Power` is the power of the schedule, a recursive function.

**GptqColumns.** `held` is the weight, `window` the copy of a block, `rounded` what has
been quantized; a value says which errors have been subtracted from it and how often.
`TorchColumn` and `FusedColumn` are the two kernels, `EndBlock` the propagation to the
columns right of the block, `Restore` the inverse permutation.

**Rotations.** A weight is the word of matrices its input and output pass; a matrix
cancels with its own inverse and with nothing else. The scheme of each modifier is
a set of such words, fused or in hooks, and a step applies one of them. Centering the
embedding (`CenterEmbeddings`) is a matrix that cancels with nothing, as an RMS norm does
not absorb it.

**Reap.** `tracker` is what the hooks of a rank have summed up; ranks issue reductions
and broadcasts in the order of `sent`, as above. The experts that may be dropped are
those of the least saliency per group; ties are broken in any way.

**Sparsify.** One row; the scores of columns that have received errors are arbitrary,
so that `MayBeLowest` allows every choice the sort could make. `SliceDiffers` is when the
slice of a preserved mask has another shape than the scores of a narrow group, which raises.

**Experts.** A row is the fused row it comes from and its scale. `QuantizeExpert` runs
for any subset of the projections.

**Saving.** `place` and `issued` are where a rank is and which collectives it has
issued; `Write` is one of the steps of the source in their order, and `RaiseWriting`
lets any of them fail. What was done to embeddings and experts before is arbitrary.

## 3. What is checked

| run | states | components | what it shows |
|---|---|---|---|
| `lifecycle` | 518,601 | `Lifecycle`, `Hooks`, `Reap`, `Sparsify`, `Experts`, `Masking` | flags speak for all modifiers, the steps of a batch stay in a batch, finalized is final; disabling hooks is scoped and every hook has one owner; all ranks prune the same experts, the least salient for all samples, and model and config agree; as much is pruned as asked for, and old zeros stay; repacked experts are what they were, with their scales; pruned weights stay pruned through any steps of the optimizer, and no mask is left behind |
| `entrypoints` | 598,670 | `Oneshot`, `ModelFree`, `Saving`, `Quantizers` | nothing that was initialized is lost and success means the whole recipe, whichever step of whichever call fails, implementing `ModifierProtocol`; quantizers and smoothers, however combined, leave modules frozen with scales that fit; tensors have one place and scales follow fusion however shards are divided and jobs fail; the saved config describes the model, no rank leaves early, and all leave |
| `calibration` | 806,125 | `Datasets`, `Autowrap`, `Partition`, `SequentialPipeline`, `AutoRound` | samples are divided among the ranks, and of a dataset of one's own the longest are used; rewritten functions compute what they did; every graph is cut into an executable order; no argument is missing, nothing unread is kept, two threads stay on different batches, and the pipeline implements `LayerwiseCalibration` and ends; AutoRound tunes each layer on its own inputs |
| `weights` | 219,910 | `WeightCalibration`, `Smoothing`, `GptqColumns`, `Rotations` | collectives match, ranks agree, scales are consistent, data is used up; smoothing happens once, from all data, invisibly; columns keep their groups and errors arrive once; rotations cancel; every rank finishes |
| `oneshot_owl`, `weights_global`, `quantizers_multiple`, `quantizers_importance`, `smoothing_parents`, `modelfree_split`, `sparsify_structure`, `datasets_partition` | | one each | a violation, section 5 |

Several checked properties are conjunctions of named parts, so that one name in a
configuration stands for what belongs together (`PruningIsConsistent`,
`MasksAreKept`, `TuningStaysApart`, `PartitionsAreSound`, `DataIsUsedUp`...); the parts
have comments of their own.

### Bounds and why they are enough

- `MCLifecycle`. *Lifecycle*: two modifiers, one that starts when it is initialized
  and one that ends at its first batch, three recipes (empty, both, one of
  them), steps 0 and 1. Two modifiers are enough for a loop to stop between them,
  three recipes for a second recipe to reuse an object and drop another. *Hooks*:
  three handles, two modifiers, three nested contexts, all sets kept. *Masking*: two
  layers of three elements with ties and zeros, sparsities in fifths, training steps
  0 to 3, recipes of two modifiers side by side, one after the other and both at
  once on a layer. *Reap*: two ranks, two layers of six experts whose names sort otherwise
  than they run, routers with no groups, two and four, one epoch or two with
  one of the layers running in both. *Sparsify*: four and six columns in blocks of 2, 3 and
  4, no structure, 1:2 and 2:3, sparsities in quarters, all sets of zeros.
  *Experts*: two experts of one and two rows, with and without gate, any
  subset quantized, scalar and vector scales; matrices of scales are left out (section 5).
- `MCEntrypoints`. *Oneshot*: a data-free modifier, one with hooks and one with the OWL
  profile, recipes of two and of one, every value of the pipeline argument, two
  subgraphs; calls follow each other without a bound. *ModelFree*: two attention
  layers over three shards in all 3^6 ways; an MLP with fused experts over three
  shards in all ways; a layer without `v_proj`; a config with global scales, without,
  and with two groups; at most one tensor that cannot be quantized; two workers.
  *Saving*: three ranks (one to write, two to overtake each other), tied and
  untied embeddings, every choice of what is quantized and pruned before, an
  exception in any step of writing. Configs with a `text_config` are
  left out (section 5). *Quantizers*: all 215 recipes of up to three modifiers over two
  modules that `IsQuantRecipe` accepts, one subgraph or two, every choice of modules
  with an importance-weighted observer. Three modifiers are the least for which
  one of a pipeline observes, another changes and a third takes a scale.
- `MCCalibration`. *Datasets*: up to three ranks, datasets of up to five samples with
  equal lengths, empty and equal ones included, of which none, some or more than there
  are may be asked for. *Autowrap*: all 7,168 functions of three statements, one that prepares names
  in one of eight ways, an `if` on data with any two of eight branches, and one of seven
  that read, and all outcomes of two tests. *Partition*: *all* graphs of a
  placeholder, an output and three nodes of any kind, limits 1 and 2, in which every
  computing node depends on the input and every target contributes to the
  output. A target that does not (dead code that the tracer keeps) can make a
  partition whose outputs nobody reads; the pipeline then runs a subgraph in vain,
  which is why it is left out and said here. *SequentialPipeline*: three subgraphs,
  three batches, two names of the data loader and two computed values, all
  partitions. Three batches are the least for which a prefetching worker is ahead,
  behind and finished; three subgraphs the least for which a value skips one.
  `WritesWeights` is `TRUE`: compression changes what a module computes. *AutoRound*:
  three layers, one or two per subgraph, alone or beside another modifier in all
  orders, a library that tunes all linear modules or only some.
- `MCWeights`. *WeightCalibration*: q, k, v fused and another weight, one rank or two,
  four schedules (one epoch; group first; one member at a time; group divided), three
  orders in which hooks run first, every result of the bin packing.
  *Smoothing*: serial and parallel blocks (mappings whose smooth layer is inside of
  the parent, incompatible and untargeted ones included), two layouts, an
  expert without tokens on any rank, at most one mapping with outputs or losses
  that are not finite, two grid points. In the layout `Whole` one subgraph has all
  layers, in `Halves` finer targets divide a decoder layer, so that a parent is traced
  through and a balance layer runs in a later subgraph than its smooth layer; TLC evaluates
  `MappingsSupported` on both, and `InputsMatchWeights` is conditioned on
  `SmoothedBeforeRead`, which the parallel block meets in `Halves` only if outputs are
  propagated. The properties that compare ranks assume
  that data reaches the same layers on all of them (`SameReach`); section 5 says
  what happens otherwise. *GptqColumns*: widths 1, 4 and 5 with blocks of 1, 2 and 4 and
  groups of 2 and 3 or none, so that the last block and the last group may be narrow, in
  every order. *Rotations*: a decoder layer of two architectures, all sets of rotations,
  tied and untied, one modifier or both; QuIP before SpinQuant is left out (section 5).

### Deadlock and fairness

Most components really end (a pipeline is done, an epoch sequence is over), so the
runs say `CHECK_DEADLOCK FALSE`, all but `oneshot_owl`. Ranks that wait for each other
forever would not go unnoticed: that every rank finishes is checked as a liveness
property.

Fairness is assumed of what the operating system runs, and of nothing that may
fail. `PipelineSpec`: the main thread and the worker are each weakly fair;
exceptions (`MainRaises`, a read that fails) are never due. `WeightSpec`,
`SmoothingSpec`, `ReapSpec`, `SavingSpec`: every rank is weakly fair, since a rank that waits for
no collective goes on; a rank that waits for one is not enabled, so a missing collective
really is a deadlock there. The steps all ranks take together before they
part (`Initialize` and `Decide` of `Reap`, `CompressAndRetie` of `Saving`) are fair as
well. In the `MC` modules the same conditions are stated for the component that
moves. All other properties are safety properties and use no fairness.

## 4. What is proved

Assumptions are the named `ASSUME`s of each module, which TLC evaluates in the runs;
the proofs hold for all values of the constants that satisfy them.

**Lifecycle** (`SessionProofs`). `TypeCorrect`: the type invariant, with the position
of a loop inside its recipe. `FlagsCorrect`: `[]FlagsMeanAll`. Flags are set after a
loop, so this is not inductive: a state in the middle of a loop says nothing about
the modifiers already visited. `LoopInv` adds the progress of the loop
(everything before `call.next` is initialized or refused, or finalized) and that
flags are unset during it. `StepsCorrect`: the steps of a batch reach modifiers
inside a batch. What it needs is `OrderTracksDelivery`: the recorded order equals
the delivered one but for one rejected LOSS_CALCULATED, which is why an event
rejected *after* it was recorded does no harm. `FinalizedStays`: an action property
from the step relation alone.

**Oneshot** (`SessionProofs`). `NoModifierIsEverOrphaned`, `FinalizedIsAlwaysApplied` and
`OneshotImplementsProtocol`, for any recipes, pipelines and number of calls, whatever
raises. `OneshotInv` adds which call of the lifecycle is in progress at which place
(`PlaceOK`); where the recipe comes from, which is the requested one unless the
independent pipeline has patched it (`RecipeOK`); and what the loops have done
(`Progress`): of the independent pipeline, each requested modifier is still to run,
is running, or has been through its calibration. The refinement of
`ModifierProtocol` needs in addition at which point of its calibration each
modifier of the recipe is (`ProtocolInv`), and that no recipe names an object twice, which
is a hypothesis of the theorem: an object named twice would be started twice.

**SequentialPipeline** (`SequentialPipelineProofs`). `PipelineTypeCorrect`,
`NoNameIsEverMissing`, `ThreadsAlwaysApart`, for every partition that satisfies
`Executable` and `NothingWasted`, any number of subgraphs and batches, with and
without prefetching and error propagation. The invariant `PipelineInv` adds to the
types: where the passes are (`PassOK`); that the inputs of the batch at hand are
complete; that the worker is exactly one batch ahead and what it has read is
complete (`WorkerAhead`); and `CacheHolds`, the core: a batch holds every value
that has been written before its *stage* and that its stage or a later one reads,
where the stage of a batch is the subgraph it will enter next: in the middle of an
epoch some batches are already one stage further than others. There is one lemma
per action, and a theorem puts them together. `PipelineImplementsLayerwise` is the
refinement of `LayerwiseCalibration`; it adds how often each batch has run, subgraph by
subgraph, and that hooks are off exactly in the propagating pass (`ProgressInv`).
`CacheAlwaysAsAsked` says that the cache holds nothing that is no longer read, and
which weights have computed what it holds, the latter under the hypothesis
`WritesWeights` (if compression changes nothing there is nothing to
tell apart); `ContentInv` has that for every batch and stage.

**Inductions.** The induction theorems of the library take the property to be shown as an
operator, which no installed prover can instantiate. The lemmas here take it as a
*set* of which one shows that it has every number (`NumberInduction`) or every
finite set (`FiniteSetInduction`), and derive that from the least element of a
well-founded relation, which the library states with sets. `RecursionExists` and
`BoundedRecursion` say that a function defined by recursion exists and satisfies its
equations. With them the proofs below reason about sums over ranks, lists of modules
and positions in a weight of any size. The models therefore write such helpers as
recursive functions (`Select`, `Update` and `Delete` of `WeightCalibration`, `Sorted` and
`First` of `Reap`) and not with the folds of the community modules or `SelectSeq`, of
which the prover knows no definition.

**Partition** (`CalibrationProofs`). `PartitionsAreAlwaysSound`, for every graph, limit and
order in which nodes become ready together. `PartitionInv` says that a node's in-degree
counts the inputs not yet placed (`CountsInv`), so the queue holds exactly the nodes
that wait for nothing (`QueueInv`); that inputs are placed no later than their users
(`OrderInv`); that a list of nodes and the part of each node say the same (`ListsFit`);
and that no partition is opened once an output is placed (`OutputsInv`). The hypothesis
`GraphsAreSound` says that the graph has no cycle, which tracing ensures, and that every
target contributes to the output, which nothing checks (section 3, bounds). TLC
evaluates it for the graphs of the instance. That all nodes are placed is an argument
by a node of least place in the order of tracing among those that are not.

**Datasets** (`CalibrationProofs`). `SamplesAreAlwaysDivided`, for any ranks, datasets and
requests, wherever floating point rounds down (`RoundsDown` is arbitrary): the parts over
which the samplers are built are disjoint, complete and even, a rank reads as many samples
as its part has, and of a dataset of its own it reads the longest. It says nothing of *which*
samples are read of a dataset that all ranks have: those are the same for all
(`datasets_partition`). The bounds of the parts grow with the rank, from 0 to the number asked for (`BoundsGrow`,
`FirstAndLastBound`), so a sample lies between two neighbours, found as the least
bound above it. `TablesAreKnown` says that datasets with the same fingerprint are the
same, which is what the code relies on.

**AutoRound** (`CalibrationProofs`). `TuningAlwaysStaysApart`, for any number of layers,
batches and pipelines, and whatever the library leaves in full precision. The
invariant is about the one pipeline that AutoRound has a turn in. Before it nothing
is captured or tuned, after it everything is; within it the number of layers whose tuning has
begun follows from the subgraph and the turn (`Begun`), the layers after have their
hooks, and `_q_input` is the output of the layer before. What the modules hold is said
of their parameters wherever they are (`ParamsOf`), on the layer or taken off it. `PlansTuneOnce`, that a
recipe has one AutoRound modifier, is a hypothesis: a second one would tune layers
that are tuned, and nothing in the code rejects it. A subgraph with two layers raises
in the first epoch, before anything is tuned (`CrowdedFacts`).

**WeightCalibration** (`WeightCalibrationProofs`). `RanksAlwaysStayTogether`,
`ScalesAreAlwaysConsistent` and `DataIsAlwaysUsedUp`, for any number of ranks, any
schedule, and any division of modules among the ranks. The invariant has two parts.
`RanksInv`: what a rank holds of a module is determined by the stage it is in and the modules it
has finished, however far the others are. `PlanInv`: there is one plan of collectives,
the same for all ranks, of which each has issued the part up to its stage; so what
two ranks have issued matches as far as both have come, and what a rank receives is
what the sender has by then. The delicate part are the statistics of a fused group, which
are deleted when the last member has asked (`ObserversInv`): it has to be
shown that they are still there for every member that takes its scale. `SchedulesAreSound`
(each module belongs to one epoch) and `DataIsBalanced` (data reaches the same modules on
all ranks) are hypotheses, evaluated by TLC for the instance; without the second the
ranks issue different collectives (section 5).

**Hooks** (`SessionProofs`). `HooksTypeCorrect`, `DisablingAlwaysScoped` and
`HooksAlwaysOwned`, for any handles, modifiers and depth. The flag alone is not
inductive; what is, is that the shared set of kept handles is at most the union of
the open contexts' (`KeptBound`) and that the flag is down when none is open
(`FlagBound`), with two lemmas about sequences.

**ModelFree** (`CheckpointProofs`). `ConfigAlwaysMeansQuantized`, for every checkpoint,
config and number of workers, whichever jobs raise. `JobsInv` adds that a saved job
has written its whole output and that all jobs are saved once the results have been
collected; the rest of the argument is that what a job writes depends only on the
checkpoint and the config, which no step changes. `TensorsAreAlwaysKept`: a partner
has exactly one primary weight, which is no partner itself, so the jobs divide the
tensors; and once the jobs are built no partner is missing. Its hypothesis `NamesAreApart` says
that no fused tensor of experts stands next to the tensors it would be split into.
`ScalesAlwaysFollowFusion`, in three steps. A job has each fused set as a whole or not at all
(`JobsHaveWholeSets`), because the job of the primary weight fetches its partners. The greedy
matcher then meets sorted names: of the sets it has met all but one are complete, and the
next name belongs to the one that is open (`MatcherInv`, by induction over the names), so
it closes exactly the sets that the job has and never matches a target twice
(`MatcherFinds`). And what a weight is scaled with is its set in the one job that has it.
Its hypotheses are that the names of a module are neighbours (`NamesAreSorted`) and that
a set has its primary weight in the checkpoint, of a family that `DEFAULT_FUSED_MAPPINGS`
knows, or is in one shard (`FusedSetsSupported`). `MCModelFree` evaluates them; without the second
the code is wrong (section 5).

**GptqColumns** (`WeightsProofs`). `GroupsAreKept` and `ErrorsAreComplete`, for every
width, order, block and group size and choice of kernels. In the middle of the loop
the weight and the copy of the block have seen different errors: right of the block
those of complete blocks, in the copy those of all quantized positions.
`ColumnsInv` says which, phase by phase, and each action has its lemma.

**Quantizers** (`WeightsProofs`). `QuantizersAlwaysFinish`, for any modules, recipes of any
length and epochs. A recipe is counted: `Over` modifiers belong to pipelines that are
over, those up to `Begun` to this one and before, `Started` and `Ended` have put and
removed their hooks, and `Past(m)` have had the epoch end of *m* (`PlaceInv`). Everything
modifiers share on a module follows from these numbers: it is live, that is, it has
an observer and is calibrated, from the first of its quantizers to start until the first to end,
and frozen after that (`StatusInv`, `ObserverInv`); hooks are there between start and end,
Hessians between the forward pass and one's own epoch end (`HooksInv`, `HessiansInv`);
the importance of a live module is deleted as soon as one quantizer has taken its
scale (`ImportanceInv`), so the next one raises (`quantizers_importance`), and `OnceInv` records
that none has gone by. What is proved of runs that fail is only that such a weight is the reason.
`StatisticsInv` is what makes scales right: until a GPTQ modifier has observed a module
in this pipeline it has no statistics, and unless the scale may be stale those that it has are of its
weight. TLC finds the whole invariant true of the 39,897 states of this component. The hypotheses are `QuantizersAssumption`, which keeps to the recipes of
section 3.

**Smoothing** (`WeightsProofs`). `SmoothingStaysInvisible` and `EverythingIsCountedOnce`,
for any ranks, layers, division into subgraphs, coverage of the data and number of grid
points, whatever is not finite. The hypothesis `MappingsSupported` says that no two
mappings have the same smooth layer nor, with AWQ, the same parent, that a
hooked layer is inside of its parent, and that a parent is called in the subgraph of its
hooked layer or traced through. Without the second the code raises
(`smoothing_parents`). The invariant `SmoothInv` has five parts:

- `SmoothLocal`, rank by rank: the statistics are exactly those of the mappings that are
  collected and not yet smoothed (`Collected`), a mapping has its parent's cache until it
  is done, and every mapping that is behind (`Behind`) has exactly one factor, unless
  something speaks against it (`FactorsOK`). This is `NothingIsUnused` and
  `EachMappingOnce`; `BalanceInv` adds that layers are multiplied by what their
  smooth layers are divided by.
- `VisibleInv`: only the search under way leaves quantized weights, and cached
  outputs carry the factors of all epochs before, under `SmoothedBeforeRead`.
- `OpsInv`: the statistics that a rank sends count its data once, and the reduction that a
  factor waits for has been issued.
- `CourseInv`: if data reaches the same layers on all ranks (`SameReach`), there is one
  function from numbers to stages that every rank follows, each as far as it has
  come, and a stage includes the reductions issued so far. The function is
  defined by recursion on `Follow` (`RecursionExists` of `Inductions`). Two ranks are at
  different stages most of the time, and a comparison of one with another is not
  inductive; that both are on one course is, and gives `ReductionsMatch`.
- `DataInv`: a complete reduction has the data of each rank once, so every factor has.

**Sparsify** (`PruningProofs`). `BasePruningIsKeptThm`: with `preserve_sparsity_mask`
the zeros of a weight stay, for every width, block size, sparsity and structure. With
a structure the mask only grows; without one the reason is a count
(`BlockKeepsMask`): elements of the mask score lowest, and a block whose mask does not
fill its target prunes more than the mask has. It does *not* follow that a
structure is kept, which is `sparsify_structure`. `SparsityIsAlwaysReached`: the position
is always at the start of a group, or of a block without a structure; each
of those before it has lost its share; and what is pruned or marked without a preserved
mask lies before the position, so that no group loses more (`ReachedInv`).

**Reap** (`PruningProofs`). `PruningIsAlwaysConsistent`, for any ranks, layers, routers and
epochs. Collectives are matched by their place in the sequence each rank issues, so
the proof is about an order: layers are pruned by epoch and within an epoch by
name (`Precedes`), and what a rank has pruned at any time precedes all the rest. With *k*
layers before it, a layer's reduction and broadcast are the collectives *2k + 1* and *2k +
2* of every rank, so the source decides by the samples of all ranks, and the others
receive what it decided for the same layer. That the retained experts are as many as
the code asserts, in every group of the router, is part of it, by counting
(`FitsRouter`). The hypothesis `ReachesAgree`, that data reaches the same layers on all
ranks, is what the code relies on and does not ensure (section 5).

**Masking** (`PruningProofs`). `MasksAreAlwaysKept` and `PrunedAlwaysStaysPruned`, for any
modifiers, schedules of any power, weights and optimizers. Neither property is
inductive: they speak of weights after the events of a step, and the masks in between
are what matters. `MaskingInv` says of a layer that belongs to one enabled modifier
that its weights are zero where the mask is, or that the mask has just been computed from
them, or that the modifier has still to be told of an optimizer step (`MagnitudeMaskOK`,
`ConstantMaskOK`). From the first two, new masks prune all that the old ones have, because an
element that is zero is pruned whenever any is (`ZerosArePruned`) and because a later step
of a schedule asks for no less (`ScheduleGrows`, from `PowersGrow`, an induction over the
power). That enough is pruned is a count: the least score that is kept has as many below
it (`PrunedAreEnough`); and no more is asked for than there is only as long as a modifier is
within its range (`RunningInRange`), which it leaves at the end of the batch that
reaches it. Past the range a schedule extrapolates. `RemovalInv` says which masks are
left; that removal raises only if modifiers share a layer follows from it.

**Experts** (`PruningProofs`). `RepackKeepsRowsThm`, under the hypothesis
`ExpertsSupported`: the fused tensors hold halves, and a projection has one scale or
one per row. The other layout and matrices of scales are wrong in the code
(section 5), so the hypothesis cannot be dropped.

**Saving** (`CheckpointProofs`). `NobodyLeavesEarlyThm`, for any set of ranks, whatever
raises. The k-th collective of a rank returns when all have issued their k-th, so the
invariant counts: a rank in the body has issued as many as `Entry` has, one that has left
as many as `Entry` and `Exit`, and then everyone else has, the source included,
which only leaves the body when it has written or raised. `SavedConfigAlwaysDescribes`: a tie
in the config is true of the model at any time, retying included, and once something
has been written the model no longer changes. `FlatConfigs` leaves out configs with a
`text_config`, which are saved wrongly (section 5).

**Model-checked only.** What rests on fairness (`CalibrationTerminates`,
`RanksTerminate`, `PruningTerminates`, `SavingTerminates`) is outside of what the prover
does. `WrappingIsInvisible` is about recursive operators, for which it loses its
arithmetic, and about programs of any shape, which would take induction over their
syntax. `RotationsCancel` has finitely many parameters for a given recipe, and the run
goes through all of them, for each recipe that repeats no modifier and that section 5 does not
except; for longer recipes one would need that words of matrices cancel in any order, a
fact of free groups. The type invariants of `Lifecycle`, `Hooks` and `SequentialPipeline` are
proved and therefore not listed in a run.

## 5. Where code and docs disagree

Checked by a run of its own, which finds a counterexample:

- **OWL** (`oneshot_owl`). A sparsity modifier with `sparsity_profile="owl"` runs the
  basic pipeline inside of `on_initialize`; its `calibration_start` is rejected by the
  life cycle that is still initializing, so every such recipe fails, and leaves its
  hooks on the model.
- **Global scales of GPTQ on several ranks** (`weights_global`). The list of
  parameters that are broadcast lacks `weight_global_scale`.
- **Several modifiers in one pipeline** (`quantizers_multiple`), as in
  `examples/quantization_non_uniform/quantization_multiple_modifiers.py` without
  `--independent`. At the end of an epoch GPTQ observes the weights of all quantized
  modules; AWQ smooths the MLP afterwards, and `QuantizationModifier` keeps the
  statistics it finds, which are those of the unsmoothed weights. The attention, which
  GPTQ has rounded, it observes anew and overwrites the scales it was rounded to.
- **Two mappings with one parent** (`smoothing_parents`). AWQ deletes the cached
  arguments of a parent after its first mapping, and the second raises `KeyError`.
- **Divided fused weights** (`modelfree_split`). The check of the index looks for
  divided fused sets in each shard by itself, in order to log them, but the matcher
  raises when a target matches twice before a set is complete; a shard with the
  keys of two layers but the query of only one of them stops the run, although
  the jobs could load the partners.
- **Preserved structures** (`sparsify_structure`). SparseGPT reads the preserved mask of
  a group at the position within the block instead of the weight, so from the
  second block on a group can lose more elements than the structure allows.
- **Importance that is gone** (`quantizers_importance`). The importance that an iMatrix
  observer has collected is deleted with its statistics (`observers/base.py:121`). GPTQ takes
  the scales of its modules at the end of an epoch, and a `QuantizationModifier` after it in
  the same pipeline observes them again, finds no attribute and raises
  `AttributeError` (`observers/imatrix.py:177`), instead of falling back to a uniform MSE as
  `observers/imatrix.py:29` says. `QuantizersFinish` says that no run fails for another
  reason.
- **Samples of several ranks** (`datasets_partition`). `_make_sampler` selects the part of the
  rank into a local variable (`datasets/utils.py:273`) and builds the sampler over it, but the data
  loader is built over the whole dataset (`datasets/utils.py:172`). With the same dataset on
  all ranks, each reads samples from its head, and the guide's disjoint partitions
  (`docs/guides/big_models_and_distributed/distributed_oneshot.md:2`) do not come about.

Met while modelling, described by a model or next to one, without a run:

*Session, pipelines, weights, smoothing*

- Under the independent pipeline the sequential pipeline of an AutoRound modifier
  sets `dataset_args.propagate_error = False`, and the pipelines of the modifiers
  after it inherit that (`pipelines/sequential/pipeline.py:94`).
- With sequential targets finer than decoder layers, which
  `docs/guides/big_models_and_distributed/sequential_onloading.md:36` suggests, a
  smooth layer may run in an earlier subgraph than its balance layers. Their
  cached inputs are then not divided by the factor that their weights are
  multiplied by, unless outputs are propagated. `SmoothedBeforeRead` says when it is
  safe.
- `reset_stage`, `update_event` and the event object: the event is built without the
  step that was just stored, so ranges of modifiers are compared with step 0
  (`core/lifecycle.py:203`). The model does the same.
- `disable_hooks` contexts do not nest: leaving an inner context enables the hooks for
  the rest of the outer one. `DisablingIsScoped` therefore bounds what may run while
  the flag is up and what holds outside of all contexts, and says nothing about the
  rest of an outer context. No caller in the repository nests them that way.
- A failed calibration leaves the hooks of its modifiers on the model: they are
  removed in `on_calibration_end` only, and `reset` finalizes.
- `reset` swallows an exception of `finalize` (`core/lifecycle.py:61`), so a modifier whose finalize
  raises is dropped unfinalized. `NoModifierIsOrphaned` exempts such modifiers.
- A modifier that refuses to initialize stays in the recipe, and the next event
  that reaches it raises.
- A LOSS_CALCULATED without a loss is rejected after its order is recorded;
  harmless, as `StepsCorrect` shows.
- Ranks whose data reaches different modules (experts) issue different collectives in
  AWQ and GPTQ; the code relies on all experts being calibrated.
- With several ranks and a fused group that several epochs divide, statistics of the
  QuantizationModifier stay until calibration ends.
- `model_free_ptq`: gate and up of a `feed_forward` are loaded together but do not share
  a scale, since `_DEFAULT_FUSED_MAPPINGS_LIST` knows `mlp` only; conversely its patterns match
  a `cross_attn`, whose partners nobody fetches, so that a shard with `q_proj` and
  `k_proj` of one layer and `v_proj` of the next computes one scale from both layers; a
  layer without
  `v_proj` stops a microscale run in `build_inverse_weight_maps`; so does a shard that
  holds nothing but partners of others; errors of the validation on the meta device
  are swallowed by the profiler, although
  `docs/guides/entrypoints/model-free-ptq.md:33` calls it a check; and a run that fails
  leaves the original index and config next to quantized shards. `MCModelFree` has
  neither a `feed_forward` nor a `cross_attn`, and `FusedSetsSupported` says what is needed.
- Values in the state outlive what they were made for: the batch index that hooks read is the one of the calibrating pass, also while outputs are
  propagated (`pipelines/sequential/pipeline.py:152`); `loss_masks` of a basic pipeline
  stay in the state and a later pipeline without masks uses them
  (`pipelines/basic/pipeline.py:54`).

*Calibration data and AutoRound*

- The bounds of the parts are products of floating point rounded down, so for some
  numbers (55 samples on 11 ranks) a rank has less than its whole share, although
  `datasets/utils.py:421` promises each at least S//D; no sample is missing from the parts or
  in two of them, as `SamplesAreDivided` shows.
- `RandomSampler` and `select` raise on some ranks only when there are fewer samples
  than asked for, and the others go on to a collective.
- AutoRound's `on_calibration_start` enables calibration on `targets` and its end
  freezes the resolved targets (`modifiers/autoround/base.py:224`). The library
  rounds modules beyond the targets if they are linear; hooks of other modifiers
  fire while it tunes; and `_q_input` is handed from one stack of layers to the
  next, say from a vision tower to the text model.

*Recipes and observers*, read and not modelled

- `append_recipe_dict` (`recipe/utils.py:112`) renames the stage of the recipe it merges
  with to `_0` and its own to `_1`. The third save of a stage adds the plain name again,
  and the fourth overwrites both numbered stages: the two oldest recipes are lost,
  although `recipe/recipe.py` merges in order to keep both. `Recipe.from_dict` takes keys
  that end with `_stage` only, so it skips every numbered one.
- A recipe is written by group and type of its modifiers: the second of a type in one
  group replaces the first, and modifiers of interleaved groups change their order.
- The compiled grid search of the MSE observer resets its patience per chunk, wherever in
  the chunk the improvement was, and counts whole chunks: it may run almost two chunks
  past the step where the eager search stops, not `chunk_size - 1` steps
  (`observers/mse_quant.py:162`, `:198`).

*Autowrapping.* `WrappingIsInvisible` is about programs that satisfy `IsFaithful`. All of
the following were seen in the real code as well as in the model:

- An augmented assignment in both branches of a wrapped `if`, or a loop in it that
  assigns what both branches assign, raises `UnboundLocalError` in the wrapper: the
  target is taken to be assigned and is no argument.
- `del` inside of wrapped code, and `del` of a name that AutoWrapper does not know
  (`KeyError` while rewriting).
- Names first assigned in an `if` that stays as it is, because it contains a `return`, do
  not enter the local names, and a later wrapper raises `NameError`; names first
  assigned in a loop that did not run are passed although they do not exist.
- A conditional expression that replaces a name it reads in one branch, if the
  name does not exist.
- Outside of the model: a local that hides a builtin or a global of the module (a parameter
  named `input`) is left out of the arguments and may even be evaluated statically; a
  starred target (`a, *b = x`) becomes a call on the left side, which does not
  compile; variables of comprehensions become arguments; a walrus inside of a
  wrapped expression is lost.

*Pruning*

- `LayerMask` registers a hook of type "" under the name `register__hook`
  (`modifiers/pruning/utils/pytorch/layer_mask.py:100`; `hooks.py:86` documents "" for
  parameters), which raises for modifiers that use hooks; `MCLifecycle` has both settings.
- SparseGPT with a structure and a preserved mask raises when the last group is narrow: the slice of
  the mask has another shape than the scores (`sgpt_sparsify.py:182`). The model raises there.
- Block masks raise `IndexError` for every sparsity below 1
  (`mask_factory.py:145`); channel and filter masks accept convolutions only.
- A target layer that is itself a linear module is named with a trailing dot
  (`sgpt_base.py:154`), so an entry of `ignore` with its exact name does not match it; hooks stay on the model after a calibration that
  failed (`sgpt_base.py:179`).
- REAP prunes at every epoch end and updates the config in `on_finalize` only: a
  failure in between leaves a model that does not fit its config. Ranks whose data
  reaches different layers issue different collectives and wait for each other
  forever; `Reaches` of `MCLifecycle` has layers reached by all or by none.

*Rotations*

- With a `transform_config` of the user, SpinQuant infers no mappings, but centers
  embeddings by them: `AttributeError` (`spinquant/base.py:173`), also when a
  recipe is loaded that was saved with the config it had resolved.
- QuIP before SpinQuant in one recipe puts matrices between norms and their readers
  that SpinQuant then fuses across, which changes the function.
- Centering an embedding is absorbed by a LayerNorm, not by an RMS norm, which is what all
  modelled architectures have (`modeling/moe/cohere2_moe.py` even asserts it). So SpinQuant
  changes what the model computes; `tests/llmcompressor/modifiers/transform/test_correctness.py`
  allows it a far larger error than QuIP. No doc says that the function is preserved, the
  comment calls the step a normalization, and so this is no finding of a run:
  `RotationsCancel` says that everything *but* centering cancels.
- Unknown architectures get the default mappings, by which the router of a mixture of
  experts would read a rotated stream unrotated.

*Experts and saving*

- Scales that are matrices (group and channel schemes) are joined on the axis of the
  groups instead of the rows when experts are repacked (`modeling/moe/linear_experts.py:332`).
- Untying sets `tie_word_embeddings` at the top of a config, and `resave_config` looks for it
  in the `text_config` where there is one, so the change is not saved
  (`transformers/compression/compressed_tensors_utils.py:259`).
- `GptOssExpertMLP` interleaves when it linearizes and inherits the repacking of
  halves. Scales that one expert lacks are dropped for all.
- Conversion mappings for loading are put into a registry of transformers that
  keeps the ones for saving, and a model class that was patched stays patched when
  `from_pretrained` raises.
- `from_accelerate` is undone after a save only if the save succeeds
  (`compressed_tensors_utils.py:183`).

## 6. What is not modelled

Numerics: what GPTQ, SparseGPT, MSE and iMatrix observers, AWQ's ratios and
rotations compute. They are abstracted to what they are computed *from*, and in
which order, which is where the control can go wrong. Tensor offloading, pinning,
memory; argument parsing; recipes as text, and the discovery of modifier
classes; loading of models and datasets; tracing with torch.fx, whose tracer
(`pipelines/sequential/transformers_helpers.py`) is vendored; recompiling and patching of
forward functions; the definitions of patched and vendored models (DeepSeek,
Kimi, Qwen: numerics, a third of the source); metrics and logging. Libraries
(torch.distributed, compressed-tensors, auto_round, the thread pool, Python itself) are
modelled as far as the code uses them and marked external in the map.

Because so much of the source is model definitions, tokenizers and tensor
algebra, the mapped lines are a small share of all lines, and cannot become a large
one without transcribing algebra that TLC could not evaluate.

## 7. Plan

What is left, in this order:

1. The search loops of the MSE and iMatrix observers, and the resolution of AWQ
   mappings to modules, as pure algorithms.
2. The life time of what is patched around tracing and calibration (forward functions,
   model classes, offsets of norms) as one stack of contexts.
3. Recipes: parsing, stages and the factory.
4. Proofs: `RotationsCancel` for recipes that repeat a modifier, with words that are
   kept in normal form.
