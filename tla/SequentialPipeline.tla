------------------------- MODULE SequentialPipeline -------------------------
(***************************************************************************)
(* The sequential calibration pipeline (pipelines/sequential/pipeline.py)  *)
(* with its cache of intermediate activations (pipelines/cache.py).        *)
(*                                                                         *)
(* The main thread runs every subgraph over all batches, once with the     *)
(* hooks of the modifiers and, when the error is propagated, a second time *)
(* without them.  With prefetching a worker thread reads the next batch    *)
(* from the cache while the main thread works on, and writes, the current  *)
(* one.  Every step of the main thread and the read of the worker may      *)
(* raise.                                                                  *)
(***************************************************************************)
EXTENDS Naturals, Subgraphs

CONSTANTS
  N,              \* number of subgraphs
  Names,          \* names of values in the cache
  DataNames,      \* names in a batch of the data loader
  Partitions,     \* what a model may be partitioned into: [inputs, outputs]
  NumBatches,
  WritesWeights   \* compression writes the weights and not only their scales

ASSUME PipelineAssumption ==
  /\ N \in Nat \ {0} /\ NumBatches \in Nat \ {0}
  /\ DataNames \subseteq Names
  /\ WritesWeights \in BOOLEAN
  /\ Partitions \subseteq [inputs : [1 .. N -> SUBSET Names],
                           outputs : [1 .. N -> SUBSET Names]]
  /\ \A p \in Partitions : /\ Executable(p.inputs, p.outputs, DataNames)
                           /\ NothingWasted(p.inputs, p.outputs)

VARIABLES
  partition,      \* input_names and output names of the subgraphs
  pc,             \* where the main thread is
  propagate,      \* dataset_args.propagate_error
  prefetch,       \* dataset_args.sequential_prefetch
  subgraph,       \* the subgraph being run
  pass,           \* "calibrate" or "propagate"
  batch,          \* the batch being run
  cache,          \* cache[b][n]: the version of value n that batch b holds
  inputs,         \* the values fetched for the current batch
  future,         \* the read of the worker thread
  hooksDisabled,  \* HooksMixin._HOOKS_DISABLED
  currentBatch,   \* session.state.current_batch_idx, 0 when it is unset
  compressed,     \* number of subgraphs whose modules are compressed
  runs,           \* history: runs of the hooks of this subgraph, per batch
  error           \* what the main thread raised

argVars == <<partition, propagate, prefetch>>
place == <<subgraph, pass, batch>>
pipelineVars == <<pc, argVars, place, cache, inputs, future, hooksDisabled,
                  currentBatch, compressed, runs, error>>

-----------------------------------------------------------------------------

(* A value is absent, or was computed with or without compressed modules. *)
Versions == {"absent", "original", "compressed"}
Batches == 1 .. NumBatches

Inputs == partition.inputs
Outputs == partition.outputs

NoFuture == [status |-> "none"]
Raised == [status |-> "raised"]
Submitted(b) == [status |-> "submitted", batch |-> b]
Futures ==
  {NoFuture, Raised}
    \cup [status : {"submitted", "reading"}, batch : Batches]
    \cup [status : {"ready"}, data : [Names -> Versions]]

(* fetch: names that are not in the cache are left out silently. *)
Fetched(b) ==
  [n \in Names |-> IF n \in Inputs[subgraph] THEN cache[b][n] ELSE "absent"]

PipelineInit ==
  /\ pc = "start"
  /\ partition \in Partitions
  /\ propagate \in BOOLEAN /\ prefetch \in BOOLEAN
  /\ subgraph = 1 /\ pass = "calibrate" /\ batch = 1
  /\ cache = [b \in Batches |-> [n \in Names |-> "absent"]]
  /\ inputs = [n \in Names |-> "absent"]
  /\ future = NoFuture
  /\ hooksDisabled = FALSE
  /\ currentBatch = 0 /\ compressed = 0
  /\ runs = [b \in Batches |-> 0]
  /\ error = "none"

(* The exception leaves the contexts the main thread is in; the executor waits
   for its worker. *)
Fail(e) ==
  /\ pc' = "failed" /\ error' = e
  /\ hooksDisabled' = FALSE /\ future' = NoFuture
  /\ UNCHANGED <<argVars, place, cache, inputs, currentBatch, compressed, runs>>

-----------------------------------------------------------------------------
(* The main thread *)

(* Tracing, the calibration_start event and IntermediatesCache.from_dataloader. *)
PrepareCache ==
  /\ pc = "start"
  /\ cache' = [b \in Batches |->
       [n \in Names |-> IF n \in DataNames THEN "original" ELSE "absent"]]
  /\ pc' = "fetch"
  /\ UNCHANGED <<argVars, place, inputs, future, hooksDisabled, currentBatch,
                 compressed, runs, error>>

(* Mutant: the worker is sent for the batch the main thread takes. *)
SubmitSame ==
  IF prefetch /\ batch < NumBatches THEN Submitted(batch) ELSE NoFuture

(* Mutant: the result is awaited for the next batch and nothing submitted. *)
SubmitNothing == NoFuture

Submit ==
  IF prefetch /\ batch < NumBatches THEN Submitted(batch + 1) ELSE NoFuture

(* iter, and the first batch of iter_prefetch. *)
FetchBatch ==
  /\ pc = "fetch"
  /\ ~prefetch \/ batch = 1
  /\ inputs' = Fetched(batch)
  /\ future' = Submit
  /\ pc' = "forward"
  /\ UNCHANGED <<argVars, place, cache, hooksDisabled, currentBatch, compressed,
                 runs, error>>

(* The later batches of iter_prefetch. *)
AwaitBatch ==
  /\ pc = "fetch"
  /\ prefetch /\ batch > 1
  /\ future.status = "ready"
  /\ inputs' = future.data
  /\ future' = Submit
  /\ pc' = "forward"
  /\ UNCHANGED <<argVars, place, cache, hooksDisabled, currentBatch, compressed,
                 runs, error>>

AwaitRaises == pc = "fetch" /\ future.status = "raised" /\ Fail("raised")

Missing == {n \in Inputs[subgraph] : inputs[n] = "absent"}

(* Only one of the passes writes, and the last subgraph never does. *)
Writes == subgraph < N /\ (propagate => pass = "propagate")

(* Where the main thread goes with the next batch or at the end of a pass. *)
Continue ==
  IF batch < NumBatches
  THEN pc' = "fetch" /\ batch' = batch + 1
       /\ UNCHANGED <<subgraph, pass, hooksDisabled>>
  ELSE IF pass = "calibrate"
  THEN pc' = "epoch" /\ UNCHANGED <<place, hooksDisabled>>
  ELSE /\ pc' = IF subgraph < N THEN "fetch" ELSE "end"
       /\ subgraph' = IF subgraph < N THEN subgraph + 1 ELSE subgraph
       /\ pass' = "calibrate" /\ batch' = 1
       /\ hooksDisabled' = FALSE

(* Mutant: the hooks run in both passes. *)
HooksRunAlways == runs' = [runs EXCEPT ![batch] = @ + 1]

HooksRun ==
  runs' = IF hooksDisabled THEN runs ELSE [runs EXCEPT ![batch] = @ + 1]

(* subgraph.forward, which raises without one of its arguments. *)
Forward ==
  /\ pc = "forward"
  /\ IF Missing # {}
     THEN Fail("missing")
     ELSE /\ HooksRun
          /\ currentBatch' = IF pass = "calibrate" THEN batch ELSE currentBatch
          /\ IF Writes
             THEN pc' = "write" /\ UNCHANGED <<place, hooksDisabled>>
             ELSE Continue
          /\ UNCHANGED <<argVars, cache, inputs, future, compressed, error>>

(* What this subgraph computes from its inputs; values of the data loader pass
   through. *)
Computed ==
  IF \/ WritesWeights /\ compressed >= subgraph
     \/ \E n \in Inputs[subgraph] : inputs[n] = "compressed"
  THEN "compressed" ELSE "original"

Updated ==
  [n \in Names |->
     IF n \in Outputs[subgraph]
     THEN IF n \in DataNames THEN "original" ELSE Computed
     ELSE cache[batch][n]]

(* activations.update and activations.delete, which raises for a name that is
   not in the cache. *)
Write ==
  /\ pc = "write"
  /\ IF \E n \in Consumed(Inputs, subgraph) : Updated[n] = "absent"
     THEN Fail("key")
     ELSE /\ cache' = [cache EXCEPT ![batch] =
               [n \in Names |-> IF n \in Consumed(Inputs, subgraph)
                                THEN "absent" ELSE Updated[n]]]
          /\ Continue
          /\ UNCHANGED <<argVars, inputs, future, currentBatch, compressed, runs,
                         error>>

(* Mutant: the event carries the modules of the whole model. *)
EpochEndEverywhere ==
  /\ pc = "epoch"
  /\ compressed' = N
  /\ runs' = [b \in Batches |-> 0]
  /\ batch' = 1
  /\ IF propagate
     THEN /\ pass' = "propagate" /\ hooksDisabled' = TRUE
          /\ pc' = "fetch" /\ UNCHANGED subgraph
     ELSE /\ pc' = IF subgraph < N THEN "fetch" ELSE "end"
          /\ subgraph' = IF subgraph < N THEN subgraph + 1 ELSE subgraph
          /\ UNCHANGED <<pass, hooksDisabled>>
  /\ UNCHANGED <<argVars, cache, inputs, future, currentBatch, error>>

(* The sequential_epoch_end event compresses the modules of the subgraph; the
   pass that propagates the error follows. *)
SequentialEpochEnd ==
  /\ pc = "epoch"
  /\ compressed' = compressed + 1
  /\ runs' = [b \in Batches |-> 0]
  /\ batch' = 1
  /\ IF propagate
     THEN /\ pass' = "propagate" /\ hooksDisabled' = TRUE
          /\ pc' = "fetch" /\ UNCHANGED subgraph
     ELSE /\ pc' = IF subgraph < N THEN "fetch" ELSE "end"
          /\ subgraph' = IF subgraph < N THEN subgraph + 1 ELSE subgraph
          /\ UNCHANGED <<pass, hooksDisabled>>
  /\ UNCHANGED <<argVars, cache, inputs, future, currentBatch, error>>

CalibrationEnd ==
  /\ pc = "end"
  /\ pc' = "done"
  /\ UNCHANGED <<argVars, place, cache, inputs, future, hooksDisabled,
                 currentBatch, compressed, runs, error>>

MainRaises ==
  /\ pc \in {"start", "fetch", "forward", "write", "epoch", "end"}
  /\ Fail("raised")

-----------------------------------------------------------------------------
(* The worker thread *)

WorkerReads ==
  /\ future.status = "submitted"
  /\ future' = [future EXCEPT !.status = "reading"]
  /\ UNCHANGED <<pc, argVars, place, cache, inputs, hooksDisabled, currentBatch,
                 compressed, runs, error>>

WorkerReturns ==
  /\ future.status = "reading"
  /\ future' \in {[status |-> "ready", data |-> Fetched(future.batch)],
                  Raised}
  /\ UNCHANGED <<pc, argVars, place, cache, inputs, hooksDisabled, currentBatch,
                 compressed, runs, error>>

Main ==
  \/ PrepareCache
  \/ FetchBatch \/ AwaitBatch \/ AwaitRaises
  \/ Forward \/ Write
  \/ SequentialEpochEnd \/ CalibrationEnd

Worker == WorkerReads \/ WorkerReturns

PipelineNext == Main \/ MainRaises \/ Worker

(* Each thread runs until it blocks; an exception is never due. *)
PipelineSpec ==
  /\ PipelineInit /\ [][PipelineNext]_pipelineVars
  /\ WF_pipelineVars(Main) /\ WF_pipelineVars(Worker)

-----------------------------------------------------------------------------
(* Properties *)

PipelineTypeOK ==
  /\ pc \in {"start", "fetch", "forward", "write", "epoch", "end", "done", "failed"}
  /\ partition \in Partitions
  /\ propagate \in BOOLEAN /\ prefetch \in BOOLEAN
  /\ subgraph \in 1 .. N /\ pass \in {"calibrate", "propagate"} /\ batch \in Batches
  /\ cache \in [Batches -> [Names -> Versions]]
  /\ inputs \in [Names -> Versions]
  /\ future \in Futures
  /\ hooksDisabled \in BOOLEAN
  /\ currentBatch \in 0 .. NumBatches
  /\ compressed \in 0 .. N
  /\ runs \in [Batches -> Nat]
  /\ error \in {"none", "raised", "missing", "key"}

(* No forward pass misses an argument and no deletion a name: what a subgraph
   reads, by whichever thread and in whichever pass, has been written and not
   yet been deleted. *)
NoNameIsMissing == error \notin {"missing", "key"}

(* Between two subgraphs the cache holds no value that no later subgraph reads,
   except data of the loader that no subgraph reads at all. *)
CacheIsTight ==
  pc = "fetch" /\ pass = "calibrate" /\ batch = 1 =>
    \A b \in Batches, n \in Names :
      cache[b][n] # "absent" =>
        \/ \E t \in subgraph .. N : n \in Inputs[t]
        \/ n \in DataNames /\ \A t \in 1 .. N : n \notin Inputs[t]

(* Without propagation every subgraph is calibrated on what the original model
   computes: a batch that is written early is never affected by a compression
   that comes before its turn. *)
OriginalUnlessPropagated ==
  ~propagate => \A b \in Batches, n \in Names : cache[b][n] # "compressed"

(* With propagation every value a compressed subgraph leaves behind has been
   computed with compressed modules. *)
PropagatesCompression ==
  propagate /\ pc = "fetch" /\ pass = "calibrate" /\ batch = 1 =>
    \A b \in Batches, n \in Names :
      cache[b][n] = "original" => n \in DataNames

(* A subgraph is calibrated on what the user asked for: values of the original
   model, or of the model compressed so far, never on a mixture. *)
VersionsAreAsAsked == OriginalUnlessPropagated /\ PropagatesCompression

(* The cache holds what is still to be read, as it is to be read. *)
CacheHoldsWhatIsAsked == CacheIsTight /\ VersionsAreAsAsked

(* The worker never reads a batch while the main thread writes it. *)
ThreadsKeepApart ==
  pc = "write" /\ future.status = "reading" => future.batch # batch

(* A pipeline comes to an end, and never waits for a batch nobody reads. *)
PipelineTerminates == <>(pc \in {"done", "failed"})

(* The pipeline implements calibration layer by layer. *)
Layerwise == INSTANCE LayerwiseCalibration WITH
  Layers <- N, Batches <- NumBatches,
  status <- IF pc \in {"done", "failed"} THEN pc ELSE "running"

ImplementsLayerwise == Layerwise!Spec
=============================================================================
