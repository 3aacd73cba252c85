---------------------- MODULE SequentialPipelineProofs ----------------------
(***************************************************************************)
(* Proofs about the sequential pipeline: for every partition of a model,   *)
(* every number of subgraphs and batches, with and without prefetching and *)
(* error propagation, no step of it misses a name in the cache, the two    *)
(* threads never work on the same batch, the pipeline runs the subgraphs   *)
(* in the order of LayerwiseCalibration, and what the cache holds has been *)
(* computed by the weights, and the hooks, that were asked for.            *)
(***************************************************************************)
EXTENDS SequentialPipeline, TLAPS

(* The batch has been moved past the subgraph that is being run. *)
Advanced(b) ==
  /\ subgraph < N
  /\ IF propagate THEN pass = "propagate" /\ b < batch
     ELSE pc = "epoch" \/ b < batch

Stage(b) == IF Advanced(b) THEN subgraph + 1 ELSE subgraph

(* A batch holds all that has been written and that is still to be read. *)
CacheHolds ==
  pc \notin {"start", "done", "failed"} =>
    \A b \in Batches, t \in 1 .. N : \A n \in Inputs[t] :
      /\ t >= Stage(b)
      /\ n \in DataNames \cup Earlier(Outputs, Stage(b))
      => cache[b][n] # "absent"

InputsComplete == pc \in {"forward", "write"} => Missing = {}

(* The worker is one batch ahead of the main thread and delivers complete
   inputs. *)
WorkerAhead ==
  /\ future.status # "none" =>
       \/ pc = "fetch" /\ batch > 1
       \/ pc \in {"forward", "write"} /\ batch < NumBatches
  /\ future.status \in {"submitted", "reading"} =>
       future.batch = IF pc = "fetch" THEN batch ELSE batch + 1
  /\ future.status = "ready" =>
       \A n \in Inputs[subgraph] : future.data[n] # "absent"

PassOK ==
  /\ pc = "start" => /\ subgraph = 1 /\ batch = 1 /\ pass = "calibrate"
                     /\ future = NoFuture
  /\ pass = "propagate" => propagate
  /\ pc = "epoch" => pass = "calibrate"
  /\ pc = "write" => Writes
  /\ pc # "failed" =>
       compressed = IF pc \in {"end", "done"} \/ pass = "propagate"
                    THEN subgraph ELSE subgraph - 1

PipelineInv ==
  /\ PipelineTypeOK
  /\ PassOK
  /\ CacheHolds
  /\ InputsComplete
  /\ WorkerAhead
  /\ NoNameIsMissing

-----------------------------------------------------------------------------

LEMMA FutureKinds ==
  ASSUME future \in Futures
  PROVE  /\ future.status \in {"none", "raised", "submitted", "reading", "ready"}
         /\ future.status \in {"submitted", "reading"} => future.batch \in Batches
         /\ future.status = "ready" => future.data \in [Names -> Versions]
BY DEF Futures, NoFuture, Raised

LEMMA SubmitType ==
  ASSUME batch \in Batches, prefetch \in BOOLEAN, NumBatches \in Nat
  PROVE  /\ Submit \in Futures
         /\ Submit.status # "none" =>
              /\ Submit = Submitted(batch + 1)
              /\ Submit.status = "submitted" /\ Submit.batch = batch + 1
              /\ batch < NumBatches
BY DEF Submit, Submitted, NoFuture, Futures, Batches

LEMMA FetchedType ==
  ASSUME PipelineTypeOK, NEW b \in Batches
  PROVE  Fetched(b) \in [Names -> Versions]
BY DEF PipelineTypeOK, Fetched, Versions

(* What a subgraph reads is there for every batch that is not past it. *)
LEMMA FetchedComplete ==
  ASSUME PipelineInv, PipelineAssumption, NEW b \in Batches, ~Advanced(b),
         pc \notin {"start", "done", "failed"}
  PROVE  \A n \in Inputs[subgraph] : Fetched(b)[n] # "absent"
<1>1. partition \in Partitions /\ subgraph \in 1 .. N
  BY DEF PipelineInv, PipelineTypeOK
<1>2. Inputs \in [1 .. N -> SUBSET Names]
  BY <1>1 DEF PipelineAssumption, Inputs
<1>3. Inputs[subgraph] \subseteq DataNames \cup Earlier(Outputs, subgraph)
  BY <1>1, <1>2 DEF PipelineAssumption, Executable, Inputs, Outputs
<1>4. Stage(b) = subgraph
  BY DEF Stage
<1>5. \A n \in Inputs[subgraph] : cache[b][n] # "absent"
  BY <1>1, <1>3, <1>4, N \in Nat DEF PipelineInv, CacheHolds, PipelineAssumption
<1>. QED
  BY <1>1, <1>2, <1>5 DEF Fetched

LEMMA PipelineInitial ==
  ASSUME PipelineInit, PipelineAssumption
  PROVE  PipelineInv
<1>. USE DEF PipelineInit
<1>a. 1 \in 1 .. N /\ 1 \in Batches /\ 0 \in 0 .. N /\ 0 \in 0 .. NumBatches
  BY DEF PipelineAssumption, Batches
<1>b. cache \in [Batches -> [Names -> Versions]]
  BY DEF Versions
<1>c. future \in Futures
  BY DEF Futures
<1>d. inputs \in [Names -> Versions] /\ runs \in [Batches -> Nat]
  BY DEF Versions
<1>1. PipelineTypeOK
  BY <1>a, <1>b, <1>c, <1>d, Zenon DEF PipelineTypeOK
<1>2. PassOK /\ CacheHolds /\ InputsComplete /\ NoNameIsMissing
  BY DEF PassOK, CacheHolds, InputsComplete, NoNameIsMissing
<1>3. WorkerAhead
  BY DEF WorkerAhead, NoFuture
<1>. QED
  BY <1>1, <1>2, <1>3 DEF PipelineInv

LEMMA FailPreserves ==
  ASSUME PipelineInv, PipelineAssumption, Fail("raised")
  PROVE  PipelineInv'
<1>. USE DEF Fail, argVars, place
<1>a. future' \in Futures
  BY DEF Futures
<1>1. PipelineTypeOK'
  BY <1>a DEF PipelineInv, PipelineTypeOK
<1>2. PassOK' /\ CacheHolds' /\ InputsComplete' /\ NoNameIsMissing'
  BY DEF PipelineInv, PassOK, CacheHolds, InputsComplete, NoNameIsMissing
<1>3. WorkerAhead'
  BY DEF WorkerAhead, NoFuture
<1>. QED
  BY <1>1, <1>2, <1>3 DEF PipelineInv

LEMMA PrepareCachePreserves ==
  ASSUME PipelineInv, PipelineAssumption, PrepareCache
  PROVE  PipelineInv'
<1>. USE DEF PrepareCache, argVars, place
<1>a. cache' \in [Batches -> [Names -> Versions]]
  BY DEF Versions
<1>1. PipelineTypeOK'
  BY <1>a DEF PipelineInv, PipelineTypeOK
<1>2. PassOK' /\ InputsComplete' /\ NoNameIsMissing'
  BY DEF PipelineInv, PassOK, InputsComplete, NoNameIsMissing
<1>3. WorkerAhead'
  BY DEF PipelineInv, PassOK, WorkerAhead, NoFuture
<1>4. CacheHolds'
  <2>1. subgraph' = 1 /\ batch' = 1 /\ pass' = "calibrate" /\ pc' = "fetch"
    BY DEF PipelineInv, PassOK
  <2>2. \A b \in Batches : Stage(b)' = 1
    BY <2>1 DEF Stage, Advanced, Batches, PipelineAssumption
  <2>3. partition \in Partitions /\ Outputs' = Outputs /\ Inputs' = Inputs
    BY DEF PipelineInv, PipelineTypeOK, Outputs, Inputs
  <2>4. DOMAIN Outputs = 1 .. N
    BY <2>3 DEF PipelineAssumption, Outputs
  <2>5. Earlier(Outputs, 1) = {}
    BY <2>4, N \in Nat DEF Earlier, PipelineAssumption
  <2>6. DataNames \subseteq Names
    BY DEF PipelineAssumption
  <2>. QED
    BY <2>2, <2>3, <2>5, <2>6 DEF CacheHolds
<1>. QED
  BY <1>1, <1>2, <1>3, <1>4 DEF PipelineInv

LEMMA FetchBatchPreserves ==
  ASSUME PipelineInv, PipelineAssumption, FetchBatch
  PROVE  PipelineInv'
<1>. USE DEF FetchBatch, argVars, place
<1>a. batch \in Batches /\ prefetch \in BOOLEAN /\ NumBatches \in Nat
  BY DEF PipelineInv, PipelineTypeOK, PipelineAssumption
<1>b. ~Advanced(batch)
  BY <1>a DEF PipelineInv, PipelineTypeOK, Advanced, Batches
<1>c. inputs' \in [Names -> Versions]
  BY <1>a, FetchedType DEF PipelineInv
<1>d. future' \in Futures
  BY <1>a, SubmitType
<1>1. PipelineTypeOK'
  BY <1>c, <1>d DEF PipelineInv, PipelineTypeOK
<1>2. PassOK' /\ NoNameIsMissing'
  BY DEF PipelineInv, PassOK, NoNameIsMissing
<1>3. WorkerAhead'
  BY <1>a, SubmitType DEF WorkerAhead
<1>4. CacheHolds'
  BY DEF PipelineInv, CacheHolds, Stage, Advanced, Inputs, Outputs
<1>5. InputsComplete'
  <2>1. \A n \in Inputs[subgraph] : Fetched(batch)[n] # "absent"
    BY <1>a, <1>b, FetchedComplete
  <2>. QED
    BY <2>1 DEF InputsComplete, Missing, Inputs
<1>. QED
  BY <1>1, <1>2, <1>3, <1>4, <1>5 DEF PipelineInv

LEMMA AwaitBatchPreserves ==
  ASSUME PipelineInv, PipelineAssumption, AwaitBatch
  PROVE  PipelineInv'
<1>. USE DEF AwaitBatch, argVars, place
<1>a. batch \in Batches /\ prefetch \in BOOLEAN /\ NumBatches \in Nat
  BY DEF PipelineInv, PipelineTypeOK, PipelineAssumption
<1>c. inputs' \in [Names -> Versions]
  BY FutureKinds DEF PipelineInv, PipelineTypeOK
<1>d. future' \in Futures
  BY <1>a, SubmitType
<1>1. PipelineTypeOK'
  BY <1>c, <1>d DEF PipelineInv, PipelineTypeOK
<1>2. PassOK' /\ NoNameIsMissing'
  BY DEF PipelineInv, PassOK, NoNameIsMissing
<1>3. WorkerAhead'
  BY <1>a, SubmitType DEF WorkerAhead
<1>4. CacheHolds'
  BY DEF PipelineInv, CacheHolds, Stage, Advanced, Inputs, Outputs
<1>5. InputsComplete'
  BY DEF PipelineInv, WorkerAhead, InputsComplete, Missing, Inputs
<1>. QED
  BY <1>1, <1>2, <1>3, <1>4, <1>5 DEF PipelineInv

(* What Continue does to the place of the main thread. *)
LEMMA ContinueFacts ==
  ASSUME PipelineInv, PipelineAssumption, Continue, pc \in {"forward", "write"}
  PROVE  /\ subgraph' \in 1 .. N /\ pass' \in {"calibrate", "propagate"}
         /\ batch' \in Batches /\ hooksDisabled' \in BOOLEAN
         /\ pc' \in {"fetch", "epoch", "end"}
         /\ pass' = "propagate" => propagate
         /\ pc' = "epoch" => pass' = "calibrate"
         /\ compressed = IF pc' = "end" \/ pass' = "propagate"
                         THEN subgraph' ELSE subgraph' - 1
         /\ batch < NumBatches =>
              pc' = "fetch" /\ batch' = batch + 1 /\ subgraph' = subgraph
<1>. subgraph \in 1 .. N /\ batch \in 1 .. NumBatches /\ N \in Nat
     /\ NumBatches \in Nat \ {0} /\ pass \in {"calibrate", "propagate"}
     /\ hooksDisabled \in BOOLEAN
  BY DEF PipelineInv, PipelineTypeOK, PipelineAssumption, Batches
<1>. compressed = IF pass = "propagate" THEN subgraph ELSE subgraph - 1
  BY DEF PipelineInv, PassOK
<1>. pass = "propagate" => propagate
  BY DEF PipelineInv, PassOK
<1>1. CASE batch < NumBatches
  <2>1. pc' = "fetch" /\ batch' = batch + 1
        /\ subgraph' = subgraph /\ pass' = pass /\ hooksDisabled' = hooksDisabled
    BY <1>1 DEF Continue
  <2>2. batch' \in Batches
    BY <1>1, <2>1 DEF Batches
  <2>3. /\ hooksDisabled' \in BOOLEAN /\ subgraph' \in 1 .. N
        /\ pass' \in {"calibrate", "propagate"}
        /\ pass' = "propagate" => propagate
    BY <2>1
  <2>4. compressed = IF pc' = "end" \/ pass' = "propagate"
                     THEN subgraph' ELSE subgraph' - 1
    BY <2>1
  <2>. QED
    BY <2>1, <2>2, <2>3, <2>4
<1>2. CASE ~(batch < NumBatches) /\ pass = "calibrate"
  <2>1. pc' = "epoch" /\ batch' = batch
        /\ subgraph' = subgraph /\ pass' = pass /\ hooksDisabled' = hooksDisabled
    BY <1>2 DEF Continue, place
  <2>. QED
    BY <1>2, <2>1 DEF Batches
<1>3. CASE ~(batch < NumBatches) /\ pass # "calibrate"
  <2>1. /\ pc' = IF subgraph < N THEN "fetch" ELSE "end"
        /\ subgraph' = IF subgraph < N THEN subgraph + 1 ELSE subgraph
        /\ pass' = "calibrate" /\ batch' = 1 /\ hooksDisabled' = FALSE
    BY <1>3 DEF Continue
  <2>2. pass = "propagate" /\ compressed = subgraph
    BY <1>3
  <2>3. subgraph' \in 1 .. N /\ pc' \in {"fetch", "end"} /\ batch' \in Batches
    BY <2>1 DEF Batches
  <2>4. CASE subgraph < N
    <3>1. subgraph' = subgraph + 1 /\ pc' = "fetch"
      BY <2>1, <2>4
    <3>2. compressed = subgraph' - 1
      BY <2>2, <3>1
    <3>. QED
      BY <1>3, <2>1, <2>3, <3>1, <3>2
  <2>5. CASE ~(subgraph < N)
    <3>1. subgraph' = subgraph /\ pc' = "end"
      BY <2>1, <2>5
    <3>. QED
      BY <1>3, <2>1, <2>2, <2>3, <3>1
  <2>. QED
    BY <2>4, <2>5
<1>. QED
  BY <1>1, <1>2, <1>3

(* Without a write the stage of no batch changes. *)
LEMMA StageAfterForward ==
  ASSUME PipelineInv, PipelineAssumption, Continue, pc = "forward", ~Writes,
         propagate' = propagate
  PROVE  \A b \in Batches : Stage(b)' = Stage(b)
<1>. subgraph \in 1 .. N /\ batch \in 1 .. NumBatches /\ N \in Nat
     /\ NumBatches \in Nat \ {0} /\ pass \in {"calibrate", "propagate"}
  BY DEF PipelineInv, PipelineTypeOK, PipelineAssumption, Batches
<1>. QED
  BY DEF PipelineInv, PassOK, Continue, Batches, place, Stage, Advanced, Writes

(* A write moves its batch past the subgraph. *)
LEMMA StageAfterWrite ==
  ASSUME PipelineInv, PipelineAssumption, Continue, pc = "write",
         propagate' = propagate
  PROVE  /\ Stage(batch) = subgraph
         /\ \A b \in Batches :
              Stage(b)' = IF b = batch THEN subgraph + 1 ELSE Stage(b)
<1>. subgraph \in 1 .. N /\ batch \in 1 .. NumBatches /\ N \in Nat
     /\ NumBatches \in Nat \ {0} /\ pass \in {"calibrate", "propagate"}
  BY DEF PipelineInv, PipelineTypeOK, PipelineAssumption, Batches
<1>1. Writes
  BY DEF PipelineInv, PassOK
<1>. QED
  BY <1>1 DEF PipelineInv, PassOK, Continue, Batches, place, Stage, Advanced,
    Writes

LEMMA ForwardPreserves ==
  ASSUME PipelineInv, PipelineAssumption, Forward
  PROVE  PipelineInv'
<1>a. Missing = {}
  BY DEF Forward, PipelineInv, InputsComplete
<1>. USE DEF argVars
<1>b. batch \in Batches
  BY DEF PipelineInv, PipelineTypeOK
<1>c. runs' \in [Batches -> Nat] /\ currentBatch' \in 0 .. NumBatches
  BY <1>a, <1>b, NumBatches \in Nat
  DEF Forward, HooksRun, PipelineInv, PipelineTypeOK, Batches, PipelineAssumption
<1>d. Inputs' = Inputs /\ Outputs' = Outputs
  BY <1>a DEF Forward, Inputs, Outputs
<1>1. CASE Writes
  <2>. USE <1>1, <1>a DEF Forward, place
  <2>1. PipelineTypeOK'
    BY <1>c DEF PipelineInv, PipelineTypeOK
  <2>2. PassOK' /\ NoNameIsMissing'
    BY DEF PipelineInv, PassOK, NoNameIsMissing, Writes
  <2>3. WorkerAhead' /\ InputsComplete'
    BY <1>d DEF PipelineInv, WorkerAhead, InputsComplete, Missing
  <2>4. CacheHolds'
    BY <1>d DEF PipelineInv, CacheHolds, Stage, Advanced
  <2>. QED
    BY <2>1, <2>2, <2>3, <2>4 DEF PipelineInv
<1>2. CASE ~Writes
  <2>. USE <1>2, <1>a DEF Forward
  <2>c. Continue
    OBVIOUS
  <2>1. PipelineTypeOK'
    BY <1>c, <2>c, ContinueFacts DEF PipelineInv, PipelineTypeOK
  <2>2. PassOK' /\ NoNameIsMissing'
    BY <2>c, ContinueFacts DEF PipelineInv, PassOK, NoNameIsMissing
  <2>3. WorkerAhead'
    BY <1>b, <1>d, <2>c, ContinueFacts, NumBatches \in Nat
    DEF PipelineInv, WorkerAhead, Batches, PipelineAssumption
  <2>4. InputsComplete'
    BY <2>c, ContinueFacts DEF InputsComplete
  <2>5. \A b \in Batches : Stage(b)' = Stage(b)
    BY <2>c, StageAfterForward
  <2>6. CacheHolds'
    BY <1>d, <2>5 DEF PipelineInv, CacheHolds
  <2>. QED
    BY <2>1, <2>2, <2>3, <2>4, <2>6 DEF PipelineInv
<1>. QED
  BY <1>1, <1>2

LEMMA WritePreserves ==
  ASSUME PipelineInv, PipelineAssumption, Write
  PROVE  PipelineInv'
<1>. USE DEF argVars
<1>a. batch \in Batches /\ subgraph \in 1 .. N /\ partition \in Partitions
      /\ cache \in [Batches -> [Names -> Versions]] /\ N \in Nat
  BY DEF PipelineInv, PipelineTypeOK, PipelineAssumption
<1>b. Inputs \in [1 .. N -> SUBSET Names] /\ Outputs \in [1 .. N -> SUBSET Names]
  BY <1>a DEF PipelineAssumption, Inputs, Outputs
<1>c. Writes /\ Missing = {} /\ pc = "write"
  BY DEF Write, PipelineInv, PassOK, InputsComplete
<1>d. subgraph + 1 \in 1 .. N
  BY <1>a, <1>c DEF Writes
<1>e. Updated \in [Names -> Versions] /\ Computed # "absent"
  BY <1>a, <1>b DEF Updated, Computed, Versions
<1>f. Stage(batch) = subgraph
  <2>1. ~Advanced(batch)
    BY <1>a, <1>c DEF Advanced, Batches
  <2>. QED
    BY <2>1 DEF Stage
(* Nothing that is deleted is missing. *)
<1>1. \A n \in Inputs[subgraph] : Updated[n] # "absent"
  <2>1. Inputs[subgraph] \subseteq DataNames \cup Earlier(Outputs, subgraph)
    BY <1>a, <1>b DEF PipelineAssumption, Executable, Inputs, Outputs
  <2>2. \A n \in Inputs[subgraph] : cache[batch][n] # "absent"
    BY <1>a, <1>c, <1>f, <2>1 DEF PipelineInv, CacheHolds
  <2>. QED
    BY <1>a, <1>b, <1>e, <2>2 DEF Updated
<1>2. \A n \in Consumed(Inputs, subgraph) : Updated[n] # "absent"
  BY <1>1 DEF Consumed
<1>. DEFINE Kept == [n \in Names |-> IF n \in Consumed(Inputs, subgraph)
                                     THEN "absent" ELSE Updated[n]]
<1>3. /\ cache' = [cache EXCEPT ![batch] = Kept]
      /\ Continue
      /\ UNCHANGED <<argVars, inputs, future, currentBatch, compressed, runs, error>>
  BY <1>2 DEF Write
<1>4. cache' \in [Batches -> [Names -> Versions]]
  <2>1. Kept \in [Names -> Versions]
    BY <1>e DEF Versions
  <2>. QED
    BY <1>a, <1>3, <2>1
<1>. HIDE DEF Kept
<1>5. PipelineTypeOK'
  BY <1>3, <1>4, <1>c, ContinueFacts DEF PipelineInv, PipelineTypeOK
<1>6. PassOK' /\ NoNameIsMissing'
  BY <1>3, <1>c, ContinueFacts DEF PipelineInv, PassOK, NoNameIsMissing
<1>7. Inputs' = Inputs /\ Outputs' = Outputs
  BY <1>3 DEF Inputs, Outputs
<1>8. WorkerAhead'
  BY <1>a, <1>3, <1>7, <1>c, ContinueFacts, NumBatches \in Nat
  DEF PipelineInv, WorkerAhead, Batches, PipelineAssumption
<1>9. InputsComplete'
  BY <1>3, <1>c, ContinueFacts DEF InputsComplete
<1>10. CacheHolds'
  <2>1. SUFFICES ASSUME NEW b \in Batches, NEW t \in 1 .. N, NEW n \in Inputs[t],
                        t >= Stage(b)', n \in DataNames \cup Earlier(Outputs, Stage(b)')
                 PROVE  cache'[b][n] # "absent"
    BY <1>7 DEF CacheHolds
  <2>2. Stage(b)' = IF b = batch THEN subgraph + 1 ELSE Stage(b)
    BY <1>3, <1>c, StageAfterWrite
  <2>3. CASE b # batch
    BY <1>a, <1>3, <1>c, <2>1, <2>2, <2>3 DEF PipelineInv, CacheHolds
  <2>4. CASE b = batch
    <3>1. n \in Names /\ t > subgraph /\ t >= subgraph
      BY <1>a, <1>b, <2>1, <2>2, <2>4
    <3>2. n \notin Consumed(Inputs, subgraph)
      BY <1>b, <3>1 DEF Consumed, Later
    <3>3. n \in DataNames \cup Earlier(Outputs, subgraph) \cup Outputs[subgraph]
      BY <1>a, <1>b, <2>1, <2>2, <2>4 DEF Earlier
    <3>4. Updated[n] # "absent"
      <4>1. CASE n \in Outputs[subgraph]
        BY <1>e, <3>1, <4>1 DEF Updated
      <4>2. CASE n \notin Outputs[subgraph]
        <5>1. cache[batch][n] # "absent"
          BY <1>a, <1>c, <1>f, <3>1, <3>3, <4>2 DEF PipelineInv, CacheHolds
        <5>. QED
          BY <3>1, <4>2, <5>1 DEF Updated
      <4>. QED
        BY <4>1, <4>2
    <3>5. cache'[b] = Kept
      BY <1>a, <1>3, <2>4
    <3>. QED
      BY <3>1, <3>2, <3>4, <3>5 DEF Kept
  <2>. QED
    BY <2>3, <2>4
<1>. QED
  BY <1>5, <1>6, <1>8, <1>9, <1>10 DEF PipelineInv

LEMMA EpochEndPreserves ==
  ASSUME PipelineInv, PipelineAssumption, SequentialEpochEnd
  PROVE  PipelineInv'
<1>. USE DEF argVars, place
<1>a. /\ subgraph \in 1 .. N /\ N \in Nat \ {0} /\ NumBatches \in Nat \ {0}
      /\ pass = "calibrate" /\ compressed = subgraph - 1 /\ batch \in Batches
  BY DEF PipelineInv, PipelineTypeOK, PassOK, PipelineAssumption,
    SequentialEpochEnd
<1>b. future.status = "none"
  BY DEF PipelineInv, WorkerAhead, SequentialEpochEnd
<1>c. pc' \in {"fetch", "end"} /\ subgraph' \in 1 .. N
  BY <1>a DEF SequentialEpochEnd
<1>d. batch' \in Batches /\ compressed' \in 0 .. N
  BY <1>a DEF SequentialEpochEnd, Batches
<1>e. pass' \in {"calibrate", "propagate"} /\ hooksDisabled' \in BOOLEAN
  BY DEF SequentialEpochEnd, PipelineInv, PipelineTypeOK
<1>f. runs' \in [Batches -> Nat]
  BY DEF SequentialEpochEnd
<1>1. PipelineTypeOK'
  BY <1>c, <1>d, <1>e, <1>f DEF SequentialEpochEnd, PipelineInv, PipelineTypeOK
<1>2. PassOK' /\ NoNameIsMissing'
  BY <1>a DEF SequentialEpochEnd, PipelineInv, PassOK, NoNameIsMissing
<1>3. WorkerAhead' /\ InputsComplete'
  BY <1>b, <1>c DEF SequentialEpochEnd, WorkerAhead, InputsComplete
<1>4. \A b \in Batches : Stage(b)' = Stage(b)
  BY <1>a DEF SequentialEpochEnd, Stage, Advanced, Batches
<1>5. CacheHolds'
  BY <1>4 DEF SequentialEpochEnd, PipelineInv, CacheHolds, Inputs, Outputs
<1>. QED
  BY <1>1, <1>2, <1>3, <1>5 DEF PipelineInv

LEMMA CalibrationEndPreserves ==
  ASSUME PipelineInv, PipelineAssumption, CalibrationEnd
  PROVE  PipelineInv'
<1>. USE DEF CalibrationEnd, argVars, place
<1>1. PipelineTypeOK'
  BY DEF PipelineInv, PipelineTypeOK
<1>. QED
  BY <1>1 DEF PipelineInv, PassOK, CacheHolds, InputsComplete, WorkerAhead,
    NoNameIsMissing

LEMMA WorkerPreserves ==
  ASSUME PipelineInv, PipelineAssumption, Worker
  PROVE  PipelineInv'
<1>. USE DEF argVars, place
<1>a. future \in Futures /\ batch \in Batches
  BY DEF PipelineInv, PipelineTypeOK
<1>b. future.status \in {"submitted", "reading"}
  BY DEF Worker, WorkerReads, WorkerReturns
<1>c. future.batch = IF pc = "fetch" THEN batch ELSE batch + 1
  BY <1>b DEF PipelineInv, WorkerAhead
<1>d. future.batch \in Batches
  BY <1>a, <1>b, FutureKinds
<1>e. \/ pc = "fetch" /\ batch > 1
      \/ pc \in {"forward", "write"} /\ batch < NumBatches
  BY <1>b DEF PipelineInv, WorkerAhead
<1>f. future' \in Futures
  <2>1. CASE WorkerReads
    BY <1>a, <1>b, <1>d, <2>1 DEF WorkerReads, Futures, NoFuture, Raised
  <2>2. CASE WorkerReturns
    <3>1. Fetched(future.batch) \in [Names -> Versions]
      BY <1>d, FetchedType DEF PipelineInv
    <3>. QED
      BY <2>2, <3>1 DEF WorkerReturns, Futures, Raised
  <2>. QED
    BY <2>1, <2>2 DEF Worker
<1>g. UNCHANGED <<pc, argVars, place, cache, inputs, hooksDisabled,
                  currentBatch, compressed, runs, error>>
  BY DEF Worker, WorkerReads, WorkerReturns
<1>1. PipelineTypeOK'
  BY <1>f, <1>g DEF PipelineInv, PipelineTypeOK
<1>2. PassOK' /\ NoNameIsMissing' /\ CacheHolds' /\ InputsComplete'
  BY <1>e, <1>g DEF PipelineInv, PassOK, NoNameIsMissing, CacheHolds, Stage,
    Advanced, InputsComplete, Missing, Inputs, Outputs, Writes
<1>3. WorkerAhead'
  <2>1. CASE WorkerReads
    <3>1. future'.status = "reading" /\ future'.batch = future.batch
      BY <1>a, <1>b, <2>1 DEF WorkerReads, Futures, NoFuture, Raised
    <3>. QED
      BY <1>c, <1>e, <1>g, <3>1 DEF WorkerAhead
  <2>2. CASE WorkerReturns
    <3>1. ~Advanced(future.batch)
      BY <1>a, <1>c, <1>e DEF Advanced, Batches
    <3>2. \A n \in Inputs[subgraph] : Fetched(future.batch)[n] # "absent"
      BY <1>d, <1>e, <3>1, FetchedComplete
    <3>3. \/ future' = Raised
          \/ future' = [status |-> "ready", data |-> Fetched(future.batch)]
      BY <2>2 DEF WorkerReturns
    <3>4. Inputs' = Inputs
      BY <1>g DEF Inputs
    <3>. QED
      BY <1>e, <1>g, <3>2, <3>3, <3>4 DEF WorkerAhead, Raised
  <2>. QED
    BY <2>1, <2>2 DEF Worker
<1>. QED
  BY <1>1, <1>2, <1>3 DEF PipelineInv

-----------------------------------------------------------------------------

LEMMA PipelineStep ==
  ASSUME PipelineInv, PipelineAssumption, [PipelineNext]_pipelineVars
  PROVE  PipelineInv'
<1>1. CASE Main
  <2>1. CASE AwaitRaises
    BY <2>1, FailPreserves DEF AwaitRaises
  <2>. QED
    BY <1>1, <2>1, PrepareCachePreserves, FetchBatchPreserves,
      AwaitBatchPreserves, ForwardPreserves, WritePreserves, EpochEndPreserves,
      CalibrationEndPreserves
    DEF Main
<1>2. CASE MainRaises
  BY <1>2, FailPreserves DEF MainRaises
<1>3. CASE Worker
  BY <1>3, WorkerPreserves
<1>4. CASE UNCHANGED pipelineVars
  <2>. USE <1>4 DEF pipelineVars, argVars, place
  <2>1. PipelineTypeOK'
    BY DEF PipelineInv, PipelineTypeOK
  <2>2. PassOK' /\ NoNameIsMissing' /\ InputsComplete' /\ WorkerAhead'
    BY DEF PipelineInv, PassOK, NoNameIsMissing, InputsComplete, Missing,
      WorkerAhead, Writes, Inputs
  <2>3. CacheHolds'
    BY DEF PipelineInv, CacheHolds, Stage, Advanced, Inputs, Outputs
  <2>. QED
    BY <2>1, <2>2, <2>3 DEF PipelineInv
<1>. QED
  BY <1>1, <1>2, <1>3, <1>4 DEF PipelineNext

(* The invariant holds in every execution, for every partition, any number of
   subgraphs and batches, with and without prefetching and propagation. *)
THEOREM PipelineInvariant == PipelineSpec => []PipelineInv
<1>1. PipelineInit => PipelineInv
  BY PipelineInitial, PipelineAssumption
<1>2. PipelineInv /\ [PipelineNext]_pipelineVars => PipelineInv'
  BY PipelineStep, PipelineAssumption
<1>. QED
  BY <1>1, <1>2, PTL DEF PipelineSpec

(* The state of the pipeline keeps its type. *)
THEOREM PipelineTypeCorrect == PipelineSpec => []PipelineTypeOK
<1>1. PipelineInv => PipelineTypeOK
  BY DEF PipelineInv
<1>. QED
  BY <1>1, PipelineInvariant, PTL

(* subgraph.forward (pipeline.py) finds every argument in what cache.fetch
   returned, and cache.delete every name it is asked to delete: a value is
   deleted only after the last subgraph, the last pass and the prefetching
   thread have read it. *)
THEOREM NoNameIsEverMissing == PipelineSpec => []NoNameIsMissing
<1>1. PipelineInv => NoNameIsMissing
  BY DEF PipelineInv
<1>. QED
  BY <1>1, PipelineInvariant, PTL

(* While the main thread updates and deletes the values of a batch the worker
   of iter_prefetch reads another one: the cache needs no lock. *)
THEOREM ThreadsAlwaysApart == PipelineSpec => []ThreadsKeepApart
<1>1. PipelineInv => ThreadsKeepApart
  <2>. SUFFICES ASSUME PipelineInv, pc = "write", future.status = "reading"
                PROVE  future.batch # batch
    BY DEF ThreadsKeepApart
  <2>1. future.batch = batch + 1 /\ batch \in Nat
    BY DEF PipelineInv, PipelineTypeOK, WorkerAhead, Batches
  <2>. QED
    BY <2>1
<1>. QED
  BY <1>1, PipelineInvariant, PTL

-----------------------------------------------------------------------------
(* The pipeline implements LayerwiseCalibration *)

(* How often the hooks of this subgraph have seen batch b. *)
RunsSoFar(b) ==
  IF \/ pass = "propagate" \/ pc \in {"start", "end", "done"}
     \/ pc \in {"fetch", "forward"} /\ b >= batch
     \/ pc = "write" /\ b > batch
  THEN 0 ELSE 1

ProgressInv ==
  pc # "failed" =>
    /\ (hooksDisabled <=> pass = "propagate")
    /\ pc \in {"end", "done"} => subgraph = N
    /\ \A b \in Batches : runs[b] = RunsSoFar(b)

LEMMA ProgressInitial ==
  ASSUME PipelineInit, PipelineAssumption
  PROVE  ProgressInv
BY DEF PipelineInit, PipelineAssumption, ProgressInv, RunsSoFar, Batches

(* Where Continue leads: to the next batch, to the end of the epoch, to the next subgraph,
   or to the end. *)
LEMMA ContinueCases ==
  ASSUME PipelineInv, PipelineAssumption, Continue
  PROVE  /\ \/ /\ batch < NumBatches /\ batch' = batch + 1 /\ pc' = "fetch"
               /\ subgraph' = subgraph /\ pass' = pass
            \/ /\ batch = NumBatches /\ pass = "calibrate" /\ pc' = "epoch"
               /\ subgraph' = subgraph /\ pass' = pass /\ batch' = batch
            \/ /\ batch = NumBatches /\ pass = "propagate" /\ batch' = 1
               /\ subgraph < N /\ subgraph' = subgraph + 1 /\ pc' = "fetch"
               /\ pass' = "calibrate"
            \/ /\ batch = NumBatches /\ pass = "propagate" /\ batch' = 1
               /\ subgraph = N /\ subgraph' = N /\ pc' = "end"
               /\ pass' = "calibrate"
         /\ hooksDisabled' <=> hooksDisabled /\ pass' = pass
<1>. subgraph \in 1 .. N /\ batch \in 1 .. NumBatches /\ N \in Nat
     /\ NumBatches \in Nat /\ pass \in {"calibrate", "propagate"}
     /\ hooksDisabled \in BOOLEAN
  BY DEF PipelineInv, PipelineTypeOK, PipelineAssumption, Batches
<1>1. CASE batch < NumBatches
  BY <1>1 DEF Continue
<1>2. CASE ~(batch < NumBatches) /\ pass = "calibrate"
  BY <1>2 DEF Continue, place
<1>3. CASE ~(batch < NumBatches) /\ pass = "propagate" /\ subgraph < N
  BY <1>3 DEF Continue
<1>4. CASE ~(batch < NumBatches) /\ pass = "propagate" /\ ~(subgraph < N)
  BY <1>4 DEF Continue
<1>. QED
  BY <1>1, <1>2, <1>3, <1>4

(* A step of the pipeline keeps ProgressInv, and is one of LayerwiseCalibration or none. *)
LEMMA ForwardImplements ==
  ASSUME PipelineInv, ProgressInv, PipelineAssumption, Forward
  PROVE  ProgressInv' /\ [Layerwise!Next]_Layerwise!vars
<1>a. Missing = {} /\ pc = "forward"
  BY DEF Forward, PipelineInv, InputsComplete
<1>b. /\ batch \in 1 .. NumBatches /\ NumBatches \in Nat \ {0} /\ N \in Nat
      /\ subgraph \in 1 .. N /\ runs \in [1 .. NumBatches -> Nat]
      /\ pass \in {"calibrate", "propagate"}
  BY DEF PipelineInv, PipelineTypeOK, PipelineAssumption, Batches
<1>c. /\ hooksDisabled <=> pass = "propagate"
      /\ \A b \in 1 .. NumBatches :
           runs[b] = IF pass = "propagate" \/ b >= batch THEN 0 ELSE 1
  BY <1>a DEF ProgressInv, RunsSoFar, Batches
<1>d. runs' = IF pass = "propagate" THEN runs ELSE [runs EXCEPT ![batch] = 1]
  <2>1. pass # "propagate" => runs[batch] = 0
    BY <1>b, <1>c
  <2>. QED
    BY <1>a, <1>c, <2>1 DEF Forward, HooksRun
<1>e. IF Writes THEN pc' = "write" /\ UNCHANGED <<place, hooksDisabled>> ELSE Continue
  BY <1>a DEF Forward
<1>f. UNCHANGED compressed /\ pc' \in {"write", "fetch", "epoch", "end"}
  BY <1>a, <1>e, ContinueCases DEF Forward
<1>g. \A b \in 1 .. NumBatches :
        runs'[b] = IF pass = "propagate" \/ b > batch THEN 0 ELSE 1
  BY <1>b, <1>c, <1>d
<1>1. ProgressInv'
  <2>1. CASE Writes
    BY <1>b, <1>c, <1>e, <1>g, <2>1 DEF ProgressInv, RunsSoFar, Batches, place
  <2>2. CASE ~Writes
    <3>1. Continue
      BY <1>e, <2>2
    <3>2. (hooksDisabled' <=> pass' = "propagate") /\ (pc' = "end" => subgraph' = N)
      BY <1>b, <1>c, <3>1, ContinueCases
    <3>3. ASSUME NEW b \in 1 .. NumBatches
          PROVE  runs'[b] = RunsSoFar(b)'
      BY <1>b, <1>g, <3>1, ContinueCases DEF RunsSoFar
    <3>. QED
      BY <1>f, <3>2, <3>3 DEF ProgressInv, Batches
  <2>. QED
    BY <2>1, <2>2
<1>2. [Layerwise!Next]_Layerwise!vars
  <2>1. CASE pass = "propagate"
    BY <1>a, <1>d, <1>f, <2>1 DEF Layerwise!vars
  <2>2. CASE pass # "propagate"
    <3>1. compressed < N
      BY <1>a, <1>b, <2>2 DEF PipelineInv, PassOK
    <3>2. runs[batch] = 0 /\ runs' = [runs EXCEPT ![batch] = 1]
      BY <1>b, <1>c, <1>d, <2>2
    <3>3. Layerwise!Calibrate(batch)
      BY <1>a, <1>f, <3>1, <3>2 DEF Layerwise!Calibrate
    <3>. QED
      BY <1>b, <3>3 DEF Layerwise!Next
  <2>. QED
    BY <2>1, <2>2
<1>. QED
  BY <1>1, <1>2

LEMMA WriteImplements ==
  ASSUME PipelineInv, ProgressInv, PipelineAssumption, Write
  PROVE  ProgressInv' /\ [Layerwise!Next]_Layerwise!vars
<1>b. /\ batch \in 1 .. NumBatches /\ NumBatches \in Nat \ {0} /\ N \in Nat
      /\ subgraph \in 1 .. N /\ pc = "write" /\ subgraph < N
      /\ pass \in {"calibrate", "propagate"}
  BY DEF PipelineInv, PipelineTypeOK, PipelineAssumption, Batches, Write, PassOK, Writes
<1>1. CASE Continue /\ UNCHANGED <<compressed, runs>>
  <2>1. pc' \in {"fetch", "epoch", "end"} /\ subgraph' \in 1 .. N
    BY <1>b, <1>1, ContinueCases
  <2>2. /\ hooksDisabled <=> pass = "propagate"
        /\ \A b \in 1 .. NumBatches :
             runs'[b] = IF pass = "propagate" \/ b > batch THEN 0 ELSE 1
    BY <1>b, <1>1 DEF ProgressInv, RunsSoFar, Batches
  <2>3. (hooksDisabled' <=> pass' = "propagate") /\ (pc' = "end" => subgraph' = N)
    BY <1>b, <1>1, <2>2, ContinueCases
  <2>4. ASSUME NEW b \in 1 .. NumBatches
        PROVE  runs'[b] = RunsSoFar(b)'
    BY <1>b, <1>1, <2>2, ContinueCases DEF RunsSoFar
  <2>5. ProgressInv'
    BY <2>1, <2>3, <2>4 DEF ProgressInv, Batches
  <2>. QED
    BY <1>b, <1>1, <2>1, <2>5 DEF Layerwise!vars
<1>2. CASE Fail("key")
  BY <1>b, <1>2 DEF Fail, ProgressInv, Layerwise!Next, Layerwise!Fail
<1>. QED
  BY <1>1, <1>2 DEF Write

LEMMA EpochEndImplements ==
  ASSUME PipelineInv, ProgressInv, PipelineAssumption, SequentialEpochEnd
  PROVE  ProgressInv' /\ [Layerwise!Next]_Layerwise!vars
<1>a. /\ subgraph \in 1 .. N /\ N \in Nat /\ NumBatches \in Nat \ {0}
      /\ pass = "calibrate" /\ compressed = subgraph - 1 /\ pc = "epoch"
  BY DEF PipelineInv, PipelineTypeOK, PassOK, PipelineAssumption, SequentialEpochEnd
<1>b. \A b \in Batches : runs[b] = 1
  BY <1>a DEF ProgressInv, RunsSoFar
<1>c. pc' \in {"fetch", "end"} /\ compressed' = compressed + 1
  BY DEF SequentialEpochEnd
<1>1. ProgressInv'
  BY <1>a DEF SequentialEpochEnd, ProgressInv, RunsSoFar, Batches
<1>2. Layerwise!Compress
  BY <1>a, <1>b, <1>c DEF SequentialEpochEnd, Layerwise!Compress, Layerwise!NoRuns, Batches
<1>. QED
  BY <1>1, <1>2 DEF Layerwise!Next

LEMMA FailImplements ==
  ASSUME Fail("raised"), pc \notin {"done", "failed"}
  PROVE  ProgressInv' /\ [Layerwise!Next]_Layerwise!vars
BY DEF Fail, ProgressInv, Layerwise!Next, Layerwise!Fail

LEMMA PipelineStepImplements ==
  ASSUME PipelineInv, ProgressInv, PipelineAssumption, [PipelineNext]_pipelineVars
  PROVE  ProgressInv' /\ [Layerwise!Next]_Layerwise!vars
<1>1. CASE PrepareCache \/ FetchBatch \/ AwaitBatch
  <2>1. /\ pc \in {"start", "fetch"} /\ pc' \in {"fetch", "forward"}
        /\ pc = "start" => batch = 1 /\ pass = "calibrate" /\ pc' = "fetch"
        /\ pc = "fetch" => pc' = "forward"
        /\ UNCHANGED <<place, hooksDisabled, compressed, runs>>
    BY <1>1 DEF PrepareCache, FetchBatch, AwaitBatch, PipelineInv, PassOK
  <2>. QED
    BY <2>1 DEF place, ProgressInv, RunsSoFar, Batches, Layerwise!vars
<1>2. CASE AwaitRaises
  BY <1>2, FailImplements DEF AwaitRaises
<1>3. CASE MainRaises
  BY <1>3, FailImplements DEF MainRaises
<1>4. CASE CalibrationEnd
  <2>1. compressed = N /\ pc = "end" /\ pc' = "done"
    BY <1>4 DEF CalibrationEnd, PipelineInv, PassOK, ProgressInv
  <2>2. ProgressInv'
    BY <1>4 DEF CalibrationEnd, ProgressInv, RunsSoFar, place
  <2>. QED
    BY <1>4, <2>1, <2>2 DEF CalibrationEnd, Layerwise!Next, Layerwise!Finish
<1>5. CASE Worker \/ UNCHANGED pipelineVars
  <2>1. UNCHANGED <<pc, place, hooksDisabled, compressed, runs>>
    BY <1>5 DEF Worker, WorkerReads, WorkerReturns, pipelineVars
  <2>. QED
    BY <2>1 DEF place, ProgressInv, RunsSoFar, Layerwise!vars
<1>. QED
  BY <1>1, <1>2, <1>3, <1>4, <1>5, ForwardImplements, WriteImplements,
    EpochEndImplements
  DEF PipelineNext, Main

(* The pipeline calibrates layer by layer: the subgraphs are compressed in their order, the
   hooks of each see every batch exactly once before it, and never again, whichever thread
   is late and whatever raises (SequentialPipeline.__call__). *)
THEOREM PipelineImplementsLayerwise == PipelineSpec => ImplementsLayerwise
<1>1. PipelineInit => ProgressInv
  BY ProgressInitial, PipelineAssumption
<1>2. PipelineInit => Layerwise!Init
  BY DEF PipelineInit, Layerwise!Init, Layerwise!NoRuns, Batches
<1>3. PipelineInv /\ ProgressInv /\ [PipelineNext]_pipelineVars
        => ProgressInv' /\ [Layerwise!Next]_Layerwise!vars
  BY PipelineStepImplements, PipelineAssumption
<1>. QED
  BY <1>1, <1>2, <1>3, PipelineInvariant, PTL
  DEF PipelineSpec, ImplementsLayerwise, Layerwise!Spec

-----------------------------------------------------------------------------
(* What the cache holds, and in which version *)

(* A batch holds what its stage or a later one reads, and data that nobody reads. *)
IsStillRead(n, b) == \E t \in 1 .. N : t >= Stage(b) /\ n \in Inputs[t]
IsNeverRead(n) == n \in DataNames /\ \A t \in 1 .. N : n \notin Inputs[t]

CacheTight ==
  pc \notin {"start", "done", "failed"} =>
    \A b \in Batches, n \in Names :
      cache[b][n] # "absent" => IsStillRead(n, b) \/ IsNeverRead(n)

(* Without propagation nothing compressed gets into the cache, and neither into what
   has been fetched from it; with it nothing original but the data. *)
OnlyOriginal ==
  ~ propagate =>
    /\ \A b \in Batches, n \in Names : cache[b][n] # "compressed"
    /\ \A n \in Names : inputs[n] # "compressed"
    /\ future.status = "ready" => \A n \in Names : future.data[n] # "compressed"

OnlyDataIsOriginal ==
  propagate => \A b \in Batches, n \in Names : cache[b][n] = "original" => n \in DataNames

ContentInv ==
  /\ pc = "start" => \A b \in Batches, n \in Names : cache[b][n] = "absent"
  /\ CacheTight /\ OnlyOriginal /\ OnlyDataIsOriginal

LEMMA ContentInitial ==
  ASSUME PipelineInit
  PROVE  ContentInv
BY DEF PipelineInit, ContentInv, CacheTight, OnlyOriginal, OnlyDataIsOriginal, NoFuture

(* The main thread and the worker fetch what is in the cache. *)
LEMMA FetchedIsOriginal ==
  ASSUME OnlyOriginal, ~ propagate, NEW b \in Batches
  PROVE  \A n \in Names : Fetched(b)[n] # "compressed"
BY DEF OnlyOriginal, Fetched

LEMMA PrepareCacheContent ==
  ASSUME PipelineInv, ContentInv, PipelineAssumption, PrepareCache
  PROVE  ContentInv'
<1>. USE DEF PrepareCache, argVars, place
<1>a. subgraph' = 1 /\ batch' = 1 /\ pass' = "calibrate" /\ pc' = "fetch"
  BY DEF PipelineInv, PassOK
<1>b. \A b \in Batches : Stage(b)' = 1
  BY <1>a DEF Stage, Advanced, Batches, PipelineAssumption
<1>c. Inputs' = Inputs
  BY DEF Inputs
<1>1. CacheTight'
  BY <1>b, <1>c, N \in Nat DEF CacheTight, IsStillRead, IsNeverRead, PipelineAssumption
<1>2. OnlyOriginal' /\ OnlyDataIsOriginal'
  BY DEF ContentInv, OnlyOriginal, OnlyDataIsOriginal
<1>. QED
  BY <1>a, <1>1, <1>2 DEF ContentInv

(* A step that leaves the cache alone, and the stages of the batches. *)
LEMMA SameCacheContent ==
  ASSUME PipelineInv, ContentInv, PipelineAssumption,
         UNCHANGED <<cache, propagate, partition>>,
         pc' # "start", pc \notin {"start", "failed", "done"},
         pc' \notin {"failed", "done"} => \A b \in Batches : Stage(b)' = Stage(b),
         OnlyOriginal'
  PROVE  ContentInv'
<1>1. Inputs' = Inputs
  BY DEF Inputs
<1>2. CacheTight'
  BY <1>1 DEF ContentInv, CacheTight, IsStillRead, IsNeverRead
<1>. QED
  BY <1>2 DEF ContentInv, OnlyDataIsOriginal

(* In a pass that writes, what is computed has the version that is asked for. *)
LEMMA ComputedVersion ==
  ASSUME PipelineInv, ContentInv, PipelineAssumption, pc = "write", WritesWeights
  PROVE  Computed = IF propagate THEN "compressed" ELSE "original"
<1>a. subgraph \in 1 .. N /\ N \in Nat /\ Writes /\ partition \in Partitions
      /\ pass \in {"calibrate", "propagate"}
  BY DEF PipelineInv, PipelineTypeOK, PassOK, PipelineAssumption
<1>b. Inputs[subgraph] \subseteq Names
  BY <1>a DEF PipelineAssumption, Inputs
<1>1. CASE propagate
  <2>1. compressed = subgraph
    BY <1>a, <1>1 DEF Writes, PipelineInv, PassOK
  <2>. QED
    BY <1>a, <1>1, <2>1 DEF Computed
<1>2. CASE ~ propagate
  <2>1. pass = "calibrate"
    BY <1>a, <1>2 DEF PipelineInv, PassOK
  <2>2. compressed = subgraph - 1
    BY <2>1 DEF PipelineInv, PassOK
  <2>3. \A n \in Inputs[subgraph] : inputs[n] # "compressed"
    BY <1>b, <1>2 DEF ContentInv, OnlyOriginal
  <2>. QED
    BY <1>a, <1>2, <2>2, <2>3 DEF Computed
<1>. QED
  BY <1>1, <1>2

LEMMA WriteContent ==
  ASSUME PipelineInv, ContentInv, PipelineAssumption, Write, WritesWeights
  PROVE  ContentInv'
<1>a. /\ batch \in Batches /\ subgraph \in 1 .. N /\ N \in Nat
      /\ partition \in Partitions /\ cache \in [Batches -> [Names -> Versions]]
      /\ pc = "write"
  BY DEF PipelineInv, PipelineTypeOK, PipelineAssumption, Write
<1>b. Inputs \in [1 .. N -> SUBSET Names] /\ Outputs \in [1 .. N -> SUBSET Names]
  BY <1>a DEF PipelineAssumption, Inputs, Outputs
<1>1. CASE Fail("key")
  BY <1>a, <1>1 DEF Fail, argVars, ContentInv, CacheTight, OnlyOriginal, OnlyDataIsOriginal,
    NoFuture
<1>2. CASE /\ cache' = [cache EXCEPT ![batch] =
                [n \in Names |-> IF n \in Consumed(Inputs, subgraph)
                                 THEN "absent" ELSE Updated[n]]]
           /\ Continue
           /\ UNCHANGED <<argVars, inputs, future>>
  <2>a. propagate' = propagate /\ Inputs' = Inputs /\ inputs' = inputs /\ future' = future
    BY <1>2 DEF argVars, Inputs
  <2>b. pc' \in {"fetch", "epoch", "end"}
    BY <1>2, ContinueCases
  <2>1. \A b \in Batches, n \in Names :
          cache'[b][n] = IF b # batch THEN cache[b][n]
                         ELSE IF n \in Consumed(Inputs, subgraph) THEN "absent"
                         ELSE IF n \notin Outputs[subgraph] THEN cache[b][n]
                         ELSE IF n \in DataNames THEN "original" ELSE Computed
    BY <1>a, <1>2 DEF Updated
  <2>2. CacheTight'
    <3>1. SUFFICES ASSUME NEW b \in Batches, NEW n \in Names, cache'[b][n] # "absent"
                   PROVE  IsStillRead(n, b)' \/ IsNeverRead(n)'
      BY DEF CacheTight
    <3>2. /\ Stage(batch) = subgraph
          /\ Stage(b)' = IF b = batch THEN subgraph + 1 ELSE Stage(b)
      BY <1>a, <1>2, <2>a, StageAfterWrite
    <3>3. CASE b # batch
      <4>1. IsStillRead(n, b) \/ IsNeverRead(n)
        BY <1>a, <2>1, <3>1, <3>3 DEF ContentInv, CacheTight
      <4>. QED
        BY <2>a, <3>2, <3>3, <4>1 DEF IsStillRead, IsNeverRead
    <3>4. CASE b = batch
      <4>1. n \notin Consumed(Inputs, subgraph)
        BY <2>1, <3>1, <3>4
      <4>2. CASE n \in Later(Inputs, subgraph)
        <5>1. PICK t \in 1 .. N : t > subgraph /\ n \in Inputs[t]
          BY <1>b, <4>2 DEF Later
        <5>2. t >= subgraph + 1
          BY <1>a, <5>1
        <5>. QED
          BY <2>a, <3>2, <3>4, <5>1, <5>2 DEF IsStillRead
      <4>3. CASE n \notin Later(Inputs, subgraph)
        <5>1. n \notin Outputs[subgraph]
          BY <1>a, <1>b, <4>3 DEF PipelineAssumption, NothingWasted, Inputs, Outputs
        <5>2. n \notin Inputs[subgraph]
          BY <4>1, <4>3 DEF Consumed
        <5>3. IsStillRead(n, b) \/ IsNeverRead(n)
          BY <1>a, <2>1, <3>1, <3>4, <4>1, <5>1 DEF ContentInv, CacheTight
        <5>4. ~ IsStillRead(n, b)
          <6>1. SUFFICES ASSUME NEW t \in 1 .. N, t >= subgraph, n \in Inputs[t]
                         PROVE  FALSE
            BY <3>2, <3>4 DEF IsStillRead
          <6>2. t > subgraph
            BY <1>a, <5>2, <6>1
          <6>. QED
            BY <1>b, <4>3, <6>1, <6>2 DEF Later
        <5>. QED
          BY <2>a, <5>3, <5>4 DEF IsNeverRead
      <4>. QED
        BY <4>2, <4>3
    <3>. QED
      BY <3>3, <3>4
  <2>3. OnlyOriginal' /\ OnlyDataIsOriginal'
    BY <1>a, <2>a, <2>1, ComputedVersion DEF ContentInv, OnlyOriginal, OnlyDataIsOriginal
  <2>. QED
    BY <2>b, <2>2, <2>3 DEF ContentInv
<1>. QED
  BY <1>1, <1>2 DEF Write

LEMMA MainContent ==
  ASSUME PipelineInv, ContentInv, PipelineAssumption, WritesWeights, Main \/ MainRaises
  PROVE  ContentInv'
<1>a. batch \in Batches
  BY DEF PipelineInv, PipelineTypeOK
<1>1. CASE FetchBatch \/ AwaitBatch
  <2>1. /\ UNCHANGED <<cache, propagate, partition, place>> /\ pc = "fetch"
        /\ pc' = "forward" /\ future' = Submit
        /\ inputs' = Fetched(batch) \/ (future.status = "ready" /\ inputs' = future.data)
    BY <1>1 DEF FetchBatch, AwaitBatch, argVars
  <2>2. Submit.status # "ready"
    BY DEF Submit, Submitted, NoFuture
  <2>3. OnlyOriginal'
    BY <1>a, <2>1, <2>2, FetchedIsOriginal DEF ContentInv, OnlyOriginal
  <2>4. \A b \in Batches : Stage(b)' = Stage(b)
    BY <2>1 DEF Stage, Advanced, place
  <2>. QED
    BY <2>1, <2>3, <2>4, SameCacheContent
<1>2. CASE Fail("raised") /\ pc \in {"start", "fetch", "forward", "write", "epoch", "end"}
  BY <1>2 DEF Fail, argVars, ContentInv, CacheTight, OnlyOriginal, OnlyDataIsOriginal, NoFuture
<1>3. CASE Forward
  <2>1. Missing = {} /\ pc = "forward"
    BY <1>3 DEF Forward, PipelineInv, InputsComplete
  <2>2. /\ UNCHANGED <<cache, propagate, partition, inputs, future>>
        /\ IF Writes THEN pc' = "write" /\ UNCHANGED place ELSE Continue
    BY <1>3, <2>1 DEF Forward, argVars
  <2>3. OnlyOriginal'
    BY <2>2 DEF ContentInv, OnlyOriginal
  <2>4. CASE Writes
    <3>1. \A b \in Batches : Stage(b)' = Stage(b)
      BY <2>1, <2>2, <2>4 DEF Stage, Advanced, place
    <3>. QED
      BY <2>1, <2>2, <2>3, <2>4, <3>1, SameCacheContent
  <2>5. CASE ~ Writes
    <3>1. \A b \in Batches : Stage(b)' = Stage(b)
      BY <2>1, <2>2, <2>5, StageAfterForward
    <3>2. pc' \in {"fetch", "epoch", "end"}
      BY <2>2, <2>5, ContinueCases
    <3>. QED
      BY <2>1, <2>2, <2>3, <3>1, <3>2, SameCacheContent
  <2>. QED
    BY <2>4, <2>5
<1>4. CASE SequentialEpochEnd
  <2>1. /\ UNCHANGED <<cache, propagate, partition, inputs, future>>
        /\ pc = "epoch" /\ pc' \in {"fetch", "end"}
    BY <1>4 DEF SequentialEpochEnd, argVars
  <2>2. \A b \in Batches : Stage(b)' = Stage(b)
    <3>1. /\ subgraph \in 1 .. N /\ N \in Nat \ {0} /\ NumBatches \in Nat \ {0}
          /\ pass = "calibrate" /\ batch \in Batches
      BY <2>1 DEF PipelineInv, PipelineTypeOK, PassOK, PipelineAssumption
    <3>. QED
      BY <1>4, <3>1 DEF SequentialEpochEnd, Stage, Advanced, Batches, argVars
  <2>3. OnlyOriginal'
    BY <2>1 DEF ContentInv, OnlyOriginal
  <2>. QED
    BY <2>1, <2>2, <2>3, SameCacheContent
<1>5. CASE CalibrationEnd
  <2>1. UNCHANGED <<cache, propagate, partition, inputs, future>> /\ pc' = "done" /\ pc = "end"
    BY <1>5 DEF CalibrationEnd, argVars
  <2>2. OnlyOriginal'
    BY <2>1 DEF ContentInv, OnlyOriginal
  <2>. QED
    BY <2>1, <2>2, SameCacheContent
<1>. QED
  BY <1>1, <1>2, <1>3, <1>4, <1>5, PrepareCacheContent, WriteContent
  DEF Main, MainRaises, AwaitRaises

LEMMA WorkerContent ==
  ASSUME PipelineInv, ContentInv, PipelineAssumption, Worker
  PROVE  ContentInv'
<1>a. /\ future.status \in {"submitted", "reading"} /\ future \in Futures
      /\ UNCHANGED <<pc, cache, propagate, partition, place, inputs>>
  BY DEF Worker, WorkerReads, WorkerReturns, argVars, PipelineInv, PipelineTypeOK
<1>b. future.batch \in Batches
  BY <1>a, FutureKinds
<1>c. pc \in {"fetch", "forward", "write"}
  BY <1>a DEF PipelineInv, WorkerAhead
<1>1. OnlyOriginal'
  <2>1. CASE WorkerReads
    <3>1. future'.status # "ready"
      BY <1>a, <2>1 DEF WorkerReads, Futures, NoFuture, Raised
    <3>. QED
      BY <1>a, <3>1 DEF ContentInv, OnlyOriginal
  <2>2. CASE WorkerReturns
    <3>1. \/ future' = Raised
          \/ future' = [status |-> "ready", data |-> Fetched(future.batch)]
      BY <2>2 DEF WorkerReturns
    <3>. QED
      BY <1>a, <1>b, <3>1, FetchedIsOriginal DEF ContentInv, OnlyOriginal, Raised
  <2>. QED
    BY <2>1, <2>2 DEF Worker
<1>2. \A b \in Batches : Stage(b)' = Stage(b)
  BY <1>a DEF Stage, Advanced, place
<1>. QED
  BY <1>a, <1>c, <1>1, <1>2, SameCacheContent

(* At the beginning of a subgraph every batch is at its stage. *)
LEMMA ContentIsAsAsked ==
  ASSUME PipelineInv, ContentInv, PipelineAssumption
  PROVE  CacheHoldsWhatIsAsked
<1>1. CacheIsTight
  <2>1. SUFFICES ASSUME pc = "fetch", pass = "calibrate", batch = 1,
                        NEW b \in Batches, NEW n \in Names, cache[b][n] # "absent"
                 PROVE  \/ \E t \in subgraph .. N : n \in Inputs[t]
                        \/ n \in DataNames /\ \A t \in 1 .. N : n \notin Inputs[t]
    BY DEF CacheIsTight
  <2>2. Stage(b) = subgraph
    BY <2>1 DEF Stage, Advanced, Batches, PipelineAssumption
  <2>3. IsStillRead(n, b) \/ IsNeverRead(n)
    BY <2>1 DEF ContentInv, CacheTight
  <2>4. subgraph \in 1 .. N /\ N \in Nat
    BY DEF PipelineInv, PipelineTypeOK, PipelineAssumption
  <2>. QED
    BY <2>2, <2>3, <2>4 DEF IsStillRead, IsNeverRead
<1>2. VersionsAreAsAsked
  BY DEF ContentInv, OnlyOriginal, OnlyDataIsOriginal, VersionsAreAsAsked,
    OriginalUnlessPropagated, PropagatesCompression
<1>. QED
  BY <1>1, <1>2 DEF CacheHoldsWhatIsAsked

(* If compression changes what a module computes, the cache holds what is still to be
   read, and every subgraph is calibrated on the version of its inputs that
   propagate_error asks for (SequentialPipeline.__call__, IntermediatesCache): a
   prefetched batch is never one that was read before it was written. *)
THEOREM CacheAlwaysAsAsked ==
  ASSUME WritesWeights
  PROVE  PipelineSpec => []CacheHoldsWhatIsAsked
<1>1. PipelineInit => ContentInv
  BY ContentInitial
<1>2. PipelineInv /\ ContentInv /\ [PipelineNext]_pipelineVars => ContentInv'
  <2>1. CASE UNCHANGED pipelineVars
    BY <2>1 DEF pipelineVars, argVars, place, ContentInv, CacheTight, OnlyOriginal,
      OnlyDataIsOriginal, IsStillRead, IsNeverRead, Stage, Advanced, Inputs
  <2>. QED
    BY <2>1, MainContent, WorkerContent, PipelineAssumption, WritesWeights
    DEF PipelineNext
<1>3. PipelineInv /\ ContentInv => CacheHoldsWhatIsAsked
  BY ContentIsAsAsked, PipelineAssumption
<1>. QED
  BY <1>1, <1>2, <1>3, PipelineInvariant, PTL DEF PipelineSpec
=============================================================================
