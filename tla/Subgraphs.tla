------------------------------ MODULE Subgraphs ------------------------------
(***************************************************************************)
(* The interface between the partitioning of a traced model               *)
(* (pipelines/sequential/helpers.py) and its execution                     *)
(* (pipelines/sequential/pipeline.py): subgraph s reads inputs[s] from the *)
(* intermediates cache and writes outputs[s] to it.                        *)
(***************************************************************************)
EXTENDS Naturals

Later(inputs, s) == UNION {inputs[t] : t \in {u \in DOMAIN inputs : u > s}}
Earlier(outputs, s) == UNION {outputs[t] : t \in {u \in DOMAIN outputs : u < s}}

(* Mutant: the names the next subgraph does not read. *)
ConsumedByNext(inputs, s) ==
  {n \in inputs[s] : s + 1 \in DOMAIN inputs => n \notin inputs[s + 1]}

(* trace_consumed_names: the inputs no later subgraph reads. *)
Consumed(inputs, s) == inputs[s] \ Later(inputs, s)

(* Every subgraph reads only what the data loader or an earlier subgraph has
   written. *)
Executable(inputs, outputs, data) ==
  \A s \in DOMAIN inputs : inputs[s] \subseteq data \cup Earlier(outputs, s)

(* Every value a subgraph writes is read by a later one. *)
NothingWasted(inputs, outputs) ==
  \A s \in DOMAIN inputs : outputs[s] \subseteq Later(inputs, s)
=============================================================================
