---------------------------- MODULE SessionProofs ----------------------------
(***************************************************************************)
(* The session for every set of modifiers, every set of recipes and every  *)
(* pipeline: the invariants of Lifecycle, called in any order, and those   *)
(* of Oneshot, which calls it in the order of one compression, up to the   *)
(* refinement of ModifierProtocol.                                         *)
(*                                                                         *)
(* What has to be added to make them inductive is the progress of the loop *)
(* a call is in: which part of the recipe it has dealt with.  For          *)
(* Lifecycle that is LoopInv, for Oneshot OneshotInv, which also says      *)
(* where the recipe comes from while the independent pipeline exchanges    *)
(* it.                                                                     *)
(***************************************************************************)
EXTENDS Oneshot, Hooks, TLAPS

(* Lifecycle *)


(* A loop of initialize has initialized, or been refused by, every modifier
   it has passed, and the flags are not set before it is done. *)
InitializeProgress ==
  call.op = "initialize" =>
    /\ ~initialized
    /\ \A i \in DOMAIN recipe :
         i < call.next => recipe[i] \in initializedMods \cup refused

(* A loop of finalize has finalized every modifier it has passed. *)
FinalizeProgress ==
  call.op = "finalize" =>
    /\ initialized /\ ~finalized
    /\ \A i \in DOMAIN recipe : i < call.next => recipe[i] \in finalizedMods

Ready ==
  initialized =>
    \A i \in DOMAIN recipe : recipe[i] \in initializedMods \cup refused

AllFinalized ==
  finalized =>
    /\ initialized
    /\ \A i \in DOMAIN recipe : recipe[i] \in finalizedMods

(* The order check of event() works on _last_event_type, which also a rejected
   event advances.  What it records never runs ahead of, or falls behind, what
   the modifiers have seen except for one rejected LOSS_CALCULATED inside an
   open batch; so no later check can let an event of a batch through before
   that batch has started. *)
OrderTracksDelivery ==
  \/ lastEvent = delivered
  \/ lastEvent = "loss_calculated" /\ delivered = "batch_start"

LoopInv == InitializeProgress /\ FinalizeProgress /\ Ready /\ AllFinalized

-----------------------------------------------------------------------------
(* The positions of the ordered events, as facts without DOMAIN. *)
LEMMA OrderedEventsFacts ==
  /\ OrderedEvents = {"batch_start", "loss_calculated", "optim_pre_step",
                      "optim_post_step", "batch_end"}
  /\ EventOrder["batch_start"] = 1
  /\ EventOrder["loss_calculated"] = 2
  /\ EventOrder["optim_pre_step"] = 3
  /\ EventOrder["optim_post_step"] = 4
  /\ EventOrder["batch_end"] = 5
BY DEF OrderedEvents, EventOrder

(* TypeOK, the type invariant of Lifecycle, holds in every reachable state. *)
THEOREM TypeCorrect == Spec => []TypeOK
<1> USE LifecycleAssumption
<1>1. Init => TypeOK
  <2> SUFFICES ASSUME Init PROVE TypeOK
    OBVIOUS
  <2>1. recipe \in Seq(Modifiers)
    BY DEF Init
  <2>2. call \in Calls /\ call.op = "none" /\ error \in Errors
    BY DEF Init, Idle, Calls, Errors
  <2>3. lastEvent \in OrderedEvents /\ delivered \in OrderedEvents
    BY OrderedEventsFacts DEF Init
  <2>4. QED BY <2>1, <2>2, <2>3 DEF Init, TypeOK
<1>2. TypeOK /\ [Next]_vars => TypeOK'
  <2> SUFFICES ASSUME TypeOK, [Next]_vars PROVE TypeOK'
    OBVIOUS
  <2> USE DEF TypeOK, Calls, Errors, Idle, Raise, Return, Advance, Enter,
              modVars, lifecycleVars, Reject
  <2>1. ASSUME NEW r \in Recipes, BeginInitialize(r) PROVE TypeOK'
    BY <2>1 DEF BeginInitialize
  <2>2. CASE InitializeModifier
    <3>1. Current \in Modifiers
      BY <2>2 DEF InitializeModifier, Visiting, Current
    <3>2. QED BY <2>2, <3>1 DEF InitializeModifier, Visiting
  <2>3. CASE EndInitialize BY <2>3 DEF EndInitialize, LoopDone
  <2>4. CASE BeginFinalize BY <2>4 DEF BeginFinalize
  <2>5. CASE RejectFinalize BY <2>5 DEF RejectFinalize
  <2>6. CASE FinalizeModifier
    <3>1. Current \in Modifiers
      BY <2>6 DEF FinalizeModifier, Visiting, Current
    <3>2. QED BY <2>6, <3>1 DEF FinalizeModifier, Visiting
  <2>7. CASE EndFinalize BY <2>7 DEF EndFinalize, LoopDone
  <2>8. CASE BeginReset BY <2>8 DEF BeginReset
  <2>9. CASE ResetModifier BY <2>9 DEF ResetModifier, Visiting
  <2>10. CASE EndReset
    <3>1. recipe' \in Seq(Modifiers) /\ call' = Idle /\ UNCHANGED error
      BY <2>10 DEF EndReset
    <3>2. lastEvent' \in OrderedEvents /\ delivered' \in OrderedEvents
      BY <2>10, OrderedEventsFacts DEF EndReset
    <3>3. call' \in Calls /\ call'.op = "none"
      BY <3>1
    <3>4. QED BY <2>10, <3>1, <3>2, <3>3 DEF EndReset
  <2>11. CASE ResetStage BY <2>11 DEF ResetStage
  <2>12. ASSUME NEW e \in EventTypes, NEW step \in 0 .. MaxStep,
                BeginEvent(e, step)
         PROVE TypeOK'
    <3>1. globalStep' \in Nat /\ lastEvent' \in OrderedEvents
          /\ delivered' \in OrderedEvents
      BY <2>12 DEF BeginEvent, RecordEvent
    <3>2. call' \in Calls /\ error' \in Errors
      BY <2>12 DEF BeginEvent
    <3>3. QED BY <2>12, <3>1, <3>2 DEF BeginEvent
  <2>13. CASE RejectEventState BY <2>13 DEF RejectEventState
  <2>14. ASSUME NEW e \in EventTypes, RejectEventOrder(e) PROVE TypeOK'
    BY <2>14 DEF RejectEventOrder
  <2>15. CASE RejectLossMissing
    BY <2>15, OrderedEventsFacts DEF RejectLossMissing
  <2>16. CASE UpdateModifier
    <3>1. Current \in Modifiers
      BY <2>16 DEF UpdateModifier, Visiting, Current
    <3>2. QED BY <2>16, <3>1 DEF UpdateModifier, UpdateFlags, Visiting
  <2>17. CASE EndEvent BY <2>17 DEF EndEvent, LoopDone
  <2>18. CASE UNCHANGED vars BY <2>18 DEF vars
  <2>19. QED
    BY <2>1, <2>2, <2>3, <2>4, <2>5, <2>6, <2>7, <2>8, <2>9, <2>10, <2>11,
       <2>12, <2>13, <2>14, <2>15, <2>16, <2>17, <2>18 DEF Next
<1>3. QED BY <1>1, <1>2, PTL DEF Spec

-----------------------------------------------------------------------------
(* Which prefix of the recipe a call has dealt with, and that the flags of the
   lifecycle are raised only by a call that has dealt with all of it. *)
LEMMA LoopProgress == Spec => []LoopInv
<1> USE LifecycleAssumption
<1>1. Init => LoopInv
  BY DEF Init, Idle, LoopInv, InitializeProgress, FinalizeProgress, Ready,
         AllFinalized
<1>2. TypeOK /\ LoopInv /\ [Next]_vars => LoopInv'
  <2> SUFFICES ASSUME TypeOK, LoopInv, [Next]_vars PROVE LoopInv'
    OBVIOUS
  <2> USE DEF LoopInv, InitializeProgress, FinalizeProgress, Ready,
              AllFinalized, Idle, Raise, Return, Advance, Enter, modVars,
              lifecycleVars, Reject
  <2>len. /\ Len(recipe) \in Nat /\ DOMAIN recipe = 1 .. Len(recipe)
          /\ call.next \in Nat
    BY DEF TypeOK, Calls
  <2>1. ASSUME NEW r \in Recipes, BeginInitialize(r) PROVE LoopInv'
    <3>1. r \in Seq(Modifiers)
      OBVIOUS
    <3>2. \A i \in DOMAIN r : ~(i < 1)
      BY <3>1
    <3>3. QED BY <2>1, <3>2 DEF BeginInitialize
  <2>2. CASE InitializeModifier
    <3>0. /\ call.op = "initialize" /\ UNCHANGED <<recipe, initialized, finalized>>
          /\ initializedMods \subseteq initializedMods'
          /\ refused \subseteq refused'
          /\ UNCHANGED finalizedMods
      BY <2>2 DEF InitializeModifier, Visiting
    <3>1. CASE call'.op = "none"
      BY <3>0, <3>1
    <3>2. CASE call'.op # "none"
      <4>1. /\ call' = [call EXCEPT !.next = @ + 1]
            /\ Current \in initializedMods' \cup refused'
        BY <2>2, <3>2 DEF InitializeModifier
      <4>2. call'.op = "initialize" /\ call'.next = call.next + 1
        BY <4>1, <3>0 DEF TypeOK, Calls
      <4>3. ASSUME NEW i \in DOMAIN recipe, i < call.next + 1
            PROVE recipe[i] \in initializedMods' \cup refused'
        <5>1. CASE i < call.next BY <5>1, <3>0
        <5>2. CASE i = call.next BY <5>2, <4>1 DEF Current
        <5>3. QED BY <5>1, <5>2, <4>3, <2>len
      <4>4. QED BY <3>0, <4>2, <4>3
    <3>3. QED BY <3>1, <3>2
  <2>3. CASE EndInitialize
    <3>1. \A i \in DOMAIN recipe : recipe[i] \in initializedMods \cup refused
      BY <2>3, <2>len DEF EndInitialize, LoopDone
    <3>2. QED BY <2>3, <3>1 DEF EndInitialize, LoopDone
  <2>4. CASE BeginFinalize
    BY <2>4, <2>len DEF BeginFinalize
  <2>5. CASE RejectFinalize BY <2>5 DEF RejectFinalize
  <2>6. CASE FinalizeModifier
    <3>0. /\ call.op = "finalize"
          /\ UNCHANGED <<recipe, initialized, finalized, initializedMods, refused>>
          /\ finalizedMods \subseteq finalizedMods'
      BY <2>6 DEF FinalizeModifier, Visiting
    <3>1. CASE call'.op = "none"
      BY <3>0, <3>1
    <3>2. CASE call'.op # "none"
      <4>1. /\ call' = [call EXCEPT !.next = @ + 1]
            /\ Current \in finalizedMods'
        BY <2>6, <3>2 DEF FinalizeModifier
      <4>2. call'.op = "finalize" /\ call'.next = call.next + 1
        BY <4>1, <3>0 DEF TypeOK, Calls
      <4>3. ASSUME NEW i \in DOMAIN recipe, i < call.next + 1
            PROVE recipe[i] \in finalizedMods'
        <5>1. CASE i < call.next BY <5>1, <3>0
        <5>2. CASE i = call.next BY <5>2, <4>1 DEF Current
        <5>3. QED BY <5>1, <5>2, <4>3, <2>len
      <4>4. QED BY <3>0, <4>2, <4>3
    <3>3. QED BY <3>1, <3>2
  <2>7. CASE EndFinalize
    <3>1. initialized /\ \A i \in DOMAIN recipe : recipe[i] \in finalizedMods
      BY <2>7, <2>len DEF EndFinalize, LoopDone
    <3>2. QED BY <2>7, <3>1 DEF EndFinalize, LoopDone
  <2>8. CASE BeginReset BY <2>8 DEF BeginReset
  <2>9. CASE ResetModifier
    <3>1. call'.op = "reset"
      BY <2>9 DEF ResetModifier, Visiting, TypeOK, Calls
    <3>2. QED BY <2>9, <3>1 DEF ResetModifier
  <2>10. CASE EndReset BY <2>10 DEF EndReset
  <2>11. CASE ResetStage BY <2>11 DEF ResetStage
  <2>12. ASSUME NEW e \in EventTypes, NEW step \in 0 .. MaxStep,
                BeginEvent(e, step)
         PROVE LoopInv'
    BY <2>12 DEF BeginEvent
  <2>13. CASE RejectEventState BY <2>13 DEF RejectEventState
  <2>14. ASSUME NEW e \in EventTypes, RejectEventOrder(e) PROVE LoopInv'
    BY <2>14 DEF RejectEventOrder
  <2>15. CASE RejectLossMissing BY <2>15 DEF RejectLossMissing
  <2>16. CASE UpdateModifier
    <3>1. call'.op \in {"none", "event"}
          /\ UNCHANGED <<recipe, initialized, finalized, initializedMods,
                         finalizedMods, refused>>
      BY <2>16 DEF UpdateModifier, Visiting, TypeOK, Calls
    <3>2. QED BY <3>1
  <2>17. CASE EndEvent BY <2>17 DEF EndEvent
  <2>18. CASE UNCHANGED vars BY <2>18 DEF vars
  <2>19. QED
    BY <2>1, <2>2, <2>3, <2>4, <2>5, <2>6, <2>7, <2>8, <2>9, <2>10, <2>11,
       <2>12, <2>13, <2>14, <2>15, <2>16, <2>17, <2>18 DEF Next
<1>3. QED BY <1>1, <1>2, TypeCorrect, PTL DEF Spec

(* FinalizedMeansAll: a finalized lifecycle has finalized its whole recipe. *)
LEMMA FinalizedAll == Spec => []FinalizedMeansAll
<1>1. TypeOK /\ LoopInv => FinalizedMeansAll
  BY DEF LoopInv, AllFinalized, FinalizedMeansAll, Range
<1>2. QED BY <1>1, TypeCorrect, LoopProgress, PTL

(* ReadyMeansInitialized: an initialized lifecycle has initialized its whole
   recipe, up to the modifiers that refused. *)
LEMMA InitializedAll == Spec => []ReadyMeansInitialized
<1>1. TypeOK /\ LoopInv => ReadyMeansInitialized
  BY DEF LoopInv, Ready, ReadyMeansInitialized, Range
<1>2. QED BY <1>1, TypeCorrect, LoopProgress, PTL

(* FlagsMeanAll: a set flag of the lifecycle speaks for its whole recipe. *)
THEOREM FlagsCorrect == Spec => []FlagsMeanAll
BY FinalizedAll, InitializedAll, PTL DEF FlagsMeanAll

(* OrderTracksDelivery: what the order check remembers is what was delivered,
   but for one rejected LOSS_CALCULATED. *)
LEMMA OrderCorrect == Spec => []OrderTracksDelivery
<1>1. Init => OrderTracksDelivery
  BY DEF Init, OrderTracksDelivery
<1>2. TypeOK /\ OrderTracksDelivery /\ [Next]_vars => OrderTracksDelivery'
  <2> SUFFICES ASSUME TypeOK, OrderTracksDelivery, [Next]_vars
               PROVE OrderTracksDelivery'
    OBVIOUS
  <2> USE DEF OrderTracksDelivery, lifecycleVars
  <2>1. CASE UNCHANGED <<lastEvent, delivered>>
    BY <2>1
  <2>2. CASE EndReset BY <2>2 DEF EndReset
  <2>3. ASSUME NEW e \in EventTypes, NEW step \in 0 .. MaxStep,
               BeginEvent(e, step)
        PROVE OrderTracksDelivery'
    BY <2>3 DEF BeginEvent, RecordEvent
  <2>4. CASE RejectLossMissing
    <3>1. EventOrder[lastEvent] <= 2
      BY <2>4, OrderedEventsFacts DEF RejectLossMissing, ValidEventOrder
    <3>2. lastEvent \in {"batch_start", "loss_calculated"}
      BY <3>1, OrderedEventsFacts DEF TypeOK
    <3>3. QED BY <2>4, <3>2 DEF RejectLossMissing
  <2>5. QED
    BY <2>1, <2>2, <2>3, <2>4
    DEF Next, BeginInitialize, InitializeModifier, EndInitialize,
        BeginFinalize, RejectFinalize, FinalizeModifier, EndFinalize,
        BeginReset, ResetModifier, ResetStage, RejectEventState,
        RejectEventOrder, Reject, UpdateModifier, EndEvent, vars
<1>3. QED BY <1>1, <1>2, TypeCorrect, PTL DEF Spec

(* StepsInsideBatch: no step of a batch reaches the modifiers outside one. *)
THEOREM StepsCorrect == Spec => StepsInsideBatch
<1>1. TypeOK /\ OrderTracksDelivery /\ [Next]_vars =>
        [call.op = "none" /\ call'.op = "event"
           /\ call'.type \in {"loss_calculated", "optim_pre_step", "optim_post_step"}
         => delivered # "batch_end"]_vars
  <2> SUFFICES ASSUME TypeOK, OrderTracksDelivery, Next, call.op = "none",
                      call'.op = "event",
                      call'.type \in {"loss_calculated", "optim_pre_step",
                                      "optim_post_step"}
               PROVE delivered # "batch_end"
    OBVIOUS
  <2>1. PICK e \in EventTypes, step \in 0 .. MaxStep : BeginEvent(e, step)
    BY DEF Next, BeginInitialize, InitializeModifier, EndInitialize,
           BeginFinalize, RejectFinalize, FinalizeModifier, EndFinalize,
           BeginReset, ResetModifier, EndReset, ResetStage, RejectEventState,
           RejectEventOrder, RejectLossMissing, Reject, UpdateModifier,
           EndEvent, Visiting, LoopDone, Enter, Raise, Return, Idle
  <2>2. call'.type = e
    BY <2>1 DEF BeginEvent, Enter
  <2>3. EventOrder[lastEvent] <= EventOrder[e]
    BY <2>1, <2>2, OrderedEventsFacts DEF BeginEvent, ValidEventOrder
  <2>4. lastEvent # "batch_end"
    BY <2>2, <2>3, OrderedEventsFacts
  <2>5. QED BY <2>4 DEF OrderTracksDelivery
<1>2. QED BY <1>1, TypeCorrect, OrderCorrect, PTL DEF Spec, StepsInsideBatch

(* FinalizedIsFinal: finalization is never undone and silences a modifier. *)
THEOREM FinalizedStays == Spec => FinalizedIsFinal
<1>1. [Next]_vars =>
        [\A m \in finalizedMods :
           /\ m \in finalizedMods'
           /\ (m \in startedMods') = (m \in startedMods)
           /\ (m \in endedMods') = (m \in endedMods)]_vars
  <2> SUFFICES ASSUME Next, NEW m \in finalizedMods
               PROVE /\ m \in finalizedMods'
                     /\ (m \in startedMods') = (m \in startedMods)
                     /\ (m \in endedMods') = (m \in endedMods)
    OBVIOUS
  <2>1. CASE UNCHANGED <<startedMods, endedMods>> /\ finalizedMods \subseteq finalizedMods'
    BY <2>1
  <2>2. CASE InitializeModifier
    BY <2>2 DEF InitializeModifier
  <2>3. CASE UpdateModifier
    BY <2>3 DEF UpdateModifier, Accepts, UpdateFlags
  <2>4. QED
    BY <2>1, <2>2, <2>3
    DEF Next, BeginInitialize, EndInitialize, BeginFinalize, RejectFinalize,
        FinalizeModifier, EndFinalize, BeginReset, ResetModifier, EndReset,
        ResetStage, BeginEvent, RejectEventState, RejectEventOrder,
        RejectLossMissing, Reject, EndEvent, modVars
<1>2. QED BY <1>1, PTL DEF Spec, FinalizedIsFinal

-----------------------------------------------------------------------------
(* oneshot *)


(* The modifiers that the call in progress has visited. *)
Passed == {recipe[i] : i \in {j \in 1 .. Len(recipe) : j < call.next}}

Applied(m) == calib[m] = "done" /\ epochs[m] > 0 /\ m \notin hooked

OneshotTypes ==
  /\ recipe \in Seq(Modifiers) /\ requested \in Seq(Modifiers)
  /\ todo \in Seq(Modifiers)
  /\ call \in Calls
  /\ call.op # "none" => call.next \in 1 .. Len(recipe) + 1
  /\ calib \in [Modifiers -> {"none", "running", "done"}]
  /\ epochs \in [Modifiers -> Nat]
  /\ patched \in BOOLEAN /\ finalized \in BOOLEAN

(* Which call of the lifecycle is in progress. *)
PlaceOK ==
  /\ \/ /\ pc \in {"idle", "pipeline", "next", "start", "calibrate", "calibrated",
                   "post", "unwind"}
        /\ call.op = "none"
     \/ pc \in {"reset", "clear"} /\ call.op = "reset"
     \/ pc = "initialize" /\ call.op \in {"none", "initialize"}
     \/ pc = "finalize" /\ call.op \in {"none", "finalize"}
     \/ pc = "starting" /\ call.op = "event" /\ call.type = "calibration_start"
     \/ pc = "epoch" /\ call.op = "event" /\ call.type = "sequential_epoch_end"
     \/ pc = "ending" /\ call.op = "event" /\ call.type = "calibration_end"
  /\ call.op # "none" => error = "none"
  /\ finalized => pc \in {"idle", "reset", "post", "clear"}

InPipeline ==
  {"start", "starting", "calibrate", "epoch", "calibrated", "ending"}

(* The recipe is the requested one, or a part of it while it is patched. *)
RecipeOK ==
  /\ patched => /\ pc \in InPipeline \cup {"next", "unwind"}
                /\ Range(recipe) \subseteq Range(requested)
                /\ Range(todo) \subseteq Range(requested)
  /\ pc = "next" => patched
  /\ ~ patched /\ (pc \in InPipeline \cup {"pipeline", "finalize", "post"}
                   \/ call.op = "initialize")
       => recipe = requested

(* What the loops have done, and what is left of the independent pipeline. *)
Progress ==
  /\ call.op = "reset" =>
       (Passed \cap initializedMods) \ finalizedMods \subseteq unfinalizable
  /\ pc = "initialize" /\ call.op = "none" =>
       initializedMods \ finalizedMods \subseteq unfinalizable
  /\ call.op = "finalize" => Passed \subseteq finalizedMods
  /\ pc \in {"calibrated", "ending"} => \A m \in Range(recipe) : epochs[m] > 0
  /\ pc = "ending" => \A m \in Passed : calib[m] = "done" /\ m \notin hooked
  /\ pc = "finalize" => \A m \in Range(requested) : Applied(m)
  /\ patched => \A m \in Range(requested) :
       m \in Range(todo) \/ (m \in Range(recipe) /\ pc # "next") \/ Applied(m)

OneshotInv ==
  /\ OneshotTypes /\ PlaceOK /\ RecipeOK /\ Progress
  /\ NoModifierIsOrphaned /\ FinalizedIsApplied

-----------------------------------------------------------------------------
(* Recipes and the loops over them *)

LEMMA RangeFacts ==
  /\ Range(<<>>) = {}
  /\ \A x : Range(<<x>>) = {x}
  /\ \A S : \A s \in Seq(S) :
       /\ Range(s) \subseteq S
       /\ s # <<>> => /\ Head(s) \in S /\ Tail(s) \in Seq(S)
                      /\ Range(s) = {Head(s)} \cup Range(Tail(s))
<1>1. Range(<<>>) = {}
  BY DEF Range
<1>2. ASSUME NEW x PROVE Range(<<x>>) = {x}
  BY DEF Range
<1>3. ASSUME NEW S, NEW s \in Seq(S)
      PROVE  Range(s) \subseteq S
  BY DEF Range
<1>4. ASSUME NEW S, NEW s \in Seq(S), s # <<>>
      PROVE  /\ Head(s) \in S /\ Tail(s) \in Seq(S)
             /\ Range(s) = {Head(s)} \cup Range(Tail(s))
  <2>1. Head(s) \in S /\ Tail(s) \in Seq(S) /\ Len(s) \in Nat \ {0} /\ Head(s) = s[1]
    BY <1>4
  <2>2. /\ DOMAIN Tail(s) = 1 .. Len(s) - 1
        /\ \A i \in 1 .. Len(s) - 1 : Tail(s)[i] = s[i + 1]
    BY <1>4, <2>1
  <2>3. ASSUME NEW i \in 1 .. Len(s)
        PROVE  s[i] \in {Head(s)} \cup Range(Tail(s))
    <3>1. CASE i = 1
      BY <2>1, <3>1
    <3>2. CASE i # 1
      <4>1. i - 1 \in 1 .. Len(s) - 1 /\ Tail(s)[i - 1] = s[i]
        BY <2>1, <2>2, <3>2
      <4>. QED
        BY <2>2, <4>1 DEF Range
    <3>. QED
      BY <3>1, <3>2
  <2>4. ASSUME NEW i \in 1 .. Len(s) - 1
        PROVE  Tail(s)[i] \in Range(s)
    <3>1. i + 1 \in 1 .. Len(s)
      BY <2>1
    <3>. QED
      BY <1>4, <2>2, <3>1 DEF Range
  <2>5. Head(s) \in Range(s)
    BY <1>4, <2>1 DEF Range
  <2>6. DOMAIN s = 1 .. Len(s)
    BY <1>4
  <2>. QED
    BY <2>1, <2>2, <2>3, <2>4, <2>5, <2>6 DEF Range
<1>. QED
  BY <1>1, <1>2, <1>3, <1>4

LEMMA CallFacts ==
  ASSUME OneshotTypes
  PROVE  /\ DOMAIN recipe = 1 .. Len(recipe) /\ Len(recipe) \in Nat
         /\ \A i \in 1 .. Len(recipe) : recipe[i] \in Modifiers
         /\ call.next \in Nat
         /\ call.op # "none" => call.next \in 1 .. Len(recipe) + 1
<1>1. call \in Calls /\ recipe \in Seq(Modifiers)
      /\ (call.op # "none" => call.next \in 1 .. Len(recipe) + 1)
  BY DEF OneshotTypes
<1>2. call.next \in Nat
  BY <1>1 DEF Calls
<1>. QED
  BY <1>1, <1>2

LEMMA CurrentFacts ==
  ASSUME OneshotTypes, call.op # "none", call.next <= Len(recipe)
  PROVE  Current \in Range(recipe) /\ Current \in Modifiers
<1>1. call.next \in 1 .. Len(recipe)
  BY CallFacts
<1>. QED
  BY <1>1, CallFacts DEF Current, Range

LEMMA PassedEntering ==
  ASSUME OneshotTypes, NEW op, NEW type, Enter(op, type)
  PROVE  Passed' = {} /\ call' = [op |-> op, type |-> type, next |-> 1] /\ error' = "none"
BY DEF Enter, Passed

LEMMA PassedAdvancing ==
  ASSUME OneshotTypes, call.op # "none", call.next <= Len(recipe), Advance,
         recipe' = recipe
  PROVE  /\ Passed' = Passed \cup {Current}
         /\ call' \in Calls /\ call'.op = call.op /\ call'.type = call.type
         /\ call'.next \in 1 .. Len(recipe) + 1 /\ error' = error
<1>1. call.next \in 1 .. Len(recipe) /\ Len(recipe) \in Nat
  BY CallFacts
<1>2. /\ call' \in Calls /\ call'.op = call.op /\ call'.type = call.type
      /\ call'.next = call.next + 1 /\ error' = error
  <2>1. call \in Calls
    BY DEF OneshotTypes
  <2>. QED
    BY <1>1, <2>1 DEF Calls, Advance
<1>3. {j \in 1 .. Len(recipe) : j < call.next + 1}
        = {j \in 1 .. Len(recipe) : j < call.next} \cup {call.next}
  BY <1>1
<1>4. Passed' = {recipe[i] : i \in {j \in 1 .. Len(recipe) : j < call.next + 1}}
  BY <1>2 DEF Passed
<1>5. Passed' = Passed \cup {Current}
  BY <1>3, <1>4, Zenon DEF Passed, Current
<1>. QED
  BY <1>1, <1>2, <1>5

LEMMA PassedDone ==
  ASSUME OneshotTypes, call.op # "none", call.next > Len(recipe)
  PROVE  Passed = Range(recipe)
<1>1. {j \in 1 .. Len(recipe) : j < call.next} = DOMAIN recipe
  BY CallFacts
<1>. QED
  BY <1>1, Zenon DEF Passed, Range

LEMMA EmptyRecipe == <<>> \in Seq(Modifiers) /\ Len(<<>>) = 0
OBVIOUS

LEMMA IdleFacts == Idle \in Calls /\ Idle.op = "none"
BY DEF Idle, Calls

-----------------------------------------------------------------------------
(* The steps of oneshot *)

LEMMA OneshotInitial ==
  ASSUME OneshotInit
  PROVE  OneshotInv
<1>. USE DEF OneshotInit, Init
<1>1. OneshotTypes
  BY IdleFacts, EmptyRecipe DEF OneshotTypes
<1>2. PlaceOK /\ RecipeOK /\ Progress
  BY IdleFacts DEF PlaceOK, RecipeOK, Progress, InPipeline
<1>3. NoModifierIsOrphaned /\ FinalizedIsApplied
  BY DEF NoModifierIsOrphaned, FinalizedIsApplied
<1>. QED
  BY <1>1, <1>2, <1>3 DEF OneshotInv

LEMMA StartKeeps ==
  ASSUME OneshotInv, LifecycleAssumption, NEW r \in Recipes, NEW pipeline,
         NEW propagateError, StartOneshot(r, pipeline, propagateError)
  PROVE  OneshotInv'
<1>. USE DEF OneshotInv
<1>a. /\ pc = "idle" /\ pc' = "reset" /\ Enter("reset", "none") /\ requested' = r
      /\ UNCHANGED <<modVars, lifecycleVars, patched, todo, hooked, histVars>>
  BY DEF StartOneshot, BeginReset
<1>b. /\ Passed' = {} /\ call' = [op |-> "reset", type |-> "none", next |-> 1]
      /\ error' = "none"
  BY <1>a, PassedEntering
<1>c. ~ patched /\ r \in Seq(Modifiers)
  BY <1>a DEF RecipeOK, InPipeline, LifecycleAssumption
<1>d. call' \in Calls /\ call'.next \in 1 .. Len(recipe) + 1 /\ call'.op = "reset"
  BY <1>b DEF Calls, OneshotTypes
<1>. USE DEF modVars, lifecycleVars, histVars
<1>1. OneshotTypes'
  BY <1>a, <1>c, <1>d DEF OneshotTypes
<1>2. PlaceOK' /\ RecipeOK' /\ Progress'
  BY <1>a, <1>b, <1>c, <1>d DEF PlaceOK, RecipeOK, Progress, InPipeline
<1>3. NoModifierIsOrphaned' /\ FinalizedIsApplied'
  BY <1>a, <1>c DEF NoModifierIsOrphaned, FinalizedIsApplied
<1>. QED
  BY <1>1, <1>2, <1>3

LEMMA ResetKeeps ==
  ASSUME OneshotInv, ResetSession
  PROVE  OneshotInv'
<1>. USE DEF OneshotInv
<1>a. /\ pc \in {"reset", "clear"} /\ call.op = "reset" /\ error = "none" /\ ~ patched
      /\ UNCHANGED <<argVars, runVars, hooked, calib, epochs>>
  BY DEF ResetSession, PlaceOK, RecipeOK, InPipeline
<1>. USE DEF argVars, runVars, modVars, lifecycleVars
<1>1. CASE ResetModifier
  <2>1. /\ call.next <= Len(recipe) /\ Advance
        /\ UNCHANGED <<initializedMods, lifecycleVars>>
        /\ finalizedMods \subseteq finalizedMods'
    BY <1>1 DEF ResetModifier, Visiting
  <2>2. /\ Passed' = Passed \cup {Current}
        /\ call' \in Calls /\ call'.op = "reset"
        /\ call'.next \in 1 .. Len(recipe) + 1 /\ error' = "none"
    BY <1>a, <2>1, PassedAdvancing
  <2>3. /\ pc' = pc
        /\ unfinalizable \subseteq unfinalizable'
        /\ Current \in initializedMods \ finalizedMods' => Current \in unfinalizable'
    BY <1>a, <2>1, <2>2 DEF ResetSession, ProceedTo, Raised, Visiting
  <2>4. OneshotTypes'
    BY <1>a, <2>1, <2>2 DEF OneshotTypes
  <2>5. PlaceOK' /\ RecipeOK'
    BY <1>a, <2>1, <2>2, <2>3 DEF PlaceOK, RecipeOK
  <2>6. Progress'
    BY <1>a, <2>1, <2>2, <2>3 DEF Progress
  <2>7. NoModifierIsOrphaned' /\ FinalizedIsApplied'
    BY <1>a, <2>1, <2>3 DEF NoModifierIsOrphaned, FinalizedIsApplied
  <2>. QED
    BY <2>4, <2>5, <2>6, <2>7
<1>2. CASE EndReset
  <2>1. /\ call.next > Len(recipe) /\ recipe' = <<>> /\ finalized' = FALSE
        /\ call' = Idle /\ UNCHANGED <<initializedMods, finalizedMods, error>>
    BY <1>2 DEF EndReset, LoopDone, Return
  <2>2. Passed = Range(recipe)
    BY <1>a, <2>1, PassedDone
  <2>3. unfinalizable' = unfinalizable
    BY <2>1, CallFacts DEF ResetSession, Visiting
  <2>4. pc' \in {"initialize", "idle"}
    BY <1>a, <2>1, IdleFacts DEF ResetSession, ProceedTo, Raised
  <2>5. initializedMods \ finalizedMods \subseteq unfinalizable
    BY <1>a, <2>2 DEF Progress, NoModifierIsOrphaned
  <2>6. OneshotTypes'
    BY <1>a, <2>1, IdleFacts, EmptyRecipe DEF OneshotTypes
  <2>7. PlaceOK' /\ RecipeOK' /\ Progress'
    BY <1>a, <2>1, <2>3, <2>4, <2>5, IdleFacts DEF PlaceOK, RecipeOK, Progress, InPipeline
  <2>8. NoModifierIsOrphaned' /\ FinalizedIsApplied'
    BY <2>1, <2>3, <2>5 DEF NoModifierIsOrphaned, FinalizedIsApplied
  <2>. QED
    BY <2>6, <2>7, <2>8
<1>. QED
  BY <1>1, <1>2 DEF ResetSession

LEMMA InitializeKeeps ==
  ASSUME OneshotInv, InitializeSession
  PROVE  OneshotInv'
<1>. USE DEF OneshotInv
<1>a. /\ pc = "initialize" /\ ~ patched /\ ~ finalized /\ ProceedTo("pipeline")
      /\ UNCHANGED <<argVars, runVars, histVars>>
  BY DEF InitializeSession, PlaceOK, RecipeOK, InPipeline
<1>. USE DEF argVars, runVars, histVars, modVars, lifecycleVars
<1>1. CASE BeginInitialize(requested) /\ UNCHANGED hooked
  <2>1. /\ Enter("initialize", "none") /\ call.op = "none" /\ recipe' = requested
        /\ UNCHANGED <<modVars, finalized>>
    BY <1>1 DEF BeginInitialize, Enter
  <2>2. /\ call' = [op |-> "initialize", type |-> "none", next |-> 1]
        /\ error' = "none"
    BY <2>1, PassedEntering
  <2>3. /\ call' \in Calls /\ call'.op = "initialize"
        /\ call'.next \in 1 .. Len(recipe') + 1 /\ pc' = pc
    BY <1>a, <2>1, <2>2 DEF Calls, OneshotTypes, ProceedTo, Raised
  <2>4. OneshotTypes'
    BY <1>a, <2>1, <2>3 DEF OneshotTypes
  <2>5. PlaceOK' /\ RecipeOK' /\ Progress'
    BY <1>a, <2>1, <2>2, <2>3 DEF PlaceOK, RecipeOK, Progress, InPipeline
  <2>6. NoModifierIsOrphaned' /\ FinalizedIsApplied'
    BY <1>a, <2>1 DEF Progress, NoModifierIsOrphaned, FinalizedIsApplied
  <2>. QED
    BY <2>4, <2>5, <2>6
<1>2. CASE InitializeModifier \/ InitializeOwlModifier
  <2>1. /\ call.op = "initialize" /\ call.next <= Len(recipe)
        /\ UNCHANGED <<finalizedMods, lifecycleVars>>
        /\ initializedMods' \subseteq initializedMods \cup {Current}
        /\ \/ Advance
           \/ call' = Idle /\ error' # "none"
    BY <1>2 DEF InitializeModifier, InitializeOwlModifier, NeedsOwl, Visiting, Raise
  <2>2. Current \in Range(recipe) /\ recipe = requested
    BY <1>a, <2>1, CurrentFacts DEF RecipeOK
  <2>3. NoModifierIsOrphaned' /\ FinalizedIsApplied'
    BY <1>a, <2>1, <2>2 DEF NoModifierIsOrphaned, FinalizedIsApplied
  <2>4. CASE Advance
    <3>1. /\ call' \in Calls /\ call'.op = "initialize" /\ error' = error
          /\ call'.next \in 1 .. Len(recipe) + 1
      BY <2>1, <2>4, PassedAdvancing
    <3>2. pc' = pc
      BY <1>a, <3>1 DEF ProceedTo, Raised
    <3>3. OneshotTypes'
      BY <1>a, <2>1, <3>1 DEF OneshotTypes
    <3>4. PlaceOK' /\ RecipeOK' /\ Progress'
      BY <1>a, <2>1, <3>1, <3>2 DEF PlaceOK, RecipeOK, Progress, InPipeline
    <3>. QED
      BY <2>3, <3>3, <3>4
  <2>5. CASE call' = Idle /\ error' # "none"
    <3>1. pc' = "unwind"
      BY <1>a, <2>5, IdleFacts DEF ProceedTo, Raised
    <3>2. OneshotTypes'
      BY <1>a, <2>1, <2>5, IdleFacts DEF OneshotTypes
    <3>3. PlaceOK' /\ RecipeOK' /\ Progress'
      BY <1>a, <2>1, <2>5, <3>1, IdleFacts DEF PlaceOK, RecipeOK, Progress, InPipeline
    <3>. QED
      BY <2>3, <3>2, <3>3
  <2>. QED
    BY <2>1, <2>4, <2>5
<1>3. CASE EndInitialize /\ UNCHANGED hooked
  <2>1. /\ call.op = "initialize" /\ call' = Idle
        /\ UNCHANGED <<modVars, recipe, finalized, error>>
    BY <1>3 DEF EndInitialize, LoopDone, Return
  <2>2. pc' = "pipeline" /\ recipe = requested /\ error' = "none"
    BY <1>a, <2>1, IdleFacts DEF ProceedTo, Raised, PlaceOK, RecipeOK
  <2>3. OneshotTypes'
    BY <1>a, <2>1, IdleFacts DEF OneshotTypes
  <2>4. PlaceOK' /\ RecipeOK' /\ Progress'
    BY <1>a, <2>1, <2>2, IdleFacts DEF PlaceOK, RecipeOK, Progress, InPipeline
  <2>5. NoModifierIsOrphaned' /\ FinalizedIsApplied'
    BY <1>a, <2>1 DEF NoModifierIsOrphaned, FinalizedIsApplied
  <2>. QED
    BY <2>3, <2>4, <2>5
<1>. QED
  BY <1>1, <1>2, <1>3 DEF InitializeSession

LEMMA ChooseKeeps ==
  ASSUME OneshotInv, ChoosePipeline
  PROVE  OneshotInv'
<1>. USE DEF OneshotInv
<1>a. /\ pc = "pipeline" /\ call.op = "none" /\ ~ patched /\ recipe = requested
      /\ ~ finalized
      /\ UNCHANGED <<modVars, lifecycleVars, call, error, argVars, hooked, histVars>>
      /\ \/ patched' = TRUE /\ todo' = requested /\ pc' = "next"
         \/ patched' = FALSE /\ todo' = todo /\ pc' = "start"
  BY DEF ChoosePipeline, PlaceOK, RecipeOK, InPipeline, vars
<1>. USE DEF argVars, histVars, modVars, lifecycleVars
<1>1. OneshotTypes'
  BY <1>a DEF OneshotTypes
<1>2. PlaceOK' /\ RecipeOK'
  BY <1>a DEF PlaceOK, RecipeOK, InPipeline
<1>3. Progress'
  BY <1>a DEF Progress
<1>4. NoModifierIsOrphaned' /\ FinalizedIsApplied'
  BY <1>a DEF NoModifierIsOrphaned, FinalizedIsApplied
<1>. QED
  BY <1>1, <1>2, <1>3, <1>4

LEMMA NextModifierKeeps ==
  ASSUME OneshotInv, NextModifier
  PROVE  OneshotInv'
<1>. USE DEF OneshotInv
<1>a. /\ pc = "next" /\ call.op = "none" /\ patched /\ ~ finalized
      /\ UNCHANGED <<modVars, finalized, call, error, argVars, hooked, histVars>>
  BY DEF NextModifier, PlaceOK, RecipeOK
<1>. USE DEF argVars, histVars, modVars
<1>1. CASE todo # <<>>
  <2>1. /\ recipe' = <<Head(todo)>> /\ todo' = Tail(todo) /\ pc' = "start"
        /\ patched' = patched
    BY <1>1 DEF NextModifier
  <2>2. /\ Head(todo) \in Modifiers /\ todo' \in Seq(Modifiers)
        /\ Range(todo) = {Head(todo)} \cup Range(todo')
        /\ Range(recipe') = {Head(todo)}
    BY <1>1, <2>1, RangeFacts DEF OneshotTypes
  <2>3. recipe' \in Seq(Modifiers)
    BY <2>1, <2>2
  <2>4. OneshotTypes'
    BY <1>a, <2>1, <2>2, <2>3 DEF OneshotTypes
  <2>5. PlaceOK' /\ RecipeOK'
    BY <1>a, <2>1, <2>2 DEF PlaceOK, RecipeOK, InPipeline
  <2>6. Progress'
    BY <1>a, <2>1, <2>2 DEF Progress, Applied
  <2>7. NoModifierIsOrphaned' /\ FinalizedIsApplied'
    BY <1>a, <2>1 DEF RecipeOK, NoModifierIsOrphaned, FinalizedIsApplied
  <2>. QED
    BY <2>4, <2>5, <2>6, <2>7
<1>2. CASE todo = <<>>
  <2>1. recipe' = requested /\ patched' = FALSE /\ pc' = "finalize" /\ todo' = todo
    BY <1>2 DEF NextModifier
  <2>2. Range(todo) = {}
    BY <1>2, RangeFacts
  <2>3. OneshotTypes'
    BY <1>a, <2>1 DEF OneshotTypes
  <2>4. PlaceOK' /\ RecipeOK'
    BY <1>a, <2>1 DEF PlaceOK, RecipeOK, InPipeline
  <2>5. Progress'
    BY <1>a, <2>1, <2>2 DEF Progress, Applied
  <2>6. NoModifierIsOrphaned' /\ FinalizedIsApplied'
    BY <1>a, <2>1 DEF RecipeOK, NoModifierIsOrphaned, FinalizedIsApplied
  <2>. QED
    BY <2>3, <2>4, <2>5, <2>6
<1>. QED
  BY <1>1, <1>2

(* The three events a pipeline sends. *)
LEMMA SendKeeps ==
  ASSUME OneshotInv, SendCalibrationStart \/ SendSequentialEpochEnd \/ SendCalibrationEnd
  PROVE  OneshotInv'
<1>. USE DEF OneshotInv
<1>a. /\ ~ finalized /\ call.op = "none"
      /\ UNCHANGED <<modVars, recipe, finalized, argVars, mode, patched, todo, hooked,
                     histVars>>
      /\ \/ pc = "start" /\ pc' = "starting" /\ Enter("event", "calibration_start")
         \/ pc = "calibrate" /\ pc' = "epoch" /\ Enter("event", "sequential_epoch_end")
         \/ pc = "calibrated" /\ pc' = "ending" /\ Enter("event", "calibration_end")
  BY DEF SendCalibrationStart, SendSequentialEpochEnd, SendCalibrationEnd, BeginEvent, Enter,
    runVars
<1>b. PICK type \in CalibrationEvents :
        /\ Enter("event", type)
        /\ \/ pc = "start" /\ pc' = "starting" /\ type = "calibration_start"
           \/ pc = "calibrate" /\ pc' = "epoch" /\ type = "sequential_epoch_end"
           \/ pc = "calibrated" /\ pc' = "ending" /\ type = "calibration_end"
  BY <1>a DEF CalibrationEvents
<1>c. /\ Passed' = {} /\ call' = [op |-> "event", type |-> type, next |-> 1]
      /\ error' = "none"
  BY <1>b, PassedEntering
<1>d. /\ call' \in Calls /\ call'.op = "event" /\ call'.type = type
      /\ call'.next \in 1 .. Len(recipe) + 1
  BY <1>c DEF Calls, EventTypes, OneshotTypes
<1>. USE DEF argVars, histVars, modVars
<1>1. OneshotTypes'
  BY <1>a, <1>d DEF OneshotTypes
<1>2. PlaceOK' /\ RecipeOK'
  BY <1>a, <1>b, <1>c, <1>d DEF PlaceOK, RecipeOK, InPipeline
<1>3. Progress'
  BY <1>a, <1>b, <1>c, <1>d DEF Progress, Applied
<1>4. NoModifierIsOrphaned' /\ FinalizedIsApplied'
  BY <1>a DEF NoModifierIsOrphaned, FinalizedIsApplied
<1>. QED
  BY <1>1, <1>2, <1>3, <1>4

LEMMA RaisingKeeps ==
  ASSUME OneshotInv, PipelineRaises
  PROVE  OneshotInv'
<1>. USE DEF OneshotInv
<1>a. /\ pc \in {"start", "calibrate", "calibrated"} /\ pc' = "unwind"
      /\ ~ finalized /\ call.op = "none"
      /\ UNCHANGED <<modVars, lifecycleVars, call, error, argVars, runVars, hooked, histVars>>
  BY DEF PipelineRaises, PlaceOK, vars
<1>. USE DEF argVars, runVars, histVars, modVars, lifecycleVars
<1>1. OneshotTypes'
  BY <1>a DEF OneshotTypes
<1>2. PlaceOK' /\ RecipeOK'
  BY <1>a DEF PlaceOK, RecipeOK, InPipeline
<1>3. Progress'
  BY <1>a DEF Progress, Applied
<1>4. NoModifierIsOrphaned' /\ FinalizedIsApplied'
  BY <1>a DEF NoModifierIsOrphaned, FinalizedIsApplied
<1>. QED
  BY <1>1, <1>2, <1>3, <1>4

LEMMA UnwindKeeps ==
  ASSUME OneshotInv, Unwind
  PROVE  OneshotInv'
<1>. USE DEF OneshotInv
<1>a. /\ pc = "unwind" /\ pc' = "idle" /\ ~ finalized /\ call.op = "none"
      /\ recipe' = (IF patched THEN requested ELSE recipe)
      /\ patched' = FALSE /\ todo' = <<>>
      /\ UNCHANGED <<modVars, finalized, call, error, argVars, hooked, histVars>>
  BY DEF Unwind, PlaceOK
<1>. USE DEF argVars, histVars, modVars
<1>1. OneshotTypes'
  BY <1>a, EmptyRecipe DEF OneshotTypes
<1>2. PlaceOK' /\ RecipeOK'
  BY <1>a DEF PlaceOK, RecipeOK, InPipeline
<1>3. Progress'
  BY <1>a DEF Progress
<1>4. NoModifierIsOrphaned' /\ FinalizedIsApplied'
  BY <1>a DEF RecipeOK, NoModifierIsOrphaned, FinalizedIsApplied
<1>. QED
  BY <1>1, <1>2, <1>3, <1>4

LEMMA PostProcessKeeps ==
  ASSUME OneshotInv, PostProcess
  PROVE  OneshotInv'
<1>. USE DEF OneshotInv
<1>a. /\ pc = "post" /\ call.op = "none" /\ ~ patched
      /\ UNCHANGED <<modVars, lifecycleVars, argVars, runVars, hooked, histVars>>
  BY DEF PostProcess, PlaceOK, RecipeOK, InPipeline, BeginReset, vars
<1>. USE DEF argVars, runVars, histVars, modVars, lifecycleVars
<1>1. NoModifierIsOrphaned' /\ FinalizedIsApplied'
  BY <1>a DEF NoModifierIsOrphaned, FinalizedIsApplied, PostProcess
<1>2. CASE BeginReset /\ pc' = "clear"
  <2>1. /\ Passed' = {} /\ call' = [op |-> "reset", type |-> "none", next |-> 1]
        /\ error' = "none"
    BY <1>2, PassedEntering DEF BeginReset
  <2>2. call' \in Calls /\ call'.next \in 1 .. Len(recipe) + 1 /\ call'.op = "reset"
    BY <2>1 DEF Calls, OneshotTypes
  <2>3. OneshotTypes'
    BY <1>a, <2>2 DEF OneshotTypes
  <2>4. PlaceOK' /\ RecipeOK' /\ Progress'
    BY <1>a, <1>2, <2>1, <2>2 DEF PlaceOK, RecipeOK, Progress, InPipeline
  <2>. QED
    BY <1>1, <2>3, <2>4
<1>3. CASE pc' = "idle" /\ UNCHANGED vars
  <2>1. OneshotTypes'
    BY <1>a, <1>3 DEF OneshotTypes, vars
  <2>2. PlaceOK' /\ RecipeOK' /\ Progress'
    BY <1>a, <1>3 DEF PlaceOK, RecipeOK, Progress, InPipeline, vars
  <2>. QED
    BY <1>1, <2>1, <2>2
<1>. QED
  BY <1>2, <1>3 DEF PostProcess

LEMMA FinalizeKeeps ==
  ASSUME OneshotInv, FinalizeSession
  PROVE  OneshotInv'
<1>. USE DEF OneshotInv
<1>a. /\ pc = "finalize" /\ ~ patched /\ ~ finalized /\ recipe = requested
      /\ ProceedTo("post") /\ UNCHANGED <<argVars, runVars, hooked, histVars>>
  BY DEF FinalizeSession, PlaceOK, RecipeOK, InPipeline
<1>. USE DEF argVars, runVars, histVars, modVars, lifecycleVars
<1>1. CASE BeginFinalize
  <2>1. Enter("finalize", "none") /\ UNCHANGED <<modVars, lifecycleVars>>
    BY <1>1 DEF BeginFinalize
  <2>2. /\ Passed' = {} /\ call' = [op |-> "finalize", type |-> "none", next |-> 1]
        /\ error' = "none"
    BY <2>1, PassedEntering
  <2>3. call' \in Calls /\ call'.next \in 1 .. Len(recipe) + 1 /\ call'.op = "finalize"
    BY <2>2 DEF Calls, OneshotTypes
  <2>4. pc' = pc
    BY <1>a, <2>3 DEF ProceedTo, Raised
  <2>5. OneshotTypes'
    BY <1>a, <2>1, <2>3 DEF OneshotTypes
  <2>6. PlaceOK' /\ RecipeOK' /\ Progress'
    BY <1>a, <2>1, <2>2, <2>3, <2>4 DEF PlaceOK, RecipeOK, Progress, Applied
  <2>7. NoModifierIsOrphaned' /\ FinalizedIsApplied'
    BY <1>a, <2>1 DEF NoModifierIsOrphaned, FinalizedIsApplied
  <2>. QED
    BY <2>5, <2>6, <2>7
<1>2. CASE FinalizeModifier
  <2>1. /\ call.op = "finalize" /\ call.next <= Len(recipe)
        /\ UNCHANGED <<initializedMods, lifecycleVars>>
        /\ \/ finalizedMods' = finalizedMods \cup {Current} /\ Advance
           \/ finalizedMods' = finalizedMods /\ call' = Idle /\ error' # "none"
    BY <1>2 DEF FinalizeModifier, Visiting, Raise
  <2>2. NoModifierIsOrphaned' /\ FinalizedIsApplied'
    BY <1>a, <2>1 DEF NoModifierIsOrphaned, FinalizedIsApplied
  <2>3. CASE finalizedMods' = finalizedMods \cup {Current} /\ Advance
    <3>1. /\ Passed' = Passed \cup {Current}
          /\ call' \in Calls /\ call'.op = "finalize"
          /\ call'.next \in 1 .. Len(recipe) + 1 /\ error' = error
      BY <2>1, <2>3, PassedAdvancing
    <3>2. pc' = pc
      BY <1>a, <3>1 DEF ProceedTo, Raised
    <3>3. OneshotTypes'
      BY <1>a, <2>1, <3>1 DEF OneshotTypes
    <3>4. PlaceOK' /\ RecipeOK' /\ Progress'
      BY <1>a, <2>1, <2>3, <3>1, <3>2 DEF PlaceOK, RecipeOK, Progress, Applied
    <3>. QED
      BY <2>2, <3>3, <3>4
  <2>4. CASE finalizedMods' = finalizedMods /\ call' = Idle /\ error' # "none"
    <3>1. pc' = "unwind"
      BY <1>a, <2>4, IdleFacts DEF ProceedTo, Raised
    <3>2. OneshotTypes'
      BY <1>a, <2>1, <2>4, IdleFacts DEF OneshotTypes
    <3>3. PlaceOK' /\ RecipeOK' /\ Progress'
      BY <1>a, <2>1, <2>4, <3>1, IdleFacts DEF PlaceOK, RecipeOK, Progress, InPipeline
    <3>. QED
      BY <2>2, <3>2, <3>3
  <2>. QED
    BY <2>1, <2>3, <2>4
<1>3. CASE EndFinalize
  <2>1. /\ call.op = "finalize" /\ call.next > Len(recipe) /\ call' = Idle
        /\ finalized' = TRUE /\ UNCHANGED <<modVars, recipe, error>>
    BY <1>3 DEF EndFinalize, LoopDone, Return
  <2>2. Range(requested) \subseteq finalizedMods
    BY <1>a, <2>1, PassedDone DEF Progress
  <2>3. pc' = "post" /\ error' = "none"
    BY <1>a, <2>1, IdleFacts DEF ProceedTo, Raised, PlaceOK
  <2>4. OneshotTypes'
    BY <1>a, <2>1, IdleFacts DEF OneshotTypes
  <2>5. PlaceOK' /\ RecipeOK' /\ Progress'
    BY <1>a, <2>1, <2>3, IdleFacts DEF PlaceOK, RecipeOK, Progress, InPipeline
  <2>6. NoModifierIsOrphaned'
    BY <1>a, <2>1 DEF NoModifierIsOrphaned
  <2>7. FinalizedIsApplied'
    BY <1>a, <2>1, <2>2 DEF Progress, Applied, FinalizedIsApplied
  <2>. QED
    BY <2>4, <2>5, <2>6, <2>7
<1>. QED
  BY <1>1, <1>2, <1>3 DEF FinalizeSession

(* What the visit of a modifier changes of its hooks and its calibration. *)
LEMMA VisitFacts ==
  ASSUME OneshotTypes, Current \in Modifiers, HandleHooks(Current), HandleCalibration(Current),
         call.type \in CalibrationEvents
  PROVE  /\ hooked' \subseteq hooked \cup {Current}
         /\ calib' \in [Modifiers -> {"none", "running", "done"}]
         /\ epochs' \in [Modifiers -> Nat]
         /\ \A m \in Modifiers \ {Current} : calib'[m] = calib[m] /\ epochs'[m] = epochs[m]
         /\ call.type = "calibration_end" /\ ~ Raised =>
              epochs' = epochs /\ calib'[Current] = "done" /\ Current \notin hooked'
<1>. USE DEF OneshotTypes
<1>1. CASE Raised
  <2>1. UNCHANGED <<calib, epochs>>
    BY <1>1 DEF HandleCalibration
  <2>2. hooked' \subseteq hooked \cup {Current}
    BY <1>1 DEF HandleHooks, CalibrationEvents
  <2>. QED
    BY <1>1, <2>1, <2>2
<1>2. CASE ~ Raised /\ call.type = "calibration_start"
  BY <1>2 DEF HandleHooks, HandleCalibration
<1>3. CASE ~ Raised /\ call.type = "sequential_epoch_end"
  <2>1. hooked' = hooked
    BY <1>3 DEF HandleHooks
  <2>2. epochs' = [epochs EXCEPT ![Current] = @ + 1] /\ calib' = calib
    BY <1>3 DEF HandleCalibration
  <2>3. epochs' \in [Modifiers -> Nat]
    BY <2>2
  <2>. QED
    BY <1>3, <2>1, <2>2, <2>3
<1>4. CASE ~ Raised /\ call.type = "calibration_end"
  BY <1>4 DEF HandleHooks, HandleCalibration
<1>. QED
  BY <1>1, <1>2, <1>3, <1>4 DEF CalibrationEvents

LEMMA HandleKeeps ==
  ASSUME OneshotInv, OneshotAssumption, HandleEvent
  PROVE  OneshotInv'
<1>. USE DEF OneshotInv
<1>a. /\ pc \in {"starting", "epoch", "ending"} /\ ~ finalized
      /\ call.op = "event" /\ call.type \in CalibrationEvents
      /\ pc = "ending" <=> call.type = "calibration_end"
      /\ error = "none" /\ ProceedTo(AfterEvent)
      /\ UNCHANGED <<argVars, runVars, unfinalizable>>
  BY DEF HandleEvent, PlaceOK, CalibrationEvents
<1>. USE DEF argVars, runVars, modVars, lifecycleVars
<1>1. CASE UpdateModifier /\ HandleHooks(Current) /\ HandleCalibration(Current)
  <2>1. /\ call.next <= Len(recipe)
        /\ UNCHANGED <<initializedMods, finalizedMods, lifecycleVars>>
        /\ \/ Advance
           \/ call' = Idle /\ error' # "none"
    BY <1>1 DEF UpdateModifier, Visiting, Raise
  <2>2. Current \in Range(recipe) /\ Current \in Modifiers
    BY <1>a, <2>1, CurrentFacts
  <2>3. /\ hooked' \subseteq hooked \cup {Current}
        /\ calib' \in [Modifiers -> {"none", "running", "done"}]
        /\ epochs' \in [Modifiers -> Nat]
        /\ \A m \in Modifiers \ {Current} : calib'[m] = calib[m] /\ epochs'[m] = epochs[m]
        /\ call.type = "calibration_end" /\ ~ Raised =>
             epochs' = epochs /\ calib'[Current] = "done" /\ Current \notin hooked'
    BY <1>a, <1>1, <2>2, VisitFacts
  <2>4. \A m \in Modifiers \ {Current} : Applied(m) => Applied(m)'
    BY <2>3 DEF Applied
  <2>5. Range(requested) \subseteq Modifiers /\ Range(recipe) \subseteq Modifiers
    BY RangeFacts DEF OneshotTypes
  <2>6. NoModifierIsOrphaned' /\ FinalizedIsApplied'
    BY <1>a, <2>1 DEF NoModifierIsOrphaned, FinalizedIsApplied
  <2>7. CASE Advance
    <3>1. /\ Passed' = Passed \cup {Current}
          /\ call' \in Calls /\ call'.op = "event" /\ call'.type = call.type
          /\ call'.next \in 1 .. Len(recipe) + 1 /\ error' = error
      BY <1>a, <2>1, <2>7, PassedAdvancing
    <3>2. pc' = pc /\ ~ Raised
      BY <1>a, <3>1 DEF ProceedTo, Raised
    <3>3. OneshotTypes'
      BY <1>a, <2>1, <2>3, <3>1 DEF OneshotTypes
    <3>4. PlaceOK' /\ RecipeOK'
      BY <1>a, <2>1, <3>1, <3>2 DEF PlaceOK, RecipeOK
    <3>5. Passed \subseteq Modifiers
      BY CallFacts DEF Passed
    <3>6. pc' = "ending" =>
            /\ \A m \in Range(recipe)' : epochs'[m] > 0
            /\ \A m \in Passed' : calib'[m] = "done" /\ m \notin hooked'
      BY <1>a, <2>1, <2>3, <2>5, <3>1, <3>2, <3>5 DEF Progress
    <3>7. patched => \A m \in Range(requested) :
            m \in Range(todo) \/ (m \in Range(recipe) /\ pc' # "next") \/ Applied(m)'
      BY <1>a, <2>2, <2>4, <2>5, <3>2 DEF Progress
    <3>8. Progress'
      BY <1>a, <2>1, <3>1, <3>2, <3>6, <3>7 DEF Progress
    <3>. QED
      BY <2>6, <3>3, <3>4, <3>8
  <2>8. CASE call' = Idle /\ error' # "none"
    <3>1. pc' = "unwind"
      BY <1>a, <2>8, IdleFacts DEF ProceedTo, Raised
    <3>2. OneshotTypes'
      BY <1>a, <2>1, <2>3, <2>8, IdleFacts DEF OneshotTypes
    <3>3. PlaceOK' /\ RecipeOK'
      BY <1>a, <2>1, <2>8, <3>1, IdleFacts DEF PlaceOK, RecipeOK, InPipeline
    <3>4. patched => \A m \in Range(requested) :
            m \in Range(todo) \/ (m \in Range(recipe) /\ pc' # "next") \/ Applied(m)'
      BY <1>a, <2>2, <2>4, <2>5, <3>1 DEF Progress
    <3>5. Progress'
      BY <1>a, <2>1, <2>8, <3>1, <3>4, IdleFacts DEF Progress
    <3>. QED
      BY <2>6, <3>2, <3>3, <3>5
  <2>. QED
    BY <2>1, <2>7, <2>8
<1>2. CASE EndEvent /\ UNCHANGED <<hooked, calib, epochs>>
  <2>1. /\ call.next > Len(recipe) /\ call' = Idle
        /\ UNCHANGED <<modVars, lifecycleVars, error>>
    BY <1>2 DEF EndEvent, LoopDone, Return
  <2>2. Passed = Range(recipe)
    BY <1>a, <2>1, PassedDone
  <2>3. pc' = AfterEvent
    BY <1>a, <2>1, IdleFacts DEF ProceedTo, Raised
  <2>4. OneshotTypes'
    BY <1>a, <1>2, <2>1, IdleFacts DEF OneshotTypes
  <2>5. NoModifierIsOrphaned' /\ FinalizedIsApplied'
    BY <1>a, <1>2, <2>1 DEF NoModifierIsOrphaned, FinalizedIsApplied
  <2>6. \A m \in Range(recipe) : Applied(m)' = Applied(m)
    BY <1>2 DEF Applied
  <2>7. CASE pc \in {"starting", "epoch"}
    <3>1. /\ pc' \in {"calibrate", "calibrated"}
          /\ pc' = "calibrated" => \A m \in Range(recipe) : epochs[m] >= EpochEnds
      BY <2>3, <2>7 DEF AfterEvent
    <3>2. pc' = "calibrated" => \A m \in Range(recipe) : epochs[m] > 0
      <4>1. EpochEnds \in Nat \ {0}
        BY DEF EpochEnds, OneshotAssumption
      <4>2. \A m \in Range(recipe) : epochs[m] \in Nat
        BY RangeFacts DEF OneshotTypes
      <4>. QED
        BY <3>1, <4>1, <4>2
    <3>3. PlaceOK' /\ RecipeOK'
      BY <1>a, <2>1, <2>7, <3>1, IdleFacts DEF PlaceOK, RecipeOK, InPipeline
    <3>4. Progress'
      BY <1>a, <1>2, <2>1, <2>7, <3>1, <3>2, IdleFacts DEF Progress, Applied
    <3>. QED
      BY <2>4, <2>5, <3>3, <3>4
  <2>8. CASE pc = "ending"
    <3>1. pc' = IF patched THEN "next" ELSE "finalize"
      BY <2>3, <2>8 DEF AfterEvent
    <3>2. \A m \in Range(recipe) : Applied(m)
      BY <2>2, <2>8 DEF Progress, Applied
    <3>3. ~ patched => recipe = requested
      BY <2>8 DEF RecipeOK, InPipeline
    <3>4. PlaceOK' /\ RecipeOK'
      BY <1>a, <2>1, <2>8, <3>1, <3>3, IdleFacts DEF PlaceOK, RecipeOK, InPipeline
    <3>5. Progress'
      BY <1>a, <1>2, <2>1, <2>8, <3>1, <3>2, <3>3, IdleFacts DEF Progress, Applied
    <3>. QED
      BY <2>4, <2>5, <3>4, <3>5
  <2>. QED
    BY <1>a, <2>7, <2>8
<1>. QED
  BY <1>1, <1>2 DEF HandleEvent

LEMMA StutteringKeeps ==
  ASSUME OneshotInv, UNCHANGED allVars
  PROVE  OneshotInv'
BY DEF allVars, vars, oneshotVars, argVars, runVars, histVars, modVars, lifecycleVars,
  OneshotInv, OneshotTypes, PlaceOK, RecipeOK, Progress, Applied, Passed,
  NoModifierIsOrphaned, FinalizedIsApplied

(* The invariant holds through any number of calls of oneshot, for all modifiers, recipes
   and pipelines, whatever raises in them. *)
THEOREM OneshotInvariant == OneshotSpec => []OneshotInv
<1>1. OneshotInit => OneshotInv
  BY OneshotInitial
<1>2. OneshotInv /\ [OneshotNext]_allVars => OneshotInv'
  BY LifecycleAssumption, OneshotAssumption, StartKeeps, ResetKeeps, InitializeKeeps,
    ChooseKeeps, NextModifierKeeps, SendKeeps, RaisingKeeps, HandleKeeps, FinalizeKeeps,
    PostProcessKeeps, UnwindKeeps, StutteringKeeps
  DEF OneshotNext, Step
<1>. QED
  BY <1>1, <1>2, PTL DEF OneshotSpec

(* oneshot and the independent pipeline, which exchanges recipe.modifiers, never lose a
   modifier that is initialized: the next session.reset reaches it, whichever step of
   which call has raised (CompressionLifecycle.reset, IndependentPipeline.__call__). *)
THEOREM NoModifierIsEverOrphaned == OneshotSpec => []NoModifierIsOrphaned
<1>1. OneshotInv => NoModifierIsOrphaned
  BY DEF OneshotInv
<1>. QED
  BY <1>1, OneshotInvariant, PTL

(* A session that oneshot has finalized has applied all that was asked for: every modifier
   has been through a whole calibration with at least one epoch and holds no hook,
   whichever pipeline ran (CompressionLifecycle.finalize after CalibrationPipeline). *)
THEOREM FinalizedIsAlwaysApplied == OneshotSpec => []FinalizedIsApplied
<1>1. OneshotInv => FinalizedIsApplied
  BY DEF OneshotInv
<1>. QED
  BY <1>1, OneshotInvariant, PTL

-----------------------------------------------------------------------------
(* oneshot implements ModifierProtocol *)

(* The modifiers that the call in progress has still to visit. *)
Awaiting == {recipe[i] : i \in {j \in 1 .. Len(recipe) : j >= call.next}}

Having(c) == {m \in Modifiers : calib[m] = c}

(* A modifier is calibrated once: it has been initialized in this very call, no other part
   of the recipe has it, and its events come in their order. *)
ProtocolInv ==
  /\ finalizedMods \subseteq initializedMods /\ initializedMods \subseteq Modifiers
  /\ Modifiers \ initializedMods \subseteq Having("none")
  /\ IsInjective(recipe) /\ IsInjective(requested) /\ IsInjective(todo)
  /\ call.op = "initialize" => Passed \subseteq Having("none")
  /\ pc \in {"pipeline", "start"} => Range(recipe) \subseteq Having("none")
  /\ patched => /\ Range(todo) \subseteq Having("none")
                /\ pc # "next" => Range(todo) \cap Range(recipe) = {}
  /\ pc = "starting" => /\ Awaiting \subseteq Having("none")
                        /\ Passed \subseteq Having("running")
  /\ pc \in {"calibrate", "epoch", "calibrated"} => Range(recipe) \subseteq Having("running")
  /\ pc = "ending" => Awaiting \subseteq Having("running")

Phase(m) ==
  CASE m \in finalizedMods -> "finalized"
    [] m \notin initializedMods \cup finalizedMods -> "new"
    [] OTHER -> CASE calib[m] = "none" -> "initialized"
                  [] calib[m] = "running" -> "calibrating"
                  [] calib[m] = "done" -> "calibrated"

LEMMA InjectiveFacts ==
  /\ IsInjective(<<>>)
  /\ \A x : IsInjective(<<x>>)
  /\ \A S : \A s \in Seq(S) : s # <<>> /\ IsInjective(s) =>
       IsInjective(Tail(s)) /\ Head(s) \notin Range(Tail(s))
<1>1. IsInjective(<<>>) /\ \A x : IsInjective(<<x>>)
  BY DEF IsInjective
<1>2. ASSUME NEW S, NEW s \in Seq(S), s # <<>>, IsInjective(s)
      PROVE  IsInjective(Tail(s)) /\ Head(s) \notin Range(Tail(s))
  <2>1. /\ Len(s) \in Nat \ {0} /\ Head(s) = s[1] /\ DOMAIN s = 1 .. Len(s)
        /\ DOMAIN Tail(s) = 1 .. Len(s) - 1
        /\ \A i \in 1 .. Len(s) - 1 : Tail(s)[i] = s[i + 1]
    BY <1>2
  <2>2. ASSUME NEW i \in 1 .. Len(s) - 1, NEW j \in 1 .. Len(s) - 1, Tail(s)[i] = Tail(s)[j]
        PROVE  i = j
    <3>1. i + 1 \in DOMAIN s /\ j + 1 \in DOMAIN s /\ s[i + 1] = s[j + 1]
      BY <2>1, <2>2
    <3>2. i + 1 = j + 1
      BY <1>2, <3>1 DEF IsInjective
    <3>. QED
      BY <3>2
  <2>3. ASSUME NEW i \in 1 .. Len(s) - 1, Tail(s)[i] = Head(s)
        PROVE  FALSE
    <3>1. i + 1 \in DOMAIN s /\ 1 \in DOMAIN s /\ s[i + 1] = s[1]
      BY <2>1, <2>3
    <3>2. i + 1 = 1
      BY <1>2, <3>1 DEF IsInjective
    <3>. QED
      BY <3>2
  <2>. QED
    BY <2>1, <2>2, <2>3 DEF IsInjective, Range
<1>. QED
  BY <1>1, <1>2

LEMMA AwaitingEntering ==
  ASSUME OneshotTypes, call'.next = 1, recipe' = recipe
  PROVE  Awaiting' = Range(recipe)
<1>1. {j \in 1 .. Len(recipe) : j >= 1} = DOMAIN recipe
  BY CallFacts
<1>2. Awaiting' = {recipe[i] : i \in {j \in 1 .. Len(recipe) : j >= 1}}
  BY DEF Awaiting
<1>. QED
  BY <1>1, <1>2, Zenon DEF Range

LEMMA AwaitingAdvancing ==
  ASSUME OneshotTypes, IsInjective(recipe), call.op # "none", call.next <= Len(recipe),
         Advance, recipe' = recipe
  PROVE  Current \in Awaiting /\ Awaiting' \subseteq Awaiting \ {Current}
<1>1. call.next \in 1 .. Len(recipe) /\ Len(recipe) \in Nat /\ DOMAIN recipe = 1 .. Len(recipe)
  BY CallFacts
<1>2. call'.next = call.next + 1
  <2>1. call \in Calls
    BY DEF OneshotTypes
  <2>. QED
    BY <1>1, <2>1 DEF Calls, Advance
<1>3. Current \in Awaiting
  BY <1>1 DEF Awaiting, Current
<1>4. ASSUME NEW x \in Awaiting'
      PROVE  x \in Awaiting /\ x # Current
  <2>1. PICK i \in 1 .. Len(recipe) : i >= call.next + 1 /\ x = recipe[i]
    BY <1>2, <1>4 DEF Awaiting
  <2>2. i >= call.next /\ i # call.next
    BY <1>1, <2>1
  <2>3. x \in Awaiting
    BY <2>1, <2>2 DEF Awaiting
  <2>4. x # Current
    BY <1>1, <2>1, <2>2 DEF IsInjective, Current
  <2>. QED
    BY <2>3, <2>4
<1>. QED
  BY <1>3, <1>4

LEMMA PhaseSame ==
  ASSUME OneshotTypes, NEW k \in Modifiers, k \in finalizedMods' <=> k \in finalizedMods,
         k \in initializedMods' <=> k \in initializedMods, calib'[k] = calib[k]
  PROVE  Phase(k)' = Phase(k)
<1>1. CASE k \in finalizedMods
  BY <1>1 DEF Phase
<1>2. CASE k \notin initializedMods \cup finalizedMods
  BY <1>2 DEF Phase
<1>3. CASE k \in initializedMods /\ k \notin finalizedMods
  <2>1. CASE calib[k] = "none"
    BY <1>3, <2>1 DEF Phase
  <2>2. CASE calib[k] = "running"
    BY <1>3, <2>2 DEF Phase
  <2>3. CASE calib[k] = "done"
    BY <1>3, <2>3 DEF Phase
  <2>. QED
    BY <2>1, <2>2, <2>3 DEF OneshotTypes
<1>. QED
  BY <1>1, <1>2, <1>3

LEMMA PhaseMoves ==
  ASSUME NEW m \in Modifiers, NEW to, Phase(m)' = to,
         \A k \in Modifiers \ {m} : Phase(k)' = Phase(k), UNCHANGED epochs
  PROVE  MP!Move(m, Phase(m), to)
<1>. DEFINE phases == [k \in Modifiers |-> Phase(k)]
<1>1. phases[m] = Phase(m) /\ phases' = [phases EXCEPT ![m] = to]
  OBVIOUS
<1>. QED
  BY <1>1, Zenon DEF MP!Move, Phase

(* What changes none of these is no step of the protocol. *)
LEMMA NoMove ==
  ASSUME UNCHANGED <<initializedMods, finalizedMods, calib, epochs>>
  PROVE  UNCHANGED MP!vars
BY DEF MP!vars

LEMMA ProtocolInitial ==
  ASSUME OneshotInit
  PROVE  ProtocolInv /\ MP!Init
<1>. USE DEF OneshotInit, Init
<1>1. ProtocolInv
  BY IdleFacts, InjectiveFacts DEF ProtocolInv, Having
<1>2. MP!Init
  BY DEF MP!Init
<1>. QED
  BY <1>1, <1>2

-----------------------------------------------------------------------------
(* The steps of oneshot as steps of the protocol *)

ProtocolStep == [MP!Next]_(MP!vars)

(* The moves of a modifier that the protocol allows. *)
LEMMA MoveAllowed ==
  ASSUME NEW m \in Modifiers, NEW to, Phase(m)' = to,
         \A k \in Modifiers \ {m} : Phase(k)' = Phase(k), UNCHANGED epochs,
         \/ Phase(m) = "new" /\ to = "initialized"
         \/ Phase(m) = "initialized" /\ to = "calibrating"
         \/ Phase(m) = "calibrating" /\ to = "calibrated" /\ epochs[m] > 0
         \/ Phase(m) \in {"initialized", "calibrating", "calibrated"} /\ to = "finalized"
  PROVE  ProtocolStep
<1>1. MP!Move(m, Phase(m), to)
  BY PhaseMoves
<1>2. \/ MP!Initialize(m) \/ MP!CalibrationStart(m) \/ MP!CalibrationEnd(m) \/ MP!Finalize(m)
  <2>1. CASE Phase(m) = "new" /\ to = "initialized"
    BY <1>1, <2>1 DEF MP!Initialize
  <2>2. CASE Phase(m) = "initialized" /\ to = "calibrating"
    BY <1>1, <2>2 DEF MP!CalibrationStart
  <2>3. CASE Phase(m) = "calibrating" /\ to = "calibrated" /\ epochs[m] > 0
    BY <1>1, <2>3 DEF MP!CalibrationEnd
  <2>4. CASE Phase(m) \in {"initialized", "calibrating", "calibrated"} /\ to = "finalized"
    BY <1>1, <2>4 DEF MP!Finalize, MP!Phases
  <2>. QED
    BY <2>1, <2>2, <2>3, <2>4
<1>. QED
  BY <1>2 DEF MP!Next, ProtocolStep

LEMMA ActivePhase ==
  ASSUME OneshotTypes, NEW m \in initializedMods \ finalizedMods, m \in Modifiers
  PROVE  /\ calib[m] = "none" => Phase(m) = "initialized"
         /\ calib[m] = "running" => Phase(m) = "calibrating"
         /\ Phase(m) \in {"initialized", "calibrating", "calibrated"}
BY DEF OneshotTypes, Phase

(* finalize and reset take a modifier to its end from wherever it is. *)
LEMMA FinalizeMoves ==
  ASSUME OneshotTypes, initializedMods \subseteq Modifiers,
         NEW m \in initializedMods \ finalizedMods, finalizedMods' = finalizedMods \cup {m},
         UNCHANGED <<initializedMods, calib, epochs>>
  PROVE  ProtocolStep
<1>1. m \in Modifiers /\ Phase(m) \in {"initialized", "calibrating", "calibrated"}
  BY ActivePhase
<1>2. Phase(m)' = "finalized"
  BY DEF Phase
<1>3. ASSUME NEW k \in Modifiers \ {m} PROVE Phase(k)' = Phase(k)
  BY PhaseSame
<1>. QED
  BY <1>1, <1>2, <1>3, MoveAllowed

(* Steps that no modifier takes part in. *)
LEMMA QuietStep ==
  ASSUME UNCHANGED <<initializedMods, finalizedMods, calib, epochs>>
  PROVE  ProtocolStep /\ \A c : Having(c)' = Having(c)
BY NoMove DEF ProtocolStep, Having

LEMMA StartProtocol ==
  ASSUME OneshotInv, ProtocolInv, NEW r \in Recipes, IsInjective(r), NEW pipeline,
         NEW propagateError, StartOneshot(r, pipeline, propagateError)
  PROVE  ProtocolInv' /\ ProtocolStep
<1>1. /\ pc = "idle" /\ pc' = "reset" /\ call'.op = "reset" /\ requested' = r
      /\ UNCHANGED <<modVars, recipe, patched, todo, calib, epochs>>
  BY DEF StartOneshot, BeginReset, Enter, lifecycleVars, histVars
<1>2. ProtocolStep /\ \A c : Having(c)' = Having(c)
  BY <1>1, QuietStep DEF modVars
<1>3. ~ patched
  BY <1>1 DEF OneshotInv, RecipeOK, InPipeline
<1>. QED
  BY <1>1, <1>2, <1>3 DEF ProtocolInv, modVars

LEMMA ResetProtocol ==
  ASSUME OneshotInv, ProtocolInv, ResetSession
  PROVE  ProtocolInv' /\ ProtocolStep
<1>a. /\ pc \in {"reset", "clear"} /\ call.op = "reset" /\ ~ patched /\ error = "none"
      /\ UNCHANGED <<requested, patched, todo, calib, epochs>>
  BY DEF ResetSession, OneshotInv, PlaceOK, RecipeOK, InPipeline, argVars, runVars
<1>b. \A c : Having(c)' = Having(c)
  BY <1>a DEF Having
<1>1. CASE ResetModifier
  <2>1. /\ call.next <= Len(recipe) /\ Advance /\ UNCHANGED <<initializedMods, recipe>>
        /\ finalizedMods' \in {finalizedMods,
                               finalizedMods \cup ({Current} \cap initializedMods)}
    BY <1>1 DEF ResetModifier, Visiting, lifecycleVars
  <2>2. call'.op = "reset" /\ error' = "none"
    BY <1>a, <2>1, PassedAdvancing DEF OneshotInv
  <2>3. pc' = pc
    BY <1>a, <2>2 DEF ResetSession, ProceedTo, Raised
  <2>4. ProtocolInv'
    BY <1>a, <1>b, <2>1, <2>2, <2>3 DEF ProtocolInv
  <2>5. CASE finalizedMods' = finalizedMods
    BY <1>a, <2>1, <2>4, <2>5, QuietStep
  <2>6. CASE finalizedMods' # finalizedMods
    <3>1. /\ Current \in initializedMods \ finalizedMods
          /\ finalizedMods' = finalizedMods \cup {Current}
      BY <2>1, <2>6
    <3>. QED
      BY <1>a, <2>1, <2>4, <3>1, FinalizeMoves DEF OneshotInv, ProtocolInv
  <2>. QED
    BY <2>5, <2>6
<1>2. CASE EndReset
  <2>1. /\ recipe' = <<>> /\ call' = Idle /\ UNCHANGED <<initializedMods, finalizedMods, error>>
    BY <1>2 DEF EndReset, Return, modVars
  <2>2. pc' \in {"initialize", "idle"} /\ call'.op = "none"
    BY <1>a, <2>1, IdleFacts DEF ResetSession, ProceedTo, Raised
  <2>3. ProtocolInv'
    BY <1>a, <1>b, <2>1, <2>2, InjectiveFacts DEF ProtocolInv
  <2>. QED
    BY <1>a, <2>1, <2>3, QuietStep
<1>. QED
  BY <1>1, <1>2 DEF ResetSession
LEMMA InitializeProtocol ==
  ASSUME OneshotInv, ProtocolInv, InitializeSession
  PROVE  ProtocolInv' /\ ProtocolStep
<1>a. /\ pc = "initialize" /\ ~ patched /\ ProceedTo("pipeline")
      /\ UNCHANGED <<requested, patched, todo, calib, epochs>>
  BY DEF InitializeSession, OneshotInv, RecipeOK, InPipeline, argVars, runVars, histVars
<1>b. \A c : Having(c)' = Having(c)
  BY <1>a DEF Having
<1>1. CASE BeginInitialize(requested)
  <2>1. /\ Enter("initialize", "none") /\ recipe' = requested
        /\ UNCHANGED <<initializedMods, finalizedMods>>
    BY <1>1 DEF BeginInitialize, modVars
  <2>2. Passed' = {} /\ call'.op = "initialize" /\ error' = "none"
    BY <2>1, PassedEntering DEF OneshotInv
  <2>3. pc' = pc
    BY <1>a, <2>2 DEF ProceedTo, Raised
  <2>4. ProtocolInv'
    BY <1>a, <1>b, <2>1, <2>2, <2>3 DEF ProtocolInv
  <2>. QED
    BY <1>a, <2>1, <2>4, QuietStep
<1>2. CASE InitializeModifier \/ InitializeOwlModifier
  <2>1. /\ call.op = "initialize" /\ call.next <= Len(recipe)
        /\ UNCHANGED <<finalizedMods, recipe>>
        /\ \/ initializedMods' = initializedMods
           \/ /\ Current \notin initializedMods \cup finalizedMods
              /\ initializedMods' = initializedMods \cup {Current}
        /\ \/ Advance /\ Current \notin initializedMods
           \/ call' = Idle /\ error' # "none"
    BY <1>2 DEF InitializeModifier, InitializeOwlModifier, NeedsOwl, Visiting, Raise,
      lifecycleVars, modVars
  <2>2. Current \in Modifiers
    BY <2>1, CurrentFacts DEF OneshotInv
  <2>3. Current \notin initializedMods => Current \in Having("none")
    BY <2>2 DEF ProtocolInv
  <2>8. /\ initializedMods \subseteq initializedMods' /\ initializedMods' \subseteq Modifiers
        /\ finalizedMods' \subseteq initializedMods'
    BY <2>1, <2>2 DEF ProtocolInv
  <2>9. UNCHANGED <<finalizedMods, recipe>> /\ call.op = "initialize"
    BY <2>1
  <2>4. ASSUME Advance, Current \notin initializedMods
        PROVE  ProtocolInv'
    <3>1. Passed' = Passed \cup {Current} /\ call'.op = "initialize"
      BY <2>1, <2>4, PassedAdvancing DEF OneshotInv
    <3>2. pc' = pc
      BY <1>a, <3>1 DEF ProceedTo, Raised
    <3>. QED
      BY <1>a, <1>b, <2>3, <2>4, <2>8, <2>9, <3>1, <3>2 DEF ProtocolInv
  <2>5. ASSUME call' = Idle, error' # "none"
        PROVE  ProtocolInv'
    <3>1. pc' = "unwind" /\ call'.op = "none"
      BY <1>a, <2>5, IdleFacts DEF ProceedTo, Raised
    <3>. QED
      BY <1>a, <1>b, <2>8, <2>9, <3>1 DEF ProtocolInv
  <2>6. ASSUME initializedMods' = initializedMods
        PROVE  ProtocolStep
    BY <1>a, <2>1, <2>6, QuietStep
  <2>7. ASSUME NEW m \in Modifiers, m = Current, m \notin initializedMods \cup finalizedMods,
               initializedMods' = initializedMods \cup {m}
        PROVE  ProtocolStep
    <3>1. Phase(m) = "new"
      BY <2>7 DEF Phase
    <3>2. m \in initializedMods' \ finalizedMods' /\ calib'[m] = "none"
      BY <1>a, <2>1, <2>3, <2>7 DEF Having
    <3>3. Phase(m)' = "initialized"
      BY <3>2 DEF Phase
    <3>4. ASSUME NEW k \in Modifiers \ {m} PROVE Phase(k)' = Phase(k)
      BY <1>a, <2>1, <2>7, PhaseSame DEF OneshotInv
    <3>. QED
      BY <1>a, <3>1, <3>3, <3>4, MoveAllowed
  <2>. QED
    BY <2>1, <2>2, <2>4, <2>5, <2>6, <2>7
<1>3. CASE EndInitialize
  <2>1. /\ call.op = "initialize" /\ call.next > Len(recipe) /\ call' = Idle
        /\ UNCHANGED <<initializedMods, finalizedMods, recipe, error>>
    BY <1>3 DEF EndInitialize, LoopDone, Return, modVars
  <2>2. Passed = Range(recipe)
    BY <2>1, PassedDone DEF OneshotInv
  <2>3. pc' \in {"pipeline", "unwind"} /\ call'.op = "none"
    BY <1>a, <2>1, IdleFacts DEF ProceedTo, Raised
  <2>4. ProtocolInv'
    BY <1>a, <1>b, <2>1, <2>2, <2>3 DEF ProtocolInv
  <2>. QED
    BY <1>a, <2>1, <2>4, QuietStep
<1>. QED
  BY <1>1, <1>2, <1>3 DEF InitializeSession

LEMMA ChooseProtocol ==
  ASSUME OneshotInv, ProtocolInv, ChoosePipeline
  PROVE  ProtocolInv' /\ ProtocolStep
<1>1. /\ pc = "pipeline" /\ ~ patched /\ recipe = requested /\ call.op = "none"
      /\ UNCHANGED <<modVars, recipe, call, requested, calib, epochs>>
      /\ \/ patched' = TRUE /\ todo' = requested /\ pc' = "next"
         \/ patched' = FALSE /\ todo' = todo /\ pc' = "start"
  BY DEF ChoosePipeline, OneshotInv, PlaceOK, RecipeOK, InPipeline, vars, lifecycleVars,
    argVars, histVars
<1>2. ProtocolStep /\ \A c : Having(c)' = Having(c)
  BY <1>1, QuietStep DEF modVars
<1>. QED
  BY <1>1, <1>2 DEF ProtocolInv, modVars

LEMMA NextModifierProtocol ==
  ASSUME OneshotInv, ProtocolInv, NextModifier
  PROVE  ProtocolInv' /\ ProtocolStep
<1>1. /\ pc = "next" /\ patched /\ call.op = "none"
      /\ UNCHANGED <<modVars, call, requested, calib, epochs>>
  BY DEF NextModifier, OneshotInv, PlaceOK, RecipeOK, argVars, histVars
<1>2. ProtocolStep /\ \A c : Having(c)' = Having(c)
  BY <1>1, QuietStep DEF modVars
<1>3. CASE todo # <<>>
  <2>1. recipe' = <<Head(todo)>> /\ todo' = Tail(todo) /\ patched' = patched /\ pc' = "start"
    BY <1>3 DEF NextModifier
  <2>2. /\ Range(todo) = {Head(todo)} \cup Range(todo') /\ Range(recipe') = {Head(todo)}
        /\ IsInjective(recipe') /\ IsInjective(todo') /\ Head(todo) \notin Range(todo')
    BY <1>3, <2>1, RangeFacts, InjectiveFacts DEF OneshotInv, OneshotTypes, ProtocolInv
  <2>. QED
    BY <1>1, <1>2, <2>1, <2>2 DEF ProtocolInv, modVars
<1>4. CASE todo = <<>>
  <2>1. recipe' = requested /\ patched' = FALSE /\ pc' = "finalize" /\ todo' = todo
    BY <1>4 DEF NextModifier
  <2>. QED
    BY <1>1, <1>2, <2>1 DEF ProtocolInv, modVars
<1>. QED
  BY <1>3, <1>4

LEMMA SendProtocol ==
  ASSUME OneshotInv, ProtocolInv,
         SendCalibrationStart \/ SendSequentialEpochEnd \/ SendCalibrationEnd
  PROVE  ProtocolInv' /\ ProtocolStep
<1>1. /\ UNCHANGED <<modVars, recipe, requested, patched, todo, calib, epochs>>
      /\ call'.op = "event" /\ call'.next = 1
      /\ \/ pc = "start" /\ pc' = "starting"
         \/ pc = "calibrate" /\ pc' = "epoch"
         \/ pc = "calibrated" /\ pc' = "ending"
  BY DEF SendCalibrationStart, SendSequentialEpochEnd, SendCalibrationEnd, BeginEvent, Enter,
    runVars, argVars, histVars
<1>2. ProtocolStep /\ \A c : Having(c)' = Having(c)
  BY <1>1, QuietStep DEF modVars
<1>3. Awaiting' = Range(recipe)
  BY <1>1, AwaitingEntering DEF OneshotInv
<1>4. Passed' = {}
  BY PassedEntering DEF SendCalibrationStart, SendSequentialEpochEnd, SendCalibrationEnd,
    BeginEvent, OneshotInv
<1>. QED
  BY <1>1, <1>2, <1>3, <1>4 DEF ProtocolInv, modVars
LEMMA RestProtocol ==
  ASSUME OneshotInv, ProtocolInv,
         PipelineRaises \/ PostProcess \/ Unwind \/ UNCHANGED allVars
  PROVE  ProtocolInv' /\ ProtocolStep
<1>. USE DEF modVars, lifecycleVars, argVars, runVars, histVars
<1>1. CASE PipelineRaises
  <2>1. /\ UNCHANGED <<modVars, recipe, call, requested, patched, todo, calib, epochs>>
        /\ pc' = "unwind" /\ call.op = "none"
        /\ pc \in {"start", "calibrate", "calibrated"}
    BY <1>1 DEF PipelineRaises, vars, OneshotInv, PlaceOK
  <2>2. ProtocolStep /\ \A c : Having(c)' = Having(c)
    BY <2>1, QuietStep
  <2>. QED
    BY <2>1, <2>2 DEF ProtocolInv
<1>2. CASE PostProcess
  <2>1. /\ UNCHANGED <<modVars, recipe, requested, patched, todo, calib, epochs>>
        /\ pc = "post" /\ pc' \in {"clear", "idle"} /\ call'.op \in {"reset", "none"}
        /\ ~ patched
    BY <1>2 DEF PostProcess, BeginReset, Enter, vars, OneshotInv, PlaceOK, RecipeOK, InPipeline
  <2>2. ProtocolStep /\ \A c : Having(c)' = Having(c)
    BY <2>1, QuietStep
  <2>. QED
    BY <2>1, <2>2 DEF ProtocolInv
<1>3. CASE Unwind
  <2>1. /\ UNCHANGED <<modVars, call, requested, calib, epochs>> /\ call.op = "none"
        /\ pc' = "idle" /\ patched' = FALSE /\ todo' = <<>>
        /\ recipe' = IF patched THEN requested ELSE recipe
    BY <1>3 DEF Unwind, OneshotInv, PlaceOK
  <2>2. ProtocolStep /\ \A c : Having(c)' = Having(c)
    BY <2>1, QuietStep
  <2>. QED
    BY <2>1, <2>2, InjectiveFacts DEF ProtocolInv
<1>4. CASE UNCHANGED allVars
  <2>1. UNCHANGED <<modVars, recipe, call, pc, requested, patched, todo, calib, epochs>>
    BY <1>4 DEF allVars, vars, oneshotVars
  <2>2. ProtocolStep /\ \A c : Having(c)' = Having(c)
    BY <2>1, QuietStep
  <2>3. UNCHANGED <<Passed, Awaiting>>
    BY <2>1 DEF Passed, Awaiting
  <2>. QED
    BY <2>1, <2>2, <2>3 DEF ProtocolInv
<1>. QED
  BY <1>1, <1>2, <1>3, <1>4

LEMMA FinalizeProtocol ==
  ASSUME OneshotInv, ProtocolInv, FinalizeSession
  PROVE  ProtocolInv' /\ ProtocolStep
<1>1. /\ pc = "finalize" /\ pc' \in {"finalize", "post", "unwind"} /\ ~ patched
      /\ UNCHANGED <<initializedMods, recipe, requested, patched, todo, calib, epochs>>
  BY DEF FinalizeSession, BeginFinalize, FinalizeModifier, EndFinalize, ProceedTo, OneshotInv,
    RecipeOK, InPipeline, modVars, lifecycleVars, argVars, runVars, histVars
<1>2. call'.op # "initialize"
  BY IdleFacts DEF FinalizeSession, BeginFinalize, FinalizeModifier, EndFinalize, Enter, Raise,
    Return, Advance, Visiting, OneshotInv, OneshotTypes, Calls
<1>3. \/ finalizedMods' = finalizedMods
      \/ Current \in initializedMods /\ Current \notin finalizedMods
         /\ finalizedMods' = finalizedMods \cup {Current}
  BY DEF FinalizeSession, BeginFinalize, FinalizeModifier, EndFinalize, Accepts, modVars
<1>4. \A c : Having(c)' = Having(c)
  BY <1>1 DEF Having
<1>5. ProtocolInv'
  BY <1>1, <1>2, <1>3, <1>4 DEF ProtocolInv
<1>6. ASSUME finalizedMods' = finalizedMods
      PROVE  ProtocolStep
  BY <1>1, <1>6, QuietStep
<1>7. ASSUME Current \in initializedMods \ finalizedMods,
             finalizedMods' = finalizedMods \cup {Current}
      PROVE  ProtocolStep
  BY <1>1, <1>7, FinalizeMoves DEF OneshotInv, ProtocolInv
<1>. QED
  BY <1>3, <1>5, <1>6, <1>7

(* The visit of a modifier by a calibration event is the callback of the protocol with
   that name, and nothing when the modifier raises. *)
LEMMA VisitProtocol ==
  ASSUME OneshotInv, ProtocolInv, UpdateModifier, HandleCalibration(Current),
         pc \in {"starting", "epoch", "ending"}, ~ Raised, NEW m \in Modifiers, m = Current,
         m \in initializedMods \ finalizedMods, m \in Awaiting, m \in Range(recipe)
  PROVE  /\ ProtocolStep
         /\ pc = "starting" => /\ calib[m] = "none"
                               /\ calib' = [calib EXCEPT ![m] = "running"]
         /\ pc = "epoch" => calib' = calib
         /\ pc = "ending" => /\ calib[m] = "running"
                             /\ calib' = [calib EXCEPT ![m] = "done"]
<1>. USE DEF OneshotInv, OneshotTypes
<1>1. UNCHANGED <<initializedMods, finalizedMods>>
  BY DEF UpdateModifier
<1>2. CASE pc = "starting"
  <2>1. /\ calib' = [calib EXCEPT ![m] = "running"] /\ epochs' = epochs
        /\ calib[m] = "none"
    BY <1>2 DEF HandleCalibration, PlaceOK, ProtocolInv, Having
  <2>2. Phase(m) = "initialized"
    BY <2>1, ActivePhase
  <2>3. Phase(m)' = "calibrating"
    BY <1>1, <2>1 DEF Phase
  <2>4. ASSUME NEW k \in Modifiers \ {m} PROVE Phase(k)' = Phase(k)
    BY <1>1, <2>1, PhaseSame
  <2>. QED
    BY <1>2, <2>1, <2>2, <2>3, <2>4, MoveAllowed
<1>3. CASE pc = "epoch"
  <2>1. /\ calib' = calib /\ epochs' = [epochs EXCEPT ![m] = @ + 1]
        /\ calib[m] = "running"
    BY <1>3 DEF HandleCalibration, PlaceOK, ProtocolInv, Having
  <2>2. Phase(m) = "calibrating"
    BY <2>1, ActivePhase
  <2>3. ASSUME NEW k \in Modifiers PROVE Phase(k)' = Phase(k)
    BY <1>1, <2>1, PhaseSame
  <2>4. MP!SequentialEpochEnd(m)
    BY <2>1, <2>2, <2>3, Zenon DEF MP!SequentialEpochEnd, Phase
  <2>. QED
    BY <1>3, <2>1, <2>4 DEF ProtocolStep, MP!Next
<1>4. CASE pc = "ending"
  <2>1. /\ calib' = [calib EXCEPT ![m] = "done"] /\ epochs' = epochs
        /\ calib[m] = "running" /\ epochs[m] > 0
    BY <1>4 DEF HandleCalibration, PlaceOK, ProtocolInv, Progress, Having
  <2>2. Phase(m) = "calibrating"
    BY <2>1, ActivePhase
  <2>3. Phase(m)' = "calibrated"
    BY <1>1, <2>1 DEF Phase
  <2>4. ASSUME NEW k \in Modifiers \ {m} PROVE Phase(k)' = Phase(k)
    BY <1>1, <2>1, PhaseSame
  <2>. QED
    BY <1>4, <2>1, <2>2, <2>3, <2>4, MoveAllowed
<1>. QED
  BY <1>2, <1>3, <1>4
LEMMA HandleProtocol ==
  ASSUME OneshotInv, ProtocolInv, HandleEvent
  PROVE  ProtocolInv' /\ ProtocolStep
<1>a. /\ pc \in {"starting", "epoch", "ending"} /\ call.op = "event" /\ error = "none"
      /\ ProceedTo(AfterEvent) /\ UNCHANGED <<requested, patched, todo>>
  BY DEF HandleEvent, OneshotInv, PlaceOK, argVars, runVars
<1>1. CASE UpdateModifier /\ HandleCalibration(Current)
  <2>1. /\ call.next <= Len(recipe) /\ UNCHANGED <<initializedMods, finalizedMods, recipe>>
        /\ \/ Advance /\ Current \in initializedMods \ finalizedMods
           \/ call' = Idle /\ error' # "none"
    BY <1>1 DEF UpdateModifier, Visiting, Accepts, Raise, lifecycleVars
  <2>2. CASE Advance /\ Current \in initializedMods \ finalizedMods
    <3>1. /\ Current \in Range(recipe) /\ Current \in Modifiers /\ Current \in Awaiting
          /\ Awaiting' \subseteq Awaiting \ {Current} /\ Passed' = Passed \cup {Current}
          /\ call'.op = "event"
      BY <1>a, <2>1, <2>2, CurrentFacts, AwaitingAdvancing, PassedAdvancing
      DEF OneshotInv, ProtocolInv
    <3>2. pc' = pc /\ ~ Raised
      BY <1>a, <3>1 DEF ProceedTo, Raised
    <3>3. PICK m \in Modifiers : m = Current
      BY <3>1
    <3>4. /\ m \in initializedMods \ finalizedMods /\ m \in Awaiting /\ m \in Range(recipe)
          /\ Awaiting' \subseteq Awaiting \ {m} /\ Passed' = Passed \cup {m}
      BY <2>2, <3>1, <3>3
    <3>5. /\ ProtocolStep
          /\ pc = "starting" => /\ calib[m] = "none"
                                /\ calib' = [calib EXCEPT ![m] = "running"]
          /\ pc = "epoch" => calib' = calib
          /\ pc = "ending" => /\ calib[m] = "running"
                              /\ calib' = [calib EXCEPT ![m] = "done"]
      BY <1>a, <1>1, <3>2, <3>3, <3>4, VisitProtocol
    <3>6. ASSUME pc = "starting" PROVE ProtocolInv'
      <4>1. /\ Having("none")' = Having("none") \ {m}
            /\ Having("running")' = Having("running") \cup {m}
        BY <3>5, <3>6 DEF Having, OneshotInv, OneshotTypes
      <4>. QED
        BY <1>a, <2>1, <3>1, <3>2, <3>4, <3>6, <4>1 DEF ProtocolInv
    <3>7. ASSUME pc = "epoch" PROVE ProtocolInv'
      <4>1. \A c : Having(c)' = Having(c)
        BY <3>5, <3>7 DEF Having
      <4>. QED
        BY <1>a, <2>1, <3>1, <3>2, <3>7, <4>1 DEF ProtocolInv
    <3>8. ASSUME pc = "ending" PROVE ProtocolInv'
      <4>1. /\ Having("none")' = Having("none")
            /\ Having("running")' = Having("running") \ {m}
        BY <3>5, <3>8 DEF Having, OneshotInv, OneshotTypes
      <4>. QED
        BY <1>a, <2>1, <3>1, <3>2, <3>4, <3>8, <4>1 DEF ProtocolInv
    <3>. QED
      BY <1>a, <3>5, <3>6, <3>7, <3>8
  <2>3. CASE call' = Idle /\ error' # "none"
    <3>1. pc' = "unwind" /\ call'.op = "none" /\ Raised
      BY <1>a, <2>3, IdleFacts DEF ProceedTo, Raised
    <3>2. UNCHANGED <<calib, epochs>>
      BY <1>1, <3>1 DEF HandleCalibration
    <3>3. ProtocolStep /\ \A c : Having(c)' = Having(c)
      BY <2>1, <3>2, QuietStep
    <3>. QED
      BY <1>a, <2>1, <3>1, <3>3 DEF ProtocolInv
  <2>. QED
    BY <2>1, <2>2, <2>3
<1>2. CASE EndEvent /\ UNCHANGED <<calib, epochs>>
  <2>1. /\ call.next > Len(recipe) /\ call' = Idle
        /\ UNCHANGED <<initializedMods, finalizedMods, recipe, error>>
    BY <1>2 DEF EndEvent, LoopDone, Return, modVars, lifecycleVars
  <2>2. ProtocolStep /\ \A c : Having(c)' = Having(c)
    BY <1>2, <2>1, QuietStep
  <2>3. Passed = Range(recipe)
    BY <1>a, <2>1, PassedDone DEF OneshotInv
  <2>4. pc' = AfterEvent /\ call'.op = "none"
    BY <1>a, <2>1, IdleFacts DEF ProceedTo, Raised
  <2>5. \/ pc \in {"starting", "epoch"} /\ pc' \in {"calibrate", "calibrated"}
        \/ pc = "ending" /\ pc' = IF patched THEN "next" ELSE "finalize"
    BY <1>a, <2>4 DEF AfterEvent
  <2>. QED
    BY <1>a, <2>1, <2>2, <2>3, <2>4, <2>5 DEF ProtocolInv
<1>. QED
  BY <1>1, <1>2 DEF HandleEvent

(* Through any number of calls of oneshot, whatever raises in them and whichever pipeline
   they run, every modifier object sees the callbacks that ModifierProtocol promises: this
   is what a modifier's author relies on in Modifier.update_event and finalize.  It asks
   that no recipe names an object twice. *)
THEOREM OneshotImplementsProtocol ==
  ASSUME \A r \in Recipes : IsInjective(r)
  PROVE  OneshotSpec => ImplementsModifierProtocol
<1>1. OneshotInit => ProtocolInv /\ MP!Init
  BY ProtocolInitial
<1>2. OneshotInv /\ ProtocolInv /\ [OneshotNext]_allVars => ProtocolInv' /\ [MP!Next]_(MP!vars)
  BY StartProtocol, ResetProtocol, InitializeProtocol, ChooseProtocol, NextModifierProtocol,
    SendProtocol, HandleProtocol, FinalizeProtocol, RestProtocol
  DEF OneshotNext, Step, ProtocolStep
<1>. QED
  BY <1>1, <1>2, OneshotInvariant, PTL DEF OneshotSpec, ImplementsModifierProtocol, MP!Spec

-----------------------------------------------------------------------------
(***************************************************************************)
(* What the hooks mixin keeps for every set of handles and modifiers and   *)
(* for contexts nested to any depth.                                       *)
(*                                                                         *)
(* The set of kept handles is shared by all contexts, so what has to be    *)
(* known of it in between is that it never outgrows what the open contexts *)
(* keep; that the flag is cleared outside of contexts completes it.        *)
(***************************************************************************)

KeptBound == keepEnabled \subseteq Kept
FlagBound == contexts = <<>> => ~disabled

ContextInv == KeptBound /\ FlagBound

-----------------------------------------------------------------------------
(* Pushing and popping change the elements of a stack by one. *)
LEMMA AppendElements ==
  ASSUME NEW S, NEW s \in Seq(S), NEW e \in S
  PROVE  ToSet(Append(s, e)) = ToSet(s) \cup {e}
<1>1. /\ Append(s, e) \in Seq(S) /\ Len(Append(s, e)) = Len(s) + 1
      /\ DOMAIN s = 1 .. Len(s) /\ DOMAIN Append(s, e) = 1 .. Len(s) + 1
  OBVIOUS
<1>2. \A i \in 1 .. Len(s) : Append(s, e)[i] = s[i]
  OBVIOUS
<1>3. Append(s, e)[Len(s) + 1] = e /\ Len(s) \in Nat
  OBVIOUS
<1>4. ASSUME NEW x \in ToSet(Append(s, e)) PROVE x \in ToSet(s) \cup {e}
  <2>1. PICK i \in 1 .. Len(s) + 1 : x = Append(s, e)[i]
    BY <1>1 DEF ToSet
  <2>2. CASE i = Len(s) + 1
    BY <2>1, <2>2, <1>3
  <2>3. CASE i \in 1 .. Len(s)
    BY <2>1, <2>3, <1>1, <1>2 DEF ToSet
  <2>4. QED BY <2>1, <2>2, <2>3, <1>3
<1>5. ASSUME NEW x \in ToSet(s) PROVE x \in ToSet(Append(s, e))
  <2>1. PICK i \in 1 .. Len(s) : x = s[i]
    BY <1>1 DEF ToSet
  <2>2. i \in DOMAIN Append(s, e) /\ x = Append(s, e)[i]
    BY <2>1, <1>1, <1>2, <1>3
  <2>3. QED BY <2>2 DEF ToSet
<1>6. e \in ToSet(Append(s, e))
  <2>1. Len(s) + 1 \in DOMAIN Append(s, e)
    BY <1>1, <1>3
  <2>2. QED BY <2>1, <1>3 DEF ToSet
<1>7. QED BY <1>4, <1>5, <1>6

LEMMA FrontElements ==
  ASSUME NEW S, NEW s \in Seq(S), s # <<>>
  PROVE  /\ Front(s) \in Seq(S) /\ Last(s) \in S
         /\ ToSet(s) = ToSet(Front(s)) \cup {Last(s)}
<1>1. Len(s) \in Nat \ {0} /\ DOMAIN s = 1 .. Len(s)
  OBVIOUS
<1>2. /\ Front(s) \in Seq(S) /\ Len(Front(s)) = Len(s) - 1
      /\ \A i \in 1 .. Len(s) - 1 : Front(s)[i] = s[i]
  BY <1>1 DEF Front
<1>3. DOMAIN Front(s) = 1 .. Len(s) - 1
  BY <1>2
<1>4. Last(s) \in S /\ Last(s) \in ToSet(s)
  BY <1>1 DEF Last, ToSet
<1>5. ASSUME NEW x \in ToSet(s) PROVE x \in ToSet(Front(s)) \cup {Last(s)}
  <2>1. PICK i \in 1 .. Len(s) : x = s[i]
    BY <1>1 DEF ToSet
  <2>2. CASE i = Len(s)
    BY <2>1, <2>2 DEF Last
  <2>3. CASE i \in 1 .. Len(s) - 1
    BY <2>1, <2>3, <1>2, <1>3 DEF ToSet
  <2>4. i = Len(s) \/ i \in 1 .. Len(s) - 1
    <3>1. \A n \in Nat \ {0} : \A j \in 1 .. n : j = n \/ j \in 1 .. n - 1
      OBVIOUS
    <3>2. QED BY <3>1, <1>1
  <2>5. QED BY <2>2, <2>3, <2>4
<1>6. ASSUME NEW x \in ToSet(Front(s)) PROVE x \in ToSet(s)
  <2>1. PICK i \in 1 .. Len(s) - 1 : x = Front(s)[i]
    BY <1>3 DEF ToSet
  <2>2. x = s[i] /\ i \in DOMAIN s
    BY <2>1, <1>1, <1>2
  <2>3. QED BY <2>2 DEF ToSet
<1>7. QED BY <1>2, <1>4, <1>5, <1>6

-----------------------------------------------------------------------------
(* HooksTypeOK, the type invariant of Hooks, holds in every reachable state. *)
THEOREM HooksTypeCorrect == HooksSpec => []HooksTypeOK
<1>1. HooksInit => HooksTypeOK
  <2>1. <<>> \in Seq(SUBSET Handles)
    OBVIOUS
  <2>2. [m \in HookOwners |-> {}] \in [HookOwners -> SUBSET Handles]
    OBVIOUS
  <2>3. QED BY <2>1, <2>2 DEF HooksInit, HooksTypeOK
<1>2. HooksTypeOK /\ [HooksNext]_hookVars => HooksTypeOK'
  <2> SUFFICES ASSUME HooksTypeOK, [HooksNext]_hookVars PROVE HooksTypeOK'
    OBVIOUS
  <2>1. ASSUME NEW m \in HookOwners, NEW h \in Handles, RegisterHook(m, h)
        PROVE  HooksTypeOK'
    BY <2>1 DEF RegisterHook, HooksTypeOK
  <2>2. ASSUME NEW m \in HookOwners, RemoveSomeHooks(m) PROVE HooksTypeOK'
    BY <2>2 DEF RemoveSomeHooks, RemoveHooks, HooksTypeOK
  <2>3. ASSUME NEW keep \in SUBSET Handles, EnterContext(keep)
        PROVE  HooksTypeOK'
    BY <2>3 DEF EnterContext, HooksTypeOK
  <2>4. CASE ExitContext
    <3>1. contexts' \in Seq(SUBSET Handles)
      BY <2>4, FrontElements DEF ExitContext, HooksTypeOK
    <3>2. QED BY <2>4, <3>1 DEF ExitContext, HooksTypeOK
  <2>5. CASE UNCHANGED hookVars
    BY <2>5 DEF hookVars, HooksTypeOK
  <2>6. QED BY <2>1, <2>2, <2>3, <2>4, <2>5 DEF HooksNext
<1>3. QED BY <1>1, <1>2, PTL DEF HooksSpec

(* The bounds on the shared flag and set are inductive. *)
LEMMA ContextInvHolds == HooksSpec => []ContextInv
<1>1. HooksInit => ContextInv
  BY DEF HooksInit, ContextInv, KeptBound, FlagBound
<1>2. HooksTypeOK /\ ContextInv /\ [HooksNext]_hookVars => ContextInv'
  <2> SUFFICES ASSUME HooksTypeOK, ContextInv, [HooksNext]_hookVars
               PROVE  ContextInv'
    OBVIOUS
  <2>1. CASE UNCHANGED <<disabled, keepEnabled, contexts>>
    BY <2>1 DEF ContextInv, KeptBound, FlagBound, Kept
  <2>2. ASSUME NEW keep \in SUBSET Handles, EnterContext(keep)
        PROVE  ContextInv'
    <3>1. contexts \in Seq(SUBSET Handles) /\ contexts' = Append(contexts, keep)
      BY <2>2 DEF EnterContext, HooksTypeOK
    <3>2. ToSet(contexts') = ToSet(contexts) \cup {keep}
      BY <3>1, AppendElements
    <3>3. Kept' = Kept \cup keep
      BY <3>2 DEF Kept
    <3>4. KeptBound'
      BY <2>2, <3>3 DEF EnterContext, ContextInv, KeptBound
    <3>5. contexts' # <<>>
      BY <3>1
    <3>6. QED BY <3>4, <3>5 DEF ContextInv, FlagBound
  <2>3. CASE ExitContext
    <3>1. /\ contexts \in Seq(SUBSET Handles) /\ contexts # <<>>
          /\ contexts' = Front(contexts)
      BY <2>3 DEF ExitContext, HooksTypeOK
    <3>2. ToSet(contexts) = ToSet(contexts') \cup {Last(contexts)}
      BY <3>1, FrontElements
    <3>3. Kept = Kept' \cup Last(contexts)
      BY <3>2 DEF Kept
    <3>4. KeptBound'
      BY <2>3, <3>3 DEF ExitContext, ContextInv, KeptBound
    <3>5. QED BY <2>3, <3>4 DEF ExitContext, ContextInv, FlagBound
  <2>4. ASSUME NEW m \in HookOwners, NEW h \in Handles, RegisterHook(m, h)
        PROVE  UNCHANGED <<disabled, keepEnabled, contexts>>
    BY <2>4 DEF RegisterHook
  <2>5. ASSUME NEW m \in HookOwners, RemoveSomeHooks(m)
        PROVE  UNCHANGED <<disabled, keepEnabled, contexts>>
    BY <2>5 DEF RemoveSomeHooks, RemoveHooks
  <2>6. QED BY <2>1, <2>2, <2>3, <2>4, <2>5 DEF HooksNext, hookVars
<1>3. QED BY <1>1, <1>2, HooksTypeCorrect, PTL DEF HooksSpec

(* OutsideAllRun: when every context has been left, all hooks run again and no
   handle is kept for a later context. *)
LEMMA OutsideAllAlwaysRun == HooksSpec => []OutsideAllRun
<1>1. ContextInv => OutsideAllRun
  <2> SUFFICES ASSUME ContextInv, contexts = <<>>
               PROVE  keepEnabled = {} /\ \A h \in onModel : Runs(h)
    BY DEF OutsideAllRun
  <2>1. ToSet(contexts) = {}
    BY DEF ToSet
  <2>2. Kept = {}
    BY <2>1 DEF Kept
  <2>3. QED BY <2>2 DEF ContextInv, KeptBound, FlagBound, Runs
<1>2. QED BY <1>1, ContextInvHolds, PTL

(* DisabledUnlessKept: while hooks are disabled, none runs that no open context
   keeps. *)
LEMMA DisabledAlwaysUnlessKept == HooksSpec => []DisabledUnlessKept
<1>1. ContextInv => DisabledUnlessKept
  BY DEF ContextInv, KeptBound, DisabledUnlessKept, Runs
<1>2. QED BY <1>1, ContextInvHolds, PTL

(* DisablingIsScoped: contexts disable hooks while they are open and no longer. *)
THEOREM DisablingAlwaysScoped == HooksSpec => []DisablingIsScoped
BY OutsideAllAlwaysRun, DisabledAlwaysUnlessKept, PTL DEF DisablingIsScoped

(* HooksAreOwned: every hook on the model is in the hands of exactly one
   modifier. *)
THEOREM HooksAlwaysOwned == HooksSpec => []HooksAreOwned
<1>1. HooksInit => HooksAreOwned
  BY DEF HooksInit, HooksAreOwned
<1>2. HooksTypeOK /\ HooksAreOwned /\ [HooksNext]_hookVars => HooksAreOwned'
  <2> SUFFICES ASSUME HooksTypeOK, HooksAreOwned, [HooksNext]_hookVars
               PROVE  HooksAreOwned'
    OBVIOUS
  <2>1. ASSUME NEW m \in HookOwners, NEW h \in Handles, RegisterHook(m, h)
        PROVE  HooksAreOwned'
    BY <2>1 DEF RegisterHook, HooksAreOwned, HooksTypeOK
  <2>2. ASSUME NEW m \in HookOwners, NEW handles \in SUBSET owned[m],
               RemoveHooks(m, handles)
        PROVE  HooksAreOwned'
    <3>1. owned' = [owned EXCEPT ![m] = @ \ handles] /\ onModel' = onModel \ handles
      BY <2>2 DEF RemoveHooks
    <3>2. \A k \in HookOwners : owned'[k] \subseteq owned[k]
      BY <3>1 DEF HooksTypeOK
    <3>3. \A k \in HookOwners : owned'[k] = owned[k] \ handles
      BY <3>1, <2>2 DEF HooksTypeOK, HooksAreOwned
    <3>4. onModel' = UNION {owned'[k] : k \in HookOwners}
      BY <3>1, <3>3 DEF HooksAreOwned
    <3>5. QED BY <3>2, <3>4 DEF HooksAreOwned
  <2>3. CASE UNCHANGED <<onModel, owned>>
    BY <2>3 DEF HooksAreOwned
  <2>4. ASSUME NEW keep \in SUBSET Handles, EnterContext(keep)
        PROVE  UNCHANGED <<onModel, owned>>
    BY <2>4 DEF EnterContext
  <2>5. CASE ExitContext
    BY <2>5, <2>3 DEF ExitContext
  <2>6. QED
    BY <2>1, <2>2, <2>3, <2>4, <2>5 DEF HooksNext, RemoveSomeHooks, hookVars
<1>3. QED BY <1>1, <1>2, HooksTypeCorrect, PTL DEF HooksSpec
=============================================================================
