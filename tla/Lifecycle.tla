------------------------------ MODULE Lifecycle ------------------------------
(***************************************************************************)
(* The compression lifecycle of a session (core/lifecycle.py) together     *)
(* with the state machine of the modifiers it drives                       *)
(* (modifiers/modifier.py).                                                *)
(*                                                                         *)
(* One thread calls initialize, event, finalize, reset and reset_stage in  *)
(* any order.  A call visits the modifiers of the recipe one after the     *)
(* other; every visit runs callbacks written by the modifier's author,     *)
(* which may raise, so each visit is a step of its own and a call may      *)
(* leave the loop half way.                                                *)
(***************************************************************************)
EXTENDS Naturals, Sequences, Functions

CONSTANTS
  Modifiers,   \* modifier objects; an object may appear in several recipes
  Recipes,     \* recipes a caller passes: sequences of modifier objects
  Start, End,  \* Modifier.start and Modifier.end, NoIndex for None
  NoIndex,
  MaxStep      \* bound on the global_step a caller passes

ASSUME LifecycleAssumption ==
  /\ Recipes \subseteq Seq(Modifiers)
  /\ NoIndex \notin Nat
  /\ Start \in [Modifiers -> Nat \cup {NoIndex}]
  /\ End \in [Modifiers -> Nat \cup {NoIndex}]
  /\ MaxStep \in Nat

VARIABLES
  initializedMods,  \* modifiers whose initialized_ is True
  finalizedMods,    \* modifiers whose finalized_ is True
  startedMods,      \* modifiers whose started_ is True
  endedMods,        \* modifiers whose ended_ is True
  recipe,           \* lifecycle.recipe.modifiers
  initialized,      \* lifecycle.initialized_
  finalized,        \* lifecycle.finalized
  lastEvent,        \* lifecycle._last_event_type
  globalStep,       \* lifecycle.global_step
  call,             \* the call in progress and the position of its loop
  error,            \* what the last finished call raised, "none" if it returned
  refused,          \* history: modifiers whose on_initialize returned False
  delivered         \* history: the last ordered event that reached the modifiers

modVars == <<initializedMods, finalizedMods, startedMods, endedMods>>
lifecycleVars == <<recipe, initialized, finalized, lastEvent, globalStep>>
vars == <<modVars, lifecycleVars, call, error, refused, delivered>>

-----------------------------------------------------------------------------

(* _event_order: the position of every event that is subject to ordering. *)
EventOrder ==
  [batch_start |-> 1, loss_calculated |-> 2, optim_pre_step |-> 3,
   optim_post_step |-> 4, batch_end |-> 5]

OrderedEvents == DOMAIN EventOrder
CalibrationEvents ==
  {"calibration_start", "sequential_epoch_end", "calibration_end"}
(* INITIALIZE and FINALIZE are event types that event() rejects. *)
MethodEvents == {"initialize", "finalize"}
EventTypes == OrderedEvents \cup CalibrationEvents \cup MethodEvents

Errors == {"none", "state", "order", "loss", "modifier", "callback"}

Idle == [op |-> "none", type |-> "none", next |-> 0]
Calls ==
  [op : {"none", "initialize", "finalize", "event", "reset"},
   type : EventTypes \cup {"none"}, next : Nat]

(* The index an Event carries.  Both fake_start_event and the Event built by
   CompressionLifecycle.event leave Event.global_step at its default. *)
CurrentIndex == 0

ShouldStart(m) ==
  /\ Start[m] # NoIndex
  /\ Start[m] <= CurrentIndex
  /\ End[m] # NoIndex => CurrentIndex < End[m]

ShouldEnd(m) == End[m] # NoIndex /\ CurrentIndex >= End[m]

(* Mutant: the comparison of the positions the wrong way round. *)
ReversedEventOrder(e) ==
  \/ e \notin OrderedEvents
  \/ e = "batch_start" /\ lastEvent # "batch_start"
  \/ /\ e \in OrderedEvents \ {"batch_start"}
     /\ EventOrder[lastEvent] >= EventOrder[e]

(* _validate_event_order *)
ValidEventOrder(e) ==
  \/ e \notin OrderedEvents
  \/ e = "batch_start" /\ lastEvent # "batch_start"
  \/ /\ e \in OrderedEvents \ {"batch_start"}
     /\ EventOrder[lastEvent] <= EventOrder[e]

-----------------------------------------------------------------------------

Init ==
  /\ initializedMods = {} /\ finalizedMods = {}
  /\ startedMods = {} /\ endedMods = {}
  /\ recipe = <<>>
  /\ initialized = FALSE /\ finalized = FALSE
  /\ lastEvent = "batch_end" /\ globalStep = 0
  /\ call = Idle /\ error = "none"
  /\ refused = {} /\ delivered = "batch_end"

(* The modifier the call in progress visits next. *)
Visiting(op) == call.op = op /\ call.next <= Len(recipe)
Current == recipe[call.next]
LoopDone(op) == call.op = op /\ call.next > Len(recipe)

Enter(op, type) ==
  /\ call.op = "none"
  /\ call' = [op |-> op, type |-> type, next |-> 1]
  /\ error' = "none"

Advance ==
  /\ call' = [call EXCEPT !.next = @ + 1]
  /\ UNCHANGED error

(* The exception leaves the loop and the call: nothing is rolled back. *)
Raise(e) == call' = Idle /\ error' = e

Return == call' = Idle /\ UNCHANGED error

(* Mutant: a finalized modifier still takes events. *)
AcceptsFinalized(m) == m \in initializedMods

(* The checks at the top of Modifier.update_event and Modifier.finalize. *)
Accepts(m) == m \in initializedMods /\ m \notin finalizedMods

(* A call rejected before it changes anything. *)
Reject(e) ==
  /\ call.op = "none"
  /\ Raise(e)
  /\ UNCHANGED <<modVars, lifecycleVars, refused, delivered>>

-----------------------------------------------------------------------------
(* initialize *)

(* initialize on an initialized lifecycle only updates the state and returns:
   it is a stuttering step here. *)
BeginInitialize(r) ==
  /\ ~initialized
  /\ Enter("initialize", "none")
  /\ recipe' = r
  /\ UNCHANGED <<modVars, initialized, finalized, lastEvent, globalStep,
                 refused, delivered>>

(* Modifier.initialize.  on_initialize returns accepted or raises; the start
   callback of a modifier that starts at once may raise after initialized_ is
   set. *)
InitializeModifier ==
  /\ Visiting("initialize")
  /\ UNCHANGED <<finalizedMods, endedMods, lifecycleVars, delivered>>
  /\ LET m == Current IN
     \/ /\ m \in initializedMods \cup finalizedMods
        /\ Raise("modifier")
        /\ UNCHANGED <<initializedMods, startedMods, refused>>
     \/ /\ m \notin initializedMods \cup finalizedMods
        /\ \/ /\ Raise("callback")
              /\ UNCHANGED <<initializedMods, startedMods, refused>>
           \/ \E accepted \in BOOLEAN :
                /\ IF accepted
                   THEN /\ initializedMods' = initializedMods \cup {m}
                        /\ UNCHANGED refused
                   ELSE /\ refused' = refused \cup {m}
                        /\ UNCHANGED initializedMods
                /\ \/ /\ startedMods' = IF ShouldStart(m)
                                        THEN startedMods \cup {m}
                                        ELSE startedMods
                      /\ Advance
                   \/ /\ ShouldStart(m)
                      /\ Raise("callback")
                      /\ UNCHANGED startedMods

EndInitialize ==
  /\ LoopDone("initialize")
  /\ initialized' = TRUE
  /\ Return
  /\ UNCHANGED <<modVars, recipe, finalized, lastEvent, globalStep, refused,
                 delivered>>

-----------------------------------------------------------------------------
(* finalize *)

(* Mutant: finalized is set before the modifiers are finalized. *)
BeginFinalizeEarly ==
  /\ initialized /\ ~finalized
  /\ Enter("finalize", "none")
  /\ finalized' = TRUE
  /\ UNCHANGED <<modVars, recipe, initialized, lastEvent, globalStep, refused,
                 delivered>>

BeginFinalize ==
  /\ initialized /\ ~finalized
  /\ Enter("finalize", "none")
  /\ UNCHANGED <<modVars, lifecycleVars, refused, delivered>>

RejectFinalize == ~(initialized /\ ~finalized) /\ Reject("state")

(* Modifier.finalize.  Every on_finalize of the repository returns True or
   raises. *)
FinalizeModifier ==
  /\ Visiting("finalize")
  /\ UNCHANGED <<initializedMods, startedMods, endedMods, lifecycleVars,
                 refused, delivered>>
  /\ LET m == Current IN
     \/ ~Accepts(m) /\ Raise("modifier") /\ UNCHANGED finalizedMods
     \/ /\ Accepts(m)
        /\ \/ Raise("callback") /\ UNCHANGED finalizedMods
           \/ finalizedMods' = finalizedMods \cup {m} /\ Advance

EndFinalize ==
  /\ LoopDone("finalize")
  /\ finalized' = TRUE
  /\ Return
  /\ UNCHANGED <<modVars, recipe, initialized, lastEvent, globalStep, refused,
                 delivered>>

-----------------------------------------------------------------------------
(* reset and reset_stage *)

BeginReset ==
  /\ Enter("reset", "none")
  /\ UNCHANGED <<modVars, lifecycleVars, refused, delivered>>

(* Modifiers that are not active are skipped; an exception of on_finalize is
   logged and swallowed. *)
ResetModifier ==
  /\ Visiting("reset")
  /\ Advance
  /\ finalizedMods' \in {finalizedMods,
                         finalizedMods \cup ({Current} \cap initializedMods)}
  /\ UNCHANGED <<initializedMods, startedMods, endedMods, lifecycleVars,
                 refused, delivered>>

(* self.__init__() *)
EndReset ==
  /\ LoopDone("reset")
  /\ recipe' = <<>>
  /\ initialized' = FALSE /\ finalized' = FALSE
  /\ lastEvent' = "batch_end" /\ globalStep' = 0
  /\ delivered' = "batch_end"
  /\ Return
  /\ UNCHANGED <<modVars, refused>>

(* CompressionSession.reset_stage *)
ResetStage ==
  /\ call.op = "none"
  /\ initialized' = FALSE /\ finalized' = FALSE
  /\ error' = "none"
  /\ UNCHANGED <<modVars, recipe, lastEvent, globalStep, call, refused,
                 delivered>>

-----------------------------------------------------------------------------
(* event *)

(* Only events subject to ordering are recorded. *)
RecordEvent(e) ==
  IF e \in OrderedEvents
  THEN lastEvent' = e /\ delivered' = e
  ELSE UNCHANGED <<lastEvent, delivered>>

(* An event no check rejects.  global_step is assigned unless it is None. *)
BeginEvent(e, step) ==
  /\ initialized /\ ~finalized
  /\ e \notin MethodEvents
  /\ ValidEventOrder(e)
  /\ Enter("event", e)
  /\ globalStep' \in {step, globalStep}
  /\ RecordEvent(e)
  /\ UNCHANGED <<modVars, recipe, initialized, finalized, refused>>

RejectEventState == ~(initialized /\ ~finalized) /\ Reject("state")

RejectEventOrder(e) ==
  /\ initialized /\ ~finalized
  /\ e \in MethodEvents \/ ~ValidEventOrder(e)
  /\ Reject("order")

(* LOSS_CALCULATED without a loss: the order check, which runs first, has
   already recorded the event. *)
RejectLossMissing ==
  /\ initialized /\ ~finalized
  /\ ValidEventOrder("loss_calculated")
  /\ call.op = "none"
  /\ lastEvent' = "loss_calculated"
  /\ Raise("loss")
  /\ UNCHANGED <<modVars, recipe, initialized, finalized, globalStep, refused,
                 delivered>>

(* What update_event does to started_ and ended_ when no callback raises. *)
StartsOn(m, e) ==
  \/ e = "calibration_start"
  \/ e = "batch_start" /\ m \notin startedMods /\ ShouldStart(m)

EndsOn(m, e) ==
  \/ e = "calibration_end"
  \/ e = "batch_end" /\ m \notin endedMods /\ ShouldEnd(m)

UpdateFlags(m, e) ==
  /\ startedMods' = IF StartsOn(m, e) THEN startedMods \cup {m} ELSE startedMods
  /\ endedMods' = IF EndsOn(m, e) THEN endedMods \cup {m} ELSE endedMods

(* Modifier.update_event.  The first callback raises before the flags are
   assigned; on_update, which follows the training flags, after. *)
UpdateModifier ==
  /\ Visiting("event")
  /\ UNCHANGED <<initializedMods, finalizedMods, lifecycleVars, refused,
                 delivered>>
  /\ LET m == Current IN
     \/ ~Accepts(m) /\ Raise("modifier") /\ UNCHANGED <<startedMods, endedMods>>
     \/ /\ Accepts(m)
        /\ \/ UpdateFlags(m, call.type) /\ Advance
           \/ UNCHANGED <<startedMods, endedMods>> /\ Raise("callback")
           \/ /\ call.type \in OrderedEvents
              /\ UpdateFlags(m, call.type) /\ Raise("callback")

EndEvent ==
  /\ LoopDone("event")
  /\ Return
  /\ UNCHANGED <<modVars, lifecycleVars, refused, delivered>>

-----------------------------------------------------------------------------

Next ==
  \/ \E r \in Recipes : BeginInitialize(r)
  \/ InitializeModifier
  \/ EndInitialize
  \/ BeginFinalize
  \/ RejectFinalize
  \/ FinalizeModifier
  \/ EndFinalize
  \/ BeginReset
  \/ ResetModifier
  \/ EndReset
  \/ ResetStage
  \/ \E e \in EventTypes, step \in 0 .. MaxStep : BeginEvent(e, step)
  \/ RejectEventState
  \/ \E e \in EventTypes : RejectEventOrder(e)
  \/ RejectLossMissing
  \/ UpdateModifier
  \/ EndEvent

Spec == Init /\ [][Next]_vars

-----------------------------------------------------------------------------
(* Properties *)

TypeOK ==
  /\ initializedMods \subseteq Modifiers /\ finalizedMods \subseteq Modifiers
  /\ startedMods \subseteq Modifiers /\ endedMods \subseteq Modifiers
  /\ refused \subseteq Modifiers
  /\ recipe \in Seq(Modifiers)
  /\ initialized \in BOOLEAN /\ finalized \in BOOLEAN
  /\ lastEvent \in OrderedEvents /\ delivered \in OrderedEvents
  /\ globalStep \in Nat
  /\ call \in Calls
  /\ call.op # "none" => call.next \in 1 .. Len(recipe) + 1
  /\ error \in Errors

(* A finalized lifecycle has finalized every modifier of its recipe: finalize
   that raises half way leaves the lifecycle unfinalized, and neither a retry
   nor an event or a new stage can make it look finalized later. *)
FinalizedMeansAll ==
  finalized => Range(recipe) \subseteq finalizedMods

(* An initialized lifecycle holds only modifiers that are ready for events:
   the exceptions are those whose own on_initialize returned False. *)
ReadyMeansInitialized ==
  initialized => Range(recipe) \subseteq initializedMods \cup refused

(* The two flags of the lifecycle speak for all modifiers of its recipe, in spite
   of loops that raise half way, retries and changes of the recipe. *)
FlagsMeanAll == ReadyMeansInitialized /\ FinalizedMeansAll

(* The steps of a batch reach the modifiers only inside a batch they have seen
   start, whatever sequence of calls, rejections and exceptions came before. *)
StepsInsideBatch ==
  [][call.op = "none" /\ call'.op = "event"
       /\ call'.type \in {"loss_calculated", "optim_pre_step", "optim_post_step"}
     => delivered # "batch_end"]_vars

(* What is final stays final: no call un-finalizes a modifier or runs the
   callbacks of a finalized modifier, including those of a second recipe that
   reuses the object. *)
FinalizedIsFinal ==
  [][\A m \in finalizedMods :
       /\ m \in finalizedMods'
       /\ (m \in startedMods') = (m \in startedMods)
       /\ (m \in endedMods') = (m \in endedMods)]_vars

=============================================================================
