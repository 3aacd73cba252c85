-------------------------------- MODULE Hooks --------------------------------
(***************************************************************************)
(* The hooks the modifiers register on modules and the contexts that       *)
(* disable them (modifiers/utils/hooks.py).  All modifiers share one flag  *)
(* and one set of handles that stay enabled.                               *)
(***************************************************************************)
EXTENDS Naturals, Sequences, SequencesExt, FiniteSets

CONSTANTS
  Handles,    \* handles that are registered in the course of a calibration
  HookOwners,
  MaxDepth    \* contexts that are nested inside each other

ASSUME HooksAssumption == MaxDepth \in Nat \ {0}

VARIABLES
  onModel,      \* handles whose hook is on its module
  owned,        \* owned[m]: _hooks of a modifier
  disabled,     \* HooksMixin._HOOKS_DISABLED
  keepEnabled,  \* HooksMixin._HOOKS_KEEP_ENABLED
  contexts      \* the `keep` arguments of the contexts that are open

hookVars == <<onModel, owned, disabled, keepEnabled, contexts>>

-----------------------------------------------------------------------------

HooksInit ==
  /\ onModel = {} /\ owned = [m \in HookOwners |-> {}]
  /\ disabled = FALSE /\ keepEnabled = {}
  /\ contexts = <<>>

(* wrapped_hook *)
Runs(h) == h \in onModel /\ (disabled => h \in keepEnabled)

(* A handle is registered once; one whose hook has been removed stands for a
   new one. *)
RegisterHook(m, h) ==
  /\ \A k \in HookOwners : h \notin owned[k]
  /\ h \notin onModel
  /\ onModel' = onModel \cup {h}
  /\ owned' = [owned EXCEPT ![m] = @ \cup {h}]
  /\ UNCHANGED <<disabled, keepEnabled, contexts>>

(* Mutant: the modifier forgets all of its hooks and not only the removed. *)
RemoveHooksForgetting(m, handles) ==
  /\ onModel' = onModel \ handles
  /\ owned' = [owned EXCEPT ![m] = {}]
  /\ UNCHANGED <<disabled, keepEnabled, contexts>>

RemoveHooks(m, handles) ==
  /\ onModel' = onModel \ handles
  /\ owned' = [owned EXCEPT ![m] = @ \ handles]
  /\ UNCHANGED <<disabled, keepEnabled, contexts>>

(* Without an argument a modifier removes all of its hooks. *)
RemoveSomeHooks(m) == \E handles \in SUBSET owned[m] : RemoveHooks(m, handles)

EnterContext(keep) ==
  /\ Len(contexts) < MaxDepth
  /\ contexts' = Append(contexts, keep)
  /\ disabled' = TRUE
  /\ keepEnabled' = keepEnabled \cup keep
  /\ UNCHANGED <<onModel, owned>>

(* Mutant: the handles stay in the set. *)
ExitContextKeeping ==
  /\ contexts # <<>>
  /\ contexts' = Front(contexts)
  /\ disabled' = FALSE
  /\ UNCHANGED <<onModel, owned, keepEnabled>>

(* The end of a with statement, on any path. *)
ExitContext ==
  /\ contexts # <<>>
  /\ contexts' = Front(contexts)
  /\ disabled' = FALSE
  /\ keepEnabled' = keepEnabled \ Last(contexts)
  /\ UNCHANGED <<onModel, owned>>

HooksNext ==
  \/ \E m \in HookOwners : (\E h \in Handles : RegisterHook(m, h)) \/ RemoveSomeHooks(m)
  \/ \E keep \in SUBSET Handles : EnterContext(keep)
  \/ ExitContext

HooksSpec == HooksInit /\ [][HooksNext]_hookVars

-----------------------------------------------------------------------------
(* Properties *)

HooksTypeOK ==
  /\ onModel \subseteq Handles
  /\ owned \in [HookOwners -> SUBSET Handles]
  /\ disabled \in BOOLEAN
  /\ keepEnabled \subseteq Handles
  /\ contexts \in Seq(SUBSET Handles)

Kept == UNION ToSet(contexts)

(* When every context has been left, however they were nested and in spite of
   the flag they share, all hooks run again and no later context inherits a
   handle that an earlier one kept. *)
OutsideAllRun ==
  contexts = <<>> => keepEnabled = {} /\ \A h \in onModel : Runs(h)

(* Whatever contexts have been left inside of others, a hook that none of the
   open contexts keeps does not run while hooks are disabled. *)
DisabledUnlessKept ==
  disabled => \A h \in Handles \ Kept : ~Runs(h)

(* Disabling hooks is scoped, although all contexts share one flag. *)
DisablingIsScoped == OutsideAllRun /\ DisabledUnlessKept

(* No hook stays on the model that no modifier can remove, and no modifier
   takes a hook off that another one believes it has. *)
HooksAreOwned ==
  /\ onModel = UNION {owned[m] : m \in HookOwners}
  /\ \A m, k \in HookOwners : m # k => owned[m] \cap owned[k] = {}
=============================================================================
