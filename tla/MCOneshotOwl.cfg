SPECIFICATION OneshotSpec
CONSTANTS
  gptq = gptq
  rtn = rtn
  owl = owl
  none = none
  NoIndex = none
  MaxStep = 0
  Subgraphs = 2
  Modifiers <- JustOwl
  Recipes <- OwlRecipes
  Start <- Always
  End <- Always
  DataMods <- JustOwl
  HookMods <- JustOwl
  OwlMods <- JustOwl
  AutoRoundMods <- NoModifiers
  UserPipelines <- Independent
INVARIANT CallsAreInState
