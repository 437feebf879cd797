SPECIFICATION FlowFairSpec
CONSTANTS
  Procs <- MCProcs
  Stages <- MCStages
  Vars <- MCVars
  Owner <- MCOwner
  Dsts <- MCDsts
  NotifyVars <- MCNotify
  Outs <- MCOuts
  UiSets <- MCUiSets
  HasUi <- MCHasUi
  ChN = 1
  Word = 12
  UiEvery = 1
  UiAsync = FALSE
  MaxSets = 4
INVARIANTS
  ChangesToldInTime
  UiListSound
PROPERTY UiCatchesUp
CHECK_DEADLOCK FALSE
