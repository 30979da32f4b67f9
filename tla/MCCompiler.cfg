SPECIFICATION Spec
CONSTANTS
  Programs <- MCPrograms
  Texts <- MCTexts
  Entry = "f"
  Inputs <- MCInputs
  Fuel = 8
INVARIANTS
  ValidAccepted
  AcceptedValid
  FlowTranslatedExactly
  ModuleAssembled
  InstructionsWellTyped
  SameResult
PROPERTIES
  LexesBack
  ParsesBack
CHECK_DEADLOCK FALSE
