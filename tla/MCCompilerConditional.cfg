SPECIFICATION Spec
CONSTANTS
  Programs <- Conditional
  Texts <- DenseOnly
  Entry = "f"
  Inputs <- MCInputs
  Fuel = 8
INVARIANT ValidCompiles
CHECK_DEADLOCK FALSE
