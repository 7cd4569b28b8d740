SPECIFICATION LiveSpec
CONSTANT
  Inputs <- OnePlace
INVARIANT PartsHaveTwo
