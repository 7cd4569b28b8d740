SPECIFICATION LiveSpec
CONSTANT
  Inputs <- Outside
INVARIANT HolesAreSought
