SPECIFICATION DevicesSpec
CONSTANTS
  Inputs = {"i1"}
  Outputs = {"o1", "o2"}
  MaxCalls = 2
  MaxHotplugs = 2
INVARIANTS SelectionConsistent NothingLeftOpen
