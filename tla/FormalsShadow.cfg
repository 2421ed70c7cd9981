SPECIFICATION Spec
CONSTANTS
  XLen = 16
  Globals <- MCGlobals
  Formals <- MCFormals
  Specs <- MCSpecs
  Memory <- MCMemory
  StateValue <- MCStateValue
  ParamValue <- MCParamValue
INVARIANT FormalsShadowGlobals
