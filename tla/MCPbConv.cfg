SPECIFICATION ConvSpec
CONSTANTS
  ARG_REG_CNT = 8
  ParamLists <- MCParamLists
INVARIANTS PlacesAgree ParametersDisjoint CountedAreArguments
