SPECIFICATION SchedSpec

CONSTANTS
  Requests = {1, 2, 3}
  Shapes <- SmallShapes
  PromptInstances <- TwoPrompts
  TokenInstances <- TwoTokens
  Policies <- AllPolicies
  NoInstance = NoInstance

PROPERTIES
  KVTokenJSQJoinsSmallest
