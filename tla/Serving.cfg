SPECIFICATION FairServingSpec

CONSTANTS
  Requests = {r1, r2, r3}

INVARIANTS
  NeverRaises
  TiersAgree
  SubmittedInFlight
  PromptRunsFirst

  
