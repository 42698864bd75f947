CONSTANTS
  firm = firm
  rival = rival
  agent1 = agent1
  agent2 = agent2
  Organisation = {firm, rival, agent1, agent2}
  Credential = {c1}
  CredentialInputs <- MCCredentialInputs
  MandateInputs <- MCMandateInputs
  Answers <- MCAnswers
  Endpoints <- MCEndpoints
  Values = {1, 2}
  Request = {r1}
  Production = TRUE
  MaxMandates = 2
  MaxTime = 2
  None = None
SPECIFICATION MCSpec
INVARIANTS Inv MemoryAgrees
PROPERTIES PassesOnlyOnDecision RevocationDrains
