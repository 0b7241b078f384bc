SPECIFICATION Spec
CONSTANTS
  PageSize = 2
  Root = "root"
  Repository <- MCRepository
  Failing <- MCFailing
  Account = {"c", "d"}
  Token = {"t"}
  TokenInput <- MCTokenInput
  TopicInput <- MCTopicInput
  EnvInput <- MCEnvInput
INVARIANTS
  RawKeyRight
  FeeChecksRight
  EndpointsCovered
  TestsCounted
CHECK_DEADLOCK FALSE
