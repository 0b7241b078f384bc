SPECIFICATION Spec
CONSTANTS
  PageSize = 2
  Root = "root"
  Repository = {}
  Failing = {}
  Account = {}
  Token = {}
  TokenInput = {}
  TopicInput = {}
  EnvInput = {}
INVARIANT RawKeyExtracted
CHECK_DEADLOCK FALSE
