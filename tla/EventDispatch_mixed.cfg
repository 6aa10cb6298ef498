SPECIFICATION Spec
CONSTANTS
  Events = {1, 2, 3, 4}
  Topics <- MCTopics
  TopicOf <- MixedTopicOf
  Priority <- MCPriority
  Addr <- MCAddr
  TextInput = "TEXT_INPUT"
  Killers = {1, 4}
  NoEvent = 0
INVARIANTS
  OneHandlerRuns
  InterruptedStayParked
  MemorySafe
  NoContextLeaked
  ReadsStillHold
PROPERTY
  ImplementsHandlerStack
CHECK_DEADLOCK FALSE
