SPECIFICATION FairSpec
CONSTANTS
  Events = {1, 2, 3}
  Topics <- MCTopics
  TopicOf <- TextTopicOf
  Priority <- MCPriority
  Addr <- MCAddr
  TextInput = "TEXT_INPUT"
  Killers = {2}
  NoEvent = 0
PROPERTIES
  EveryEventDeleted
  KillEnds
