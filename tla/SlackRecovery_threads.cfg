\* A channel message with a thread: a reply is delivered with the channel.
CONSTANTS
  MaxSlackMsg = 3
  Root = 1
  Engaging = {}
  Poison = {}
  MaxSlackAttempts = 2
  Slice = 2
  MaxSlackCrash = 0
  MaxSlackFaults = 0
SPECIFICATION SlackSpec
INVARIANT SlackSkipsNothing
CHECK_DEADLOCK FALSE
