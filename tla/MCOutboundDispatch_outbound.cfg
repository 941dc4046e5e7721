SPECIFICATION FairSpec
CONSTANTS
  chatA = chatA
  chatB = chatB
  chanA = chanA
  chanB = chanB
  chanC = chanC
  Disabled = {chanC}
  Chats <- TheChats
  Channels <- TheChannels
  ChannelOf <- Apart
  Script <- StreamAndReplies
  PendingLimit = 2
  Concurrency = 2
  MaxTries = 2
  Overlap = FALSE
  MaxActions = 1
  MaxFails = 1
INVARIANTS TypeOK SlotsConserved OneSendPerChat StreamsContiguous SendsOnLiveChannel SaturationKeeps
PROPERTIES ImplementsFeed EverythingSettles
CHECK_DEADLOCK FALSE
