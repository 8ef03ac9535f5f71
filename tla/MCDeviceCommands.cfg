CONSTANTS
  NoCall = NoCall
  Calls <- Requests
  Closers <- OneCloser
  MaxSeq = 5
  AsyncSeqs = {}
  MaxInFlight = 0
  Channels <- SomeChannels
  MaxFilters = 2
SPECIFICATION CommandsSpec

  
  
PROPERTIES
  LinkDownEndsAll
CHECK_DEADLOCK FALSE
