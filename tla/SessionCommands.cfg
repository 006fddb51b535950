\* Two Control calls, four requests: a device, a transport, a consumer and one more.
SPECIFICATION FairSpec
CONSTANTS
  ConsumerId = {k1}
  MaxRequests = 4
  MaxQueued = 1
  MaxCalls = 2
INVARIANTS
  AnsweredOnce
  CommandsUseWhatLives
  SinksDetached
  StreamsOutliveTheirUse
PROPERTIES
  EveryRequestAnswered
CHECK_DEADLOCK FALSE
