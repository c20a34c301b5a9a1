SPECIFICATION FairSpec
CONSTANTS
  p1 = p1
  p2 = p2
  c1 = c1
  c2 = c2
  NoThread = NoThread
  Producers <- MCProducers
  Consumers <- MCConsumers
  MaxEnq = 2
INVARIANTS TokensCountMessages PopFindsMessage
PROPERTIES ImplementsFifo CallsReturn EveryMessageReturned
