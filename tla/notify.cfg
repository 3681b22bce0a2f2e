SPECIFICATION FairSpec
CONSTANTS
  n1 = n1
  n2 = n2
  c1 = c1
  c2 = c2
  Uses <- MixedUses
  MaxAdds = 2
INVARIANTS
  HandOverInOrder
PROPERTIES
  DeliveryExact
  EveryoneTold
  WaitEnds
CHECK_DEADLOCK FALSE
