SPECIFICATION PinsSpec
CONSTANTS
  Pins = {p1}
  MaxLives = 2
  Casts = {c1, c2}
  QueueMax = 1
  Shows = {1, 2, 3}
INVARIANTS
  PinsReachable
  CardsGiveWay
PROPERTIES
  CloseReachesPins
CHECK_DEADLOCK FALSE
