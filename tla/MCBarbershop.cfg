CONSTANTS
  c1 = c1
  c2 = c2
  c3 = c3
  Clients = {c1, c2, c3}
  Barber = Barber
  Nobody = Nobody
  NoPid = NoPid
  MAX_CLIENTS = 3
  seats = 2
  shaves = 2
  Mortal <- AllMortal
SPECIFICATION VariantSpec
INVARIANTS TypeOK NobodyForgotten OnePlacePerClient ShavesAgree
PROPERTIES LeavesEarlyOnlyWhenFull ImplementsSleepingBarber EveryClientLeaves
  ClientsGoWithBarber
CHECK_DEADLOCK FALSE
