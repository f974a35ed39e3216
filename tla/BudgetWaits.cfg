SPECIFICATION MCFairSpec
CONSTANTS
  k1 = k1
  b1 = b1
  b2 = b2
  b3 = b3
  c1 = c1
  c2 = c2
  i1 = i1
  i2 = i2
  Campaigns = {k1}
  Bids = {b1, b2}
  CampaignOf <- MCCampaignOf
  CpcUsd <- MCCpcUsd
  ChargesUsd <- ReservedCharge
  Calls = {c1, c2}
  Instances = {i1}
  InstanceOf <- OnOneInstance
  PoolMax = 2
  ReservationTtl = 1
  DayLength = 1
  MaxTime = 1
  InitialBudgets <- OneDollar
  Upserts <- MCUpserts
PROPERTY CallsReturn
