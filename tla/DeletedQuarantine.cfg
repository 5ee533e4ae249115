SPECIFICATION Spec
CONSTANTS
  e1 = e1
  e2 = e2
  e3 = e3
  alice = alice
  bob = bob
  Events = {e1, e2, e3}
  Senders = {alice, bob}
  SenderOf <- SenderOfInstance
  NoEvent = NoEvent
  MaxRecords = 2
  MaxRecordsPerSender = 1
  PayloadRetention = 2
  MaxTombstones = 2
  TombstoneRetention = 1
  InitialRetryDelay = 1
  MaxRetryDelay = 2
  Burst = 1
  RefillSecs = 2
  MaxPolicySenders = 1
  ChargeRetention = 1
  MaxCharges = 2
  MaxChargesPerSender = 2
  MaxNow = 4
INVARIANT DeletedStaysDeleted
