\* Whether a registration is compared with the one before it when the backend is
\* ahead of this process, as while it catches up after a stop.
SPECIFICATION Spec
CONSTANTS
  Parts = {"registrations"}
  stake1 = stake1
  stake2 = stake2
  pool = pool
  NoValue = NoValue
  TxKinds <- MCTxKinds
  Served <- MCServed
  Meaning <- MCMeaning
  TRACKER_CAP = 2
  EVICTED = 1
  SEED = 2
  Lag = 0
  MaxAhead = 2
  MaxTxs = 3
  MaxBlocks = 3
  MaxForks = 1
  key1 = key1
  key2 = key2
  script = script
  byron = byron
  token = token
  other = other
  Gone = Gone
  Assets = {token, other}
  AssetOrder <- MCAssetOrder
  KeyOwners = {key1, key2}
  ScriptOwners = {script}
  ByronOwners = {byron}
  Offers <- MCOffers
  MAX_ITEMS = 1
  MaxStamps = 1
  id1 = id1
  id2 = id2
  gov1 = gov1
  gov2 = gov2
  Idle = Idle
  Listing <- MCListing
  PAGE = 1
  Actions = {gov1, gov2}
  MaxName = 2
  MaxScrapes = 2
  MaxLookups <- MCMaxLookups
  MaxAsking = 2
INVARIANTS
  EarlierRegistrationIsRead
CHECK_DEADLOCK FALSE
