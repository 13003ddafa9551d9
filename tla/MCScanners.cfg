\* What the scanners remember of outputs, with a fork and a restart around four
\* blocks; two orders in two blocks of one or two transactions, with a rollback, a
\* restart and a tracker that has room for both or for one; every dApp scanner
\* alone, with moves of 3, outputs of at most 6 and inputs without addresses, as
\* Ogmios sends them.
SPECIFICATION Spec
CONSTANTS
  Parts = {"threads", "orders", "activity"}
  thread1 = thread1
  thread2 = thread2
  Threads = {thread1, thread2}
  Final = 2
  Scanners = {"dex", "wayup", "iagon", "indigo"}
  TrackerCap = 2
  Retention = 3
  HashRank <- MCHashRank
  MaxHeight = 4
  MaxForks = 1
  MaxBoots = 1
  o1 = o1
  o2 = o2
  Orders = {o1, o2}
  Shapes <- MCShapes
  Caps = {1, 2}
  MaxBlocks = 2
  MaxRollbacks = 1
  MaxRestarts = 1
  Apps <- MCApps
  Amounts = {3}
  MaxHeld = 6
  MaxOpen = 3
  InputsNamed = FALSE
INVARIANTS
  OpenIsTracked
  SpentIsForgotten
  
  ToldOnce
  SettlementIsTold
  WantIsRight
  PillIsRight
  ActionIsTold
  NothingElseIsTold
  AmountIsReal
  ActorIsUser
CHECK_DEADLOCK FALSE
