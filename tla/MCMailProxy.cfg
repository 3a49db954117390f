SPECIFICATION ProxyFairSpec
CONSTANTS
  Listeners = 2
  Conns = {c1, c2}
  NoConn = NoConn
INVARIANTS
  NoUseAfterFree
  NothingServedAfterStop
  NoDescriptorLeak
PROPERTY
  StopReturns
