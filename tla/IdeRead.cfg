SPECIFICATION FairSpec
CONSTANTS
  NSectors = 3
  NWords = 2
  NR_SEC_CACHE = 2
  NR_IRQ_HANDLE = 4
  Registrations <- KernelAndGame
INVARIANT TypeOK
INVARIANT ReadsDisk
INVARIANT CacheHoldsDisk
INVARIANT InterruptAccountedFor
INVARIANT HandlersListed
PROPERTY ReadReturns
