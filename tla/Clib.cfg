\* Two threads, three parsers: exclusion, handles, the table they make, and
\* every call returns.
SPECIFICATION FairSpec
CONSTANTS
  Threads = {t1, t2}
  NoThread = NoThread
  MaxHandles = 3
INVARIANTS TypeOK EngineExclusion RegistryExclusion NoLockKept HandedOnce
PROPERTIES ImplementsTable NeverRevived CallsReturn
