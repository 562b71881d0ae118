SPECIFICATION RetrySpec
CONSTANTS
  t1 = t1
  t2 = t2
  c1 = c1
  c2 = c2
  NoThread = NoThread
  Threads = {c1, c2}
  Topics = {t1, t2}
  Msgs = {m1, m2, m3}
  EmptyMsgs = {m3}
  CacheUsers <- OnlyT1
  PlainUsers <- OnlyT2
  NumMax = 0
  QueueMax = 1
  KeyCut <- WholeKeys
  DescNum <- NoDigits
  Faults = {"del"}
  MachineCrash = FALSE
INVARIANTS Retained AckMatches
PROPERTY CallsReturn
