SPECIFICATION FlushingSpec
CONSTANTS
  t1 = t1
  t2 = t2
  c1 = c1
  c2 = c2
  NoThread = NoThread
  Threads = {c1, c2}
  Topics = {t1}
  Msgs = {m1, m2}
  EmptyMsgs = {}
  CacheUsers <- TwoCallers
  PlainUsers <- NoCaller
  NumMax = 0
  QueueMax = 1
  KeyCut <- WholeKeys
  DescNum <- NoDigits
  Faults = {"get", "put"}
  MachineCrash = FALSE
PROPERTIES ConfirmedCleared CallsEnd
