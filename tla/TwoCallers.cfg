SPECIFICATION Spec
CONSTANTS
  t1 = t1
  t2 = t2
  c1 = c1
  c2 = c2
  NoThread = NoThread
  Threads = {c1, c2}
  Topics = {t1}
  Msgs = {m1, m2, m3}
  EmptyMsgs = {}
  CacheUsers <- TwoCallers
  PlainUsers <- NoCaller
  NumMax = 1
  QueueMax = 2
  KeyCut <- WholeKeys
  DescNum <- NoDigits
  Faults = {}
  MachineCrash = FALSE
SYMMETRY MsgSymmetry
INVARIANT Retained
