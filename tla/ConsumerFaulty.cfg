SPECIFICATION Spec
CONSTANTS
  c1 = c1
  c2 = c2
  none = none
  t1 = t1
  t2 = t2
  Threads = {c1, c2}
  NoThread = none
  Starters = {c1}
  Topics = {t1}
  Requests = {0, 1, 2, 3}
  MaxLog <- LogOf3
  Faults = {"leader", "offset", "fetch"}
  MaxErrors = 2
INVARIANTS TypeOK InSequence StartsWhereAsked TailSkipsOld
