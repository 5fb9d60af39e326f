SPECIFICATION Spec
CONSTANTS
  t1 = t1  t2 = t2  k1 = k1
  Tasks = {t1, t2}
  Commands = {k1}
  Calls = {t1, t2, k1}
  Convs = {c1}
  Providers = {p1, own}
  Custom = {own}
  Unnamed = Unnamed
  Models = {m1, m2}
  User = User
  Free = Free
  MaxMessages = 2
  MaxChars = 1
  ContextMessages = 2
  ContextChars = 3
  Label = 1
  Overlap = FALSE
  MaxKills = 1
  MaxChanges = 1
INVARIANTS NamesTheModelThatAnswered
PROPERTIES ImplementsTranscript NoStaleContext EveryCallEnds
CHECK_DEADLOCK FALSE
