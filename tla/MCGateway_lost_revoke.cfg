SPECIFICATION Spec
CONSTANTS
  t1 = t1  t2 = t2  t3 = t3  t4 = t4
  claude = claude  gpt = gpt  ollama = ollama  m1 = m1  m2 = m2
  Task = {t1, t2, t3, t4}
  Provider = {claude, gpt}
  Custom = {}
  Local = {}
  Scope = {0}
  Model = {m1}
  Unnamed = Unnamed
  NoPolicy = NoPolicy  Torn = Torn  NoFile = NoFile  NoTask = NoTask
  MaxKills = 0
  MayAbandon = FALSE
  LedgerMayFail = FALSE
  SerialEdits = FALSE
SYMMETRY Symmetry
INVARIANTS RevokedNeverCalled
CHECK_DEADLOCK FALSE
