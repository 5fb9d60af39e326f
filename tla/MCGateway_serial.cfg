SPECIFICATION Spec
CONSTANTS
  t1 = t1  t2 = t2  t3 = t3  t4 = t4
  claude = claude  gpt = gpt  ollama = ollama  m1 = m1  m2 = m2
  Task = {t1, t2, t3}
  Provider = {claude, ollama}
  Custom = {ollama}
  Local = {ollama}
  Scope = {0, 1}
  Model = {m1, m2}
  Unnamed = Unnamed
  NoPolicy = NoPolicy  Torn = Torn  NoFile = NoFile  NoTask = NoTask
  MaxKills = 1
  MayAbandon = TRUE
  LedgerMayFail = TRUE
  SerialEdits = TRUE
SYMMETRY Symmetry
INVARIANTS RevokedNeverCalled OneTruthfulRecord
CHECK_DEADLOCK FALSE
