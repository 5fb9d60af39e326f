SPECIFICATION Spec
CONSTANTS
  c1 = c1  c2 = c2  f1 = f1  f2 = f2  note = note  x = x  y = y
  Cli = {c1}
  File = {f1}
  Name = {note}
  NameOf <- JustF1
  Content = {x, y}
  Nothing = Nothing  Torn = Torn
  MaxTransfers = 2
  MaxCalls = 3
  MaxNow = 1
  MaxKills = 1
  MaxOutages = 1
  MaxEdits = 1
INVARIANTS StoredAsCompared
PROPERTIES NeverOverwrites PendingNotLost
CHECK_DEADLOCK FALSE
