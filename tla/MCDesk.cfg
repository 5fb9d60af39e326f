SPECIFICATION Spec
CONSTANTS
  i1 = i1  i2 = i2
  Claude1 = Claude1  Gpt = Gpt  Gemini = Gemini  Own = Own
  PlanIds = {i1, i2}
  Renewals <- MCRenewals
  Inputs <- MCInputs
  Days <- MCDays
  Soon = 30
  Nothing = Nothing
  Garbled = Garbled
  Models = {"m1", "m2"}
  Rates <- MCRates
  Calls <- MCCalls
  UsageDays <- MCUsageDays
  Budget = 10
  Shelf = 120
  MaxCalls = 2
  Tree <- MCTree
  Folders <- MCFolders
  Rules <- MCRules
  Commands <- MCCommands
  MaxFiles = 3
  MaxFileBytes = 2
  MaxTotalBytes = 4
  MaxTodos = 2
  Names <- MCNames
  Patterns <- MCPatterns
  Pcs <- MCPcs
  Labels = {"before", "after"}
  Devices = {"a", "b"}
  Versions = {"1", "2"}
  ScoreNoise = 10
  SustainNoise = 5
  TempNoise = 3
  Missing = Missing
  Torn = Torn
  Systems <- MCSystems
  Services = {"print", "scan"}
  Startups = {"cloud", "chat"}
  Disks = {"C"}
  Adapters = {"lan", "wifi"}
  Noise = 2
  Unread = Unread
  NoView = NoView
  Builtins <- MCBuiltins
  Customs <- MCCustoms
  Keys <- MCKeys
  Prompts = 2
  Marks = {700, 5000}
INVARIANTS TypeOK RenewalsInSeries EstimateIsHonest RulesMeanWhatTheySay ScanAccountsForFiles NoSilentChange SnapshotsTellChanges BundleStaysInScope SentIsShown PanelIsFair
PROPERTIES EditsTouchOneEntry
CHECK_DEADLOCK FALSE
