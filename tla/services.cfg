\* Two of every actor, two of what they share: part by part, never two at once.
SPECIFICATION Spec
CONSTANTS
  Actor = {x1, x2}
  Thing = {y1, y2}
  None = None
  Name = {"n1"}
  Skill = {"k1"}
  Wording = {"t1"}
  MaxCandidates = 1
  Record = {"e1"}
  Key = {"k1"}
  ChannelKey = {"k1"}
  MasterKey = {"m1"}
  Capability = {"c1"}
  Role = {"r1"}
  Profile = {}
  Mask = Mask
  v1 = v1
  Value = {v1}
  Seed <- OneEach
  Reader = {"x"}
  MaxQueue = 2
  MaxTurns = 2
  MaxAttempts = 2
  Program = {"git", "make", "rm"}
  Script <- CommandLines
  Whitelist = {"git"}
  Generations = 2
  MaxItems = 2
  l1 = l1
  l9 = l9
  Line = {l1, l9}
  Length <- LineLength
  Pattern = {l9}
  Garbled = l1
  MaxLines = 2
  LIST_LIMIT = 1
  GREP_LIMIT = 2
  GREP_LINE_CHARS = 2
  GREP_TOTAL_CHARS = 3
  READ_FILE_CHARS = 5
  Note <- Notes
  Place <- Places
  LONGEST_PLACE = 2
  Server = {Server}
  Grants = {{"files", "forge", Server}, {"bash", Server}}
  Forge = TRUE
  Console = Console
  Order <- TableOrder
  Contents <- Sources
  Strict = {"skills"}
  Renamed = {"messages"}
  Preset = {"skills"}
  Operator = {"n1"}
  Fault = {"data", "chain", "roots", "database", "commands"}
  MaxEdits = 3
  Task = {"t1", "t2"}
  Kind = {"k1"}
  Package <- Typed
  Url = {"u1"}
  Dialog = {"d1"}
  Posted <- Scripted
  Address = {"u1", "u2"}
  AutoCreate = TRUE
  MaxOpenings = 1
  MaxAnswers = 1
  Broken = Broken
  NoText = NoText
SYMMETRY Sym
CHECK_DEADLOCK FALSE
INVARIANTS
  LibraryIsSound SecretsSurvive AnsweredIsStored RunsAreTold OnlyReleasedRuns
  ResultsFitTheContext MigrationIsWhole DeliveryIsSound IntakeIsSound
PROPERTY RewritesKeepTheRest
