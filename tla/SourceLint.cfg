SPECIFICATION LintSpec
CONSTANTS
  Places <- MCPlaces
  Names <- MCNames
  MaxDepth = 3
  MaxLines = 6
  LoggerWords = {"log", "logger", "self", "this"}
  ModuleNames <- MCModuleNames
  Suites <- MCSuites
  Worlds <- MCWorlds
  Chars <- MCChars
  MaxSource = 5
INVARIANTS
  ReportedOnce
  ScannerFindings
  RuleFindings
  LinesAgree
  RecoversAtNewline
  ExaminedRight
  NoteIsTrue
  CappedReport
  StrictVerdict
CHECK_DEADLOCK FALSE
