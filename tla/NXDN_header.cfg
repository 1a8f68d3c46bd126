SPECIFICATION Spec
CONSTANTS
  Parts = {"ids"}
  None = None
  NoFile = NoFile
  a = a
  b = b
  c = c
  d = d
  e = e
  A = A
  B = B
  Watched = {"nxdn"}
  Stations = {c, d, e}
  Modules = {A, B}
  Linked <- MCLinked
  StreamIds = {0, 1, 2, 3, 4}
  NoId = 0
  ZeroId = 1
  Callers <- MCCallers
  Versions <- MCVersions
  MaxTime = 2
  MaxWrites = 2
  Modes = {"http", "file", "both"}
  Contents <- MCContents
  WaitCycles = 3
  MaxSeconds = 2
  MaxEdits = 1
  Protocols <- MCProtocols
  Configured <- MCConfigured
  Transcoded = {"B"}
  Helpers = {"gate", "lookup", "report"}
  MaxPending = 1
  Nothing = "nothing"
  Kinds = {"dextra", "dplus", "dcs", "m17", "ysf", "nxdn", "p25", "mmdvm"}
  Autolink = A
  Periods = 2
  Rooms = 26
  FirstRoom = 0
  Starts <- MCStarts
  MaxCommands = 1
  MaxAnswers = 1
  Letters = {a, b, c}
  ModuleLetters = {a, b}
  Uppers = {"A", "B", "C", "F", "G", "N", "Q", "R", "U"}
  Digits = {"0", "3", "7"}
  Marks = {"-"}
  Spellings <- MCSpellings
  Addresses <- MCAddresses
  Endings = {"A"}
  Patches <- MCPatches
  UserIds = {0, 1, 3}
  Reflector <- MCReflector
  Directories <- MCDirectories
CHECK_DEADLOCK FALSE
INVARIANTS
  HeaderMade
