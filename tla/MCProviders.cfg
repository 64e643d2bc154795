CONSTANTS
  Provider = {p1, p2, p3}
  Variant = {v1, v2}
  None = None
  Swallow = FALSE
  Negotiation = {n1, n2, n3}
  MinPort = 10
  MaxPort = 11
  Hosts = 1
  MaxTokens = 4
  MaxPiece = 2
  MaxAudio = 2
  Window = 3
  Overlap = 1
  Interval = 1
  MaxClock = 8
  Clip = {m1, m2}
  Custom = {m2}
  ClipFrames = 2
  Highest = 2
  StepsPerFrame = 2
  QueueSize = 2
  MaxRendered = 3
  MaxGenerations = 3
  MaxResponse = 2
  NumScripts = 2
  Target = {t1}
  MaxHandlers = 3
SPECIFICATION ProvidersSpec
SYMMETRY Symmetry
INVARIANTS
  RightModel
  RangeSound
  SpeaksWhole
  ResetSilences
  WindowsSound
  OwnClip
  SimSound
  InterruptedSilent
  ScriptsTornDown
  FewSkipped
CHECK_DEADLOCK FALSE
