SPECIFICATION Spec
CONSTANTS
  Domains <- MCDomains
  NoDomain = NoDomain
  Servers = {s1}
  Ports = {1}
  MaxCount = 2
  MaxJumps = 2
  MaxBuffer = 16
  MaxClaimed = 2
  MaxSegments = 3
  Packets <- MCSent
  Layouts <- MCLayouts
  Streams <- MCStreams
  Hellos <- MCHellos
INVARIANTS AttemptsAccounted RightUnlessMixed PacketsTaken RepliesTaken StreamsTaken
PROPERTY AnswersNeedAttempt
CHECK_DEADLOCK FALSE
