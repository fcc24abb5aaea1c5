SPECIFICATION SuiteSpec
CONSTANTS
  Fingers = {f1, f2}
  Buttons = {left}
  Left = left
  Right = right
  NoFinger = none
  MaxMoves = 3
  Pads = {p1, p2}
  NoPad = none
  Slots = {s1}
  MaxTaps = 1
  Steps = 1
  Layouts = {l1, l2}
  NoLayout = none
  LastSlot = 2
  LastLayout = 1
  Orientations = {portrait, landscape}
  NoSlot = none
  Sizes = {p, l, m}
  Wide = {l, m}
  Rates = {30, 60}
  NoSize = none
  MaxResizes = 2
  MaxFailures = 1
  Edges = {"left", "down"}
  Reach = {0, 24}
  MaxCalls = 2
  MaxHosts = 2
  MaxFetches = 2
  StartHosts = {h1, h2}
  MaxHistory = 3
  PageFetches = 2
  BannerFetches = 3
  Stamps = {1, 3}
  MaxUnits = 4
  MaxDropped = 1
  MaxShows = 3
INVARIANTS
  ClientTypeOK
  PointersInStep
  PadsInStep
  SizeFollows
  PagesInStep
  MediaInStep
PROPERTY TemplatesKept
CHECK_DEADLOCK FALSE
