INIT WorkerInit
NEXT Next
CONSTANTS
  r1 = r1
  r2 = r2
  a = a
  b = b
  inner = inner
  p1 = p1
  p2 = p2
  agent = agent
  f1 = f1
  f2 = f2
  f3 = f3
  f4 = f4
  Programs = {p1, p2, agent}
  Frames = {f1, f2, f3, f4}
  ProgramOf <- MCProgramOf
  NotWindows = {f3}
  Agents = {agent}
  ListedBefore <- MCListedBefore
  Shy = {p1}
  NoFrame = NoFrame
  MaxTroubles = 2
  Roots = {r1}
  Objects = {a, b}
  TextObjects = {a}
  Home <- MCHome
  App <- MCApp
  AlsoListed <- MCTable
  None = None
  MaxSteps = 3
  MaxQueue = 2
  MaxIds = 5
  MaxActions = 1
  MaxHops = 3
  MaxSelected = 1
  RunElements = {a}
  Returning = FALSE
  Vanishing = FALSE
  MaxAxIds = 5
  MaxAxActions = 1
  Walked = {1, 2}
  Refreshed <- MCKeys
  Quiet = 1
  MaxDelay = 2
  MinInterval = 1
  RefreshMax = 2
  MaxClock = 4
  Texts <- MCTexts
  WrapAt = 2
  MaxTextChars = 4
  MaxGeometry = 3
  NoText = NoText
  MaxTyped = 2
  Things <- MCThings
  Becomes <- MCBecomes
  Other = inner
  NameSearchDepth = 2
  Flipped = {"Busy", "Checked", "Sensitive", "Focused", "Focusable", "Expanded", "Horizontal", "Visible"}
  MaxChanges = 2
  Widgets <- MCWidgets
  NoValue = NoValue
  MaxAsked = 2
INVARIANT AxNeverFaults
