\* Two turns, every key between their events, one failing call or broken stream.
SPECIFICATION Spec
CONSTANTS
  g1 = g1  g2 = g2  s1 = s1  s2 = s2  alpha = alpha  beta = beta
  Games = {g1, g2}
  Sessions = {s1, s2}
  GameOf <- OneEach
  Listing <- Listed
  TitleOf <- Titles
  Letters = {beta}
  PanelOrder <- OnePanel
  GamePanels = {"characters"}
  TabParts = {"preview", "found"}
  MaxTurns = 2
  Deltas = 1
  MaxQuery = 1
  MaxFaults = 1
INVARIANTS OneStreamAtATime TranscriptIsTrue ScreenIsTrue
PROPERTIES StaleDataIsReported
VIEW AllButTheTab
