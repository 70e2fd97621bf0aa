CONSTANTS
  Width = 3
  Height = 3
  Fills <- MCFills
  Bitmaps <- MCBitmaps
  Overlays <- MCOverlays
  Clips <- MCClips
  KNOCKOUT_ENTRIES = 5
  KNOCKOUT_BOXES = 8
  KNOCKOUT_POLYGONS = 4
  Points = {2, 4}
  MaxPlots = 4
  MaxNesting = 2
SPECIFICATION Spec
CHECK_DEADLOCK FALSE
INVARIANTS TypeOK ShowsTheSame PlottedOnce
