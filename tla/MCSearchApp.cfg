SPECIFICATION ScreensSpec
CONSTANTS
  Hits <- MCHits
  Malformed <- MCMalformed
  Raising <- MCRaising
  NoSpace <- MCNoSpace
  Unselectable <- MCUnselectable
  RowLimit <- MCRowLimit
  MaxLeft <- MCMaxLeft
INVARIANTS
  TableShowsSearch TextShowsTappedRow
PROPERTY OnlyRaisingTapsLeak
