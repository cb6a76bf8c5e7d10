SPECIFICATION RSpec
CONSTANTS
  Players = {p1, p2, p3, p4, p5}
  Formats <- MCFormats
  MaxHosts = 1
  Nobody = Nobody
SYMMETRY Symmetry
INVARIANTS SwissStillPlayed
PROPERTIES RoundSeatsField ByesSpread NoNeedlessRematch
CHECK_DEADLOCK FALSE
