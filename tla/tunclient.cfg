CONSTANTS
  Wnd = 2
  RecvBuf = 3
  SndBuf = 2
  MaxUp = 4
  MaxDown = 4
SPECIFICATION FairSpec
INVARIANTS TypeOK WindowFitsBuffer CallbackKnowsFate NothingIsStuck
PROPERTIES ImplementsPipes EndsAreGraceful EndsAreCleanedUp
