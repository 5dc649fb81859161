SPECIFICATION FairBootSpec
CONSTANTS
  MaxRetry = 2
  MaxTrouble = 3
  MaxEvents = 3
  LineMax = 2
  Lines <- LinesMC
INVARIANTS TypeOK FlagSettles NotAbandoned
PROPERTIES ComesBack StaysUp Starts
CHECK_DEADLOCK FALSE
