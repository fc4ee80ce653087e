SPECIFICATION FairSpec
CONSTANTS
  P = 3
  Msgs = 2
  Settled <- Staggered
  Behind = {}
INVARIANTS TypeOK CountsAreVoters NoPanic
PROPERTIES AllDeliverAll ImplementsBroadcast
