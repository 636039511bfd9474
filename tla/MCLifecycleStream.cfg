CONSTANTS
  Handlers = {h1, h2}
  NoHandler = NoHandler
  Runners = {g1, g2, g3}
  Nil = Nil
  MaxLife = 2
  MaxEvents = 2
  MaxOn = 2
SPECIFICATION FairSpec
INVARIANTS HandlersSerialized NoStaleDelivery RegisteredIsServed
PROPERTIES WireOrder ResetReturns ReportReturns DisconnectInHandlerReturns
CHECK_DEADLOCK FALSE
