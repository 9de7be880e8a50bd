SPECIFICATION ApiSpec

CONSTANTS
  r1 = r1
  r2 = r2
  nobody = nobody
  Nobody = nobody
  Requests <- TwoRequests
  Endpoints <- ReceiptAndSend

INVARIANTS
  WarningShowsItsRequest

CHECK_DEADLOCK FALSE
