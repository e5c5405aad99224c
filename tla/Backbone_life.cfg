\* Two connections, of which one may fall silent, and a start limit of two.
SPECIFICATION FairSpec
CONSTANTS
    Conn = {c1, c2}
    Silent = {c2}
    Tls = TRUE
    Burst = 2
INVARIANTS TypeOK ReceiptsTellTheSession InboundReceiptsAreTrue
PROPERTIES ServedUnlessSilent StopEnds NodeReturns
CHECK_DEADLOCK FALSE
