CONSTANTS
    Regs = {r1, r2}
    FREQ = 10
    RTP_TSCLOCK_FREQ = 1000
    NTP_FREQ = 10
    INT_RANGE = 4
    Starts = {450}
    HEADER = 4
    TIMESTAMP = 4
    CHARLEN = 20
    Values = 1
    RTCP_SR_BANDWIDTH_THRESHOLD = 28
    COAP_RBUF_SIZE = 1
    None = None
    MaxNow = 2
    MaxQueued = 1
    MaxStarts = 3
SPECIFICATION Spec
INVARIANTS TypeOK PeriodForStreams ReportsPrompt ReportsInferred
PROPERTIES NotificationsInStep
