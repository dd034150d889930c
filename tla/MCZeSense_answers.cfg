\* An event based sensor, with its carrier thread, and an address that two clients may get
\* in turn; the request buffer has room for all the requests there are, so the CoAP thread
\* is never held.  The sensor may fail to be turned on or off.
SPECIFICATION FairSpec
CONSTANTS
    Regs = {r1}
    Tids = {t1}
    Sensors = {prox}
    EventBased = {prox}
    Clients = {c1, c2}
    SM_RBUF_SIZE = 6
    COAP_RBUF_SIZE = 1
    SMREQ_RATIO = 1
    COAP_OBS_MAX_FAIL = 1
    FindsInvalid = FALSE
    MaxRef = 2
    NoOwner = NoOwner
    NoReg = NoReg
    QUEUE_REQ_RATIO = 2
    MayTimeOut = FALSE
    SensorsFail = TRUE
    MaxUnderWay = 1
INVARIANTS TicketsBalance OneshotsAccounted OneStreamEach
PROPERTIES SwitchedOnDemand OneshotsAnswered InvalidFreed ImplementsObservation
