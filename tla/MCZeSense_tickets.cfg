\* Two clients, two addresses, buffers that fill up, puts that time out, and a
\* libcoap that may hand out invalid registrations: all that can go wrong with
\* the references.
SPECIFICATION Spec
SYMMETRY Symmetry
CONSTANTS
    Regs = {r1, r2}
    Tids = {t1}
    Sensors = {accel}
    EventBased = {}
    Clients = {c1, c2}
    SM_RBUF_SIZE = 2
    COAP_RBUF_SIZE = 2
    SMREQ_RATIO = 1
    COAP_OBS_MAX_FAIL = 0
    FindsInvalid = TRUE
    MaxRef = 2
    NoOwner = NoOwner
    NoReg = NoReg
    QUEUE_REQ_RATIO = 1
    MayTimeOut = TRUE
    SensorsFail = FALSE
    MaxUnderWay = 1
INVARIANTS
    TypeOK
    TicketsCovered
    UpdatesCovered
    NoDanglingTicket
    StopsConcernInvalid
