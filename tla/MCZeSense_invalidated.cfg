\* A client unregisters while an update of its stream is in the buffer.
SPECIFICATION Spec
CONSTANTS
    Regs = {r1}
    Tids = {t1}
    Sensors = {accel}
    EventBased = {}
    Clients = {c1}
    SM_RBUF_SIZE = 2
    COAP_RBUF_SIZE = 1
    SMREQ_RATIO = 1
    COAP_OBS_MAX_FAIL = 0
    FindsInvalid = FALSE
    MaxRef = 2
    NoOwner = NoOwner
    NoReg = NoReg
    QUEUE_REQ_RATIO = 1
    MayTimeOut = FALSE
    SensorsFail = FALSE
    MaxUnderWay = 1
PROPERTY NotifiesOnlyValid
