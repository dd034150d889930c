CONSTANTS
    EventBased = {prox, orient}
    SM_RBUF_SIZE = 2
    COAP_RBUF_SIZE = 2
    SMREQ_RATIO = 2
    QUEUE_REQ_RATIO = 2
    MaxBurst = 2
SPECIFICATION FairSpec
INVARIANTS TypeOK AloneWhenFreeing
PROPERTIES ExitOrStarved RequestsPut ResponsesPut CarriersEnd
