\* Three requests, a ring of three slots: every position of the two indexes,
\* full, empty and a held put at each of them, and two waits that end without a
\* signal.
SPECIFICATION FairSpec
CONSTANTS
    Request = {r1, r2, r3}
    SM_REQ_INVALID = SM_REQ_INVALID
    SM_RBUF_SIZE = 3
    MaxStrays = 2
INVARIANTS TypeOK NoOverrun NoLostWakeup
PROPERTIES  PutReturns
