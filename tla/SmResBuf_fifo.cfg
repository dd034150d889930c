\* Three responses, a ring of three slots: every position of the two indexes,
\* full, empty and a held put at each of them, ended by a
\* signal, in time, or twice without either.
SPECIFICATION FairSpec
CONSTANTS
    Response = {p1, p2, p3}
    INVALID_RESPONSE = INVALID_RESPONSE
    COAP_RBUF_SIZE = 3
    MaxStrays = 2
INVARIANTS TypeOK NoOverrun NoLostWakeup
PROPERTIES  ReturnTellsInsertion PutReturns
