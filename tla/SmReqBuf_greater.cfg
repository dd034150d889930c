\* One wait that ends without a signal is enough.
SPECIFICATION Spec
CONSTANTS
    Request = {r1, r2}
    SM_REQ_INVALID = SM_REQ_INVALID
    SM_RBUF_SIZE = 2
    MaxStrays = 1
INVARIANT NeverGreater
