\* One client answers a gap with a reference the gap model refuses: the ledger does
\* not load again.
SPECIFICATION GapSpec
CONSTANTS
    Clients = {c1, c2}
    GapIds = {g1, g2}
    References = {ref, refused}
    Rejected = {refused}
    Times = {0, 1}
    Unset = Unset
INVARIANTS
    LedgerStaysReadable
CHECK_DEADLOCK FALSE
