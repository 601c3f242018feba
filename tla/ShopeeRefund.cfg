SPECIFICATION Spec
CHECK_DEADLOCK FALSE
CONSTANTS
    Earned = {1, 2}
    Charged = {}
    Families <- OnlyRefunding
    Books <- MCBooks
INVARIANTS
    RefundReplaced
