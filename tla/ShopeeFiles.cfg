SPECIFICATION Spec
CHECK_DEADLOCK FALSE
CONSTANTS
    Earned = {1, 2}
    Charged = {1}
    Families <- OneAndTwo
    Books <- MCBooks
INVARIANTS
    AddsUp
    TrueFunding
