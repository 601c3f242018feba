SPECIFICATION FundSpec
CHECK_DEADLOCK FALSE
CONSTANTS
    Length = 5
    Earned = {1, 2}
    Spent = {1, 2}
    Skipped = {"InProcess", "Failed", "Other"}
    MaxLag = 2
    Cut = 2
    Books <- MCBooks
INVARIANTS
    AddsUp
    PaidOnce
    TrueFunding
