SPECIFICATION StreamSpec
CHECK_DEADLOCK FALSE
CONSTANTS
    o1 = o1
    o2 = o2
    NoOrder = NoOrder
    Workbooks <- MCWorkbooks
    Reports <- MCReports
    Csvs <- MCCsvs
    Uploads <- MCUploads
    Known <- MCKnown
    MaxRequests = 2
INVARIANTS
    ReadInOrder
    RowsUnderTheirWithdrawal
    ToldBalances
    ToldIsQueued
    TellsWhatIsImported
