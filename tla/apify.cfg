\* Calls end: the instance stops once every call and job has.
SPECIFICATION BothSpec
CONSTANTS
    Calls = {c1}
    Attempts = 3
    DayTicks = 2
    DailyMaxDays = 2
    FirstTick = 13
    LastTick = 29
    CampaignDate = {13, 15, 19, 20, 27, 28, 29}
    MaxTotal = 2
    Now = 28
INVARIANTS TypeOK KnownRunRecorded RowsTellTheRun ChartsAddUp
PROPERTY KeepsLedger
CHECK_DEADLOCK FALSE
