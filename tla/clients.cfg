SPECIFICATION ClientsSpec
CONSTANTS
    SdkCalls = {s1}
    Uploads = {u1, u2}
    Retries = 1
    Absent = Absent
    Old = Old
    New = New
CHECK_DEADLOCK FALSE
INVARIANTS ToldTheTruth SuccessIsExclusive
PROPERTY CallsEnd
