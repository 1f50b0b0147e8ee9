CONSTANTS
    NULL = NULL
    AttributesCharset <- MC_Charset
    AttributesNaturalLanguage <- MC_NaturalLanguage
    PrinterUri <- MC_PrinterUri
    Inserts <- MC_NoInserts
    Calls <- MC_TargetCalls
    PushTags = {}
    MaxCalls = 5
    Payloads <- MC_Payloads
    OpCode = 2
    RequestId <- MC_RequestId
    JobId <- MC_JobId
    DefaultCharset <- MC_DefaultCharset
    DefaultLanguage <- MC_DefaultLanguage
    CupsOps <- MC_NoCupsOps
    CupsUris <- MC_CupsUris

SPECIFICATION Spec

INVARIANT OperationTargetOrder
