CONSTANTS
    NULL = NULL
    AttributesCharset <- MC_Charset
    AttributesNaturalLanguage <- MC_NaturalLanguage
    PrinterUri <- MC_PrinterUri
    Inserts <- MC_Inserts
    Calls <- MC_Calls
    PushTags = {2}
    MaxCalls = 3
    Payloads <- MC_Payloads
    OpCode = 2
    RequestId <- MC_WideRequestId
    JobId <- MC_JobId
    DefaultCharset <- MC_DefaultCharset
    DefaultLanguage <- MC_DefaultLanguage
    CupsOps <- MC_CupsOps
    CupsUris <- MC_CupsUris

SPECIFICATION Spec

INVARIANT TypeOK
PROPERTY MessageSpec
INVARIANT HeaderOrder
