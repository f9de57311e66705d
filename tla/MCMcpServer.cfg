CONSTANTS
    MaxUrlBytes = 3
    MaxHeaderBytes = 6
    MaxHeaderCount = 2
    MaxBodyBytes = 3
    MaxBatchSize = 4
    MaxLineLen = 3
    MaxRequests = 2
    MaxInflightWork = 2
    HeadByte <- Bytes
    BodyByte <- MCBodyByte
    ToLower <- MCToLower
    TransferEncoding <- MCTransferEncoding
    Expect <- MCExpect
    ContinueValue <- MCContinueValue
    Tools <- MCTools
    ToolStatus <- MCToolStatus
    Cycles = {2601, 2602, 2603}
    Broken = {2601}
    Docs <- MCDocs
    TextLength <- MCTextLength
    Requests <- MCRequests
    Inputs <- MCInputs
    BindHost <- MCBindHost
SPECIFICATION Spec
INVARIANTS
    HandledIsSent
    HttpRepliesOwed
    StdioAnswersEveryLine
CHECK_DEADLOCK FALSE
