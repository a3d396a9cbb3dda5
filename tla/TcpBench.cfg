\* Two connections, messages cut in two; the server may fail.  Two messages in
\* flight fit into the buffers, three do not.
SPECIFICATION Spec
CONSTANTS
    Conns = {c1, c2}
    Msgs = 3
    Size = 2
    Pipelines = {2, 3}
    Bulk = 5
    SockBuf = 2
    BufSize = 2
    MaxAttempts = 2
    MayFail = TRUE
INVARIANTS
    StartTogether
    BytesConserved
    PipelineKept
    ReportMeansDone
PROPERTIES
    DriverEnds
    HandlersEnd
\* The driver ends; that it does is DriverEnds.
CHECK_DEADLOCK FALSE
