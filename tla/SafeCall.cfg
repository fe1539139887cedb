\* Two chunks of up to four bytes on each stream, buffers of three: a chunk fits,
\* fits exactly, overflows by one or is larger than the buffer.
CONSTANTS
    OutputMaxSize = 3
    MaxChunk = 4
    MaxWrites = 2
SPECIFICATION FairSpec
INVARIANTS
    TypeOK
    BuffersBounded
    OutputIsBoth
    TruncationReported
PROPERTIES
    CallSettles
CHECK_DEADLOCK FALSE
