SPECIFICATION Spec
CONSTANTS
    Tokens <- SomeTokens
    UrlTexts <- SomeUrls
    Streams <- SomeStreams
    BufferSize = 5
    MaxLine = 13
    MaxHeaders = 2
    MaxRedirects = 2
    MaxBytes = 2
INVARIANTS
    MeaningKept
    RoundTrip
    StaysOnHost
CHECK_DEADLOCK FALSE
