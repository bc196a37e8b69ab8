\* Two transcripts, one of which may resume the other, a chunk of two files
\* and two lines that may reach it in parts; two runs may be cut short or
\* reads fail.
SPECIFICATION IngestSpec
CONSTANTS
    Files = {s1, s2}
    CHUNK_SIZE = 2
    MaxLines = 2
    MaxTicks = 2
    MaxCrashes = 2
INVARIANTS UtterancesKept GrowthIsSeen UsageComplete
PROPERTIES UsageArrives
