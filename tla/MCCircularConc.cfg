\* Two slots, so that the writer laps the reader within six elements; builds
\* that copy a Head in one access or field by field; one process ends at any
\* point.
CONSTANTS
    N = 2
    LapMod = 5
    WideCopies = {TRUE, FALSE}
    MaxWrites = 6
    MaxCrashes = 1
SPECIFICATION Spec
INVARIANTS TypeOK WriterStaysInData ReadsExact
PROPERTIES SoundReadsInOrder ReaderDrains ReaderRecovers
CHECK_DEADLOCK FALSE
