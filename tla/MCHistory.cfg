\* Four payments, two to a page; up to two clicked past before they were shown.
CONSTANTS
    MaxRows = 4
    PageSize = 2
    MaxSkips = 2
SPECIFICATION Spec
INVARIANTS TypeOK MissedOnlyByOverlap RepeatedOnlyByInsert
