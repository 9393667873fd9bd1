\* Three calls of msgEncode and msgDecode, in any order, on one object or several.
CONSTANTS
    Messages <- MCMessages
    Texts <- MCTexts
    MaxCalls = 3
    MaxHeap = 16
SPECIFICATION Spec
INVARIANTS TypeOK RoundTrip PointersLive OnlyFailuresLeak ItemsRoundTrip
CHECK_DEADLOCK FALSE
