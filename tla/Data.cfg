SPECIFICATION MCSpec
CONSTANTS
    Programs <- MCPrograms
    Calls <- MCCalls
    MaxCalls <- MCMax
    IntBits = 6
INVARIANTS FieldsExact HistoryFree
PROPERTIES ConvertedExactly
CHECK_DEADLOCK FALSE
