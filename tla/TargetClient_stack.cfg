\* Every client of the stack, alone and combined, under syncs and target changes.
SPECIFICATION Spec
CONSTANTS
    Configs <- MCConfigs
    Datas <- MCDatas
    Calls <- MCCalls
    Now = 8
    Lookback = 4
    Unset = Unset
    NoFilter = NoFilter
    NotRegex = NotRegex
    NoMatch = NoMatch
    Lower <- MCLower
    Upper <- MCUpper
INVARIANTS
    FilterHidesNothingKnown
    AnswerIsAsked
    AnswerIsComplete
    RangeOnRequestGrid
    FailureIsVisible
