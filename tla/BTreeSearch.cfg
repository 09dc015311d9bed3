SPECIFICATION FairSpec
CONSTANTS
    Trees <- MCTrees
    Parents <- MCParents
    MaxFaults = 1
    Garbled = Garbled
CHECK_DEADLOCK FALSE
INVARIANTS AnswerRight NoFalseAlarm
PROPERTIES StopIsFinal Terminates
