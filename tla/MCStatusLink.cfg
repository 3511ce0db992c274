SPECIFICATION FairSpec
CONSTANTS
    Counts <- MCCounts
    MaxStream = 2
PROPERTIES
    AnswerIsShown
