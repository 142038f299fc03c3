\* An output that does not fit into a pipe.
SPECIFICATION FairSpec
CONSTANTS
    Capacity = 2
    Outputs = {3}
    Bodies = {0}
    Listeners = {FALSE}
    Terminal = FALSE
    Answers <- OneAnswer
    NoAnswer = NoAnswer
PROPERTIES CallReturns
CHECK_DEADLOCK FALSE
