\* Outputs and bodies that fit into a pipe.
SPECIFICATION FairSpec
CONSTANTS
    Capacity = 24
    Outputs <- MCOutputs
    Bodies <- MCBodies
    Listeners = {TRUE, FALSE}
    Terminal = FALSE
    Answers <- MCAnswers
    NoAnswer = NoAnswer
INVARIANTS WholeOutput WholeBody OnlyForkThrows HeadersRemoved
PROPERTIES CallReturns ImplementsCall
CHECK_DEADLOCK FALSE
