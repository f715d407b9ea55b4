SPECIFICATION SupervisedSpec
CONSTANTS
    NumWorkers = 1
    MaxLives = 1
CHECK_DEADLOCK FALSE
PROPERTIES PubSubServedAgain
