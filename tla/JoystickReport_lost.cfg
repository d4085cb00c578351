\* Every list of buttons and every position, after every other message.
SPECIFICATION Spec
CONSTANTS
    ButtonLists <- Lists
    Positions <- SomePositions
    Modes <- BothModes
    Uninitialized <- SomeBytes
INVARIANT AllButtonsArrive
\* After a write outside the array nothing is said of the process.
CHECK_DEADLOCK FALSE
