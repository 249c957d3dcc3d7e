\* One-shot tasks and a reusable one, and a clock of a few ticks.
CONSTANTS
    Tasks = {a, b, r}
    Reusable = {r}
    StopTask = stop
    None = None
    MaxTime = 3
SPECIFICATION Spec
INVARIANTS
    NeverOversleeps
PROPERTIES
    QueueSpec
    TasksAndStopServed
CHECK_DEADLOCK FALSE
