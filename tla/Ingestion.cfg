\* One run, one handler; unlimited dispatch failures, one or two faults.
SPECIFICATION Spec
PROPERTIES
    EventuallyHandled
    DeadLettersDrain
    ReindexRepairs
CHECK_DEADLOCK FALSE
