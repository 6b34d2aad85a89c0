CONSTANTS
    Threads = {t1,t2}
    t1 = t1
    t2 = t2
    event = event
    sem = sem
    mutant = mutant
    section = section
    lock = lock
    Nobody = Nobody
    NoObject = NoObject
    NotificationEvents = {}
    SynchronizationEvents = {event}
    Semaphores = {sem}
    Mutants = {}
    Sections = {}
    Locks = {}
    Limit = 1
    MaxDepth = 1
    TitleCalls <- TimedCalls
    InterruptEvents = {event}
SPECIFICATION Spec
PROPERTIES
    ExactlyOnce
