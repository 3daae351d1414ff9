SPECIFICATION BusSpec
CONSTANTS
    Topics = {audit, other}
    Subscribers = {s1, s2}
    Capacity = 1
    MaxEmitted = 2
    NoTopic = NoTopic
INVARIANTS
    EverySubscriberServed
    SequentialInOrder
