\* One job and one other hold of its user, two workers; a settlement is given
\* up after two failures; two faults.
SPECIFICATION Spec
CONSTANTS
    w1 = w1
    w2 = w2
    Client = Client
    Owner = Owner
    Sweep = Sweep
    None = None
    Workers = {w1, w2}
    MaxRetries = 2
    OtherHolds = 1
    MaxFaults = 2
\* A job that is over rests.
CHECK_DEADLOCK FALSE
INVARIANTS
    HoldEndsOnce
    HoldIsNotForgotten
    RefundedIsStopped
    ChargedIffCompleted
PROPERTIES
    HoldEnds
