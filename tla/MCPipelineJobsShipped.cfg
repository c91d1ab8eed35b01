SPECIFICATION Spec
CONSTANTS
    w1 = w1
    w2 = w2
    b1 = b1
    b2 = b2
    Workers = {w1}
    Runs = {1}
    Batches = {b1}
    JobStatusCheck <- ShippedCheck
    MaxFaults = 0
PROPERTY FreshBatchIsAccepted
