------------------------------ MODULE MCEventBus ------------------------------
\* A slow subscriber with one slot beside a faster one with two, six events.
EXTENDS EventBus

CONSTANTS slow, fast

MCSubscribers == {slow, fast}
MCCapacity == [s \in MCSubscribers |-> IF s = slow THEN 1 ELSE 2]
=============================================================================
