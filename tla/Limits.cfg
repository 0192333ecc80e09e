\* Two permits and four callers: two inside, two in the queue.  The event loop
\* and two pool threads; a burst of two, and half a token refilled per tick.
SPECIFICATION Spec
CONSTANTS
    c1 = c1  c2 = c2  c3 = c3  c4 = c4
    Callers = {c1, c2, c3, c4}
    Concurrency = 2
    loop = loop  p1 = p1  p2 = p2
    Threads = {loop, p1, p2}
    Burst = 2
    Cost = 2
    Rate = 1
    MaxClock = 5
    NotRead = NotRead
INVARIANTS NoLostWakeup OverissueBounded BurstIsAvailable
PROPERTIES NoOvertaking WaitersServed
