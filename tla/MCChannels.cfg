\* Three packets in every fragmentation; every packet class; two closers,
\* a sender, a remover and the closing manager on one channel.
SPECIFICATION MCSpec
CONSTANTS
    HeaderSize = 2
    MAX_BUFFER_SIZE = 4
    Bodies = {0, 1, 2, 7}
    MaxPackets = 3
    MaxParts = 4
    Owner = o
    Closers = {c1, c2}
    Senders = {s}
    Removers = {r}
    Enders = {e}
INVARIANTS
    Consistent
    Faithful
PROPERTIES
    Queue
    Delivery
    EveryCallReturns
CHECK_DEADLOCK FALSE
