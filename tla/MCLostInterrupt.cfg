SPECIFICATION NetSpec
CONSTANTS
    Sender = {t1, t2}
    MaxArrivals = 2
    MaxSent = 2
PROPERTIES
    PacketsTaken
CHECK_DEADLOCK FALSE
