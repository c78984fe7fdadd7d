SPECIFICATION HttpSpec
CONSTANTS
    Subscribers = {s1, s2}
    Destinations = {d1}
    Formats = {"Event", "MetricReport"}
    Attempts = 2
    MaxSubs = 3
    MaxEvents = 2
    Viewers = {v1, v2}
INVARIANT IdsNeverReused
INVARIANT NoSubscriberForgotten
INVARIANT GivenUpAfterAttempts
PROPERTY DeliveryEnds
PROPERTY ProxyEnds
CHECK_DEADLOCK FALSE
