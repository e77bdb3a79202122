\* Both controllers for one subscription, with and without cancelOnError: two
\* events and the done event, two pauses, and two messages in whose handlers
\* users may act; the three broadcast controllers: two subscriptions, one of
\* them with cancelOnError, two events and the done event, one pause.  An error
\* in the first message leaves microtasks to the second.
SPECIFICATION MCSpec
CONSTANTS
    Null = Null
    MaxAdds = 2
    MaxPauses = 2
    MaxThrows = 1
    MaxMessages = 2
    Kinds = {"async", "sync", "asBroadcast"}
    Sub = {1, 2}
    CancelOnError = {2}
    MaxBroadcasts = 2
    MaxBroadcastPauses = 1
INVARIANTS
    EventsInOrder
    SourceIsTold
    ListenersHearAll
    SourceKnowsListeners
PROPERTIES
    QuietWhenAsked
    EventsAreHeard
\* The last message may be the last.
CHECK_DEADLOCK FALSE
