SPECIFICATION TokenLiveSpec
CONSTANTS
    user = user
    parent = parent
    timeout = timeout
    first = first
    second = second
    third = third
    Runtime = Runtime
    Unset = Unset
    Nobody = Nobody
    Canceller = {first, second, third}
    Waiter = {w1, w2}
    Reason = {user, parent, timeout, Runtime}
    Why <- MCWhy
INVARIANTS
    TokenTypeOK
    CancelTakesEffect
PROPERTIES
    Implements
    WaitersWake
