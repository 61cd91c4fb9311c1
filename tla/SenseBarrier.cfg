CONSTANT
    Threads = {t1, t2, t3, t4}
SPECIFICATION FairSpec
INVARIANT RoundsAgree
PROPERTIES ImplementsRendezvous AllLeave
