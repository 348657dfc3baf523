CONSTANT Callers = {w1, w2}
SPECIFICATION FairSpec
INVARIANT NoForgottenWaiter ReadyMeansSetUp TransportOutlivesSession ClosingAsksForShutdown
PROPERTY OnlyForward ImplementsContract DestructorReturns ClosingEnds
