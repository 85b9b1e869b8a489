SPECIFICATION FairSpec
CONSTANTS
    Users = {u1, u2}
    Workers = {w1, w2}
    Nobody = Nobody
    RetryLimit = 1
    BatchSize = 2
    TimeLimitHolds = TRUE
    AdminPurgeMayFail = TRUE
INVARIANTS ColumnsAgree RecoveryOpensNoSuspendedAccount OneWorkerPerRequest
PROPERTIES KeepsThePromise OnlyWorkInFlightIsStranded DueDeletionsEnd CancellationsAreAnswered
