SPECIFICATION Spec
CONSTANTS
    Users = {u1}
    Workers = {w1}
    Nobody = Nobody
    RetryLimit = 1
    BatchSize = 1
    TimeLimitHolds = TRUE
    AdminPurgeMayFail = TRUE
PROPERTIES RestoredAsItWas
