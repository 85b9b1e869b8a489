SPECIFICATION DonationsSpec
CONSTANTS
    one = one
    two = two
    monthly = monthly
    s1 = s1
    s2 = s2
    w1 = w1
    w2 = w2
    Donations = {one, two, monthly}
    Monthly = {monthly}
    Supporters = {s1, s2}
    SupporterOf <- Supporter
    Workers = {w1, w2}
    EarlyLimit = 1
    MaxInvoices = 2
    Setups <- OneSubscription
CHECK_DEADLOCK FALSE
INVARIANT PaidInvoicesAreRecorded
