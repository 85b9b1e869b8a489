SPECIFICATION Spec
CONSTANTS
    r1 = r1
    r2 = r2
    r3 = r3
    r4 = r4
    NoPair = NoPair
    Requests = {r1, r2, r3, r4}
    LoggedIn = {r1}
    Mixes <- SessionMixes
    StrictRedis = {TRUE, FALSE}
    RevokeOnReuse = {TRUE, FALSE}
    Unlucky = {r3}
    MaxTick = 2
INVARIANTS RevocationIsFinal FreshTokensOutliveTheCutoff
    RevokedPairsOpenNothing ReplaysStayInTheSession
