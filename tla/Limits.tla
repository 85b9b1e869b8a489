-------------------------------- MODULE Limits --------------------------------
(***************************************************************************)
(* The limits on what a user, or an address, may do: so many calls in a    *)
(* window of time (LuaLimiter.check_rate_limit of core/shared/             *)
(* redis_lua.py), and so many changes of mind about a post before          *)
(* everything is refused for a while (check_spam).                         *)
(*                                                                         *)
(* Each check is a script that Redis runs at once, on a sorted set of the  *)
(* times of earlier calls.  The time is read by the web worker before, so  *)
(* that scripts run in another order than their times, and two calls that  *)
(* carry the same time to the microsecond are one member of the set.       *)
(***************************************************************************)
EXTENDS Naturals, FiniteSets, FiniteSetsExt

CONSTANTS
    Posts,
    Window,         \* window_seconds
    Limit,          \* max_requests, max_toggles
    Cooldown,       \* cooldown_seconds
    MaxLag,         \* bound: time between reading the clock and the script
    MaxInstant,     \* bound of the clock
    MaxCalls        \* bound: calls

ASSUME LimitsAssumption ==
    /\ {Window, Limit, Cooldown, MaxLag, MaxInstant, MaxCalls} \subseteq Nat
    /\ Limit > 0 /\ Cooldown >= Window + MaxLag /\ MaxInstant >= Window + MaxLag
    /\ "calls" \notin Posts

Buckets == {"calls"} \union Posts

VARIABLES
    bucket,     \* ratelimit:{function}:{user} and spam:toggle:{user}:{post}: the members
    expires,    \* when Redis drops each of them
    penalty,    \* spam:cooldown:{user}: until when
    instant,
    calls,      \* so far
    accepted,   \* history: the calls let through, with the times they carried
    merged,     \* history: a call was taken for another of the same time
    promise     \* history: when the last call, refused, was told to come back

limitVars == <<bucket, expires, penalty, instant, calls, accepted, merged, promise>>

LimitsInit ==
    /\ bucket = [b \in Buckets |-> {}] /\ expires = [b \in Buckets |-> 0] /\ penalty = 0
    /\ instant = Window + MaxLag /\ calls = 0 /\ accepted = [b \in Buckets |-> {}] /\ merged = FALSE /\ promise = {}

-----------------------------------------------------------------------------

Call(now) == [at |-> now, n |-> calls]

\* ZREMRANGEBYSCORE: what is as old as the window is gone.
InWindow(b, now) == {e \in bucket[b] : e.at + Window > now}

\* The member a call is: a new one, or one that carries the same time.
Members(b, now) == {Call(now)} \union {e \in bucket[b] : e.at = now}

\* A worker has read the clock now, MaxLag ago at most; its script runs.
Calls(now) ==
    /\ calls < MaxCalls /\ calls' = calls + 1
    /\ now <= instant /\ now + MaxLag >= instant
    /\ UNCHANGED instant

AddsCall(b, members, now, m, passes) ==
    /\ bucket' = [bucket EXCEPT ![b] = members]
    /\ expires' = [expires EXCEPT ![b] = instant + Window + 1]
    /\ accepted' = [accepted EXCEPT ![b] = @ \union IF passes THEN {Call(now)} ELSE {}]
    /\ merged' = (merged \/ m \in bucket[b])

\* Mutant, used by no specification, as are all that are marked so: a plausible bug
\* in the definition that follows.
CheckRateLimitLate(now) ==
    /\ Calls(now) /\ UNCHANGED penalty
    /\ LET kept == InWindow("calls", now) IN
        \/ /\ Cardinality(kept) <= Limit /\ promise' = {}
           /\ \E m \in Members("calls", now) : AddsCall("calls", kept \union {m}, now, m, TRUE)
        \/ /\ Cardinality(kept) > Limit
           /\ bucket' = [bucket EXCEPT !["calls"] = kept]
           /\ promise' = {Max({Min({e.at : e \in kept}) + Window, now + 1})}
           /\ UNCHANGED <<expires, accepted, merged>>

\* A call that is refused is not counted, and is told when the oldest leaves the window.
CheckRateLimit(now) ==
    /\ Calls(now) /\ UNCHANGED penalty
    /\ LET kept == InWindow("calls", now) IN
        \/ /\ Cardinality(kept) < Limit /\ promise' = {}
           /\ \E m \in Members("calls", now) : AddsCall("calls", kept \union {m}, now, m, TRUE)
        \/ /\ Cardinality(kept) >= Limit
           /\ bucket' = [bucket EXCEPT !["calls"] = kept]
           /\ promise' = {Max({Min({e.at : e \in kept}) + Window, now + 1})}
           /\ UNCHANGED <<expires, accepted, merged>>

\* A like or an unlike is counted first; one too many, and every post is refused until the
\* cooldown is over, which Redis times.
CheckSpam(p, now) ==
    /\ Calls(now) /\ UNCHANGED promise
    /\ \/ penalty > instant /\ UNCHANGED <<bucket, expires, penalty, accepted, merged>>
       \/ /\ penalty <= instant
          /\ \E m \in Members(p, now) :
                LET counted == InWindow(p, now) \union {m}
                    passes == Cardinality(counted) <= Limit
                IN /\ AddsCall(p, counted, now, m, passes)
                   /\ penalty' = IF passes THEN penalty ELSE instant + Cooldown

InstantPasses ==
    /\ instant < MaxInstant /\ instant' = instant + 1
    /\ UNCHANGED <<bucket, expires, penalty, calls, accepted, merged, promise>>

BucketExpires(b) ==
    /\ bucket[b] # {} /\ expires[b] <= instant
    /\ bucket' = [bucket EXCEPT ![b] = {}]
    /\ UNCHANGED <<expires, penalty, instant, calls, accepted, merged, promise>>

-----------------------------------------------------------------------------

ApiCalls == \E now \in 0 .. MaxInstant : CheckRateLimit(now)

Changes == \E p \in Posts, now \in 0 .. MaxInstant : CheckSpam(p, now)

LimitsNext == ApiCalls \/ Changes \/ InstantPasses \/ \E b \in Buckets : BucketExpires(b)

LimitsSpec == LimitsInit /\ [][LimitsNext]_limitVars

-----------------------------------------------------------------------------

LimitsTypeOK ==
    /\ \A b \in Buckets :
        /\ bucket[b] \subseteq [at : 0 .. MaxInstant, n : 0 .. MaxCalls] /\ expires[b] \in 0 .. MaxInstant + Window + 1
        /\ accepted[b] \subseteq [at : 0 .. MaxInstant, n : 0 .. MaxCalls]
    /\ penalty \in 0 .. MaxInstant + Cooldown /\ instant \in 0 .. MaxInstant /\ calls \in 0 .. MaxCalls
    /\ merged \in BOOLEAN /\ promise \subseteq 0 .. MaxInstant + Window + 1

\* check_rate_limit, check_spam: no more calls than the limit carry times within a window, less
\* what the workers' readings of the clock are late, unless two carried the same time.
SpansAreLimited == merged \/ \A b \in Buckets, start \in 0 .. MaxInstant :
    Cardinality({c \in accepted[b] : c.at >= start /\ c.at + MaxLag < start + Window}) <= Limit

\* RateLimitMiddleware, rate_limit: who was refused and comes back when told to is let through,
\* as long as nobody else has come.
WaitsSuffice == \A t \in promise : Cardinality({e \in bucket["calls"] : e.at + Window > t}) < Limit

\* check_spam: whoever waits until the cooldown is over starts anew with every post.
CooldownsSuffice ==
    penalty > instant => \A p \in Posts : \A e \in bucket[p] : e.at + Window <= penalty - MaxLag

LimitsAreKept == SpansAreLimited /\ WaitsSuffice /\ CooldownsSuffice

=============================================================================
