--------------------------- MODULE SessionsProofs ---------------------------
(***************************************************************************)
(* Theorems about Sessions, for every set of requests and every setting.   *)
(***************************************************************************)
EXTENDS Sessions, TLAPS

USE PairAssumption, FlagAssumption

-----------------------------------------------------------------------------
(* How the steps change the record of a request.  The action proofs cite   *)
(* these lemmas and leave the record updates folded.                       *)

\* Nothing of a request but its step, its answer and its time stamp.
Same(r) ==
    /\ req'[r].op = req[r].op
    /\ req'[r].using = req[r].using
    /\ req'[r].epoch = req[r].epoch
    /\ req'[r].keys = req[r].keys
    /\ req'[r].covers = req[r].covers
    /\ req'[r].own = req[r].own
    /\ req'[r].late = req[r].late

Others(r) == \A q \in Requests \ {r} : req'[q] = req[q]

LEMMA BecomesFields ==
    ASSUME req \in [Requests -> Request], NEW r \in Requests, NEW state, Becomes(r, state)
    PROVE  /\ req'[r] = state
           /\ Others(r)
           /\ state \in Request => req' \in [Requests -> Request]
  BY DEF Becomes, Others

LEMMA GotoFields ==
    ASSUME req \in [Requests -> Request], NEW r \in Requests, NEW s, Goto(r, s)
    PROVE  /\ req'[r].pc = s
           /\ req'[r].answer = req[r].answer
           /\ req'[r].now = req[r].now
           /\ Same(r)
           /\ Others(r)
           /\ s \in Steps => req' \in [Requests -> Request]
  <1> DEFINE state == [req[r] EXCEPT !.pc = s]
  <1>1. req[r] \in Request
    OBVIOUS
  <1>2. /\ state.pc = s
        /\ state.answer = req[r].answer /\ state.now = req[r].now
        /\ state.op = req[r].op /\ state.using = req[r].using
        /\ state.epoch = req[r].epoch /\ state.keys = req[r].keys
        /\ state.covers = req[r].covers /\ state.own = req[r].own
        /\ state.late = req[r].late
        /\ s \in Steps => state \in Request
    BY <1>1 DEF Request
  <1>3. Becomes(r, state)
    BY DEF Goto
  <1> HIDE DEF state
  <1>. QED BY <1>2, <1>3, BecomesFields DEF Same

LEMMA FinishFields ==
    ASSUME req \in [Requests -> Request], NEW r \in Requests, NEW a, Finish(r, a)
    PROVE  /\ req'[r].pc = "done"
           /\ req'[r].answer = a
           /\ req'[r].now = req[r].now
           /\ Same(r)
           /\ Others(r)
           /\ a \in Requests \cup {NoPair} => req' \in [Requests -> Request]
  <1> DEFINE state == [req[r] EXCEPT !.pc = "done", !.answer = a]
  <1>1. req[r] \in Request /\ "done" \in Steps
    BY DEF Steps
  <1>2. /\ state.pc = "done"
        /\ state.answer = a /\ state.now = req[r].now
        /\ state.op = req[r].op /\ state.using = req[r].using
        /\ state.epoch = req[r].epoch /\ state.keys = req[r].keys
        /\ state.covers = req[r].covers /\ state.own = req[r].own
        /\ state.late = req[r].late
        /\ a \in Requests \cup {NoPair} => state \in Request
    BY <1>1 DEF Request
  <1>3. Becomes(r, state)
    BY DEF Finish
  <1> HIDE DEF state
  <1>. QED BY <1>2, <1>3, BecomesFields DEF Same

LEMMA StampFields ==
    ASSUME clock \in Nat, req \in [Requests -> Request], NEW r \in Requests, NEW s,
           Stamp(r, s)
    PROVE  /\ clock' \in Nat /\ clock <= clock'
           /\ UNCHANGED <<cutoff, password, redis, iat, history>>
           /\ req'[r].pc = s
           /\ req'[r].answer = req[r].answer
           /\ req'[r].now = clock'
           /\ Same(r)
           /\ Others(r)
           /\ s \in Steps => req' \in [Requests -> Request]
  <1>0. PICK n \in Readings :
             /\ clock' = n
             /\ Becomes(r, [req[r] EXCEPT !.now = n, !.pc = s])
             /\ UNCHANGED <<cutoff, password, redis, iat, history>>
    BY DEF Stamp
  <1> DEFINE state == [req[r] EXCEPT !.now = n, !.pc = s]
  <1>1. req[r] \in Request /\ n \in Nat /\ clock <= n
    BY DEF Readings
  <1>2. Becomes(r, state)
    BY <1>0
  <1>3. /\ state.pc = s
        /\ state.answer = req[r].answer /\ state.now = n
        /\ state.op = req[r].op /\ state.using = req[r].using
        /\ state.epoch = req[r].epoch /\ state.keys = req[r].keys
        /\ state.covers = req[r].covers /\ state.own = req[r].own
        /\ state.late = req[r].late
        /\ s \in Steps => state \in Request
    BY <1>1 DEF Request
  <1> HIDE DEF state
  <1>. QED BY <1>0, <1>1, <1>2, <1>3, BecomesFields DEF Same

LEMMA BeginFields ==
    ASSUME req \in [Requests -> Request], NEW r \in Requests, NEW op \in Operations,
           NEW using \in Requests \cup {NoPair}, NEW s \in Steps, NEW n \in Nat,
           Begin(r, op, using, s, n)
    PROVE  /\ req'[r].pc = s /\ req'[r].op = op /\ req'[r].using = using
           /\ req'[r].answer = req[r].answer /\ req'[r].now = req[r].now
           /\ req'[r].covers = req[r].covers /\ req'[r].own = req[r].own
           /\ req'[r].epoch = n
           /\ Others(r)
           /\ req' \in [Requests -> Request]
  <1> DEFINE late == <<"refresh", using>> \in alone
             state == [req[r] EXCEPT !.op = op, !.using = using, !.pc = s,
                                     !.epoch = n, !.late = late]
  <1>1. Becomes(r, state)
    BY DEF Begin
  <1>2. req[r] \in Request /\ late \in BOOLEAN
    OBVIOUS
  <1> HIDE DEF late
  <1>3. /\ state.pc = s /\ state.op = op /\ state.using = using
        /\ state.answer = req[r].answer /\ state.now = req[r].now
        /\ state.covers = req[r].covers /\ state.own = req[r].own /\ state.epoch = n
    BY <1>2 DEF Request
  <1>4. state \in Request
    BY <1>2 DEF Request
  <1> HIDE DEF state
  <1>5. req'[r] = state /\ Others(r) /\ req' \in [Requests -> Request]
    BY <1>1, <1>4, BecomesFields
  <1>. QED BY <1>3, <1>5

LEMMA SetPasswordFields ==
    ASSUME password \in Nat, req \in [Requests -> Request], NEW r \in Requests, SetPassword(r)
    PROVE  /\ req'[r].pc = "revokeNow" /\ req'[r].epoch = password + 1
           /\ req'[r].op = req[r].op
           /\ req'[r].using = req[r].using
           /\ req'[r].answer = req[r].answer
           /\ req'[r].now = req[r].now
           /\ req'[r].covers = req[r].covers
           /\ req'[r].own = req[r].own
           /\ req'[r].late = req[r].late
           /\ Others(r)
           /\ req' \in [Requests -> Request]
  <1> DEFINE n == password + 1
             state == [req[r] EXCEPT !.pc = "revokeNow", !.epoch = n]
  <1>1. req[r] \in Request /\ n \in Nat /\ "revokeNow" \in Steps
    BY DEF Steps
  <1>2. Becomes(r, state)
    BY DEF SetPassword
  <1> HIDE DEF n
  <1>3. /\ state.pc = "revokeNow" /\ state.epoch = n
        /\ state.op = req[r].op
        /\ state.using = req[r].using
        /\ state.answer = req[r].answer
        /\ state.now = req[r].now
        /\ state.covers = req[r].covers
        /\ state.own = req[r].own
        /\ state.late = req[r].late
        /\ state \in Request
    BY <1>1 DEF Request
  <1> HIDE DEF state
  <1>. QED BY <1>2, <1>3, BecomesFields DEF n

LEMMA RevokeNowFields ==
    ASSUME clock \in Nat, newest \in Nat, req \in [Requests -> Request], NEW r \in Requests,
           RevokeNow(r)
    PROVE  /\ clock' \in Nat /\ clock <= clock'
           /\ UNCHANGED <<cutoff, password, redis, iat, history>>
           /\ req'[r].pc = "revokeCommit" /\ req'[r].now = clock' /\ req'[r].covers = Signed
           /\ req'[r].own <=> clock' > newest
           /\ req'[r].op = req[r].op
           /\ req'[r].using = req[r].using
           /\ req'[r].answer = req[r].answer
           /\ req'[r].epoch = req[r].epoch
           /\ req'[r].late = req[r].late
           /\ Others(r)
           /\ req' \in [Requests -> Request]
  <1>0. PICK n \in Readings :
             /\ clock' = n
             /\ Becomes(r, [req[r] EXCEPT !.now = n, !.pc = "revokeCommit",
                                         !.covers = Signed, !.own = (n > newest)])
    BY DEF RevokeNow
  <1> DEFINE c == Signed
             own == n > newest
             state == [req[r] EXCEPT !.now = n, !.pc = "revokeCommit",
                                     !.covers = c, !.own = own]
  <1>1. req[r] \in Request /\ n \in Nat /\ clock <= n
    BY DEF Readings
  <1>2. Becomes(r, state) /\ c \subseteq JWTs /\ own \in BOOLEAN
    BY <1>0 DEF Signed
  <1> HIDE DEF c, own
  <1>3. /\ state.pc = "revokeCommit" /\ state.now = n /\ state.covers = c
        /\ state.op = req[r].op
        /\ state.using = req[r].using
        /\ state.answer = req[r].answer
        /\ state.epoch = req[r].epoch
        /\ state.late = req[r].late
    BY <1>1 DEF Request
  <1>4. (state.own <=> own) /\ state \in Request
    BY <1>1, <1>2 DEF Request, Steps
  <1> HIDE DEF state
  <1>5. req'[r] = state /\ Others(r) /\ req' \in [Requests -> Request]
    BY <1>2, <1>4, BecomesFields
  <1>6. UNCHANGED <<cutoff, password, redis, iat, history>>
    BY DEF RevokeNow
  <1>. QED BY <1>0, <1>1, <1>3, <1>4, <1>5, <1>6 DEF c, own

\* The two steps that note the keys they delete.
LEMMA KeysFields ==
    ASSUME req \in [Requests -> Request], NEW r \in Requests, NEW k \in SUBSET Requests,
           NEW s \in Steps, Note(r, k, s)
    PROVE  /\ req'[r].pc = s
           /\ req'[r].op = req[r].op
           /\ req'[r].using = req[r].using
           /\ req'[r].answer = req[r].answer
           /\ req'[r].now = req[r].now
           /\ req'[r].epoch = req[r].epoch
           /\ req'[r].covers = req[r].covers
           /\ req'[r].own = req[r].own
           /\ req'[r].late = req[r].late
           /\ Others(r)
           /\ req' \in [Requests -> Request]
  <1> DEFINE state == [req[r] EXCEPT !.keys = k, !.pc = s]
  <1>1. req[r] \in Request
    OBVIOUS
  <1>2. /\ state.pc = s /\ state.op = req[r].op /\ state.using = req[r].using
        /\ state.answer = req[r].answer /\ state.now = req[r].now
        /\ state.epoch = req[r].epoch /\ state.covers = req[r].covers
        /\ state.own = req[r].own /\ state.late = req[r].late /\ state \in Request
    BY <1>1 DEF Request
  <1>3. Becomes(r, state)
    BY DEF Note
  <1> HIDE DEF state
  <1>. QED BY <1>2, <1>3, BecomesFields

-----------------------------------------------------------------------------
(* Type correctness.                                                       *)

RequestOK(r) ==
    /\ req' \in [Requests -> Request]
    /\ Others(r)
    /\ req'[r].pc \in PresentSteps => req'[r].using \in Requests

\* What a request is at the beginning: over for a login that was, else not begun.
Begun(r) ==
    /\ req[r] \in Request
    /\ req[r].pc = IF r \in LoggedIn THEN "done" ELSE "start"
    /\ req[r].op = IF r \in LoggedIn THEN "login" ELSE "none"
    /\ req[r].answer = IF r \in LoggedIn THEN r ELSE NoPair
    /\ req[r].now = 0 /\ req[r].covers = {} /\ req[r].late = FALSE

LEMMA InitRequests == Init => req \in [Requests -> Request] /\ \A r \in Requests : Begun(r)
  <1> SUFFICES ASSUME Init PROVE req \in [Requests -> Request] /\ \A r \in Requests : Begun(r)
    OBVIOUS
  <1>1. ASSUME NEW r \in Requests PROVE Begun(r)
    <2> DEFINE open == [Fresh EXCEPT !.op = "login", !.pc = "done", !.answer = r, !.epoch = 1]
    <2>1. /\ open \in Request /\ open.pc = "done" /\ open.op = "login" /\ open.answer = r
          /\ open.now = 0 /\ open.covers = {} /\ open.late = FALSE
      BY DEF Fresh, Request, Operations, Steps
    <2>2. /\ Fresh \in Request /\ Fresh.pc = "start" /\ Fresh.op = "none"
          /\ Fresh.answer = NoPair
          /\ Fresh.now = 0 /\ Fresh.covers = {} /\ Fresh.late = FALSE
      BY DEF Fresh, Request, Operations, Steps
    <2>3. req[r] = IF r \in LoggedIn THEN open ELSE Fresh
      BY DEF Init
    <2> HIDE DEF open
    <2>. QED BY <2>1, <2>2, <2>3 DEF Begun
  <1>2. req = [r \in Requests |-> req[r]]
    BY DEF Init
  <1>. QED BY <1>1, <1>2 DEF Begun

LEMMA TypeInit == Init => TypeOK
  <1> SUFFICES ASSUME Init PROVE TypeOK
    OBVIOUS
  <1>1. req \in [Requests -> Request] /\ PairPresented
    BY InitRequests DEF Begun, PairPresented, PresentSteps
  <1>2. key \in [Requests -> KeyStates] /\ iat \in [JWTs -> Nat]
    BY DEF Init, KeyStates
  <1>. QED BY <1>1, <1>2 DEF Init, TypeOK

LEMMA SignType ==
    ASSUME TypeOK, NEW r \in Requests, NEW half \in {"access", "refresh"},
           NEW from, NEW s \in Steps \ PresentSteps, Sign(r, half, from, s)
    PROVE  RequestOK(r) /\ iat' \in [JWTs -> Nat]
  <1>1. RequestOK(r)
    BY GotoFields DEF Sign, TypeOK, RequestOK
  <1>2. IssuedAt(req[r].now) \in Nat
    BY DEF TypeOK, Request, IssuedAt
  <1>3. iat' \in [JWTs -> Nat]
    BY <1>2 DEF Sign, TypeOK
  <1>. QED BY <1>1, <1>3

LEMMA BeginType ==
    ASSUME TypeOK, NEW r \in Requests, NEW op \in Operations,
           NEW using \in Requests \cup {NoPair}, NEW s \in Steps, NEW n \in Nat,
           s \in PresentSteps => using \in Requests, Begin(r, op, using, s, n)
    PROVE  TypeOK'
  <1>1. req \in [Requests -> Request] /\ PairPresented
    BY DEF TypeOK
  <1>2. /\ req'[r].pc = s /\ req'[r].using = using
        /\ Others(r)
        /\ req' \in [Requests -> Request]
    BY <1>1, BeginFields
  <1>3. PairPresented'
    BY <1>1, <1>2 DEF PairPresented, Others
  <1>. QED BY <1>2, <1>3 DEF Begin, TypeOK, redis, history

LEMMA TypeStep == TypeOK /\ [Next]_vars => TypeOK'
  <1> SUFFICES ASSUME TypeOK, [Next]_vars PROVE TypeOK'
    OBVIOUS
  <1> USE DEF history, redis
  <1>0. /\ req \in [Requests -> Request] /\ clock \in Nat /\ password \in Nat
        /\ newest \in Nat /\ PairPresented
    BY DEF TypeOK
  <1>1. ASSUME NEW r \in Requests, Step(r) PROVE TypeOK'
    <2>0. /\ req[r] \in Request
          /\ req[r].using \in Requests \cup {NoPair}
          /\ req[r].pc \in PresentSteps => req[r].using \in Requests
          /\ Returned \subseteq Requests
      BY <1>0 DEF Request, Returned, PairPresented
    <2>a. RequestOK(r) => req' \in [Requests -> Request] /\ PairPresented'
      BY <1>0 DEF RequestOK, Others, PairPresented
    <2>1. CASE BeginLogin(r)
      <3>1. "accessNow" \in Steps /\ "login" \in Operations
        BY DEF Steps, Operations
      <3>2. Begin(r, "login", NoPair, "accessNow", password)
        BY <2>1 DEF BeginLogin
      <3>3. "accessNow" \notin PresentSteps
        BY DEF PresentSteps
      <3>. QED BY <1>0, <3>1, <3>2, <3>3, BeginType
    <2>2. CASE BeginRefresh(r)
      <3>1. "get" \in Steps /\ "refresh" \in Operations
        BY DEF Steps, Operations
      <3>2. PICK p \in Requests : Begin(r, "refresh", p, "get", req[p].epoch)
        BY <2>2, <2>0 DEF BeginRefresh
      <3>3. req[p].epoch \in Nat
        BY <1>0 DEF Request
      <3>. QED BY <1>0, <3>1, <3>2, <3>3, BeginType
    <2>3. CASE BeginLogout(r)
      <3>1. "blacklist" \in Steps /\ "logout" \in Operations
        BY DEF Steps, Operations
      <3>2. PICK p \in Requests : Begin(r, "logout", p, "blacklist", 0)
        BY <2>3, <2>0 DEF BeginLogout
      <3>. QED BY <1>0, <3>1, <3>2, BeginType
    <2>4. CASE BeginLogoutAll(r)
      <3>1. "checkBlacklist" \in Steps /\ "logoutAll" \in Operations
        BY DEF Steps, Operations
      <3>2. PICK p \in Requests : Begin(r, "logoutAll", p, "checkBlacklist", 0)
        BY <2>4, <2>0 DEF BeginLogoutAll
      <3>. QED BY <1>0, <3>1, <3>2, BeginType
    <2>5. CASE BeginChangePassword(r)
      <3>1. "setPassword" \in Steps /\ "changePassword" \in Operations
        BY DEF Steps, Operations
      <3>2. PICK p \in Requests : Begin(r, "changePassword", p, "setPassword", 0)
        BY <2>5, <2>0 DEF BeginChangePassword
      <3>. QED BY <1>0, <3>1, <3>2, BeginType
    <2>6. CASE BeginResetPassword(r)
      <3>1. "setPassword" \in Steps /\ {"resetPassword", "resetWithToken"} \subseteq Operations
        BY DEF Steps, Operations
      <3>2. PICK op \in Operations : Begin(r, op, NoPair, "setPassword", 0)
        BY <2>6, <3>1 DEF BeginResetPassword
      <3>3. "setPassword" \notin PresentSteps
        BY DEF PresentSteps
      <3>. QED BY <1>0, <3>1, <3>2, <3>3, BeginType
    <2>7. CASE BeginCleanup(r)
      <3>1. "dropInactive" \in Steps /\ "cleanup" \in Operations
        BY DEF Steps, Operations
      <3>2. PICK p \in Requests : Begin(r, "cleanup", p, "dropInactive", 0)
        BY <2>7, <2>0 DEF BeginCleanup
      <3>. QED BY <1>0, <3>1, <3>2, BeginType
    <2>8. CASE ValidateRefresh(r)
      <3>1. {"checkCutoff", "getAgain", "checkAgain", "getOld", "logoutDelete", "dropInactive", "dropAgain", "revokeNow"} \subseteq Steps
        BY DEF Steps
      <3>2. RequestOK(r)
        BY <2>8, <1>0, <2>0, <3>1, GotoFields, FinishFields DEF ValidateRefresh, GetKey, CheckCutoff, Reject, RequestOK, PresentSteps, Same, At
      <3>. QED BY <2>8, <2>a, <3>2 DEF ValidateRefresh, GetKey, CheckCutoff, Reject, TypeOK
    <2>9. CASE ValidateRefreshFails(r)
      <3>1. {"checkCutoff", "checkAgain", "done"} \subseteq Steps
        BY DEF Steps
      <3>2. RequestOK(r)
        BY <2>9, <1>0, <2>0, <3>1, GotoFields, FinishFields DEF ValidateRefreshFails, RedisFails, Reject, RequestOK, PresentSteps, Same, At
      <3>. QED BY <2>9, <2>a, <3>2 DEF ValidateRefreshFails, RedisFails, Reject, TypeOK
    <2>10. CASE DropInactive(r)
      <3>1. RequestOK(r)
        BY <2>10, <1>0, <2>0, FinishFields DEF DropInactive, Reject, RequestOK, PresentSteps, Same, At
      <3>2. key' \in [Requests -> KeyStates]
        BY <2>10, <2>0 DEF DropInactive, TypeOK, KeyStates
      <3>. QED BY <2>10, <2>a, <3>1, <3>2 DEF DropInactive, Reject, TypeOK
    <2>11. CASE GetOld(r)
      <3>1. {"accessNow"} \subseteq Steps
        BY DEF Steps
      <3>0. At(r, "getOld") => cached[req[r].using] \in Requests \cup {NoPair}
        BY <2>0 DEF TypeOK, At, PresentSteps
      <3>2. RequestOK(r)
        BY <2>11, <1>0, <2>0, <3>1, <3>0, GotoFields, FinishFields DEF GetOld, RequestOK, PresentSteps, Same, At
      <3>. QED BY <2>11, <2>a, <3>2 DEF GetOld, TypeOK
    <2>12. CASE StoreGrace(r)
      <3>1. RequestOK(r)
        BY <2>12, <1>0, <2>0, FinishFields DEF StoreGrace, RequestOK, PresentSteps, Same, At
      <3>2. key' \in [Requests -> KeyStates]
        BY <2>12, <2>0 DEF StoreGrace, TypeOK, KeyStates
      <3>3. cached' \in [Requests -> Requests \cup {NoPair}]
        BY <2>12, <2>0 DEF StoreGrace, TypeOK
      <3>. QED BY <2>12, <2>a, <3>1, <3>2, <3>3 DEF StoreGrace, TypeOK
    <2>13. CASE RotateFails(r)
      <3>1. {"accessNow"} \subseteq Steps
        BY DEF Steps
      <3>2. RequestOK(r)
        BY <2>13, <1>0, <2>0, <3>1, GotoFields, FinishFields DEF RotateFails, RedisFails, Reject, RequestOK, PresentSteps, Same, At
      <3>. QED BY <2>13, <2>a, <3>2 DEF RotateFails, RedisFails, Reject, TypeOK
    <2>14. CASE GenerateTokens(r)
      <3>1. {"accessSign", "refreshNow", "refreshSign", "store"} \subseteq Steps \ PresentSteps
        BY DEF Steps, PresentSteps
      <3>2. ASSUME NEW s \in Steps \ PresentSteps, Stamp(r, s) PROVE TypeOK'
        <4>1. RequestOK(r)
          BY <3>2, <1>0, StampFields DEF RequestOK
        <4>2. clock' \in Nat /\ UNCHANGED <<cutoff, password, redis, iat, history>>
          BY <3>2, <1>0, StampFields
        <4>. QED BY <4>1, <4>2, <2>a DEF TypeOK
      <3>3. ASSUME NEW half \in {"access", "refresh"}, NEW from,
                   NEW s \in Steps \ PresentSteps, Sign(r, half, from, s)
            PROVE  TypeOK'
        BY <3>3, <2>a, SignType DEF Sign, TypeOK
      <3>. QED BY <2>14, <3>1, <3>2, <3>3 DEF GenerateTokens
    <2>15. CASE StoreRefresh(r)
      <3>1. {"grace"} \subseteq Steps
        BY DEF Steps
      <3>2. RequestOK(r)
        BY <2>15, <1>0, <2>0, <3>1, GotoFields, FinishFields DEF StoreRefresh, Stored, RequestOK, PresentSteps, Same, At
      <3>3. key' \in [Requests -> KeyStates]
        BY <2>15, <2>0 DEF StoreRefresh, TypeOK, KeyStates
      <3>. QED BY <2>15, <2>a, <3>2, <3>3 DEF StoreRefresh, Stored, TypeOK
    <2>16. CASE StoreRefreshFails(r)
      <3>1. {"grace"} \subseteq Steps
        BY DEF Steps
      <3>2. RequestOK(r)
        <4>1. At(r, "store") /\ (Reject(r) \/ Stored(r))
          BY <2>16 DEF StoreRefreshFails
        <4>. QED BY <4>1, <1>0, <2>0, <3>1, GotoFields, FinishFields
             DEF Stored, Reject, RequestOK, PresentSteps, Same, At
      <3>. QED BY <2>16, <2>a, <3>2 DEF StoreRefreshFails, Stored, Reject, TypeOK
    <2>17. CASE Blacklist(r)
      <3>1. {"get"} \subseteq Steps
        BY DEF Steps
      <3>2. RequestOK(r)
        BY <2>17, <1>0, <2>0, <3>1, GotoFields, FinishFields DEF Blacklist, Reject, RequestOK, PresentSteps, Same, At
      <3>3. blacklist' \subseteq Requests
        BY <2>17, <2>0 DEF Blacklist, TypeOK, At, PresentSteps
      <3>. QED BY <2>17, <2>a, <3>2, <3>3 DEF Blacklist, Reject, TypeOK
    <2>18. CASE LogoutDelete(r)
      <3>1. "done" \in Steps
        BY DEF Steps
      <3>2. {req[r].using} \in SUBSET Requests
        BY <2>18, <2>0 DEF LogoutDelete, At, PresentSteps
      <3>3. RequestOK(r)
        BY <2>18, <1>0, <2>0, <3>1, <3>2, FinishFields, KeysFields
           DEF LogoutDelete, Reject, RequestOK, PresentSteps
      <3>4. key' \in [Requests -> KeyStates]
        BY <2>18 DEF LogoutDelete, TypeOK, KeyStates
      <3>. QED BY <2>18, <2>a, <3>3, <3>4 DEF LogoutDelete, TypeOK
    <2>19. CASE ValidateAccess(r)
      <3>1. {"checkAccess", "revokeNow"} \subseteq Steps
        BY DEF Steps
      <3>2. RequestOK(r)
        BY <2>19, <1>0, <2>0, <3>1, GotoFields, FinishFields DEF ValidateAccess, CheckCutoff, RedisFails, Reject, RequestOK, PresentSteps, Same, At
      <3>. QED BY <2>19, <2>a, <3>2 DEF ValidateAccess, CheckCutoff, RedisFails, Reject, TypeOK
    <2>20. CASE SetPassword(r)
      <3>1. RequestOK(r)
        BY <2>20, <1>0, SetPasswordFields DEF RequestOK, PresentSteps
      <3>. QED BY <2>20, <2>a, <3>1 DEF SetPassword, TypeOK
    <2>21. CASE RevokeNow(r)
      <3>1. RequestOK(r)
        BY <2>21, <1>0, RevokeNowFields DEF RequestOK, PresentSteps
      <3>2. clock' \in Nat /\ UNCHANGED <<cutoff, password, redis, iat, history>>
        BY <2>21, <1>0, RevokeNowFields
      <3>. QED BY <2>a, <3>1, <3>2 DEF TypeOK
    <2>22. CASE RevokeCommit(r)
      <3>1. {"revokeScan"} \subseteq Steps
        BY DEF Steps
      <3>2. RequestOK(r)
        BY <2>22, <1>0, <2>0, <3>1, GotoFields DEF RevokeCommit, RequestOK, PresentSteps, Same, At
      <3>3. req[r].now \in Nat /\ req[r].covers \subseteq JWTs /\ Signed \subseteq JWTs
        BY <2>22, <2>0 DEF RevokeCommit, TypeOK, Request, Signed
      <3>4. /\ revoked' \subseteq JWTs /\ alone' \subseteq JWTs /\ overtaken' \subseteq JWTs
            /\ last' \in Nat /\ newest' \in Nat /\ setBack' \in BOOLEAN
        BY <2>22, <3>3 DEF RevokeCommit, Record, TypeOK
      <3>. QED BY <2>22, <2>a, <3>2, <3>3, <3>4 DEF RevokeCommit, TypeOK
    <2>23. CASE RevokeScan(r)
      <3>1. {"revokeDelete", "accessNow", "done"} \subseteq Steps
        BY DEF Steps
      <3>2. {p \in Requests : key[p] # "absent"} \in SUBSET Requests
        OBVIOUS
      <3>3. ASSUME NEW k \in SUBSET Requests,
                   Note(r, k, "revokeDelete")
            PROVE  RequestOK(r)
        BY <3>3, <1>0, <3>1, KeysFields DEF RequestOK, PresentSteps
      <3>4. Revoked(r) => RequestOK(r)
        BY <1>0, <3>1, GotoFields DEF Revoked, RequestOK, PresentSteps
      <3>5. RequestOK(r)
        BY <2>23, <3>2, <3>3, <3>4 DEF RevokeScan
      <3>. QED BY <2>23, <2>a, <3>5 DEF RevokeScan, TypeOK
    <2>24. CASE RevokeDelete(r)
      <3>1. {"accessNow", "done"} \subseteq Steps
        BY DEF Steps
      <3>2. RequestOK(r)
        BY <2>24, <1>0, <2>0, <3>1, GotoFields, FinishFields DEF RevokeDelete, Revoked, RequestOK, PresentSteps, Same, At
      <3>3. key' \in [Requests -> KeyStates]
        BY <2>24, <2>0 DEF RevokeDelete, TypeOK, KeyStates
      <3>. QED BY <2>24, <2>a, <3>2, <3>3 DEF RevokeDelete, Revoked, TypeOK
    <2>. QED
      BY <1>1, <2>1, <2>2, <2>3, <2>4, <2>5, <2>6, <2>7, <2>8, <2>9, <2>10, <2>11, <2>12, <2>13,
         <2>14, <2>15, <2>16, <2>17, <2>18, <2>19, <2>20, <2>21, <2>22, <2>23, <2>24 DEF Step
  <1>2. ASSUME NEW p \in Requests, KeyExpires(p) \/ KeyGoesInactive(p) PROVE TypeOK'
    BY <1>2 DEF KeyExpires, KeyGoesInactive, TypeOK, KeyStates, PairPresented
  <1>3. CASE UNCHANGED vars
    BY <1>3 DEF vars, TypeOK, PairPresented
  <1>. QED BY <1>1, <1>2, <1>3 DEF Next, Quiescent

\* Every variable keeps its type in every reachable state.
THEOREM TypeCorrect == Spec => []TypeOK
  BY TypeInit, TypeStep, PTL DEF Spec

-----------------------------------------------------------------------------
(* Revocation.  The inductive invariant says that time stamps are in the   *)
(* past and no JWT is marked more than a microsecond past the newest       *)
(* cutoff, that a request signs each JWT once, that what a revocation with *)
(* a microsecond of its own covers is no newer than its stamp, and that    *)
(* what such revocations covered is no newer than the newest cutoff.       *)

AfterAccess == {"refreshNow", "refreshSign", "store", "grace", "done"}
AfterRefresh == {"store", "grace", "done"}

StampsArePast ==
    /\ cutoff <= newest /\ newest <= clock
    /\ \A r \in Requests : req[r].now <= clock
    /\ \A t \in JWTs : iat[t] <= clock \/ iat[t] <= newest + 1

SignsOnce ==
    \A r \in Requests :
        /\ req[r].pc \notin AfterAccess => iat[<<"access", r>>] = 0
        /\ req[r].pc \notin AfterRefresh => iat[<<"refresh", r>>] = 0

CoveredIsOlder ==
    \A r \in Requests : req[r].pc = "revokeCommit" =>
        \A t \in req[r].covers : iat[t] > 0 /\ (req[r].own => iat[t] <= req[r].now)

AloneIsOlder == \A t \in alone : iat[t] > 0 /\ iat[t] <= newest

CutoffIsLast == cutoff = last /\ (~setBack => last = newest)

IInv == StampsArePast /\ SignsOnce /\ CoveredIsOlder /\ AloneIsOlder /\ CutoffIsLast

\* A step that signs nothing, takes no time stamp and writes no cutoff.
Plain(r) ==
    /\ UNCHANGED <<clock, cutoff, iat, alone, last, newest, setBack>>
    /\ Others(r)
    /\ req'[r].now = req[r].now
    /\ req'[r].covers = req[r].covers
    /\ req'[r].pc # "revokeCommit"
    /\ req[r].pc \notin AfterAccess \/ req'[r].pc \in AfterAccess
    /\ req[r].pc \notin AfterRefresh \/ req'[r].pc \in AfterRefresh

LEMMA PlainStep ==
    ASSUME TypeOK, IInv, NEW r \in Requests, Plain(r)
    PROVE  IInv'
  <1>1. StampsArePast'
    BY DEF IInv, StampsArePast, Plain, Others
  <1>2. SignsOnce'
    BY DEF IInv, SignsOnce, Plain, Others
  <1>3. CoveredIsOlder'
    BY DEF IInv, CoveredIsOlder, Plain, Others
  <1>4. AloneIsOlder'
    BY DEF IInv, AloneIsOlder, Plain
  <1>5. CutoffIsLast'
    BY DEF IInv, CutoffIsLast, Plain
  <1>. QED BY <1>1, <1>2, <1>3, <1>4, <1>5 DEF IInv

LEMMA IInit == Init => IInv
  <1> SUFFICES ASSUME Init PROVE IInv
    OBVIOUS
  <1>1. \A r \in Requests : Begun(r)
    BY InitRequests
  <1>2. \A t \in JWTs : iat[t] = IF t[2] \in LoggedIn THEN 1 ELSE 0
    BY DEF Init
  <1>3. StampsArePast
    <2>1. clock = 1 /\ cutoff = 0 /\ newest = 0
      BY DEF Init
    <2>2. ASSUME NEW t \in JWTs PROVE iat[t] <= clock
      BY <1>2, <2>1
    <2>3. ASSUME NEW r \in Requests PROVE req[r].now <= clock
      BY <1>1, <2>1 DEF Begun
    <2>. QED BY <2>1, <2>2, <2>3 DEF StampsArePast
  <1>4. SignsOnce
    BY <1>1, <1>2 DEF SignsOnce, Begun, AfterAccess, AfterRefresh, JWTs
  <1>5. CoveredIsOlder /\ AloneIsOlder /\ CutoffIsLast
    BY <1>1 DEF Init, CoveredIsOlder, AloneIsOlder, CutoffIsLast, Begun
  <1>. QED BY <1>3, <1>4, <1>5 DEF IInv

LEMMA StampStep ==
    ASSUME TypeOK, IInv, NEW r \in Requests, NEW s, Stamp(r, s),
           s # "revokeCommit", s \in AfterAccess \/ req[r].pc \notin AfterAccess,
           s \in AfterRefresh \/ req[r].pc \notin AfterRefresh
    PROVE  IInv'
  <1> USE DEF history, redis
  <1>1. /\ req'[r].pc = s /\ req'[r].now = clock' /\ Others(r)
        /\ clock' \in Nat /\ clock <= clock'
        /\ UNCHANGED <<cutoff, iat, alone, last, newest, setBack>>
    BY StampFields DEF TypeOK
  <1>2. clock \in Nat /\ cutoff \in Nat /\ newest \in Nat /\ iat \in [JWTs -> Nat]
        /\ \A q \in Requests : req[q].now \in Nat
    BY DEF TypeOK, Request
  <1>3. StampsArePast'
    BY <1>1, <1>2 DEF IInv, StampsArePast, Others
  <1>4. SignsOnce'
    BY <1>1 DEF IInv, SignsOnce, Others
  <1>5. CoveredIsOlder' /\ AloneIsOlder' /\ CutoffIsLast'
    BY <1>1 DEF IInv, CoveredIsOlder, AloneIsOlder, CutoffIsLast, Others
  <1>. QED BY <1>3, <1>4, <1>5 DEF IInv

LEMMA SignStep ==
    ASSUME TypeOK, IInv, NEW r \in Requests, NEW half \in {"access", "refresh"},
           NEW from, NEW s, Sign(r, half, from, s), s # "revokeCommit",
           iat[<<half, r>>] = 0,
           s \in AfterAccess, half = "refresh" <=> s \in AfterRefresh,
           half = "access" => iat[<<"refresh", r>>] = 0
    PROVE  IInv'
  <1> USE DEF history, redis
  <1> DEFINE t0 == <<half, r>>
  <1>1. /\ req'[r].pc = s /\ req'[r].now = req[r].now /\ Others(r)
        /\ UNCHANGED <<clock, cutoff, alone, last, newest, setBack>>
    BY GotoFields DEF Sign, TypeOK
  <1>2. /\ clock \in Nat /\ cutoff \in Nat /\ newest \in Nat /\ iat \in [JWTs -> Nat]
        /\ \A q \in Requests : req[q].now \in Nat /\ req[q].covers \subseteq JWTs
        /\ alone \subseteq JWTs
    BY DEF TypeOK, Request
  <1>3. t0 \in JWTs
    BY DEF JWTs
  <1>4. /\ IssuedAt(req[r].now) \in Nat
        /\ IssuedAt(req[r].now) <= clock \/ IssuedAt(req[r].now) <= newest + 1
    BY <1>2 DEF IssuedAt, IInv, StampsArePast
  <1>5. \A t \in JWTs : iat'[t] = IF t = t0 THEN IssuedAt(req[r].now) ELSE iat[t]
    BY <1>2 DEF Sign
  <1>6. StampsArePast'
    BY <1>1, <1>2, <1>4, <1>5 DEF IInv, StampsArePast, Others
  <1>7. SignsOnce'
    <2>1. ASSUME NEW q \in Requests \ {r}, NEW h \in {"access", "refresh"}
          PROVE  iat'[<<h, q>>] = iat[<<h, q>>] /\ req'[q] = req[q]
      BY <1>1, <1>5 DEF JWTs, Others
    <2>2. half = "access" => iat'[<<"refresh", r>>] = 0
      BY <1>5 DEF JWTs
    <2>. QED BY <1>1, <2>1, <2>2 DEF IInv, SignsOnce, AfterRefresh
  <1>8. CoveredIsOlder'
    BY <1>1, <1>2, <1>5 DEF IInv, CoveredIsOlder, Others
  <1>9. AloneIsOlder'
    BY <1>1, <1>2, <1>5 DEF IInv, AloneIsOlder
  <1>10. CutoffIsLast'
    BY <1>1 DEF IInv, CutoffIsLast
  <1>. QED BY <1>6, <1>7, <1>8, <1>9, <1>10 DEF IInv

LEMMA RevokeNowStep ==
    ASSUME TypeOK, IInv, NEW r \in Requests, RevokeNow(r)
    PROVE  IInv'
  <1> USE DEF history, redis
  <1>0. req[r].pc = "revokeNow"
    BY DEF RevokeNow, At
  <1>1. /\ req'[r].pc = "revokeCommit" /\ req'[r].now = clock'
        /\ req'[r].covers = Signed /\ (req'[r].own <=> clock' > newest) /\ Others(r)
        /\ clock' \in Nat /\ clock <= clock'
        /\ UNCHANGED <<cutoff, iat, alone, last, newest, setBack>>
    BY RevokeNowFields DEF TypeOK
  <1>2. clock \in Nat /\ cutoff \in Nat /\ newest \in Nat /\ iat \in [JWTs -> Nat]
        /\ \A q \in Requests : req[q].now \in Nat
    BY DEF TypeOK, Request
  <1>3. StampsArePast'
    BY <1>1, <1>2 DEF IInv, StampsArePast, Others
  <1>4. SignsOnce'
    BY <1>0, <1>1 DEF IInv, SignsOnce, Others, AfterAccess, AfterRefresh
  <1>5. CoveredIsOlder'
    <2>1. ASSUME NEW t \in Signed PROVE iat[t] > 0 /\ (req'[r].own => iat[t] <= clock')
      BY <1>1, <1>2 DEF IInv, StampsArePast, Signed
    <2>. QED BY <1>1, <2>1 DEF IInv, CoveredIsOlder, Others
  <1>6. AloneIsOlder' /\ CutoffIsLast'
    BY <1>1 DEF IInv, AloneIsOlder, CutoffIsLast
  <1>. QED BY <1>3, <1>4, <1>5, <1>6 DEF IInv

LEMMA RevokeCommitStep ==
    ASSUME TypeOK, IInv, NEW r \in Requests, RevokeCommit(r)
    PROVE  IInv'
  <1> USE DEF history, redis
  <1>1. /\ req'[r].pc = "revokeScan" /\ req'[r].now = req[r].now /\ Others(r)
        /\ cutoff' = req[r].now /\ Record(r)
        /\ UNCHANGED <<clock, iat>> /\ req[r].pc = "revokeCommit"
    BY GotoFields DEF RevokeCommit, TypeOK, At
  <1>2. /\ clock \in Nat /\ cutoff \in Nat /\ newest \in Nat /\ iat \in [JWTs -> Nat]
        /\ \A q \in Requests : req[q].now \in Nat /\ req[q].covers \subseteq JWTs
        /\ alone \subseteq JWTs
    BY DEF TypeOK, Request
  <1>3. /\ newest' \in Nat /\ newest <= newest' /\ req[r].now <= newest' /\ newest' <= clock
        /\ ~setBack' => newest' = req[r].now
    <2>1. req[r].now \in Nat /\ req[r].now <= clock /\ newest <= clock
      BY <1>2 DEF IInv, StampsArePast
    <2>2. newest' = IF req[r].now > newest THEN req[r].now ELSE newest
      BY <1>1 DEF Record
    <2>3. req[r].now < newest => setBack'
      BY <1>1 DEF Record
    <2>. QED BY <1>2, <2>1, <2>2, <2>3
  <1>4. StampsArePast'
    BY <1>1, <1>2, <1>3 DEF IInv, StampsArePast, Others
  <1>5. SignsOnce'
    BY <1>1 DEF IInv, SignsOnce, Others, AfterAccess, AfterRefresh
  <1>6. CoveredIsOlder'
    BY <1>1 DEF IInv, CoveredIsOlder, Others
  <1>7. AloneIsOlder'
    <2>1. ASSUME NEW t \in alone PROVE iat[t] > 0 /\ iat[t] <= newest'
      BY <1>2, <1>3 DEF IInv, AloneIsOlder
    <2>2. ASSUME req[r].own, NEW t \in req[r].covers PROVE iat[t] > 0 /\ iat[t] <= newest'
      BY <1>1, <1>2, <1>3, <2>2 DEF IInv, CoveredIsOlder
    <2>. QED BY <1>1, <2>1, <2>2 DEF AloneIsOlder, Record
  <1>8. CutoffIsLast'
    BY <1>1, <1>3 DEF CutoffIsLast, Record
  <1>. QED BY <1>4, <1>5, <1>6, <1>7, <1>8 DEF IInv

\* Every step keeps the invariant.
LEMMA IStep ==
    ASSUME TypeOK, IInv, [Next]_vars
    PROVE  IInv'
  <1> USE DEF history, redis
  <1>0. /\ req \in [Requests -> Request] /\ clock \in Nat /\ password \in Nat
        /\ cutoff \in Nat /\ PairPresented /\ Returned \subseteq Requests
    BY DEF TypeOK, Request, Returned
  <1>b. ASSUME NEW r \in Requests, NEW op \in Operations,
               NEW using \in Requests \cup {NoPair}, NEW s \in Steps, NEW n \in Nat,
               s \notin {"revokeCommit", "refreshNow", "refreshSign", "store", "done"},
               Begin(r, op, using, s, n)
        PROVE  IInv'
    <2>1. req[r].pc = "start"
      BY <1>b DEF Begin, At
    <2>2. Plain(r)
      <3>1. UNCHANGED <<clock, cutoff, password, redis, iat, history>>
        BY <1>b DEF Begin
      <3>2. /\ req'[r].pc = s /\ req'[r].now = req[r].now
            /\ req'[r].covers = req[r].covers /\ req'[r].own = req[r].own /\ Others(r)
        BY <1>0, <1>b, BeginFields
      <3>. QED BY <1>b, <2>1, <3>1, <3>2 DEF Plain, AfterAccess, AfterRefresh
    <2>. QED BY <2>2, PlainStep
  <1>1. ASSUME NEW r \in Requests, Step(r) PROVE IInv'
    <2>0. Plain(r) => IInv'
      BY PlainStep
    <2>1. CASE BeginLogin(r)
      <3>1. "accessNow" \in Steps /\ "login" \in Operations
        BY DEF Steps, Operations
      <3>2. Begin(r, "login", NoPair, "accessNow", password)
        BY <2>1 DEF BeginLogin
      <3>. QED BY <3>1, <3>2, <1>0, <1>b
    <2>2. CASE BeginRefresh(r)
      <3>1. "get" \in Steps /\ "refresh" \in Operations
        BY DEF Steps, Operations
      <3>2. PICK p \in Requests : Begin(r, "refresh", p, "get", req[p].epoch)
        BY <2>2, <1>0 DEF BeginRefresh
      <3>3. req[p].epoch \in Nat
        BY <1>0 DEF Request
      <3>. QED BY <3>1, <3>2, <3>3, <1>b
    <2>3. CASE BeginLogout(r)
      <3>1. "blacklist" \in Steps /\ "logout" \in Operations
        BY DEF Steps, Operations
      <3>2. PICK p \in Requests : Begin(r, "logout", p, "blacklist", 0)
        BY <2>3, <1>0 DEF BeginLogout
      <3>. QED BY <3>1, <3>2, <1>b
    <2>4. CASE BeginLogoutAll(r)
      <3>1. "checkBlacklist" \in Steps /\ "logoutAll" \in Operations
        BY DEF Steps, Operations
      <3>2. PICK p \in Requests : Begin(r, "logoutAll", p, "checkBlacklist", 0)
        BY <2>4, <1>0 DEF BeginLogoutAll
      <3>. QED BY <3>1, <3>2, <1>b
    <2>5. CASE BeginChangePassword(r)
      <3>1. "setPassword" \in Steps /\ "changePassword" \in Operations
        BY DEF Steps, Operations
      <3>2. PICK p \in Requests : Begin(r, "changePassword", p, "setPassword", 0)
        BY <2>5, <1>0 DEF BeginChangePassword
      <3>. QED BY <3>1, <3>2, <1>b
    <2>6. CASE BeginResetPassword(r)
      <3>1. "setPassword" \in Steps /\ {"resetPassword", "resetWithToken"} \subseteq Operations
        BY DEF Steps, Operations
      <3>2. PICK op \in Operations : Begin(r, op, NoPair, "setPassword", 0)
        BY <2>6, <3>1 DEF BeginResetPassword
      <3>. QED BY <3>1, <3>2, <1>0, <1>b
    <2>7. CASE BeginCleanup(r)
      <3>1. "dropInactive" \in Steps /\ "cleanup" \in Operations
        BY DEF Steps, Operations
      <3>2. PICK p \in Requests : Begin(r, "cleanup", p, "dropInactive", 0)
        BY <2>7, <1>0 DEF BeginCleanup
      <3>. QED BY <3>1, <3>2, <1>b
    <2>8. CASE ValidateRefresh(r)
      <3>1. Plain(r)
        <4>1. PICK s \in {"checkCutoff", "getAgain", "checkAgain", "getOld", "logoutDelete",
                         "dropInactive", "dropAgain", "revokeNow"} : Reject(r) \/ Goto(r, s)
          BY <2>8 DEF ValidateRefresh, GetKey, CheckCutoff
        <4>2. /\ req[r].pc \in {"get", "checkCutoff", "getAgain", "checkAgain"}
              /\ UNCHANGED <<clock, cutoff, password, redis, iat, history>>
          BY <2>8 DEF ValidateRefresh, GetKey, CheckCutoff, At
        <4>. QED BY <4>1, <4>2, <1>0, GotoFields, FinishFields
             DEF Reject, Plain, Same, AfterAccess, AfterRefresh, history
      <3>. QED BY <2>0, <3>1
    <2>9. CASE ValidateRefreshFails(r)
      <3>1. Plain(r)
        <4>1. PICK s \in {"checkCutoff", "checkAgain", "done"} : Reject(r) \/ Goto(r, s)
          BY <2>9 DEF ValidateRefreshFails, RedisFails
        <4>2. /\ req[r].pc \in {"get", "getAgain", "dropInactive", "dropAgain"}
              /\ UNCHANGED <<clock, cutoff, password, redis, iat, history>>
          BY <2>9 DEF ValidateRefreshFails, RedisFails, At
        <4>. QED BY <4>1, <4>2, <1>0, GotoFields, FinishFields
             DEF Reject, Plain, Same, AfterAccess, AfterRefresh, history
      <3>. QED BY <2>0, <3>1
    <2>10. CASE DropInactive(r)
      <3>1. Plain(r)
        BY <2>10, <1>0, FinishFields
           DEF DropInactive, Reject, Plain, Same, At, AfterAccess, AfterRefresh
      <3>. QED BY <2>0, <3>1
    <2>11. CASE GetOld(r)
      <3>1. Plain(r)
        BY <2>11, <1>0, GotoFields, FinishFields
           DEF GetOld, Plain, Same, At, AfterAccess, AfterRefresh
      <3>. QED BY <2>0, <3>1
    <2>12. CASE StoreGrace(r)
      <3>1. Plain(r)
        BY <2>12, <1>0, FinishFields
           DEF StoreGrace, Plain, Same, At, AfterAccess, AfterRefresh
      <3>. QED BY <2>0, <3>1
    <2>13. CASE RotateFails(r)
      <3>1. Plain(r)
        <4>1. CASE At(r, "getOld")
          <5>1. Reject(r) \/ Goto(r, "accessNow")
            BY <2>13, <4>1 DEF RotateFails, RedisFails, At
          <5>. QED BY <5>1, <4>1, <2>13, <1>0, GotoFields, FinishFields
               DEF RotateFails, RedisFails, Reject, Plain, Same, At, AfterAccess, AfterRefresh, history
        <4>2. CASE At(r, "grace")
          <5>1. Reject(r) \/ Finish(r, r)
            BY <2>13, <4>2 DEF RotateFails, RedisFails, At
          <5>2. UNCHANGED <<clock, cutoff, password, redis, iat, history>>
            BY <2>13 DEF RotateFails, RedisFails
          <5>. QED BY <5>1, <5>2, <4>2, <1>0, FinishFields
               DEF Reject, Plain, Same, At, AfterAccess, AfterRefresh, history
        <4>. QED BY <2>13, <4>1, <4>2 DEF RotateFails
      <3>. QED BY <2>0, <3>1
    <2>14. CASE GenerateTokens(r)
      <3>1. CASE At(r, "accessNow") /\ Stamp(r, "accessSign")
        BY <3>1, StampStep DEF At, AfterAccess, AfterRefresh
      <3>2. CASE At(r, "refreshNow") /\ Stamp(r, "refreshSign")
        BY <3>2, StampStep DEF At, AfterAccess, AfterRefresh
      <3>3. CASE Sign(r, "access", "accessSign", "refreshNow")
        <4>1. iat[<<"access", r>>] = 0 /\ iat[<<"refresh", r>>] = 0
          BY <3>3 DEF Sign, At, IInv, SignsOnce, AfterAccess, AfterRefresh
        <4>. QED BY <3>3, <4>1, SignStep DEF AfterAccess, AfterRefresh
      <3>4. CASE Sign(r, "refresh", "refreshSign", "store")
        <4>1. iat[<<"refresh", r>>] = 0
          BY <3>4 DEF Sign, At, IInv, SignsOnce, AfterAccess, AfterRefresh
        <4>. QED BY <3>4, <4>1, SignStep DEF AfterAccess, AfterRefresh
      <3>. QED BY <2>14, <3>1, <3>2, <3>3, <3>4 DEF GenerateTokens
    <2>15. CASE StoreRefresh(r)
      <3>1. Plain(r)
        BY <2>15, <1>0, GotoFields, FinishFields
           DEF StoreRefresh, Stored, Plain, Same, At, AfterAccess, AfterRefresh
      <3>. QED BY <2>0, <3>1
    <2>16. CASE StoreRefreshFails(r)
      <3>1. Plain(r)
        <4>1. Reject(r) \/ Stored(r)
          BY <2>16 DEF StoreRefreshFails
        <4>2. /\ req[r].pc = "store"
              /\ UNCHANGED <<clock, cutoff, password, redis, iat, history>>
          BY <2>16 DEF StoreRefreshFails, At
        <4>. QED BY <4>1, <4>2, <1>0, GotoFields, FinishFields
             DEF Stored, Reject, Plain, Same, AfterAccess, AfterRefresh, history
      <3>. QED BY <2>0, <3>1
    <2>17. CASE Blacklist(r)
      <3>1. Plain(r)
        BY <2>17, <1>0, GotoFields, FinishFields
           DEF Blacklist, Reject, Plain, Same, At, AfterAccess, AfterRefresh
      <3>. QED BY <2>0, <3>1
    <2>18. CASE LogoutDelete(r)
      <3>1. "done" \in Steps /\ {req[r].using} \in SUBSET Requests
        BY <2>18, <1>0 DEF LogoutDelete, Steps, PairPresented, PresentSteps, At
      <3>2. Plain(r)
        BY <2>18, <1>0, <3>1, FinishFields, KeysFields
           DEF LogoutDelete, Reject, Plain, Same, At, AfterAccess, AfterRefresh
      <3>. QED BY <2>0, <3>2
    <2>19. CASE ValidateAccess(r)
      <3>1. Plain(r)
        <4>1. PICK s \in {"checkAccess", "revokeNow"} : Reject(r) \/ Goto(r, s)
          BY <2>19 DEF ValidateAccess, CheckCutoff, RedisFails
        <4>2. /\ req[r].pc \in {"checkBlacklist", "checkAccess"}
              /\ UNCHANGED <<clock, cutoff, password, redis, iat, history>>
          BY <2>19 DEF ValidateAccess, CheckCutoff, RedisFails, At
        <4>. QED BY <4>1, <4>2, <1>0, GotoFields, FinishFields
             DEF Reject, Plain, Same, AfterAccess, AfterRefresh, history
      <3>. QED BY <2>0, <3>1
    <2>20. CASE SetPassword(r)
      <3>1. Plain(r)
        BY <2>20, <1>0, SetPasswordFields
           DEF SetPassword, Plain, Same, At, AfterAccess, AfterRefresh
      <3>. QED BY <2>0, <3>1
    <2>21. CASE RevokeNow(r)
      BY <2>21, RevokeNowStep
    <2>22. CASE RevokeCommit(r)
      BY <2>22, RevokeCommitStep
    <2>23. CASE RevokeScan(r)
      <3>1. "revokeDelete" \in Steps /\ {p \in Requests : key[p] # "absent"} \in SUBSET Requests
        BY DEF Steps
      <3>2. Plain(r)
        BY <2>23, <1>0, <3>1, GotoFields, KeysFields
           DEF RevokeScan, Revoked, Plain, Same, At, AfterAccess, AfterRefresh
      <3>. QED BY <2>0, <3>2
    <2>24. CASE RevokeDelete(r)
      <3>1. Plain(r)
        BY <2>24, <1>0, GotoFields, FinishFields
           DEF RevokeDelete, Revoked, Plain, Same, At, AfterAccess, AfterRefresh
      <3>. QED BY <2>0, <3>1
    <2>. QED
      BY <1>1, <2>1, <2>2, <2>3, <2>4, <2>5, <2>6, <2>7, <2>8, <2>9, <2>10, <2>11, <2>12, <2>13,
         <2>14, <2>15, <2>16, <2>17, <2>18, <2>19, <2>20, <2>21, <2>22, <2>23, <2>24 DEF Step
  <1>2. ASSUME UNCHANGED <<clock, cutoff, iat, req, alone, last, newest, setBack>> PROVE IInv'
    BY <1>2 DEF IInv, StampsArePast, SignsOnce, CoveredIsOlder, AloneIsOlder, CutoffIsLast
  <1>3. ASSUME NEW p \in Requests, KeyExpires(p) \/ KeyGoesInactive(p)
        PROVE  IInv'
    BY <1>2, <1>3 DEF KeyExpires, KeyGoesInactive
  <1>4. CASE UNCHANGED vars
    BY <1>2, <1>4 DEF vars
  <1>. QED BY <1>1, <1>3, <1>4 DEF Next, Quiescent

LEMMA Invariance == Spec => []IInv
  BY IStep, IInit, TypeCorrect, PTL DEF Spec

\* Whenever the last revocation to commit is the newest, no JWT that existed when a
\* committed revocation began is accepted, whatever Redis did (revoke_all_user_tokens).
\* Clock reads may repeat a microsecond and revocations may overlap; a revocation that
\* shares its microsecond with the newest one claims nothing for itself.
THEOREM RevocationHolds == Spec => []RevocationIsFinal
  <1>1. TypeOK /\ IInv => RevocationIsFinal
    BY DEF TypeOK, IInv, AloneIsOlder, CutoffIsLast, RevocationIsFinal, Accepted, PassesCutoff
  <1>. QED BY <1>1, Invariance, TypeCorrect, PTL

-----------------------------------------------------------------------------
(* Fresh sessions: inductive by itself.                                    *)

LEMMA FreshStep ==
    ASSUME TypeOK, FreshTokensOutliveTheCutoff, [Next]_vars
    PROVE  FreshTokensOutliveTheCutoff'
  <1> USE DEF history, redis, FreshTokensOutliveTheCutoff
  <1>1. ASSUME UNCHANGED <<cutoff, iat, overtaken>> PROVE FreshTokensOutliveTheCutoff'
    BY <1>1 DEF Signed, PassesCutoff
  <1>2. ASSUME NEW r \in Requests, NEW half \in {"access", "refresh"}, NEW from, NEW s,
               Sign(r, half, from, s)
        PROVE  FreshTokensOutliveTheCutoff'
    <2>1. IssuedAt(req[r].now) > cutoff
      BY DEF IssuedAt, TypeOK, Request
    <2>2. iat \in [JWTs -> Nat] /\ iat' = [iat EXCEPT ![<<half, r>>] = IssuedAt(req[r].now)]
          /\ UNCHANGED <<cutoff, overtaken>>
      BY <1>2 DEF Sign, TypeOK
    <2>. QED BY <2>1, <2>2 DEF Signed, PassesCutoff
  <1>3. ASSUME NEW r \in Requests, RevokeCommit(r) PROVE FreshTokensOutliveTheCutoff'
    BY <1>3 DEF RevokeCommit, Record, Signed
  <1>4. ASSUME NEW r \in Requests, Step(r) PROVE FreshTokensOutliveTheCutoff'
    <2>1. CASE GenerateTokens(r)
      BY <2>1, <1>1, <1>2 DEF GenerateTokens, Stamp
    <2>2. CASE RevokeCommit(r)
      BY <2>2, <1>3
    <2>3. CASE ~GenerateTokens(r) /\ ~RevokeCommit(r)
      BY <2>3, <1>1, <1>4
         DEF Step, BeginLogin, BeginRefresh, BeginLogout, BeginLogoutAll,
             BeginChangePassword, BeginResetPassword, BeginCleanup, Begin,
             ValidateRefresh, GetKey, CheckCutoff, ValidateRefreshFails, RedisFails,
             DropInactive, GetOld, StoreGrace, RotateFails, StoreRefresh,
             StoreRefreshFails, Blacklist, LogoutDelete, ValidateAccess, SetPassword,
             RevokeNow, RevokeScan, RevokeDelete
    <2>. QED BY <2>1, <2>2, <2>3
  <1>. QED BY <1>1, <1>4 DEF Next, KeyExpires, KeyGoesInactive, Quiescent, vars

\* A JWT signed after the cutoff was written is newer than the cutoff, whether or not
\* revocations overlap (_issued_at_us_after_user_cutoff).
THEOREM FreshTokensHold == Spec => []FreshTokensOutliveTheCutoff
  <1>1. Init => FreshTokensOutliveTheCutoff
    BY DEF Init, FreshTokensOutliveTheCutoff, Signed, JWTs, PassesCutoff
  <1>2. TypeOK /\ FreshTokensOutliveTheCutoff /\ [Next]_vars => FreshTokensOutliveTheCutoff'
    BY FreshStep
  <1>. QED BY <1>1, <1>2, TypeCorrect, PTL DEF Spec

-----------------------------------------------------------------------------
(* What one step does to the request that takes it, to the replay cache and *)
(* to the JWTs of the others.  The two invariants below need no more.      *)

\* The steps a refresh takes when the pair it presents is behind the cutoff.
LateSteps == {"get", "checkCutoff", "dropInactive", "revokeNow", "revokeCommit",
              "revokeScan", "revokeDelete", "done"}

Opens(r) ==
    /\ req[r].pc = "start"
    /\ UNCHANGED cached
    /\ req'[r].pc \notin {"start", "grace"}
    /\ req'[r].answer = req[r].answer
    /\ \/ req'[r].op # "refresh"
       \/ /\ req'[r].op = "refresh" /\ req'[r].pc = "get"
          /\ req'[r].using \in Returned
          /\ req'[r].epoch = req[req'[r].using].epoch
          /\ req'[r].late = (<<"refresh", req'[r].using>> \in alone)

Moves(r) ==
    /\ req[r].pc \notin {"start", "done"}
    /\ req'[r].op = req[r].op /\ req'[r].using = req[r].using /\ req'[r].late = req[r].late
    /\ req[r].pc # "setPassword" => req'[r].epoch = req[r].epoch
    /\ req'[r].pc \notin {"start", "setPassword"}
    /\ req'[r].pc = "grace" => req[r].op = "refresh"
    /\ \/ UNCHANGED cached
       \/ /\ req[r].pc = "grace" /\ req'[r].pc = "done"
          /\ cached' = [cached EXCEPT ![req[r].using] = r]
    /\ \/ req'[r].answer = req[r].answer
       \/ req'[r].pc = "done" /\ req'[r].answer \in {NoPair, r}
       \/ req'[r].pc = "done" /\ req[r].pc = "getOld" /\ req'[r].answer = cached[req[r].using]

\* A refresh of a pair behind the cutoff stays among LateSteps and gets no answer.
StaysLate(r) ==
    /\ req[r].op = "refresh" /\ req[r].pc \in LateSteps
    /\ req[r].pc = "checkCutoff" => ~PassesCutoff(<<"refresh", req[r].using>>)
    => req'[r].pc \in LateSteps /\ req'[r].answer \in {req[r].answer, NoPair}

Shape(r) ==
    /\ Others(r)
    /\ Opens(r) \/ Moves(r)
    /\ StaysLate(r)
    /\ alone \subseteq alone' /\ (setBack => setBack')
    /\ req[r].pc \notin {"accessSign", "refreshSign"} => UNCHANGED iat
    /\ \A q \in Requests \ {r} : iat'[<<"refresh", q>>] = iat[<<"refresh", q>>]

LEMMA BeginLate ==
    ASSUME req \in [Requests -> Request], NEW r \in Requests, NEW op, NEW using, NEW s,
           NEW n, Begin(r, op, using, s, n)
    PROVE  req'[r].late = (<<"refresh", using>> \in alone)
  <1> DEFINE late == <<"refresh", using>> \in alone
             state == [req[r] EXCEPT !.op = op, !.using = using, !.pc = s,
                                     !.epoch = n, !.late = late]
  <1>1. req[r] \in Request
    OBVIOUS
  <1>2. Becomes(r, state)
    BY DEF Begin
  <1> HIDE DEF late
  <1>3. state.late = late
    BY <1>1 DEF Request
  <1> HIDE DEF state
  <1>. QED BY <1>2, <1>3, BecomesFields DEF late

LEMMA BeginShape ==
    ASSUME TypeOK, NEW r \in Requests, NEW op \in Operations,
           NEW using \in Requests \cup {NoPair}, NEW s \in Steps, NEW n \in Nat,
           s \notin {"start", "grace"},
           op = "refresh" => s = "get" /\ using \in Returned /\ n = req[using].epoch,
           Begin(r, op, using, s, n)
    PROVE  Shape(r)
  <1> USE DEF history, redis
  <1>1. req \in [Requests -> Request]
    BY DEF TypeOK
  <1>2. /\ req'[r].pc = s /\ req'[r].op = op /\ req'[r].using = using
        /\ req'[r].answer = req[r].answer /\ req'[r].epoch = n /\ Others(r)
    BY <1>1, BeginFields
  <1>3. req[r].pc = "start" /\ UNCHANGED <<cached, iat, alone, setBack>>
    BY DEF Begin, At
  <1>4. req'[r].late = (<<"refresh", using>> \in alone)
    BY <1>1, BeginLate
  <1>5. Opens(r)
    BY <1>2, <1>3, <1>4 DEF Opens
  <1>6. StaysLate(r)
    BY <1>3 DEF StaysLate, LateSteps
  <1>. QED BY <1>2, <1>3, <1>5, <1>6 DEF Shape

\* Steps that only go on or stop without an answer.
LEMMA GoesOn ==
    ASSUME TypeOK, NEW r \in Requests, NEW s, Reject(r) \/ Goto(r, s),
           req[r].pc \notin {"start", "done", "setPassword", "accessSign", "refreshSign"},
           s \notin {"start", "setPassword"},
           s = "grace" => req[r].op = "refresh",
           (/\ req[r].op = "refresh" /\ req[r].pc \in LateSteps
            /\ req[r].pc = "checkCutoff" => ~PassesCutoff(<<"refresh", req[r].using>>)
            /\ Goto(r, s))
           => s \in LateSteps,
           UNCHANGED <<cached, iat>>, alone \subseteq alone', setBack => setBack'
    PROVE  Shape(r)
  <1>1. req \in [Requests -> Request]
    BY DEF TypeOK
  <1>2. CASE Reject(r)
    <2>1. req'[r].pc = "done" /\ req'[r].answer = NoPair /\ Same(r) /\ Others(r)
      BY <1>1, <1>2, FinishFields DEF Reject
    <2>2. Moves(r) /\ StaysLate(r)
      BY <2>1 DEF Moves, StaysLate, Same, LateSteps
    <2>. QED BY <2>1, <2>2 DEF Shape
  <1>3. CASE Goto(r, s)
    <2>1. req'[r].pc = s /\ req'[r].answer = req[r].answer /\ Same(r) /\ Others(r)
      BY <1>1, <1>3, GotoFields
    <2>2. Moves(r) /\ StaysLate(r)
      BY <1>3, <2>1 DEF Moves, StaysLate, Same
    <2>. QED BY <2>1, <2>2 DEF Shape
  <1>. QED BY <1>2, <1>3

LEMMA StepShape ==
    ASSUME TypeOK, NEW r \in Requests, Step(r)
    PROVE  Shape(r)
  <1> USE DEF history, redis
  <1>0. /\ req \in [Requests -> Request] /\ clock \in Nat /\ password \in Nat
        /\ newest \in Nat
        /\ PairPresented /\ Returned \subseteq Requests /\ iat \in [JWTs -> Nat]
        /\ \A q \in Requests : req[q].epoch \in Nat
    BY DEF TypeOK, Request, Returned
  <1>1. CASE BeginLogin(r)
    <2>1. Begin(r, "login", NoPair, "accessNow", password)
      BY <1>1 DEF BeginLogin
    <2>. QED BY <2>1, <1>0, BeginShape DEF Steps, Operations
  <1>2. CASE BeginRefresh(r)
    <2>1. PICK p \in Returned : Begin(r, "refresh", p, "get", req[p].epoch)
      BY <1>2 DEF BeginRefresh
    <2>. QED BY <2>1, <1>0, BeginShape DEF Steps, Operations
  <1>3. CASE BeginLogout(r)
    <2>1. PICK p \in Returned : Begin(r, "logout", p, "blacklist", 0)
      BY <1>3 DEF BeginLogout
    <2>. QED BY <2>1, <1>0, BeginShape DEF Steps, Operations
  <1>4. CASE BeginLogoutAll(r)
    <2>1. PICK p \in Returned : Begin(r, "logoutAll", p, "checkBlacklist", 0)
      BY <1>4 DEF BeginLogoutAll
    <2>. QED BY <2>1, <1>0, BeginShape DEF Steps, Operations
  <1>5. CASE BeginChangePassword(r)
    <2>1. PICK p \in Returned : Begin(r, "changePassword", p, "setPassword", 0)
      BY <1>5 DEF BeginChangePassword
    <2>. QED BY <2>1, <1>0, BeginShape DEF Steps, Operations
  <1>6. CASE BeginResetPassword(r)
    <2>1. PICK op \in {"resetPassword", "resetWithToken"} :
              Begin(r, op, NoPair, "setPassword", 0)
      BY <1>6 DEF BeginResetPassword
    <2>. QED BY <2>1, <1>0, BeginShape DEF Steps, Operations
  <1>7. CASE BeginCleanup(r)
    <2>1. PICK p \in Requests : Begin(r, "cleanup", p, "dropInactive", 0)
      BY <1>7 DEF BeginCleanup
    <2>. QED BY <2>1, <1>0, BeginShape DEF Steps, Operations
  <1>8. CASE ValidateRefresh(r)
    <2>1. CASE GetKey(r, "get", "checkCutoff", "dropInactive")
      <3>1. PICK s \in {"revokeNow", "dropInactive", "checkCutoff"} : Reject(r) \/ Goto(r, s)
        BY <2>1 DEF GetKey
      <3>. QED BY <2>1, <3>1, GoesOn DEF GetKey, At, LateSteps
    <2>2. CASE CheckCutoff(r, "refresh", "checkCutoff",
                           IF req[r].op = "logout" THEN "logoutDelete" ELSE "getAgain")
      <3>1. PICK s \in {"logoutDelete", "getAgain"} :
                 Reject(r) \/ (PassesCutoff(<<"refresh", req[r].using>>) /\ Goto(r, s))
        BY <2>2 DEF CheckCutoff
      <3>2. req[r].pc = "checkCutoff" /\ UNCHANGED <<cached, iat, alone, setBack>>
        BY <2>2 DEF CheckCutoff, At
      <3>3. CASE Reject(r)
        <4>1. req'[r].pc = "done" /\ req'[r].answer = NoPair /\ Same(r) /\ Others(r)
          BY <1>0, <3>3, FinishFields DEF Reject
        <4>2. Moves(r) /\ StaysLate(r)
          BY <3>2, <4>1 DEF Moves, StaysLate, Same, LateSteps
        <4>. QED BY <3>2, <4>1, <4>2 DEF Shape
      <3>4. CASE PassesCutoff(<<"refresh", req[r].using>>) /\ Goto(r, s)
        BY <3>2, <3>4, GoesOn
      <3>. QED BY <3>1, <3>3, <3>4
    <2>3. CASE GetKey(r, "getAgain", "checkAgain", "dropAgain")
      <3>1. PICK s \in {"revokeNow", "dropAgain", "checkAgain"} : Reject(r) \/ Goto(r, s)
        BY <2>3 DEF GetKey
      <3>. QED BY <2>3, <3>1, GoesOn DEF GetKey, At, LateSteps
    <2>4. CASE CheckCutoff(r, "refresh", "checkAgain", "getOld")
      <3>1. Reject(r) \/ Goto(r, "getOld")
        BY <2>4 DEF CheckCutoff
      <3>. QED BY <2>4, <3>1, GoesOn DEF CheckCutoff, At, LateSteps
    <2>. QED BY <1>8, <2>1, <2>2, <2>3, <2>4 DEF ValidateRefresh
  <1>9. CASE ValidateRefreshFails(r)
    <2>1. PICK s : /\ RedisFails(r, s)
                   /\ \/ req[r].pc \in {"get", "dropInactive"} /\ s = "checkCutoff"
                      \/ req[r].pc = "dropInactive" /\ req[r].op = "cleanup" /\ s = "done"
                      \/ req[r].pc \in {"getAgain", "dropAgain"} /\ s = "checkAgain"
      BY <1>9 DEF ValidateRefreshFails, At
    <2>. QED BY <2>1, GoesOn DEF RedisFails, LateSteps
  <1>10. CASE DropInactive(r)
    BY <1>10, GoesOn DEF DropInactive, At, LateSteps
  <1>11. CASE GetOld(r)
    <2>1. req[r].pc = "getOld" /\ UNCHANGED <<cached, iat, alone, setBack>>
      BY <1>11 DEF GetOld, At
    <2>2. CASE Finish(r, cached[req[r].using])
      <3>1. /\ req'[r].pc = "done" /\ req'[r].answer = cached[req[r].using]
            /\ Same(r) /\ Others(r)
        BY <1>0, <2>2, FinishFields
      <3>2. Moves(r) /\ StaysLate(r)
        BY <2>1, <3>1 DEF Moves, StaysLate, Same, LateSteps
      <3>. QED BY <2>1, <3>1, <3>2 DEF Shape
    <2>3. CASE Goto(r, "accessNow")
      <3>1. PICK s \in {"accessNow"} : Reject(r) \/ Goto(r, s)
        BY <2>3
      <3>. QED BY <2>1, <3>1, GoesOn DEF LateSteps
    <2>. QED BY <1>11, <2>2, <2>3 DEF GetOld
  <1>12. ASSUME Finish(r, r), req[r].pc \in {"store", "grace"}, UNCHANGED <<iat, alone, setBack>>,
                \/ UNCHANGED cached
                \/ /\ req[r].pc = "grace"
                   /\ cached' = [cached EXCEPT ![req[r].using] = r]
         PROVE  Shape(r)
    <2>1. req'[r].pc = "done" /\ req'[r].answer = r /\ Same(r) /\ Others(r)
      BY <1>0, <1>12, FinishFields
    <2>2. Moves(r) /\ StaysLate(r)
      BY <1>12, <2>1 DEF Moves, StaysLate, Same, LateSteps
    <2>. QED BY <1>12, <2>1, <2>2 DEF Shape
  <1>13. CASE StoreGrace(r)
    BY <1>12, <1>13 DEF StoreGrace, At
  <1>14. CASE RotateFails(r)
    <2>1. CASE At(r, "getOld") /\ RedisFails(r, "accessNow")
      <3>1. PICK s \in {"accessNow"} : Reject(r) \/ Goto(r, s)
        BY <2>1 DEF RedisFails
      <3>. QED BY <2>1, <3>1, GoesOn DEF RedisFails, At, LateSteps
    <2>2. CASE At(r, "grace") /\ Reject(r) /\ UNCHANGED <<redis, iat, history>>
      <3>1. PICK s \in {"done"} : Reject(r) \/ Goto(r, s)
        BY <2>2
      <3>. QED BY <2>2, <3>1, GoesOn DEF At, LateSteps
    <2>3. CASE At(r, "grace") /\ Finish(r, r) /\ UNCHANGED <<redis, iat, history>>
      BY <2>3, <1>12 DEF At
    <2>. QED BY <1>14, <2>1, <2>2, <2>3 DEF RotateFails
  <1>15. CASE GenerateTokens(r)
    <2>1. ASSUME NEW s \in {"accessSign", "refreshSign"}, Stamp(r, s),
                 req[r].pc \in {"accessNow", "refreshNow"}
          PROVE  Shape(r)
      <3>1. req'[r].pc = s /\ req'[r].answer = req[r].answer /\ Same(r) /\ Others(r)
        BY <1>0, <2>1, StampFields
      <3>2. UNCHANGED <<redis, iat, history>>
        BY <1>0, <2>1, StampFields
      <3>3. Moves(r) /\ StaysLate(r)
        BY <2>1, <3>1, <3>2 DEF Moves, StaysLate, Same, LateSteps
      <3>. QED BY <3>1, <3>2, <3>3 DEF Shape
    <2>2. ASSUME NEW half \in {"access", "refresh"}, NEW from \in {"accessSign", "refreshSign"},
                 NEW s \in {"refreshNow", "store"}, Sign(r, half, from, s)
          PROVE  Shape(r)
      <3>1. /\ req'[r].pc = s /\ req'[r].answer = req[r].answer /\ Same(r) /\ Others(r)
            /\ req[r].pc = from
        BY <1>0, <2>2, GotoFields DEF Sign, At
      <3>2. Moves(r) /\ StaysLate(r)
        BY <2>2, <3>1 DEF Sign, Moves, StaysLate, Same, LateSteps
      <3>3. \A q \in Requests \ {r} : iat'[<<"refresh", q>>] = iat[<<"refresh", q>>]
        BY <1>0, <2>2 DEF Sign, JWTs
      <3>. QED BY <2>2, <3>1, <3>2, <3>3 DEF Sign, Shape
    <2>. QED BY <1>15, <2>1, <2>2 DEF GenerateTokens, At
  <1>16. ASSUME Reject(r) \/ Stored(r), req[r].pc = "store", UNCHANGED <<cached, iat, alone, setBack>>
         PROVE  Shape(r)
    <2>1. PICK s \in {"grace"} :
               \/ Reject(r) \/ (req[r].op = "refresh" /\ Goto(r, s))
               \/ Finish(r, r)
      BY <1>16 DEF Stored
    <2>. QED BY <1>16, <2>1, <1>12, GoesOn DEF LateSteps
  <1>17. CASE StoreRefresh(r) \/ StoreRefreshFails(r)
    BY <1>17, <1>16 DEF StoreRefresh, StoreRefreshFails, At
  <1>18. CASE Blacklist(r)
    <2>1. PICK s \in {"get"} : Reject(r) \/ Goto(r, s)
      BY <1>18 DEF Blacklist
    <2>. QED BY <1>18, <2>1, GoesOn DEF Blacklist, At, LateSteps
  <1>19. ASSUME NEW k \in SUBSET Requests, NEW s \in {"done", "revokeDelete"}, Note(r, k, s),
                req[r].pc \in {"logoutDelete", "revokeScan"}, UNCHANGED <<cached, iat, alone, setBack>>
         PROVE  Shape(r)
    <2>1. /\ req'[r].pc = s /\ req'[r].answer = req[r].answer /\ Others(r)
          /\ req'[r].op = req[r].op /\ req'[r].using = req[r].using
          /\ req'[r].late = req[r].late /\ req'[r].epoch = req[r].epoch
      BY <1>0, <1>19, KeysFields DEF Steps
    <2>2. Moves(r) /\ StaysLate(r)
      BY <1>19, <2>1 DEF Moves, StaysLate, LateSteps
    <2>. QED BY <1>19, <2>1, <2>2 DEF Shape
  <1>20. CASE LogoutDelete(r)
    <2>1. req[r].using \in Requests
      BY <1>0, <1>20 DEF LogoutDelete, PairPresented, PresentSteps, At
    <2>. QED BY <1>20, <2>1, <1>19, GoesOn DEF LogoutDelete, At, LateSteps
  <1>21. CASE ValidateAccess(r)
    <2>1. PICK s \in {"checkAccess", "revokeNow"} : Reject(r) \/ Goto(r, s)
      BY <1>21 DEF ValidateAccess, CheckCutoff, RedisFails
    <2>2. /\ req[r].pc \in {"checkBlacklist", "checkAccess"}
          /\ UNCHANGED <<clock, cutoff, password, redis, iat, history>>
      BY <1>21 DEF ValidateAccess, CheckCutoff, RedisFails, At
    <2>. QED BY <2>1, <2>2, GoesOn DEF LateSteps
  <1>22. CASE SetPassword(r)
    <2>1. /\ req'[r].pc = "revokeNow" /\ req'[r].op = req[r].op
          /\ req'[r].using = req[r].using /\ req'[r].answer = req[r].answer
          /\ req'[r].late = req[r].late /\ Others(r)
      BY <1>0, <1>22, SetPasswordFields
    <2>2. Moves(r) /\ StaysLate(r)
      BY <1>22, <2>1 DEF SetPassword, At, Moves, StaysLate, LateSteps
    <2>. QED BY <1>22, <2>1, <2>2 DEF SetPassword, Shape
  <1>23. CASE RevokeNow(r)
    <2>1. /\ req'[r].pc = "revokeCommit" /\ req'[r].op = req[r].op
          /\ req'[r].using = req[r].using /\ req'[r].answer = req[r].answer
          /\ req'[r].late = req[r].late /\ req'[r].epoch = req[r].epoch /\ Others(r)
      BY <1>0, <1>23, RevokeNowFields
    <2>2. UNCHANGED <<redis, iat, history>> /\ req[r].pc = "revokeNow"
      BY <1>23 DEF RevokeNow, At
    <2>3. Moves(r) /\ StaysLate(r)
      BY <2>1, <2>2 DEF Moves, StaysLate, LateSteps
    <2>. QED BY <2>1, <2>2, <2>3 DEF Shape
  <1>24. CASE RevokeCommit(r)
    <2>1. PICK s \in {"revokeScan"} : Reject(r) \/ Goto(r, s)
      BY <1>24 DEF RevokeCommit
    <2>2. UNCHANGED <<cached, iat>> /\ alone \subseteq alone' /\ (setBack => setBack')
      BY <1>24 DEF RevokeCommit, Record
    <2>. QED BY <1>24, <2>1, <2>2, GoesOn DEF RevokeCommit, At, LateSteps
  <1>25. CASE RevokeScan(r)
    <2>1. {p \in Requests : key[p] # "absent"} \in SUBSET Requests
      OBVIOUS
    <2>2. req[r].pc = "revokeScan" /\ UNCHANGED <<cached, iat, alone, setBack>>
      BY <1>25 DEF RevokeScan, At
    <2>3. CASE Note(r, {p \in Requests : key[p] # "absent"}, "revokeDelete")
      BY <2>1, <2>2, <2>3, <1>19
    <2>4. CASE Revoked(r)
      <3>1. PICK s \in {"accessNow", "done"} :
                 (s = "accessNow" => req[r].op = "resetWithToken") /\ Goto(r, s)
        BY <2>4 DEF Revoked
      <3>. QED BY <2>2, <3>1, GoesOn DEF LateSteps
    <2>. QED BY <1>25, <2>3, <2>4 DEF RevokeScan
  <1>26. CASE RevokeDelete(r)
    <2>1. PICK s \in {"accessNow", "done"} :
               (s = "accessNow" => req[r].op = "resetWithToken") /\ Goto(r, s)
      BY <1>26 DEF RevokeDelete, Revoked
    <2>. QED BY <1>26, <2>1, GoesOn DEF RevokeDelete, At, LateSteps
  <1>. QED
    BY <1>1, <1>2, <1>3, <1>4, <1>5, <1>6, <1>7, <1>8, <1>9, <1>10, <1>11, <1>13, <1>14,
       <1>15, <1>16, <1>17, <1>18, <1>20, <1>21, <1>22, <1>23, <1>24, <1>25, <1>26 DEF Step

-----------------------------------------------------------------------------
(* Replays.  A request that is over never changes again, a key in grace    *)
(* carries the pair of a rotation of that key, and a refresh continues the *)
(* epoch of a request that is over.                                        *)

AnswersAreOver ==
    \A r \in Requests : req[r].answer # NoPair =>
        req[r].pc = "done" /\ req[req[r].answer].pc = "done"

CachedAreRotations ==
    \A p \in Requests : cached[p] # NoPair =>
        /\ req[cached[p]].op = "refresh"
        /\ req[cached[p]].using = p
        /\ req[cached[p]].pc = "done"

RefreshesContinue ==
    \A r \in Requests : req[r].op = "refresh" =>
        /\ req[r].pc \notin {"start", "setPassword"}
        /\ req[r].using \in Requests
        /\ req[req[r].using].pc = "done"
        /\ req[r].epoch = req[req[r].using].epoch

GraceIsOfRefreshes == \A r \in Requests : req[r].pc = "grace" => req[r].op = "refresh"

RInv ==
    /\ AnswersAreOver /\ CachedAreRotations /\ RefreshesContinue /\ GraceIsOfRefreshes
    /\ ReplaysStayInTheSession

LEMMA ReplayStep ==
    ASSUME TypeOK, RInv, NEW r \in Requests, Shape(r)
    PROVE  RInv'
  <1>0. /\ req \in [Requests -> Request] /\ cached \in [Requests -> Requests \cup {NoPair}]
        /\ \A q \in Requests : /\ req[q].answer \in Requests \cup {NoPair}
                               /\ req[q].using \in Requests \cup {NoPair}
        /\ \A q \in Requests \ {r} : req'[q] = req[q]
        /\ Returned \subseteq Requests
    BY DEF TypeOK, Request, Shape, Others, Returned
  <1>1. req[r].pc # "done"
    BY DEF Shape, Opens, Moves
  \* What is over is not r, and stays as it is.
  <1>2. \A q \in Requests : req[q].pc = "done" => q # r /\ req'[q] = req[q]
    BY <1>0, <1>1
  <1>3. \A p \in Requests : cached[p] # NoPair => cached[p] \in Requests /\ cached[p] # r
    BY <1>0, <1>1 DEF RInv, CachedAreRotations
  <1>4. \A p \in Returned : p # r /\ req[p].pc = "done"
    BY <1>0, <1>1 DEF RInv, AnswersAreOver, Returned
  <1>5. CASE Opens(r)
    <2>1. req'[r].answer = NoPair /\ UNCHANGED cached /\ req'[r].pc \notin {"start", "grace"}
      BY <1>1, <1>5 DEF Opens, RInv, AnswersAreOver
    <2>2. AnswersAreOver' /\ CachedAreRotations' /\ GraceIsOfRefreshes'
      BY <1>0, <1>2, <2>1
         DEF RInv, AnswersAreOver, CachedAreRotations, GraceIsOfRefreshes
    <2>3. RefreshesContinue'
      <3>1. req'[r].op = "refresh" =>
              /\ req'[r].pc \notin {"start", "setPassword"}
              /\ req'[r].using \in Requests
              /\ req'[req'[r].using].pc = "done"
              /\ req'[r].epoch = req'[req'[r].using].epoch
        BY <1>0, <1>4, <1>5 DEF Opens
      <3>. QED BY <1>0, <1>2, <3>1 DEF RInv, RefreshesContinue
    <2>4. ReplaysStayInTheSession'
      BY <1>0, <1>2, <2>1 DEF RInv, AnswersAreOver, ReplaysStayInTheSession
    <2>. QED BY <2>2, <2>3, <2>4 DEF RInv
  <1>6. CASE Moves(r)
    <2>1. AnswersAreOver'
      <3>1. req'[r].answer # NoPair => req'[r].pc = "done" /\ req'[req'[r].answer].pc = "done"
        <4>1. req[r].answer = NoPair
          BY <1>1 DEF RInv, AnswersAreOver
        <4>2. CASE req[r].pc = "getOld" /\ req'[r].answer = cached[req[r].using]
                   /\ req'[r].pc = "done"
          <5>1. req[r].using \in Requests
            BY <4>2 DEF TypeOK, PairPresented, PresentSteps
          <5>. QED BY <1>2, <1>3, <4>2, <5>1 DEF RInv, CachedAreRotations
        <4>. QED BY <1>6, <4>1, <4>2 DEF Moves
      <3>. QED BY <1>0, <1>2, <3>1 DEF RInv, AnswersAreOver
    <2>2. CachedAreRotations'
      <3>1. CASE UNCHANGED cached
        BY <1>2, <1>3, <3>1 DEF RInv, CachedAreRotations
      <3>2. CASE /\ req[r].pc = "grace" /\ req'[r].pc = "done"
                 /\ cached' = [cached EXCEPT ![req[r].using] = r]
        <4>1. req'[r].op = "refresh" /\ req'[r].using = req[r].using /\ req[r].using \in Requests
          BY <1>6, <3>2 DEF Moves, RInv, GraceIsOfRefreshes, RefreshesContinue
        <4>2. \A p \in Requests : cached'[p] = IF p = req[r].using THEN r ELSE cached[p]
          BY <1>0, <3>2, <4>1
        <4>. QED BY <1>2, <1>3, <3>2, <4>1, <4>2 DEF RInv, CachedAreRotations
      <3>. QED BY <1>6, <3>1, <3>2 DEF Moves
    <2>3. RefreshesContinue'
      <3>1. req'[r].op = "refresh" =>
              /\ req'[r].pc \notin {"start", "setPassword"}
              /\ req'[r].using \in Requests
              /\ req'[req'[r].using].pc = "done"
              /\ req'[r].epoch = req'[req'[r].using].epoch
        <4>1. SUFFICES ASSUME req'[r].op = "refresh"
                       PROVE  /\ req'[r].pc \notin {"start", "setPassword"}
                              /\ req'[r].using \in Requests
                              /\ req'[req'[r].using].pc = "done"
                              /\ req'[r].epoch = req'[req'[r].using].epoch
          OBVIOUS
        <4>2. /\ req[r].op = "refresh" /\ req'[r].using = req[r].using /\ req[r].pc # "done"
              /\ req'[r].pc \notin {"start", "setPassword"}
              /\ req[r].pc # "setPassword" => req'[r].epoch = req[r].epoch
          BY <1>6, <4>1 DEF Moves
        <4>3. /\ req[r].pc # "setPassword" /\ req[r].using \in Requests
              /\ req[req[r].using].pc = "done" /\ req[r].epoch = req[req[r].using].epoch
          BY <4>2 DEF RInv, RefreshesContinue
        <4>4. req'[req[r].using] = req[req[r].using]
          BY <1>0, <4>2, <4>3
        <4>. QED BY <4>2, <4>3, <4>4
      <3>. QED BY <1>0, <1>2, <3>1 DEF RInv, RefreshesContinue
    <2>4. GraceIsOfRefreshes'
      BY <1>0, <1>6 DEF Moves, RInv, GraceIsOfRefreshes
    <2>5. ReplaysStayInTheSession'
      <3>1. req'[r].op = "refresh" /\ req'[r].answer \notin {r, NoPair} =>
              /\ req'[req'[r].answer].op = "refresh"
              /\ req'[req'[r].answer].using = req'[r].using
              /\ req'[req'[r].answer].epoch = req'[r].epoch
        <4>1. SUFFICES ASSUME req'[r].op = "refresh", req'[r].answer \notin {r, NoPair}
                       PROVE  /\ req'[req'[r].answer].op = "refresh"
                              /\ req'[req'[r].answer].using = req'[r].using
                              /\ req'[req'[r].answer].epoch = req'[r].epoch
          OBVIOUS
        <4>2. req[r].answer = NoPair
          BY <1>1 DEF RInv, AnswersAreOver
        <4>3. req[r].pc = "getOld" /\ req'[r].answer = cached[req[r].using]
          BY <1>6, <4>1, <4>2 DEF Moves
        <4>4. /\ req[r].op = "refresh" /\ req'[r].using = req[r].using
              /\ req'[r].epoch = req[r].epoch
          BY <1>6, <4>1, <4>3 DEF Moves
        <4> DEFINE p == req[r].using
                   q == cached[p]
        <4>5. p \in Requests /\ req[r].epoch = req[p].epoch
          BY <4>4 DEF RInv, RefreshesContinue
        <4>6. q \in Requests /\ q # r /\ q # NoPair
          BY <1>3, <4>1, <4>3, <4>5
        <4>7. req[q].op = "refresh" /\ req[q].using = p /\ req'[q] = req[q]
          BY <1>0, <4>5, <4>6 DEF RInv, CachedAreRotations
        <4>8. req[q].epoch = req[p].epoch
          BY <4>6, <4>7 DEF RInv, RefreshesContinue
        <4>. QED BY <4>3, <4>4, <4>5, <4>7, <4>8
      <3>. QED BY <1>0, <1>2, <3>1 DEF RInv, AnswersAreOver, ReplaysStayInTheSession
    <2>. QED BY <2>1, <2>2, <2>3, <2>4, <2>5 DEF RInv
  <1>. QED BY <1>5, <1>6 DEF Shape

\* Whatever a replayed refresh token is answered with belongs to the session it opened
\* (rotate_refresh_token, the cached rotation result), whether or not revocations
\* overlap and whatever Redis does.
THEOREM ReplaysHold == Spec => []ReplaysStayInTheSession
  <1>1. Init => RInv
    BY InitRequests DEF Init, Begun, RInv, AnswersAreOver, CachedAreRotations, RefreshesContinue,
           GraceIsOfRefreshes, ReplaysStayInTheSession
  <1>2. TypeOK /\ RInv /\ [Next]_vars => RInv'
    <2>1. ASSUME UNCHANGED <<cached, req>>, RInv PROVE RInv'
      BY <2>1 DEF RInv, AnswersAreOver, CachedAreRotations, RefreshesContinue,
                  GraceIsOfRefreshes, ReplaysStayInTheSession
    <2>. QED BY <2>1, StepShape, ReplayStep
             DEF Next, KeyExpires, KeyGoesInactive, Quiescent, vars, redis
  <1>3. RInv => ReplaysStayInTheSession
    BY DEF RInv
  <1>. QED BY <1>1, <1>2, <1>3, TypeCorrect, PTL DEF Spec

-----------------------------------------------------------------------------
(* Refreshes of revoked pairs: as long as the cutoff was never set back    *)
(* they are behind it from the start and stay there.                       *)

StartsUnanswered == \A r \in Requests : req[r].pc # "done" => req[r].answer = NoPair

LateRefreshesStop ==
    \A r \in Requests : req[r].op = "refresh" /\ req[r].late =>
        /\ <<"refresh", req[r].using>> \in alone
        /\ req[r].pc \in LateSteps
        /\ req[r].answer = NoPair
        /\ iat[<<"refresh", r>>] = 0

LEMMA LateStep ==
    ASSUME TypeOK, IInv, StartsUnanswered, ~setBack => LateRefreshesStop,
           NEW r \in Requests, Shape(r)
    PROVE  StartsUnanswered' /\ (~setBack' => LateRefreshesStop')
  <1>0. \A q \in Requests \ {r} : /\ req'[q] = req[q]
                                  /\ iat'[<<"refresh", q>>] = iat[<<"refresh", q>>]
    BY DEF Shape, Others
  <1>1. StartsUnanswered'
    <2>1. req'[r].pc # "done" => req'[r].answer = NoPair
      <3>1. CASE Opens(r)
        BY <3>1 DEF Opens, StartsUnanswered
      <3>2. CASE Moves(r)
        BY <3>2 DEF Moves, StartsUnanswered
      <3>. QED BY <3>1, <3>2 DEF Shape
    <2>. QED BY <1>0, <2>1 DEF StartsUnanswered
  <1>2. ASSUME ~setBack', req'[r].op = "refresh", req'[r].late
        PROVE  /\ <<"refresh", req'[r].using>> \in alone'
               /\ req'[r].pc \in LateSteps
               /\ req'[r].answer = NoPair
               /\ iat'[<<"refresh", r>>] = 0
    <2>0. ~setBack /\ LateRefreshesStop
      BY <1>2 DEF Shape
    <2>1. CASE Opens(r)
      <3>1. iat[<<"refresh", r>>] = 0 /\ req[r].answer = NoPair
        BY <2>1 DEF Opens, IInv, SignsOnce, AfterRefresh, StartsUnanswered
      <3>2. UNCHANGED iat
        BY <2>1 DEF Opens, Shape
      <3>. QED BY <1>2, <2>1, <3>1, <3>2 DEF Opens, Shape, LateSteps
    <2>2. CASE Moves(r)
      <3>1. req[r].op = "refresh" /\ req[r].late /\ req'[r].using = req[r].using
        BY <1>2, <2>2 DEF Moves
      <3>2. /\ <<"refresh", req[r].using>> \in alone
            /\ req[r].pc \in LateSteps
            /\ req[r].answer = NoPair
            /\ iat[<<"refresh", r>>] = 0
        BY <2>0, <3>1 DEF LateRefreshesStop
      <3>3. ~PassesCutoff(<<"refresh", req[r].using>>)
        <4>1. <<"refresh", req[r].using>> \in JWTs
          BY <3>2 DEF TypeOK
        <4>. QED BY <2>0, <3>2, <4>1 DEF TypeOK, IInv, AloneIsOlder, CutoffIsLast, PassesCutoff
      <3>4. req'[r].pc \in LateSteps /\ req'[r].answer = NoPair
        BY <3>1, <3>2, <3>3 DEF Shape, StaysLate
      <3>5. UNCHANGED iat /\ alone \subseteq alone'
        BY <3>2 DEF Shape, LateSteps
      <3>. QED BY <3>1, <3>2, <3>4, <3>5
    <2>. QED BY <2>1, <2>2 DEF Shape
  <1>3. ~setBack' => LateRefreshesStop'
    BY <1>0, <1>2 DEF LateRefreshesStop, Shape
  <1>. QED BY <1>1, <1>3

\* As long as no older stamp has replaced a later one, a refresh of a pair that was
\* revoked before the request began opens nothing: the cutoff check stops it even when
\* Redis has lost or kept the key, or a rotation has written its grace value over it
\* (validate_refresh_token, enforce_user_token_cutoff).
THEOREM RevokedPairsHold == Spec => []RevokedPairsOpenNothing
  <1> DEFINE LInv == StartsUnanswered /\ (~setBack => LateRefreshesStop)
  <1>1. Init => LInv
    BY InitRequests DEF Begun, StartsUnanswered, LateRefreshesStop
  <1>2. TypeOK /\ IInv /\ LInv /\ [Next]_vars => LInv'
    <2>1. ASSUME UNCHANGED <<req, iat, alone, setBack>>, LInv PROVE LInv'
      BY <2>1 DEF StartsUnanswered, LateRefreshesStop
    <2>. QED BY <2>1, StepShape, LateStep
             DEF Next, KeyExpires, KeyGoesInactive, Quiescent, vars, history
  <1>3. LInv => RevokedPairsOpenNothing
    BY DEF LateRefreshesStop, RevokedPairsOpenNothing
  <1>. QED BY <1>1, <1>2, <1>3, Invariance, TypeCorrect, PTL DEF Spec

=============================================================================
