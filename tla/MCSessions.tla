----------------------------- MODULE MCSessions -----------------------------
(* Small instances of Sessions: which operation each request is.           *)
EXTENDS Sessions, TLC

CONSTANTS r1, r2, r3, r4

\* An open session, and up to three requests at once.
Mix(a, b, c) == r1 :> "login" @@ r2 :> a @@ r3 :> b @@ r4 :> c

SessionMixes == {
    \* a rotation in flight while all sessions end, and another use of the old token
    Mix("refresh", "logoutAll", "refresh"),
    \* a login between two revocations
    Mix("login", "resetPassword", "resetPassword"),
    \* a rotation, or its replay, beside what ends one session or all of them
    Mix("refresh", "logout", "none"), Mix("logout", "refresh", "none"),
    Mix("changePassword", "refresh", "none"), Mix("resetWithToken", "refresh", "none"),
    Mix("resetWithToken", "resetPassword", "none"),
    Mix("refresh", "refresh", "none"), Mix("refresh", "cleanup", "none")}

\* A rotation of the open session and a change of the password.
RotationAndPassword == {Mix("refresh", "changePassword", "none")}

\* A login between two revocations.
LoginAndRevocations == {Mix("login", "resetPassword", "resetPassword")}

=============================================================================
