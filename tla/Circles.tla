------------------------------ MODULE Circles ------------------------------
(***************************************************************************)
(* Circles, as the dashboard creates and changes them and as users join    *)
(* and leave them (core/admin_dashboard/circle_services.py,                *)
(* core/circles/services/membership.py).                                   *)
(*                                                                         *)
(* Every change of a circle that exists holds its row, so it is one step.  *)
(* Creating a circle holds nothing: it looks for the name, adds the        *)
(* circle, looks for the default rules and commits, and what it adds is    *)
(* seen by nobody before the commit (PostgreSQL, READ COMMITTED).          *)
(***************************************************************************)
EXTENDS Naturals, FiniteSets

CONSTANTS
    Circles,    \* the rows there may be
    Names,      \* names, up to the case of their letters
    CircleUsers,
    CircleAdmins      \* administrators of the platform

VARIABLES
    circle,     \* the row of each circle
    member,     \* the memberships: pairs of a user and a circle
    ruleSets,   \* how many times the default rules were added
    creation    \* the progress of each administrator's creation of a circle

circleVars == <<circle, member, ruleSets, creation>>

NoCircle == [state |-> "absent", name |-> {}]
CircleRow(state, name) == [state |-> state, name |-> {name}]
Resting == [pc |-> "rest", name |-> {}, rules |-> FALSE]

ExistingCircles == {c \in Circles : circle[c].state \in {"active", "inactive"}}
Named(n) == {c \in ExistingCircles : circle[c].name = {n}}

CirclesInit ==
    /\ circle = [c \in Circles |-> NoCircle]
    /\ member = {}
    /\ ruleSets = 0
    /\ creation = [a \in CircleAdmins |-> Resting]

-----------------------------------------------------------------------------
(* The dashboard.                                                          *)

\* A creation goes on only if no circle that exists has its name.
LookForName(a, n) ==
    /\ creation[a].pc = "rest" /\ Named(n) = {}
    /\ creation' = [creation EXCEPT ![a] = [pc |-> "adding", name |-> {n}, rules |-> FALSE]]
    /\ UNCHANGED <<circle, member, ruleSets>>

LookForRules(a) ==
    /\ creation[a].pc = "adding"
    /\ creation' = [creation EXCEPT ![a].pc = "added", ![a].rules = (ruleSets = 0)]
    /\ UNCHANGED <<circle, member, ruleSets>>

CommitCircle(a) ==
    /\ creation[a].pc = "added"
    /\ \E c \in Circles :
        /\ circle[c] = NoCircle
        /\ circle' = [circle EXCEPT ![c] = [state |-> "active", name |-> creation[a].name]]
    /\ ruleSets' = ruleSets + (IF creation[a].rules THEN 1 ELSE 0)
    /\ creation' = [creation EXCEPT ![a] = Resting]
    /\ UNCHANGED member

\* An edit takes any name.
EditCircle(c, n) ==
    /\ c \in ExistingCircles
    /\ circle' = [circle EXCEPT ![c].name = {n}]
    /\ UNCHANGED <<member, ruleSets, creation>>

\* A deleted circle cannot be changed.  Its members stay.
SetState(c, state) ==
    /\ c \in ExistingCircles
    /\ circle' = [circle EXCEPT ![c].state = state]
    /\ UNCHANGED <<member, ruleSets, creation>>

ActivateCircle(c) == SetState(c, "active")
DeactivateCircle(c) == SetState(c, "inactive")
DeleteCircle(c) == SetState(c, "deleted")

-----------------------------------------------------------------------------
(* Users.                                                                  *)

IsMember(u, c) == <<u, c>> \in member

JoinCircle(u, c) ==
    /\ circle[c].state = "active" /\ ~ IsMember(u, c)
    /\ member' = member \union {<<u, c>>}
    /\ UNCHANGED <<circle, ruleSets, creation>>

\* Nobody is an administrator of a circle that the dashboard created.
LeaveCircle(u, c) ==
    /\ IsMember(u, c)
    /\ member' = member \ {<<u, c>>}
    /\ UNCHANGED <<circle, ruleSets, creation>>

-----------------------------------------------------------------------------

ManageCircles ==
    \/ \E a \in CircleAdmins, n \in Names : LookForName(a, n)
    \/ \E a \in CircleAdmins : LookForRules(a)
    \/ \E a \in CircleAdmins : CommitCircle(a)
    \/ \E c \in Circles, n \in Names : EditCircle(c, n)
    \/ \E c \in Circles : ActivateCircle(c) \/ DeactivateCircle(c) \/ DeleteCircle(c)

Membership ==
    \E u \in CircleUsers, c \in Circles : JoinCircle(u, c) \/ LeaveCircle(u, c)

CirclesNext == ManageCircles \/ Membership

CirclesSpec == CirclesInit /\ [][CirclesNext]_circleVars

=============================================================================
