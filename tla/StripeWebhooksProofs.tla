------------------------ MODULE StripeWebhooksProofs ------------------------
(***************************************************************************)
(* Donations are confirmed once and the numbers of early supporters stay   *)
(* distinct, for any donations, supporters, workers and limit.  What makes *)
(* it inductive: a handler that read the number of a supporter may write   *)
(* it back late, so a number belongs to one supporter wherever it is held; *)
(* and what an event says that leads to a confirmation stays true.         *)
(*                                                                         *)
(* And donations are reconciled: Stripe's log is true, complete and in     *)
(* order, a handler has done what its event asks for, and no handler, no   *)
(* retry and no administrator undoes it.                                   *)
(***************************************************************************)
EXTENDS StripeWebhooks, FiniteSetTheorems, TLAPS

Abouts == Sessions \union PlanStatus \union {"incomplete"} \union Nat
Emitted == [type : EventTypes, donation : Donations, about : Abouts]
Progress == [pc : Steps, event : Nat, status : DonationStatus, number : Nat]

Typing ==
    /\ session \in [Donations -> Sessions] /\ plan \in [Donations -> PlanStatus]
    /\ events \in Seq(Emitted)
    /\ status \in [Donations -> DonationStatus]
    /\ number \in [Supporters -> Nat] /\ next \in Nat \ {0} /\ next <= EarlyLimit + 1
    /\ emails \in [Donations -> Nat]
    /\ worker \in [Workers -> Progress] /\ setup \in Setups
    /\ \A w \in Workers : ~ At(w, "idle") => w \in setup.workers /\ worker[w].event \in 1 .. Len(events)

\* An event that leads to a confirmation.
TellsOfPayment(e) == e.type \in {"intent", "invoicePaid"} \/ (e.type = "completed" /\ e.about = "paid")

\* What Stripe says was so, and stays so.
StripeIsTruthful ==
    /\ \A d \in Donations : plan[d] # "none" => session[d] = "paid"
    /\ \A d \in Donations : session[d] # "none" => status[d] # "none"
    /\ \A i \in 1 .. Len(events) :
         /\ session[events[i].donation] # "none"
         /\ TellsOfPayment(events[i]) => session[events[i].donation] = "paid"

\* A number and the supporter it was given to, which a handler may hold longer than the row.
Holds(w, s, n) == ~ At(w, "idle") /\ SupporterOf[About(w)] = s /\ worker[w].number = n
Owns(s, n) == number[s] = n \/ \E w \in Workers : Holds(w, s, n)
NumbersAreOwned ==
    /\ \A s \in Supporters, n \in Nat : Owns(s, n) => n < next
    /\ \A s, t \in Supporters, n \in Nat \ {0} : Owns(s, n) /\ Owns(t, n) => s = t

\* Only what was read as pending expires.
ExpiresWhatIsPending == \A w \in Workers :
    worker[w].pc \in {"lock", "commit"} /\ Is(w, {"expired"}) => At(w, "commit") /\ worker[w].status = "pending"

\* While handlers do not overlap, what one read is so when it commits.
Early == {s \in Supporters : number[s] # 0}
InTurn == ~ Overlap =>
    /\ \A w \in Workers : worker[w].pc \in {"lock", "commit"} =>
         /\ worker[w].number = number[SupporterOf[About(w)]]
         /\ worker[w].status = status[About(w)]
    /\ IsFiniteSet(Early) /\ Cardinality(Early) = next - 1

ConfirmedInTurn ==
    /\ \A d \in Donations : emails[d] > 0 => session[d] = "paid"
    /\ \A w \in Workers : At(w, "confirm") => session[About(w)] = "paid"
    /\ ~ Overlap =>
         /\ \A d \in Donations : emails[d] <= 1 /\ (emails[d] = 1 => status[d] = "succeeded")
         /\ \A w \in Workers : At(w, "confirm") => emails[About(w)] = 0 /\ status[About(w)] = "succeeded"

IInv ==
    /\ Typing /\ StripeIsTruthful /\ NumbersAreOwned
    /\ ExpiresWhatIsPending /\ InTurn /\ ConfirmedInTurn

-----------------------------------------------------------------------------
(* Operators.                                                              *)

LEMMA Shape ==
    /\ EarlyLimit \in Nat /\ SupporterOf \in [Donations -> Supporters]
    /\ \A c \in Setups : c.workers \subseteq Workers /\ c.donations \subseteq Donations
  BY SetupAssumption, ShapeAssumption

LEMMA InitHolds == DonationsInit => IInv
<1> SUFFICES ASSUME DonationsInit
             PROVE  IInv
  OBVIOUS
<1> USE Shape DEF DonationsInit
<1>1. \A w \in Workers : At(w, "idle") /\ worker[w] = Idle
  BY DEF At, Idle
<1>2. Idle \in Progress
  BY DEF Idle, Progress, Steps, DonationStatus
<1>3. Typing
  BY <1>1, <1>2 DEF Typing, Sessions, PlanStatus, DonationStatus
<1>4. StripeIsTruthful
  BY DEF StripeIsTruthful
<1>5. NumbersAreOwned /\ ExpiresWhatIsPending
  BY <1>1 DEF NumbersAreOwned, Owns, Holds, ExpiresWhatIsPending, At
<1>6. Early = {} /\ IsFiniteSet({}) /\ Cardinality({}) = 0
  BY FS_EmptySet DEF Early
<1>7. InTurn
  BY <1>1, <1>6 DEF InTurn, At
<1>8. ConfirmedInTurn
  BY <1>1 DEF ConfirmedInTurn, At
<1> QED
  BY <1>3, <1>4, <1>5, <1>7, <1>8 DEF IInv

LEMMA DonationsOfEvents ==
    ASSUME IInv
    PROVE  \A i \in 1 .. Len(events) : events[i].donation \in Donations
<1>1. \A i \in 1 .. Len(events) : events[i] \in Emitted
  BY DEF IInv, Typing
<1> QED
  BY <1>1 DEF Emitted

\* What was emitted stays where it is.
LEMMA EmittedStays ==
    ASSUME events \in Seq(Emitted), NEW list \in Seq(Emitted), events' = events \o list
    PROVE  /\ events' \in Seq(Emitted) /\ Len(events) \in Nat /\ Len(events) <= Len(events')
           /\ Len(events') \in Nat
           /\ \A i \in 1 .. Len(events) : i \in 1 .. Len(events') /\ events'[i] = events[i]
           /\ \A i \in 1 .. Len(events') : i \in 1 .. Len(events) \/
                \E j \in 1 .. Len(list) : events'[i] = list[j]
<1>1. Len(events) \in Nat /\ Len(list) \in Nat /\ Len(events') = Len(events) + Len(list)
  OBVIOUS
<1>2. \A i \in 1 .. Len(events') : i \in 1 .. Len(events) \/
        (i - Len(events) \in 1 .. Len(list) /\ events'[i] = list[i - Len(events)])
  BY <1>1
<1>3. \A i \in 1 .. Len(events) : i \in 1 .. Len(events') /\ events'[i] = events[i]
  BY <1>1
<1> QED
  BY <1>1, <1>2, <1>3

-----------------------------------------------------------------------------
(* Steps of the checkout, of Stripe and of administrators.                 *)

Announces(list) ==
    /\ list \in Seq(Emitted) /\ events' = events \o list
    /\ \A j \in 1 .. Len(list) :
         /\ session'[list[j].donation] # "none"
         /\ TellsOfPayment(list[j]) => session'[list[j].donation] = "paid"

KeepsWork == UNCHANGED <<number, next, worker, emails, setup>>

LEMMA OutsideStep ==
    ASSUME IInv, NEW list, Announces(list), KeepsWork,
           session' \in [Donations -> Sessions], plan' \in [Donations -> PlanStatus],
           status' \in [Donations -> DonationStatus],
           \A d \in Donations :
             /\ session[d] = "paid" => session'[d] = "paid"
             /\ session[d] # "none" => session'[d] # "none" /\ status'[d] = status[d]
             /\ session'[d] # "none" => status'[d] # "none"
             /\ plan'[d] # "none" => session'[d] = "paid"
    PROVE  IInv'
<1> USE DEF KeepsWork
<1>1. /\ events' \in Seq(Emitted) /\ Len(events) \in Nat /\ Len(events') \in Nat
      /\ Len(events) <= Len(events')
      /\ \A i \in 1 .. Len(events) : i \in 1 .. Len(events') /\ events'[i] = events[i]
      /\ \A i \in 1 .. Len(events') : i \in 1 .. Len(events) \/
           \E j \in 1 .. Len(list) : events'[i] = list[j]
  BY EmittedStays DEF IInv, Typing, Announces
<1>2. \A i \in 1 .. Len(events) : events[i].donation \in Donations
  BY DonationsOfEvents
<1>3. \A w \in Workers : worker[w].pc # "idle" =>
        /\ worker[w].event \in 1 .. Len(events)
        /\ About(w)' = About(w) /\ About(w) \in Donations
        /\ session[About(w)] # "none"
  BY <1>1, <1>2 DEF IInv, Typing, At, About, Handled, StripeIsTruthful
<1>4. Typing'
  BY <1>1 DEF IInv, Typing, At
<1>5. StripeIsTruthful'
  <2>1. ASSUME NEW i \in 1 .. Len(events')
        PROVE  /\ session'[events'[i].donation] # "none"
               /\ TellsOfPayment(events'[i]) => session'[events'[i].donation] = "paid"
    <3>1. CASE i \in 1 .. Len(events)
      BY <1>1, <1>2, <3>1 DEF IInv, StripeIsTruthful
    <3>2. CASE \E j \in 1 .. Len(list) : events'[i] = list[j]
      BY <3>2 DEF Announces
    <3> QED
      BY <1>1, <2>1, <3>1, <3>2
  <2> QED
    BY <2>1 DEF StripeIsTruthful, TellsOfPayment
<1>6. \A s \in Supporters, n \in Nat : Owns(s, n)' => Owns(s, n)
  BY <1>3 DEF Owns, Holds, At
<1>7. NumbersAreOwned'
  BY <1>6 DEF IInv, NumbersAreOwned
<1>8. ExpiresWhatIsPending'
  BY <1>1, <1>3 DEF IInv, ExpiresWhatIsPending, At, Is, Handled
<1>9. InTurn'
  BY <1>3 DEF IInv, InTurn, Overlap, Early, At
<1>10. ConfirmedInTurn'
  <2>1. \A d \in Donations : session[d] = "paid" => session'[d] = "paid" /\ status'[d] = status[d]
    OBVIOUS
  <2>2. \A d \in Donations : emails[d] \in Nat
    BY DEF IInv, Typing
  <2> QED
    BY <1>3, <2>1, <2>2 DEF IInv, ConfirmedInTurn, Overlap, At
<1> QED
  BY <1>4, <1>5, <1>7, <1>8, <1>9, <1>10 DEF IInv

LEMMA NothingAnnounced ==
    ASSUME IInv, UNCHANGED events
    PROVE  Announces(<<>>)
  BY DEF IInv, Typing, Announces

LEMMA EventIsEmitted ==
    ASSUME NEW type \in EventTypes, NEW d \in Donations, NEW about \in Abouts
    PROVE  /\ Event(type, d, about) \in Emitted
           /\ Event(type, d, about).type = type /\ Event(type, d, about).donation = d
           /\ Event(type, d, about).about = about
  BY DEF Event, Emitted

-----------------------------------------------------------------------------
(* Steps of a handler.                                                     *)

Moves(w, q) ==
    /\ w \in setup.workers /\ q \in Progress
    /\ q.pc # "idle" => q.event \in 1 .. Len(events)
    /\ worker' = [worker EXCEPT ![w] = q]
    /\ UNCHANGED <<session, plan, events, setup>>

\* The others stay where they are, and are not there if handlers do not overlap.
LEMMA OthersStay ==
    ASSUME IInv, NEW w, NEW q, Moves(w, q)
    PROVE  /\ w \in Workers /\ worker'[w] = q
           /\ \A v \in Workers : v # w => worker'[v] = worker[v]
           /\ About(w)' = events[q.event].donation
           /\ \A v \in Workers : v # w => About(v)' = About(v)
           /\ Overlap' = Overlap
           /\ ~ Overlap => \A v \in Workers : v # w => worker[v].pc = "idle"
           /\ \A v \in Workers : worker[v].pc # "idle" => About(v) \in Donations
<1> USE DEF Moves
<1>1. w \in Workers
  BY Shape DEF IInv, Typing
<1>2. worker'[w] = q /\ \A v \in Workers : v # w => worker'[v] = worker[v]
  BY <1>1 DEF IInv, Typing
<1>3. Overlap' = Overlap
  BY DEF Overlap
<1>4. ~ Overlap => \A v \in Workers : v # w => worker[v].pc = "idle"
  BY DEF Overlap, IInv, Typing, At
<1>5. \A v \in Workers : worker[v].pc # "idle" => About(v) \in Donations
  BY DonationsOfEvents DEF IInv, Typing, At, About, Handled
<1> QED
  BY <1>1, <1>2, <1>3, <1>4, <1>5 DEF About, Handled

LEMMA OwnedStep ==
    ASSUME IInv, next' \in Nat, next <= next', NEW s0,
           \A s \in Supporters, n \in Nat :
             Owns(s, n)' => n = 0 \/ Owns(s, n) \/ (s = s0 /\ n = next /\ next' = next + 1)
    PROVE  NumbersAreOwned'
<1>1. next \in Nat \ {0}
  BY DEF IInv, Typing
<1>2. \A s \in Supporters, n \in Nat : Owns(s, n) => n < next
  BY DEF IInv, NumbersAreOwned
<1>3. \A s, t \in Supporters, n \in Nat \ {0} : Owns(s, n) /\ Owns(t, n) => s = t
  BY DEF IInv, NumbersAreOwned
<1>4. \A s \in Supporters, n \in Nat : Owns(s, n)' => n < next'
  BY <1>1, <1>2
<1>5. \A s, t \in Supporters, n \in Nat \ {0} : Owns(s, n)' /\ Owns(t, n)' => s = t
  BY <1>1, <1>2, <1>3
<1> QED
  BY <1>4, <1>5 DEF NumbersAreOwned

\* A handler goes on, and writes nothing to the donation or the supporter.
Reads(w, q) ==
    /\ q.pc # "confirm"
    /\ q.pc # "idle" =>
         LET d == events[q.event].donation IN
         /\ \/ q.number \in {0, number[SupporterOf[d]]}
            \/ worker[w].pc # "idle" /\ q.event = worker[w].event /\ q.number = worker[w].number
         /\ q.pc \in {"lock", "commit"} /\ events[q.event].type = "expired" =>
              q.pc = "commit" /\ q.status = "pending"
         /\ ~ Overlap /\ q.pc \in {"lock", "commit"} =>
              q.number = number[SupporterOf[d]] /\ q.status = status[d]

LEMMA ReadingStep ==
    ASSUME IInv, NEW w, NEW q, Moves(w, q), Reads(w, q), UNCHANGED <<status, number, next, emails>>
    PROVE  IInv'
<1> USE DEF Moves
<1>1. /\ w \in Workers /\ worker'[w] = q
      /\ \A v \in Workers : v # w => worker'[v] = worker[v]
      /\ About(w)' = events[q.event].donation
      /\ \A v \in Workers : v # w => About(v)' = About(v)
      /\ Overlap' = Overlap
      /\ ~ Overlap => \A v \in Workers : v # w => worker[v].pc = "idle"
  BY OthersStay
<1>2. Typing'
  BY <1>1 DEF IInv, Typing, At
<1>3. StripeIsTruthful'
  BY DEF IInv, StripeIsTruthful, TellsOfPayment
<1>4. NumbersAreOwned'
  <2> SUFFICES ASSUME NEW s \in Supporters, NEW n \in Nat, Owns(s, n)', n # 0
               PROVE  Owns(s, n)
    BY OwnedStep DEF IInv, Typing
  <2>1. CASE number[s] = n
    BY <2>1 DEF Owns
  <2>2. ASSUME NEW v \in Workers, Holds(v, s, n)'
        PROVE  Owns(s, n)
    <3>1. CASE v # w
      BY <1>1, <2>2, <3>1 DEF Owns, Holds, At
    <3>2. CASE v = w
      <4>1. q.pc # "idle" /\ SupporterOf[events[q.event].donation] = s /\ q.number = n
        BY <1>1, <2>2, <3>2 DEF Holds, At
      <4>2. CASE q.number = number[SupporterOf[events[q.event].donation]]
        BY <4>1, <4>2 DEF Owns
      <4>3. CASE worker[w].pc # "idle" /\ q.event = worker[w].event /\ q.number = worker[w].number
        BY <1>1, <4>1, <4>3 DEF Owns, Holds, At, About, Handled
      <4> QED
        BY <4>1, <4>2, <4>3 DEF Reads
    <3> QED
      BY <3>1, <3>2
  <2> QED
    BY <2>1, <2>2 DEF Owns
<1>5. ExpiresWhatIsPending'
  <2> SUFFICES ASSUME NEW v \in Workers, worker'[v].pc \in {"lock", "commit"}, Is(v, {"expired"})'
               PROVE  worker'[v].pc = "commit" /\ worker'[v].status = "pending"
    BY DEF ExpiresWhatIsPending, At
  <2>1. CASE v # w
    BY <1>1, <2>1 DEF IInv, ExpiresWhatIsPending, At, Is, Handled
  <2>2. CASE v = w
    BY <1>1, <2>2 DEF Reads, Is, Handled
  <2> QED
    BY <2>1, <2>2
<1>6. InTurn'
  <2> SUFFICES ASSUME ~ Overlap
               PROVE  /\ \A v \in Workers : worker'[v].pc \in {"lock", "commit"} =>
                           /\ worker'[v].number = number[SupporterOf[About(v)']]
                           /\ worker'[v].status = status[About(v)']
                      /\ IsFiniteSet(Early) /\ Cardinality(Early) = next - 1
    BY <1>1 DEF InTurn, Early
  <2> QED
    BY <1>1 DEF IInv, InTurn, Reads
<1>7. ConfirmedInTurn'
  BY <1>1 DEF IInv, ConfirmedInTurn, At, Reads
<1> QED
  BY <1>2, <1>3, <1>4, <1>5, <1>6, <1>7 DEF IInv

\* The donation is marked, and its supporter gets a number or the one that was read.
LEMMA MarkingStep ==
    ASSUME IInv, NEW w \in setup.workers, At(w, "commit"), TellsOfPayment(Handled(w)),
           MarkSucceeded(w), UNCHANGED <<session, plan, events, emails, setup>>
    PROVE  IInv'
<1> DEFINE d == About(w)
           s0 == SupporterOf[d]
           k == worker[w].number
           q == [worker[w] EXCEPT !.pc = IF worker[w].status # "succeeded" THEN "confirm" ELSE "ack"]
<1>1. w \in Workers /\ worker[w] \in Progress /\ worker[w].event \in 1 .. Len(events)
  BY Shape DEF IInv, Typing, At
<1>2. /\ q \in Progress /\ q.event = worker[w].event /\ q.number = k
      /\ q.pc = IF worker[w].status # "succeeded" THEN "confirm" ELSE "ack"
  BY <1>1 DEF Progress, Steps
<1>3. /\ status' = [status EXCEPT ![d] = "succeeded"] /\ AssignEarlySupporter(w)
      /\ worker' = [worker EXCEPT ![w] = q]
  BY DEF MarkSucceeded, Goto, Becomes
<1>4. Moves(w, q)
  BY <1>1, <1>2, <1>3 DEF Moves
<1>5. d \in Donations /\ s0 \in Supporters /\ k \in Nat
  BY <1>1, DonationsOfEvents, Shape DEF About, Handled, Progress
<1>6. session[d] = "paid"
  BY <1>1 DEF IInv, StripeIsTruthful, About, Handled
<1>7. next \in Nat \ {0} /\ next <= EarlyLimit + 1
  BY DEF IInv, Typing
<1>8. \/ k = 0 /\ next <= EarlyLimit /\ number' = [number EXCEPT ![s0] = next] /\ next' = next + 1
      \/ number' = [number EXCEPT ![s0] = k] /\ next' = next
  BY <1>3 DEF AssignEarlySupporter
<1> HIDE DEF q
<1>9. /\ worker'[w] = q
      /\ \A v \in Workers : v # w => worker'[v] = worker[v]
      /\ About(w)' = events[q.event].donation
      /\ \A v \in Workers : v # w => About(v)' = About(v)
      /\ Overlap' = Overlap
      /\ ~ Overlap => \A v \in Workers : v # w => worker[v].pc = "idle"
  BY <1>4, OthersStay
<1>10. About(w)' = d
  BY <1>2, <1>9 DEF About, Handled
<1>11. /\ next' \in Nat \ {0} /\ next <= next' /\ next' <= EarlyLimit + 1
       /\ number' \in [Supporters -> Nat]
  <2>1. next' \in Nat \ {0} /\ next <= next' /\ next' <= EarlyLimit + 1
    <3>1. EarlyLimit \in Nat /\ (next' = next \/ (next <= EarlyLimit /\ next' = next + 1))
      BY <1>8, Shape
    <3> QED
      BY <1>7, <3>1
  <2>2. number' \in [Supporters -> Nat]
    BY <1>5, <1>7, <1>8 DEF IInv, Typing
  <2> QED
    BY <2>1, <2>2
<1>12. status' \in [Donations -> DonationStatus]
  BY <1>3 DEF IInv, Typing, DonationStatus
<1> HIDE DEF d
<1>13. Typing'
  BY <1>2, <1>4, <1>9, <1>11, <1>12 DEF IInv, Typing, At, Moves
<1>14. status'[d] = "succeeded" /\ \A x \in Donations : x # d => status'[x] = status[x]
  BY <1>3, <1>5 DEF IInv, Typing
<1>15. StripeIsTruthful'
  BY <1>14 DEF IInv, StripeIsTruthful, TellsOfPayment
<1>16. NumbersAreOwned'
  <2> SUFFICES ASSUME NEW s \in Supporters, NEW n \in Nat, Owns(s, n)'
               PROVE  Owns(s, n) \/ (s = s0 /\ n = next /\ next' = next + 1)
    BY <1>11, OwnedStep
  <2>1. Holds(w, s0, k)
    BY <1>1 DEF Holds, At, d
  <2>2. CASE number'[s] = n
    <3>1. CASE s # s0
      BY <1>5, <1>8, <2>2, <3>1 DEF Owns, IInv, Typing
    <3>2. CASE s = s0
      BY <1>1, <1>5, <1>8, <2>1, <2>2, <3>2 DEF Owns, IInv, Typing
    <3> QED
      BY <3>1, <3>2
  <2>3. ASSUME NEW v \in Workers, Holds(v, s, n)'
        PROVE  Owns(s, n)
    <3>1. CASE v # w
      BY <1>9, <2>3, <3>1 DEF Owns, Holds, At
    <3>2. CASE v = w
      <4>1. s = s0 /\ n = k
        BY <1>2, <1>9, <1>10, <2>3, <3>2 DEF Holds
      <4> QED
        BY <1>1, <2>1, <4>1 DEF Owns
    <3> QED
      BY <3>1, <3>2
  <2> QED
    BY <2>2, <2>3 DEF Owns
<1>17. ExpiresWhatIsPending'
  BY <1>2, <1>4, <1>9 DEF IInv, ExpiresWhatIsPending, At, Is, Handled, Moves
<1>18. ASSUME ~ Overlap
       PROVE  k = number[s0] /\ worker[w].status = status[d]
  BY <1>1, <1>18 DEF IInv, InTurn, At, d
<1>19. InTurn'
  <2> SUFFICES ASSUME ~ Overlap
               PROVE  /\ \A v \in Workers : worker'[v].pc \in {"lock", "commit"} => FALSE
                      /\ IsFiniteSet(Early') /\ Cardinality(Early') = next' - 1
    BY <1>9 DEF InTurn
  <2>1. \A v \in Workers : worker'[v].pc \notin {"lock", "commit"}
    BY <1>2, <1>9
  <2>2. IsFiniteSet(Early) /\ Cardinality(Early) = next - 1
    BY DEF IInv, InTurn
  <2>3. CASE number' = [number EXCEPT ![s0] = k] /\ next' = next
    <3>1. number' = number
      BY <1>18, <2>3 DEF IInv, Typing
    <3> QED
      BY <2>1, <2>2, <2>3, <3>1 DEF Early
  <2>4. CASE k = 0 /\ number' = [number EXCEPT ![s0] = next] /\ next' = next + 1
    <3>1. s0 \notin Early /\ Early' = Early \union {s0}
      BY <1>5, <1>7, <1>18, <2>4 DEF Early, IInv, Typing
    <3>2. IsFiniteSet(Early') /\ Cardinality(Early') = Cardinality(Early) + 1
      BY <2>2, <3>1, FS_AddElement
    <3> QED
      BY <1>7, <2>1, <2>2, <2>4, <3>2
  <2> QED
    BY <1>8, <2>3, <2>4
<1>20. ConfirmedInTurn'
  <2>1. \A v \in Workers : worker'[v].pc = "confirm" => session[About(v)'] = "paid"
    BY <1>6, <1>9, <1>10 DEF IInv, ConfirmedInTurn, At
  <2>2. ASSUME ~ Overlap
        PROVE  /\ \A x \in Donations : emails[x] <= 1 /\ (emails[x] = 1 => status'[x] = "succeeded")
               /\ \A v \in Workers : worker'[v].pc = "confirm" =>
                    emails[About(v)'] = 0 /\ status'[About(v)'] = "succeeded"
    <3>1. \A x \in Donations : emails[x] \in Nat /\ emails[x] <= 1 /\ (emails[x] = 1 => status[x] = "succeeded")
      BY <2>2 DEF IInv, Typing, ConfirmedInTurn
    <3>2. q.pc = "confirm" => emails[d] = 0
      <4>1. q.pc = "confirm" => status[d] # "succeeded"
        BY <1>2, <1>18, <2>2
      <4>2. emails[d] \in Nat /\ emails[d] <= 1 /\ (emails[d] = 1 => status[d] = "succeeded")
        BY <1>5, <3>1
      <4> QED
        BY <4>1, <4>2
    <3> QED
      BY <1>9, <1>10, <1>14, <2>2, <3>1, <3>2
  <2> QED
    BY <1>9, <2>1, <2>2 DEF IInv, ConfirmedInTurn, At
<1> QED
  BY <1>13, <1>15, <1>16, <1>17, <1>19, <1>20 DEF IInv

LEMMA MarkingNothingStep ==
    ASSUME IInv, NEW w \in setup.workers, At(w, "commit"),
           MarksNothing(w), UNCHANGED <<session, plan, events, emails, setup>>
    PROVE  IInv'
<1> DEFINE q == [worker[w] EXCEPT !.pc = "ack"]
<1>1. w \in Workers /\ worker[w] \in Progress /\ worker[w].event \in 1 .. Len(events)
  BY Shape DEF IInv, Typing, At
<1>2. q \in Progress /\ q.event = worker[w].event /\ q.number = worker[w].number /\ q.pc = "ack"
  BY <1>1 DEF Progress, Steps
<1>3. worker' = [worker EXCEPT ![w] = q] /\ UNCHANGED <<status, number, next>>
  BY DEF MarksNothing, Goto, Becomes
<1> HIDE DEF q
<1>4. Moves(w, q) /\ Reads(w, q)
  BY <1>1, <1>2, <1>3 DEF Moves, Reads, At
<1> QED
  BY <1>3, <1>4, ReadingStep

LEMMA ExpiringStep ==
    ASSUME IInv, NEW w \in setup.workers, CheckoutExpired(w)
    PROVE  IInv'
<1> DEFINE d == About(w)
           q == [worker[w] EXCEPT !.pc = "ack"]
<1>1. /\ w \in Workers /\ worker[w] \in Progress /\ worker[w].event \in 1 .. Len(events)
      /\ worker[w].pc = "commit" /\ worker[w].status = "pending"
  BY Shape DEF IInv, Typing, At, ExpiresWhatIsPending, CheckoutExpired, Commits
<1>2. q \in Progress /\ q.event = worker[w].event /\ q.number = worker[w].number /\ q.pc = "ack"
  BY <1>1 DEF Progress, Steps
<1>3. /\ worker' = [worker EXCEPT ![w] = q] /\ status' = [status EXCEPT ![d] = "expired"]
      /\ UNCHANGED <<session, plan, events, number, next, emails, setup>>
  BY DEF CheckoutExpired, Commits, stripe, Goto, Becomes
<1> HIDE DEF q
<1>4. Moves(w, q)
  BY <1>1, <1>2, <1>3 DEF Moves
<1>5. /\ worker'[w] = q
      /\ \A v \in Workers : v # w => worker'[v] = worker[v]
      /\ About(w)' = events[q.event].donation
      /\ \A v \in Workers : v # w => About(v)' = About(v)
      /\ Overlap' = Overlap
      /\ ~ Overlap => \A v \in Workers : v # w => worker[v].pc = "idle"
  BY <1>4, OthersStay
<1>6. About(w)' = d /\ d \in Donations
  BY <1>1, <1>2, <1>5, DonationsOfEvents DEF About, Handled
<1> HIDE DEF d
<1>7. status'[d] = "expired" /\ \A x \in Donations : x # d => status'[x] = status[x]
  BY <1>3, <1>6 DEF IInv, Typing
<1>8. status' \in [Donations -> DonationStatus]
  BY <1>3 DEF IInv, Typing, DonationStatus
<1>9. Typing'
  BY <1>2, <1>3, <1>4, <1>5, <1>8 DEF IInv, Typing, At, Moves
<1>10. StripeIsTruthful'
  BY <1>3, <1>7 DEF IInv, StripeIsTruthful, TellsOfPayment
<1>11. NumbersAreOwned'
  <2> SUFFICES ASSUME NEW s \in Supporters, NEW n \in Nat, Owns(s, n)'
               PROVE  Owns(s, n)
    BY <1>3, OwnedStep DEF IInv, Typing
  <2>1. ASSUME NEW v \in Workers, Holds(v, s, n)'
        PROVE  Holds(v, s, n)
    BY <1>1, <1>2, <1>5, <1>6, <2>1 DEF Holds, At, d
  <2> QED
    BY <1>3, <2>1 DEF Owns
<1>12. ExpiresWhatIsPending'
  BY <1>2, <1>3, <1>5 DEF IInv, ExpiresWhatIsPending, At, Is, Handled
<1>13. InTurn'
  BY <1>2, <1>3, <1>5 DEF IInv, InTurn, Early
<1>14. ~ Overlap => emails[d] = 0
  <2>1. ~ Overlap => status[d] = "pending"
    BY <1>1 DEF IInv, InTurn, d
  <2>2. ~ Overlap => emails[d] \in Nat /\ emails[d] <= 1 /\ (emails[d] = 1 => status[d] = "succeeded")
    BY <1>6 DEF IInv, Typing, ConfirmedInTurn
  <2> QED
    BY <2>1, <2>2
<1>15. ConfirmedInTurn'
  BY <1>2, <1>3, <1>5, <1>7, <1>14 DEF IInv, ConfirmedInTurn, At
<1> QED
  BY <1>9, <1>10, <1>11, <1>12, <1>13, <1>15 DEF IInv

LEMMA ConfirmingStep ==
    ASSUME IInv, NEW w \in setup.workers, Confirm(w)
    PROVE  IInv'
<1> DEFINE d == About(w)
           q == [worker[w] EXCEPT !.pc = "ack"]
<1>1. /\ w \in Workers /\ worker[w] \in Progress /\ worker[w].event \in 1 .. Len(events)
      /\ worker[w].pc = "confirm"
  BY Shape DEF IInv, Typing, At, Confirm
<1>2. q \in Progress /\ q.event = worker[w].event /\ q.number = worker[w].number /\ q.pc = "ack"
  BY <1>1 DEF Progress, Steps
<1>3. /\ worker' = [worker EXCEPT ![w] = q]
      /\ emails' \in {emails, [emails EXCEPT ![d] = @ + 1]}
      /\ UNCHANGED <<session, plan, events, status, number, next, setup>>
  BY DEF Confirm, stripe, tables, Goto, Becomes
<1> HIDE DEF q
<1>4. Moves(w, q)
  BY <1>1, <1>2, <1>3 DEF Moves
<1>5. /\ worker'[w] = q
      /\ \A v \in Workers : v # w => worker'[v] = worker[v]
      /\ About(w)' = events[q.event].donation
      /\ \A v \in Workers : v # w => About(v)' = About(v)
      /\ Overlap' = Overlap
      /\ ~ Overlap => \A v \in Workers : v # w => worker[v].pc = "idle"
  BY <1>4, OthersStay
<1>6. About(w)' = d /\ d \in Donations
  BY <1>1, <1>2, <1>5, DonationsOfEvents DEF About, Handled
<1> HIDE DEF d
<1>7. emails' \in [Donations -> Nat]
  <2>1. emails \in [Donations -> Nat] /\ emails[d] + 1 \in Nat
    BY <1>6 DEF IInv, Typing
  <2> DEFINE more == emails[d] + 1
  <2>2. emails' = emails \/ emails' = [emails EXCEPT ![d] = more]
    BY <1>3, <1>6, <2>1
  <2>3. more \in Nat
    BY <2>1
  <2> HIDE DEF more
  <2> QED
    BY <2>1, <2>2, <2>3
<1>8. /\ emails'[d] \in {emails[d], emails[d] + 1}
      /\ \A x \in Donations : x # d => emails'[x] = emails[x]
  BY <1>3, <1>6 DEF IInv, Typing
<1>9. Typing'
  BY <1>2, <1>3, <1>4, <1>5, <1>7 DEF IInv, Typing, At, Moves
<1>10. StripeIsTruthful'
  BY <1>3 DEF IInv, StripeIsTruthful, TellsOfPayment
<1>11. NumbersAreOwned'
  <2> SUFFICES ASSUME NEW s \in Supporters, NEW n \in Nat, Owns(s, n)'
               PROVE  Owns(s, n)
    BY <1>3, OwnedStep DEF IInv, Typing
  <2>1. ASSUME NEW v \in Workers, Holds(v, s, n)'
        PROVE  Holds(v, s, n)
    BY <1>1, <1>2, <1>5, <1>6, <2>1 DEF Holds, At, d
  <2> QED
    BY <1>3, <2>1 DEF Owns
<1>12. ExpiresWhatIsPending'
  BY <1>2, <1>3, <1>5 DEF IInv, ExpiresWhatIsPending, At, Is, Handled
<1>13. InTurn'
  BY <1>2, <1>3, <1>5 DEF IInv, InTurn, Early
<1>14. session[d] = "paid" /\ (~ Overlap => emails[d] = 0 /\ status[d] = "succeeded")
  BY <1>1 DEF IInv, ConfirmedInTurn, At, d
<1>15. \A x \in Donations : emails'[x] > 0 => session[x] = "paid"
  BY <1>8, <1>14 DEF IInv, ConfirmedInTurn
<1>16. ~ Overlap => \A x \in Donations : emails'[x] <= 1 /\ (emails'[x] = 1 => status[x] = "succeeded")
  BY <1>8, <1>14 DEF IInv, ConfirmedInTurn
<1>17. /\ \A v \in Workers : worker'[v].pc = "confirm" => session[About(v)'] = "paid"
       /\ ~ Overlap => \A v \in Workers : worker'[v].pc # "confirm"
  BY <1>2, <1>5 DEF IInv, ConfirmedInTurn, At
<1>18. ConfirmedInTurn'
  BY <1>3, <1>5, <1>15, <1>16, <1>17 DEF ConfirmedInTurn, At
<1> QED
  BY <1>9, <1>10, <1>11, <1>12, <1>13, <1>18 DEF IInv

-----------------------------------------------------------------------------
(* The actions.                                                            *)

LEMMA CheckoutKeeps ==
    ASSUME IInv, NEW d \in Donations, Checkout(d)
    PROVE  IInv'
<1> USE DEF stripe, tables
<1>1. /\ session \in [Donations -> Sessions] /\ plan \in [Donations -> PlanStatus]
      /\ status \in [Donations -> DonationStatus]
      /\ \A x \in Donations : plan[x] # "none" => session[x] = "paid"
      /\ \A x \in Donations : session[x] # "none" => status[x] # "none"
  BY DEF IInv, Typing, StripeIsTruthful
<1>2. KeepsWork /\ UNCHANGED <<plan, events>>
  BY DEF Checkout, CreateDonation, OpenSession, OpenSessionFails, KeepsWork
<1>3. Announces(<<>>)
  BY <1>2, NothingAnnounced
<1>4. CASE CreateDonation(d)
  <2>1. /\ status' = [status EXCEPT ![d] = "pending"] /\ status[d] = "none" /\ session' = session
    BY <1>4 DEF CreateDonation
  <2>2. status' \in [Donations -> DonationStatus]
    BY <1>1, <2>1 DEF DonationStatus
  <2> QED
    BY <1>1, <1>2, <1>3, <2>1, <2>2, OutsideStep
<1>5. CASE OpenSession(d)
  <2>1. session' = [session EXCEPT ![d] = "open"] /\ session[d] = "none" /\ status[d] = "pending" /\ status' = status
    BY <1>5 DEF OpenSession
  <2>2. session' \in [Donations -> Sessions]
    BY <1>1, <2>1 DEF Sessions
  <2> QED
    BY <1>1, <1>2, <1>3, <2>1, <2>2, OutsideStep
<1>6. CASE OpenSessionFails(d)
  <2>1. PICK x \in {"none", "lost"} : session' = [session EXCEPT ![d] = x]
    BY <1>6 DEF OpenSessionFails
  <2>2. session[d] = "none" /\ status' = [status EXCEPT ![d] = "failed"]
    BY <1>6 DEF OpenSessionFails
  <2>3. session' \in [Donations -> Sessions] /\ status' \in [Donations -> DonationStatus]
    BY <1>1, <2>1, <2>2 DEF Sessions, DonationStatus
  <2> QED
    BY <1>1, <1>2, <1>3, <2>1, <2>2, <2>3, OutsideStep
<1> QED
  BY <1>4, <1>5, <1>6 DEF Checkout

\* Stripe changes the session or the plan of a donation and says so.
LEMMA StripeStep ==
    ASSUME IInv, NEW d \in Donations, NEW list, Announces(list),
           UNCHANGED <<status, number, next, worker, emails, setup>>,
           \/ UNCHANGED session /\ session[d] = "paid"
           \/ /\ \E x \in {"paid", "unpaid", "expired"} : session' = [session EXCEPT ![d] = x]
              /\ session[d] \in {"open", "unpaid", "lost"},
           \/ UNCHANGED plan
           \/ /\ \E x \in PlanStatus : plan' = [plan EXCEPT ![d] = x]
              /\ session'[d] = "paid"
    PROVE  IInv'
<1>1. /\ session \in [Donations -> Sessions] /\ plan \in [Donations -> PlanStatus]
      /\ status \in [Donations -> DonationStatus]
      /\ \A x \in Donations : plan[x] # "none" => session[x] = "paid"
      /\ \A x \in Donations : session[x] # "none" => status[x] # "none"
  BY DEF IInv, Typing, StripeIsTruthful
<1>2. /\ session' \in [Donations -> Sessions]
      /\ \A x \in Donations : session[x] = "paid" => session'[x] = "paid"
      /\ \A x \in Donations : session[x] # "none" <=> session'[x] # "none"
  BY <1>1 DEF Sessions
<1>3. plan' \in [Donations -> PlanStatus] /\ \A x \in Donations : plan'[x] # "none" => session'[x] = "paid"
  BY <1>1, <1>2
<1>4. KeepsWork
  BY DEF KeepsWork
<1> QED
  BY <1>1, <1>2, <1>3, <1>4, OutsideStep

LEMMA StripeKeeps ==
    ASSUME IInv, NEW d \in Donations, Stripe(d)
    PROVE  IInv'
<1> USE DEF Emit, tables
<1>1. session \in [Donations -> Sessions] /\ plan \in [Donations -> PlanStatus]
  BY DEF IInv, Typing
<1>2. plan[d] # "none" => session[d] = "paid"
  BY DEF IInv, StripeIsTruthful
<1>3. {"paid", "unpaid", "expired", "incomplete", "active", "past_due", "canceled"} \subseteq Abouts
  BY DEF Abouts, Sessions, PlanStatus
<1>4. CASE Pay(d)
  <2> DEFINE e == Event("completed", d, "paid")
             f == Event("intent", d, "paid")
  <2>1. e \in Emitted /\ f \in Emitted /\ e.donation = d /\ f.donation = d
    BY <1>3, EventIsEmitted DEF EventTypes
  <2>2. events' = events \o <<e, f>> /\ session'[d] = "paid" /\ UNCHANGED plan
    BY <1>1, <1>4 DEF Pay
  <2> HIDE DEF e, f
  <2>3. Announces(<<e, f>>)
    BY <2>1, <2>2 DEF Announces
  <2> QED
    BY <1>4, <2>2, <2>3, StripeStep DEF Pay
<1>5. CASE PayLater(d)
  <2> DEFINE e == Event("completed", d, "unpaid")
  <2>1. e \in Emitted /\ e.donation = d /\ ~ TellsOfPayment(e)
    BY <1>3, EventIsEmitted DEF EventTypes, TellsOfPayment
  <2>2. events' = events \o <<e>> /\ session'[d] = "unpaid" /\ UNCHANGED plan
    BY <1>1, <1>5 DEF PayLater
  <2> HIDE DEF e
  <2>3. Announces(<<e>>)
    BY <2>1, <2>2 DEF Announces
  <2> QED
    BY <1>5, <2>2, <2>3, StripeStep DEF PayLater
<1>6. CASE Expire(d)
  <2> DEFINE e == Event("expired", d, "expired")
  <2>1. e \in Emitted /\ e.donation = d /\ ~ TellsOfPayment(e)
    BY <1>3, EventIsEmitted DEF EventTypes, TellsOfPayment
  <2>2. events' = events \o <<e>> /\ session'[d] = "expired" /\ UNCHANGED plan
    BY <1>1, <1>6 DEF Expire
  <2> HIDE DEF e
  <2>3. Announces(<<e>>)
    BY <2>1, <2>2 DEF Announces
  <2> QED
    BY <1>6, <2>2, <2>3, StripeStep DEF Expire
<1>7. CASE Subscribe(d)
  <2> DEFINE e == Event("plan", d, "incomplete")
             f == Event("invoicePaid", d, 1)
             g == Event("plan", d, "active")
             h == Event("completed", d, "paid")
  <2>1. 1 \in Abouts
    BY DEF Abouts
  <2>2. e \in Emitted /\ f \in Emitted /\ e.donation = d /\ f.donation = d
    BY <1>3, <2>1, EventIsEmitted DEF EventTypes
  <2>3. g \in Emitted /\ h \in Emitted /\ g.donation = d /\ h.donation = d
    BY <1>3, EventIsEmitted DEF EventTypes
  <2>4. events' = events \o <<e, f, g, h>> /\ session'[d] = "paid" /\ plan' = [plan EXCEPT ![d] = "active"]
    BY <1>1, <1>7 DEF Subscribe
  <2> HIDE DEF e, f, g, h
  <2>5. <<e, f, g, h>> \in Seq(Emitted)
    BY <2>2, <2>3
  <2>6. \A j \in 1 .. Len(<<e, f, g, h>>) : <<e, f, g, h>>[j].donation = d
    BY <2>2, <2>3
  <2>7. Announces(<<e, f, g, h>>)
    BY <2>4, <2>5, <2>6 DEF Announces
  <2>8. "active" \in PlanStatus
    BY DEF PlanStatus
  <2> QED
    BY <1>7, <2>4, <2>7, <2>8, StripeStep DEF Subscribe
<1>8. CASE CancelPlan(d)
  <2> DEFINE e == Event("plan", d, "canceled")
  <2>1. e \in Emitted /\ e.donation = d /\ ~ TellsOfPayment(e)
    BY <1>3, EventIsEmitted DEF EventTypes, TellsOfPayment
  <2>2. events' = events \o <<e>> /\ UNCHANGED session /\ session[d] = "paid"
    BY <1>2, <1>8 DEF CancelPlan
  <2> HIDE DEF e
  <2>3. Announces(<<e>>)
    BY <2>1, <2>2 DEF Announces
  <2>4. "canceled" \in PlanStatus
    BY DEF PlanStatus
  <2> QED
    BY <1>8, <2>2, <2>3, <2>4, StripeStep DEF CancelPlan
<1>9. ASSUME NEW n \in 1 .. setup.invoices, Renew(d, n)
      PROVE  IInv'
  <2> DEFINE e == Event("invoicePaid", d, n)
             f == Event("plan", d, "active")
  <2>1. n \in Abouts
    BY SetupAssumption, ShapeAssumption DEF Abouts, IInv, Typing
  <2>2. e \in Emitted /\ f \in Emitted /\ e.donation = d /\ f.donation = d
    <3>1. e \in Emitted /\ e.donation = d
      BY <2>1, EventIsEmitted DEF EventTypes
    <3>2. f \in Emitted /\ f.donation = d
      BY <1>3, EventIsEmitted DEF EventTypes
    <3> QED
      BY <3>1, <3>2
  <2>3. events' = events \o <<e, f>> /\ UNCHANGED session /\ session[d] = "paid"
    BY <1>2, <1>9 DEF Renew
  <2> HIDE DEF e, f
  <2>4. Announces(<<e, f>>)
    BY <2>2, <2>3 DEF Announces
  <2>5. "active" \in PlanStatus
    BY DEF PlanStatus
  <2> QED
    BY <1>9, <2>3, <2>4, <2>5, StripeStep DEF Renew
<1>10. ASSUME NEW n \in 1 .. setup.invoices, RenewFails(d, n)
       PROVE  IInv'
  <2> DEFINE e == Event("invoiceFailed", d, n)
             f == Event("plan", d, "past_due")
  <2>1. n \in Abouts
    BY SetupAssumption, ShapeAssumption DEF Abouts, IInv, Typing
  <2>2. e \in Emitted /\ f \in Emitted /\ e.donation = d /\ f.donation = d
    <3>1. e \in Emitted /\ e.donation = d
      BY <2>1, EventIsEmitted DEF EventTypes
    <3>2. f \in Emitted /\ f.donation = d
      BY <1>3, EventIsEmitted DEF EventTypes
    <3> QED
      BY <3>1, <3>2
  <2>3. events' = events \o <<e, f>> /\ UNCHANGED session /\ session[d] = "paid"
    BY <1>2, <1>10 DEF RenewFails
  <2> HIDE DEF e, f
  <2>4. Announces(<<e, f>>)
    BY <2>2, <2>3 DEF Announces
  <2>5. "past_due" \in PlanStatus
    BY DEF PlanStatus
  <2> QED
    BY <1>10, <2>3, <2>4, <2>5, StripeStep DEF RenewFails
<1> QED
  BY <1>4, <1>5, <1>6, <1>7, <1>8, <1>9, <1>10 DEF Stripe

LEMMA QuietKeeps ==
    ASSUME IInv, UNCHANGED <<session, plan, events, status, number, next, worker, emails, setup>>
    PROVE  IInv'
<1> USE DEF IInv
<1>1. Typing' /\ StripeIsTruthful'
  BY DEF Typing, At, StripeIsTruthful, TellsOfPayment
<1>2. NumbersAreOwned' /\ ExpiresWhatIsPending'
  BY DEF NumbersAreOwned, Owns, Holds, ExpiresWhatIsPending, Is, About, Handled, At
<1>3. InTurn'
  BY DEF InTurn, Early, At, Is, About, Handled, Overlap
<1>4. ConfirmedInTurn'
  BY DEF ConfirmedInTurn, At, About, Handled, Overlap
<1> QED
  BY <1>1, <1>2, <1>3, <1>4

LEMMA AdministratorKeeps ==
    ASSUME IInv,
           \/ \E d \in Donations : BeginCancel(d)
           \/ CancelFails
           \/ CancelSubscription,
           admin = Nothing \/ admin \in Donations
    PROVE  IInv'
<1> USE DEF Emit, tables, stripe
<1>1. plan \in [Donations -> PlanStatus] /\ session \in [Donations -> Sessions]
  BY DEF IInv, Typing
<1>2. ASSUME UNCHANGED <<session, plan, events, status, number, next, worker, emails, setup>>
      PROVE  IInv'
  BY <1>2, QuietKeeps
<1>3. ASSUME admin # Nothing, plan[admin] \in {"active", "past_due"},
             plan' = [plan EXCEPT ![admin] = "canceled"],
             events' = events \o <<Event("plan", admin, "canceled")>>,
             UNCHANGED <<session, status, number, next, worker, emails, setup>>
      PROVE  IInv'
  <2> DEFINE e == Event("plan", admin, "canceled")
  <2>1. admin \in Donations /\ session[admin] = "paid" /\ "canceled" \in PlanStatus
    BY <1>3 DEF IInv, StripeIsTruthful, PlanStatus
  <2>2. "canceled" \in Abouts
    BY DEF Abouts, PlanStatus
  <2>3. e \in Emitted /\ e.donation = admin /\ ~ TellsOfPayment(e)
    BY <2>1, <2>2, EventIsEmitted DEF EventTypes, TellsOfPayment
  <2> HIDE DEF e
  <2>4. Announces(<<e>>)
    BY <1>3, <2>1, <2>3 DEF Announces, e
  <2> QED
    BY <1>3, <2>1, <2>4, StripeStep
<1>4. CASE CancelFails
  BY <1>2, <1>3, <1>4 DEF CancelFails
<1>5. CASE CancelSubscription
  <2>1. events' = events \o <<Event("plan", admin, "canceled")>>
    BY <1>5 DEF CancelSubscription, IInv, Typing
  <2> QED
    BY <1>3, <1>5, <2>1 DEF CancelSubscription
<1>6. ASSUME NEW d \in Donations, BeginCancel(d)
      PROVE  IInv'
  BY <1>2, <1>6 DEF BeginCancel
<1> QED
  BY <1>4, <1>5, <1>6

LEMMA WebhookKeeps ==
    ASSUME IInv, NEW w \in setup.workers, Webhook(w)
    PROVE  IInv'
<1> USE DEF stripe, tables
<1>1. /\ w \in Workers /\ worker[w] \in Progress
      /\ worker[w].pc # "idle" => worker[w].event \in 1 .. Len(events)
  BY Shape DEF IInv, Typing, At
<1>2. Idle \in Progress /\ Idle.pc = "idle" /\ Idle.number = 0 /\ Idle.status = "none"
  BY DEF Idle, Progress, Steps, DonationStatus
<1>3. CASE Receive(w)
  <2>1. PICK i \in 1 .. Len(events) :
          worker' = [worker EXCEPT ![w] = [Idle EXCEPT !.pc = "read", !.event = i]]
    BY <1>3 DEF Receive, Becomes
  <2> DEFINE q == [Idle EXCEPT !.pc = "read", !.event = i]
  <2>2. q \in Progress /\ q.pc = "read" /\ q.event = i /\ q.number = 0
    <3>1. i \in Nat
      BY DEF IInv, Typing
    <3> QED
      BY <1>2, <3>1 DEF Progress, Steps, Idle
  <2>3. UNCHANGED <<session, plan, events, status, number, next, emails, setup>>
    BY <1>3 DEF Receive
  <2> HIDE DEF q
  <2>4. Moves(w, q) /\ Reads(w, q)
    BY <2>1, <2>2, <2>3 DEF Moves, Reads, q
  <2> QED
    BY <2>3, <2>4, ReadingStep
<1>4. CASE Read(w)
  <2> DEFINE q == [worker[w] EXCEPT
         !.status = status[About(w)],
         !.number = number[SupporterOf[About(w)]],
         !.pc = IF ~ Found(w) \/ (Is(w, {"expired"}) /\ status[About(w)] # "pending") THEN "ack"
                ELSE IF Is(w, {"expired"}) THEN "commit" ELSE "lock"]
  <2>1. worker[w].event \in 1 .. Len(events) /\ About(w) \in Donations
    BY <1>1, <1>4, DonationsOfEvents DEF Read, At, About, Handled
  <2>2. status[About(w)] \in DonationStatus /\ number[SupporterOf[About(w)]] \in Nat
    BY <2>1, Shape DEF IInv, Typing
  <2>3. /\ q \in Progress /\ q.event = worker[w].event /\ q.number = number[SupporterOf[About(w)]]
        /\ q.status = status[About(w)]
        /\ q.pc \in {"ack", "commit", "lock"}
        /\ Is(w, {"expired"}) /\ q.pc # "ack" => q.pc = "commit" /\ status[About(w)] = "pending"
    BY <1>1, <2>2 DEF Progress, Steps
  <2>4. /\ worker' = [worker EXCEPT ![w] = q]
        /\ UNCHANGED <<session, plan, events, status, number, next, emails, setup>>
    BY <1>4 DEF Read, Becomes
  <2> HIDE DEF q
  <2>5. Moves(w, q) /\ Reads(w, q)
    BY <2>1, <2>3, <2>4 DEF Moves, Reads, About, Handled, Is
  <2> QED
    BY <2>4, <2>5, ReadingStep
<1>5. CASE Lock(w)
  <2> DEFINE q1 == [worker[w] EXCEPT !.pc = "commit", !.number = number[SupporterOf[About(w)]]]
             q2 == [worker[w] EXCEPT !.pc = "commit"]
  <2>1. /\ worker[w].event \in 1 .. Len(events) /\ About(w) \in Donations /\ worker[w].pc = "lock"
        /\ ~ Is(w, {"expired"})
    BY <1>1, <1>5, DonationsOfEvents DEF Lock, At, About, Handled, IInv, ExpiresWhatIsPending
  <2>2. status[About(w)] \in DonationStatus /\ number[SupporterOf[About(w)]] \in Nat
    BY <2>1, Shape DEF IInv, Typing
  <2>3. /\ q1 \in Progress /\ q1.event = worker[w].event /\ q1.number = number[SupporterOf[About(w)]]
        /\ q1.status = worker[w].status /\ q1.pc = "commit"
    BY <1>1, <2>2 DEF Progress, Steps
  <2>4. /\ q2 \in Progress /\ q2.event = worker[w].event /\ q2.number = worker[w].number
        /\ q2.status = worker[w].status /\ q2.pc = "commit"
    BY <1>1, <2>2 DEF Progress, Steps
  <2>5. /\ worker' = [worker EXCEPT ![w] = q1] \/ worker' = [worker EXCEPT ![w] = q2]
        /\ UNCHANGED <<session, plan, events, status, number, next, emails, setup>>
    BY <1>5 DEF Lock, Becomes, Goto
  <2>6. ~ Overlap => worker[w].number = number[SupporterOf[About(w)]] /\ worker[w].status = status[About(w)]
    BY <1>1, <2>1 DEF IInv, InTurn
  <2> HIDE DEF q1, q2
  <2>7. CASE worker' = [worker EXCEPT ![w] = q1]
    <3>1. Moves(w, q1) /\ Reads(w, q1)
      BY <2>1, <2>3, <2>5, <2>6, <2>7 DEF Moves, Reads, About, Handled, Is
    <3> QED
      BY <2>5, <3>1, ReadingStep
  <2>8. CASE worker' = [worker EXCEPT ![w] = q2]
    <3>1. Moves(w, q2) /\ Reads(w, q2)
      BY <2>1, <2>4, <2>5, <2>6, <2>8 DEF Moves, Reads, About, Handled, Is
    <3> QED
      BY <2>5, <3>1, ReadingStep
  <2> QED
    BY <2>5, <2>7, <2>8
<1>6. CASE CheckoutCompleted(w)
  <2>1. At(w, "commit") /\ UNCHANGED <<session, plan, events, emails, setup>>
    BY <1>6 DEF CheckoutCompleted, Commits
  <2>2. CASE Handled(w).about = "paid"
    <3>1. TellsOfPayment(Handled(w)) /\ MarkSucceeded(w)
      BY <1>6, <2>2 DEF CheckoutCompleted, TellsOfPayment, Is
    <3> QED
      BY <2>1, <3>1, MarkingStep
  <2>3. CASE Handled(w).about # "paid"
    BY <1>6, <2>1, <2>3, MarkingNothingStep DEF CheckoutCompleted
  <2> QED
    BY <2>2, <2>3
<1>7. CASE CheckoutExpired(w)
  BY <1>7, ExpiringStep
<1>8. CASE PaymentIntentSucceeded(w)
  <2>1. At(w, "commit") /\ UNCHANGED <<session, plan, events, emails, setup>>
    BY <1>8 DEF PaymentIntentSucceeded, Commits
  <2>2. TellsOfPayment(Handled(w)) /\ MarkSucceeded(w)
    BY <1>8 DEF PaymentIntentSucceeded, TellsOfPayment, Is
  <2> QED
    BY <2>1, <2>2, MarkingStep
<1>9. CASE InvoicePaid(w)
  <2>1. At(w, "commit") /\ UNCHANGED <<session, plan, events, emails, setup>>
    BY <1>9 DEF InvoicePaid, Commits
  <2>2. TellsOfPayment(Handled(w)) /\ MarkSucceeded(w)
    BY <1>9 DEF InvoicePaid, TellsOfPayment, Is
  <2> QED
    BY <2>1, <2>2, MarkingStep
<1>10. CASE InvoiceFailed(w)
  BY <1>10, MarkingNothingStep DEF InvoiceFailed, Commits
<1>11. CASE SubscriptionChanged(w)
  BY <1>11, MarkingNothingStep DEF SubscriptionChanged, Commits
<1>12. CASE Confirm(w)
  BY <1>12, ConfirmingStep
<1>13. CASE Acknowledge(w) \/ Fail(w)
  <2>1. /\ worker' = [worker EXCEPT ![w] = Idle]
        /\ UNCHANGED <<session, plan, events, status, number, next, emails, setup>>
    BY <1>13 DEF Acknowledge, Fail, Becomes
  <2>2. Moves(w, Idle) /\ Reads(w, Idle)
    BY <1>2, <2>1 DEF Moves, Reads
  <2> QED
    BY <2>1, <2>2, ReadingStep
<1> QED
  BY <1>3, <1>4, <1>5, <1>6, <1>7, <1>8, <1>9, <1>10, <1>11, <1>12, <1>13 DEF Webhook

AdminIsKnown == admin = Nothing \/ admin \in Donations

LEMMA AdminInit == DonationsInit => AdminIsKnown
  BY DEF DonationsInit, AdminIsKnown

LEMMA NextKeeps == IInv /\ AdminIsKnown /\ [DonationsNext]_donationVars => IInv' /\ AdminIsKnown'
<1> SUFFICES ASSUME IInv, AdminIsKnown, [DonationsNext]_donationVars
             PROVE  IInv' /\ AdminIsKnown'
  OBVIOUS
<1> USE DEF stripe, tables
<1>1. setup.donations \subseteq Donations
  BY Shape DEF IInv, Typing
<1>2. CASE UNCHANGED donationVars
  BY <1>2, QuietKeeps DEF donationVars, AdminIsKnown
<1>3. ASSUME NEW d \in Donations, Checkout(d)
      PROVE  IInv' /\ AdminIsKnown'
  BY <1>3, CheckoutKeeps DEF AdminIsKnown, Checkout, CreateDonation, OpenSession, OpenSessionFails
<1>4. ASSUME NEW d \in Donations, Stripe(d)
      PROVE  IInv' /\ AdminIsKnown'
  <2>1. UNCHANGED admin
    BY <1>4 DEF Stripe, Pay, PayLater, Expire, Subscribe, CancelPlan, Renew, RenewFails
  <2> QED
    BY <1>4, <2>1, StripeKeeps DEF AdminIsKnown
<1>5. ASSUME NEW d \in Donations, BeginCancel(d)
      PROVE  IInv' /\ AdminIsKnown'
  <2>1. admin' = d
    BY <1>5 DEF BeginCancel
  <2> QED
    BY <1>5, <2>1, AdministratorKeeps DEF AdminIsKnown
<1>6. CASE CancelFails \/ CancelSubscription
  <2>1. admin' = Nothing
    BY <1>6 DEF CancelFails, CancelSubscription
  <2> QED
    BY <1>6, <2>1, AdministratorKeeps DEF AdminIsKnown
<1>7. ASSUME NEW w \in setup.workers, Webhook(w)
      PROVE  IInv' /\ AdminIsKnown'
  <2>1. UNCHANGED admin
    BY <1>7 DEF Webhook, Receive, Read, Lock, CheckoutCompleted, CheckoutExpired, PaymentIntentSucceeded,
       InvoicePaid, InvoiceFailed, SubscriptionChanged, Commits, Confirm, Acknowledge, Fail
  <2> QED
    BY <1>7, <2>1, WebhookKeeps DEF AdminIsKnown
<1> QED
  BY <1>1, <1>2, <1>3, <1>4, <1>5, <1>6, <1>7 DEF DonationsNext

\* HostedSupportService._mark_succeeded, _assign_early_supporter: only what Stripe says was paid is
\* confirmed, and once while handlers do not overlap; the numbers of early supporters are distinct,
\* come from the counter and end at the limit, whatever overlaps, and none is given in vain if
\* nothing does: for any donations, events, deliveries, workers and crashes.
THEOREM DonationsHold == DonationsSpec => []DonationsAreConfirmedOnce
<1>1. ASSUME IInv
      PROVE  ConfirmedOnce
  BY <1>1 DEF IInv, ConfirmedInTurn, ConfirmedOnce
<1>2. ASSUME IInv
      PROVE  EarlyNumbersAreDistinct
  <2>1. number \in [Supporters -> Nat] /\ next <= EarlyLimit + 1
    BY <1>2 DEF IInv, Typing
  <2>2. \A s \in Supporters : number[s] < next
    BY <1>2, <2>1 DEF IInv, NumbersAreOwned, Owns
  <2>3. \A s, t \in Early : number[s] = number[t] => s = t
    BY <1>2, <2>1 DEF IInv, NumbersAreOwned, Owns, Early
  <2>4. ~ Overlap => Cardinality(Early) = next - 1
    BY <1>2 DEF IInv, InTurn
  <2> QED
    BY <2>1, <2>2, <2>3, <2>4 DEF EarlyNumbersAreDistinct, Early
<1>3. IInv => DonationsAreConfirmedOnce
  BY <1>1, <1>2 DEF DonationsAreConfirmedOnce
<1> QED
  BY <1>3, InitHolds, AdminInit, NextKeeps, PTL DEF DonationsSpec

-----------------------------------------------------------------------------
(* Reconciliation.  What Stripe's log says is so, and what is so is in it; *)
(* a handler has done what its event asks for, and nothing undoes it.      *)

\* What an event of each type may be about.
AboutsOf(type) ==
    CASE type = "completed" -> {"paid", "unpaid"}
      [] type = "expired" -> {"expired"}
      [] type = "intent" -> {"paid"}
      [] type = "plan" -> {"incomplete", "active", "past_due", "canceled"}
      [] type \in {"invoicePaid", "invoiceFailed"} -> Invoices

OfInvoice(e) == e.type \in {"invoicePaid", "invoiceFailed"}
OfPlan(e) == OfInvoice(e) \/ e.type = "plan" \/ (e.type = "completed" /\ e.donation \in Monthly)

RowsAreTyped ==
    /\ invoice \in [Donations -> [Invoices -> {"none", "paid", "failed"}]]
    /\ linked \subseteq Donations
    /\ subscription \in [Donations -> SubscriptionStatus]
    /\ payments \in [References -> {"none", "succeeded", "failed"}]
    /\ processed \subseteq 1 .. Len(events)

TrueOf(e) ==
    /\ e.about \in AboutsOf(e.type)
    /\ e.type = "expired" => session[e.donation] = "expired"
    /\ OfPlan(e) => plan[e.donation] # "none"
    /\ e.type = "invoicePaid" => invoice[e.donation][e.about] = "paid"
    /\ e.type = "invoiceFailed" => invoice[e.donation][e.about] # "none"
LogIsTrue == \A i \in 1 .. Len(events) : TrueOf(events[i])

Said(e) == \E i \in 1 .. Len(events) : events[i] = e
SaidOf(d) ==
    /\ session[d] = "paid" => Said(Event("completed", d, "paid"))
    /\ session[d] = "paid" /\ d \notin Monthly => Said(Event("intent", d, "paid"))
    /\ session[d] = "expired" => Said(Event("expired", d, "expired"))
    /\ plan[d] # "none" => d \in Monthly
    /\ plan[d] # "none" => \E i \in 1 .. Len(events) : events[i].donation = d /\ events[i].type = "plan"
    /\ \A n \in Invoices :
        /\ invoice[d][n] = "paid" => Said(Event("invoicePaid", d, n))
        /\ invoice[d][n] = "failed" => Said(Event("invoiceFailed", d, n))
LogIsComplete == \A d \in Donations : SaidOf(d)

\* The log ends with what the subscription is; the subscription comes before its invoices, and
\* that an invoice was paid after that it failed.
IsLast(i) == \A j \in 1 .. Len(events) : j > i => events[j].donation # events[i].donation
Says(e, s) == (e.type = "completed" /\ s = "active") \/ (e.type = "plan" /\ s = e.about)
EndsWithPlan(d) == plan[d] # "none" =>
    \E i \in 1 .. Len(events) : events[i].donation = d /\ IsLast(i) /\ Says(events[i], plan[d])
PlanComesFirst == \A i \in 1 .. Len(events) : OfInvoice(events[i]) =>
    \E j \in 1 .. Len(events) : j < i /\ events[j].donation = events[i].donation /\ events[j].type = "plan"
PaidComesLast == \A i, j \in 1 .. Len(events) :
    events[i].type = "invoicePaid" /\ events[j].type = "invoiceFailed" /\ events[j].donation = events[i].donation
        /\ events[j].about = events[i].about => j < i
LogIsInOrder == (\A d \in Donations : EndsWithPlan(d)) /\ PlanComesFirst /\ PaidComesLast

StatusFollows == \A d \in Donations :
    /\ session[d] \in {"open", "unpaid"} => status[d] = "pending"
    /\ session[d] = "lost" => status[d] = "failed"
    /\ status[d] = "succeeded" => session[d] = "paid"

Done(i) == i \in processed \/ \E w \in Workers : worker[w].event = i /\ worker[w].pc \in {"confirm", "ack"}

\* What was done of an event about a checkout, in whatever order events arrive.
CheckoutEffect(e) ==
    /\ e.type = "completed" /\ e.about = "paid" => status[e.donation] = "succeeded"
    /\ e.type = "expired" => status[e.donation] \in {"expired", "failed"}
    /\ e.type = "intent" => payments[<<e.donation, 0>>] = "succeeded"
CheckoutsAreDone == \A i \in 1 .. Len(events) : Done(i) => CheckoutEffect(events[i])

\* What was done of an event about a subscription, if events arrive in order.
PlanEffect(i) ==
    LET e == events[i] IN
    /\ e.type = "plan" => e.donation \in linked
    /\ e.donation \in Monthly /\ IsLast(i) /\ plan[e.donation] # "none" =>
        Agree(subscription[e.donation], plan[e.donation])
    /\ e.type = "invoicePaid" => payments[<<e.donation, e.about>>] = "succeeded"
    /\ e.type = "invoiceFailed" /\ invoice[e.donation][e.about] = "failed" =>
        payments[<<e.donation, e.about>>] = "failed"
PlansAreDone == setup.ordered => \A i \in 1 .. Len(events) : Done(i) => PlanEffect(i)

\* The events of a donation that arrive in order are handled one by one.
EarlierAreProcessed(i) ==
    \A j \in 1 .. Len(events) : j < i /\ events[j].donation = events[i].donation => j \in processed
OneByOne == setup.ordered =>
    /\ \A i \in processed : EarlierAreProcessed(i)
    /\ \A w \in Workers : worker[w].pc # "idle" =>
        /\ worker[w].event \notin processed
        /\ EarlierAreProcessed(worker[w].event)
        /\ \A v \in Workers : v # w /\ worker[v].pc # "idle" => About(v) # About(w)

NothingUnasked ==
    /\ \A d \in Donations : subscription[d] # "none" => plan[d] # "none"
    /\ \A d \in Donations, n \in Invoices : payments[<<d, n>>] # "none" => invoice[d][n] # "none"

LogInv == LogIsTrue /\ LogIsComplete /\ LogIsInOrder
WorkInv == StatusFollows /\ CheckoutsAreDone /\ PlansAreDone /\ OneByOne /\ NothingUnasked
RInv == RowsAreTyped /\ LogInv /\ WorkInv

LEMMA InvoicesAreNumbers ==
    /\ MaxInvoices \in Nat /\ Invoices \subseteq Nat /\ 0 \notin Invoices
    /\ \A d \in Donations, n \in Invoices : <<d, n>> \in References /\ <<d, 0>> \in References
    /\ \A d \in Donations : <<d, 0>> \in References
  BY ShapeAssumption DEF Invoices, References

LEMMA ReconciledInit == DonationsInit => RInv
<1> SUFFICES ASSUME DonationsInit
             PROVE  RInv
  OBVIOUS
<1> USE DEF DonationsInit
<1>1. Len(events) = 0 /\ 1 .. Len(events) = {}
  OBVIOUS
<1>2. \A w \in Workers : worker[w].pc = "idle"
  BY DEF Idle
<1>3. RowsAreTyped
  BY <1>1, InvoicesAreNumbers DEF RowsAreTyped, SubscriptionStatus
<1>4. LogIsTrue /\ LogIsInOrder
  BY <1>1 DEF LogIsTrue, LogIsInOrder, EndsWithPlan, PlanComesFirst, PaidComesLast
<1>5. LogIsComplete
  BY DEF LogIsComplete, SaidOf
<1>6. StatusFollows /\ CheckoutsAreDone /\ PlansAreDone
  BY <1>1 DEF StatusFollows, CheckoutsAreDone, PlansAreDone
<1>7. OneByOne
  BY <1>2 DEF OneByOne
<1>8. NothingUnasked
  BY InvoicesAreNumbers DEF NothingUnasked
<1> QED
  BY <1>3, <1>4, <1>5, <1>6, <1>7, <1>8 DEF RInv, LogInv, WorkInv

LEMMA ReconciledHolds ==
    ASSUME IInv, RInv
    PROVE  DonationsAreReconciled
<1> USE DEF RInv, LogInv, WorkInv
<1>1. ASSUME NEW d \in Donations, Delivered(d), NEW i \in 1 .. Len(events), events[i].donation = d
      PROVE  Done(i)
  BY <1>1 DEF Delivered, Done
<1>2. ASSUME NEW d \in Donations, Delivered(d)
      PROVE  /\ status[d] = "succeeded" <=> session[d] = "paid"
             /\ session[d] = "expired" => status[d] \in {"expired", "failed"}
             /\ session[d] = "unpaid" => status[d] = "pending"
             /\ d \notin Monthly /\ session[d] = "paid" => payments[<<d, 0>>] = "succeeded"
  <2>1. \A type, about : Said(Event(type, d, about)) => CheckoutEffect(Event(type, d, about))
    BY <1>1, <1>2 DEF Said, CheckoutsAreDone, Event
  <2>2. SaidOf(d)
    BY DEF LogIsComplete
  <2>3. session[d] = "paid" => status[d] = "succeeded"
    BY <2>1, <2>2 DEF SaidOf, CheckoutEffect, Event
  <2>4. session[d] = "expired" => status[d] \in {"expired", "failed"}
    BY <2>1, <2>2 DEF SaidOf, CheckoutEffect, Event
  <2>5. d \notin Monthly /\ session[d] = "paid" => payments[<<d, 0>>] = "succeeded"
    BY <2>1, <2>2 DEF SaidOf, CheckoutEffect, Event
  <2> QED
    BY <2>3, <2>4, <2>5 DEF StatusFollows
<1>3. ASSUME setup.ordered, NEW d \in Monthly, Delivered(d)
      PROVE  /\ Agree(subscription[d], plan[d])
             /\ \A n \in Invoices : payments[<<d, n>>] = (IF invoice[d][n] = "paid" THEN "succeeded"
                                                           ELSE invoice[d][n])
  <2>1. d \in Donations
    BY ShapeAssumption
  <2>2. \A i \in 1 .. Len(events) : events[i].donation = d => PlanEffect(i)
    BY <1>1, <1>3, <2>1 DEF PlansAreDone
  <2>3. Agree(subscription[d], plan[d])
    <3>1. CASE plan[d] = "none"
      BY <2>1, <3>1 DEF NothingUnasked, Agree
    <3>2. CASE plan[d] # "none"
      <4>1. PICK i \in 1 .. Len(events) : events[i].donation = d /\ IsLast(i)
        BY <2>1, <3>2 DEF LogIsInOrder, EndsWithPlan
      <4> QED
        BY <2>2, <3>2, <4>1, <1>3 DEF PlanEffect
    <3> QED
      BY <3>1, <3>2
  <2>4. ASSUME NEW n \in Invoices
        PROVE  payments[<<d, n>>] = IF invoice[d][n] = "paid" THEN "succeeded" ELSE invoice[d][n]
    <3>1. invoice[d][n] \in {"none", "paid", "failed"}
      BY <2>1 DEF RowsAreTyped
    <3>2. CASE invoice[d][n] = "none"
      BY <2>1, <3>2 DEF NothingUnasked
    <3>3. CASE invoice[d][n] = "paid"
      <4>1. PICK i \in 1 .. Len(events) : events[i] = Event("invoicePaid", d, n)
        BY <2>1, <3>3 DEF LogIsComplete, SaidOf, Said
      <4> QED
        BY <2>2, <3>3, <4>1 DEF PlanEffect, Event
    <3>4. CASE invoice[d][n] = "failed"
      <4>1. PICK i \in 1 .. Len(events) : events[i] = Event("invoiceFailed", d, n)
        BY <2>1, <3>4 DEF LogIsComplete, SaidOf, Said
      <4> QED
        BY <2>2, <3>4, <4>1 DEF PlanEffect, Event
    <3> QED
      BY <3>1, <3>2, <3>3, <3>4
  <2> QED
    BY <2>3, <2>4
<1> QED
  BY <1>2, <1>3 DEF DonationsAreReconciled, CheckoutsAreReconciled, SubscriptionsAreReconciled

-----------------------------------------------------------------------------
(* Outside the handlers: something becomes of one donation, and Stripe     *)
(* says so.                                                                *)

LEMMA AppendedTo ==
    ASSUME events \in Seq(Emitted), NEW list \in Seq(Emitted), events' = events \o list
    PROVE  /\ Len(events) \in Nat /\ Len(list) \in Nat /\ Len(events') = Len(events) + Len(list)
           /\ \A i \in 1 .. Len(events) : i \in 1 .. Len(events') /\ events'[i] = events[i]
           /\ \A j \in 1 .. Len(list) : Len(events) + j \in 1 .. Len(events') /\ events'[Len(events) + j] = list[j]
           /\ \A i \in 1 .. Len(events') : i \in 1 .. Len(events) \/
                \E j \in 1 .. Len(list) : i = Len(events) + j
<1>1. Len(events) \in Nat /\ Len(list) \in Nat /\ Len(events') = Len(events) + Len(list)
  OBVIOUS
<1>2. \A i \in 1 .. Len(events) : i \in 1 .. Len(events') /\ events'[i] = events[i]
  BY <1>1
<1>3. \A j \in 1 .. Len(list) : Len(events) + j \in 1 .. Len(events') /\ events'[Len(events) + j] = list[j]
  BY <1>1
<1>4. ASSUME NEW i \in 1 .. Len(events'), i \notin 1 .. Len(events)
      PROVE  \E j \in 1 .. Len(list) : i = Len(events) + j
  <2>1. i - Len(events) \in 1 .. Len(list) /\ i = Len(events) + (i - Len(events))
    BY <1>1, <1>4
  <2> QED
    BY <2>1
<1> QED
  BY <1>1, <1>2, <1>3, <1>4

\* Something becomes of a donation outside the handlers, and Stripe says so with a list of events.
Within(d, list) ==
    /\ list \in Seq(Emitted) /\ events' = events \o list
    /\ \A j \in 1 .. Len(list) : list[j].donation = d
    /\ \A c \in Donations : c # d =>
         /\ session'[c] = session[c] /\ plan'[c] = plan[c] /\ invoice'[c] = invoice[c]
         /\ status'[c] = status[c] /\ subscription'[c] = subscription[c]
    /\ UNCHANGED <<linked, payments, processed, worker, setup>>

KeepsRows(d) ==
    /\ session[d] = "expired" => session'[d] = "expired"
    /\ plan[d] # "none" => plan'[d] # "none"
    /\ \A n \in Invoices : /\ invoice[d][n] = "paid" => invoice'[d][n] = "paid"
                           /\ invoice[d][n] # "none" => invoice'[d][n] # "none"
                           /\ invoice'[d][n] = "failed" => invoice[d][n] \in {"none", "failed"}

TellsTruth(list) == \A j \in 1 .. Len(list) : TrueOf(list[j])'

TellsAll(d, list) ==
    LET Told(e) == \E j \in 1 .. Len(list) : list[j] = e IN
    /\ session'[d] = "paid" /\ session[d] # "paid" =>
         Told(Event("completed", d, "paid")) /\ (d \notin Monthly => Told(Event("intent", d, "paid")))
    /\ session'[d] = "expired" /\ session[d] # "expired" => Told(Event("expired", d, "expired"))
    /\ plan'[d] # "none" /\ plan[d] = "none" => d \in Monthly /\ \E j \in 1 .. Len(list) : list[j].type = "plan"
    /\ \A n \in Invoices : invoice'[d][n] # invoice[d][n] =>
         /\ invoice'[d][n] = "paid" => Told(Event("invoicePaid", d, n))
         /\ invoice'[d][n] = "failed" => Told(Event("invoiceFailed", d, n))

TellsInOrder(d, list) ==
    /\ \/ plan'[d] = "none"
       \/ list = <<>> /\ plan'[d] = plan[d]
       \/ list # <<>> /\ Says(list[Len(list)], plan'[d])
    /\ \A j \in 1 .. Len(list) : OfInvoice(list[j]) =>
         plan[d] # "none" \/ \E i \in 1 .. Len(list) : i < j /\ list[i].type = "plan"
    /\ \A j \in 1 .. Len(list) : list[j].type = "invoiceFailed" =>
         /\ invoice[d][list[j].about] = "none"
         /\ \A i \in 1 .. Len(list) : list[i].type # "invoicePaid"

LEMMA EventsAreEmitted ==
    ASSUME IInv
    PROVE  /\ events \in Seq(Emitted)
           /\ \A i \in 1 .. Len(events) : /\ events[i].donation \in Donations
                                          /\ session[events[i].donation] # "none"
  BY DonationsOfEvents DEF IInv, Typing, StripeIsTruthful

LEMMA LogStaysTrue ==
    ASSUME IInv, LogIsTrue, NEW CONSTANT d \in Donations, NEW CONSTANT list,
           Within(d, list), KeepsRows(d), TellsTruth(list)
    PROVE  LogIsTrue'
<1>1. events \in Seq(Emitted) /\ \A i \in 1 .. Len(events) : events[i].donation \in Donations
  BY EventsAreEmitted
<1>2. list \in Seq(Emitted) /\ events' = events \o list
  BY DEF Within
<1>3. /\ \A i \in 1 .. Len(events) : i \in 1 .. Len(events') /\ events'[i] = events[i]
      /\ \A j \in 1 .. Len(list) : events'[Len(events) + j] = list[j]
      /\ \A i \in 1 .. Len(events') : i \in 1 .. Len(events) \/
                \E j \in 1 .. Len(list) : i = Len(events) + j
  BY <1>1, <1>2, AppendedTo
<1>4. ASSUME NEW i \in 1 .. Len(events)
      PROVE  TrueOf(events[i])'
  <2>1. TrueOf(events[i]) /\ events'[i] = events[i] /\ events[i].donation \in Donations
    BY <1>1, <1>3 DEF LogIsTrue
  <2>2. PICK e : e = events[i]
    OBVIOUS
  <2>3. TrueOf(e) /\ e.donation \in Donations
    BY <2>1, <2>2
  <2>4. OfInvoice(e) => e.about \in Invoices
    BY <2>3 DEF TrueOf, OfInvoice, AboutsOf
  <2>5. CASE e.donation # d
    BY <2>1, <2>2, <2>3, <2>5 DEF TrueOf, Within, OfPlan, OfInvoice
  <2>6. CASE e.donation = d
    BY <2>1, <2>2, <2>3, <2>4, <2>6 DEF TrueOf, KeepsRows, OfPlan, OfInvoice
  <2> QED
    BY <2>5, <2>6
<1>5. ASSUME NEW i \in 1 .. Len(events')
      PROVE  TrueOf(events[i])'
  <2>1. CASE i \in 1 .. Len(events)
    BY <1>4, <2>1
  <2>2. ASSUME NEW j \in 1 .. Len(list), i = Len(events) + j
        PROVE  TrueOf(events[i])'
    <3>1. events'[i] = list[j] /\ TrueOf(list[j])'
      BY <1>3, <2>2 DEF TellsTruth
    <3> QED
      BY <3>1 DEF TrueOf
  <2> QED
    BY <1>3, <2>1, <2>2
<1> QED
  BY <1>5 DEF LogIsTrue

LEMMA LogStaysComplete ==
    ASSUME IInv, RowsAreTyped, LogIsComplete, NEW CONSTANT d \in Donations, NEW CONSTANT list,
           Within(d, list), KeepsRows(d), TellsAll(d, list),
           \A n \in Invoices : invoice'[d][n] \in {"none", "paid", "failed"}
    PROVE  LogIsComplete'
<1>1. events \in Seq(Emitted) /\ list \in Seq(Emitted) /\ events' = events \o list
  BY EventsAreEmitted DEF Within
<1>2. /\ \A i \in 1 .. Len(events) : i \in 1 .. Len(events') /\ events'[i] = events[i]
      /\ \A j \in 1 .. Len(list) : Len(events) + j \in 1 .. Len(events') /\ events'[Len(events) + j] = list[j]
  BY <1>1, AppendedTo
<1>3. \A e : Said(e) => Said(e)'
  BY <1>2 DEF Said
<1>4. \A j \in 1 .. Len(list) : Said(list[j])'
  BY <1>2 DEF Said
<1>5. ASSUME NEW c \in Donations, c # d
      PROVE  SaidOf(c)'
  <2>1. SaidOf(c)
    BY DEF LogIsComplete
  <2>2. session'[c] = session[c] /\ plan'[c] = plan[c] /\ invoice'[c] = invoice[c]
    BY <1>5 DEF Within
  <2>3. plan[c] # "none" => \E i \in 1 .. Len(events') : events'[i].donation = c /\ events'[i].type = "plan"
    BY <1>2, <2>1 DEF SaidOf
  <2> QED
    BY <1>3, <2>1, <2>2, <2>3 DEF SaidOf
<1>6. SaidOf(d)'
  <2>1. SaidOf(d)
    BY DEF LogIsComplete
  <2>2. /\ session'[d] = "paid" => Said(Event("completed", d, "paid"))'
        /\ session'[d] = "paid" /\ d \notin Monthly => Said(Event("intent", d, "paid"))'
        /\ session'[d] = "expired" => Said(Event("expired", d, "expired"))'
    BY <1>3, <1>4, <2>1 DEF SaidOf, TellsAll
  <2>3. plan'[d] # "none" =>
          d \in Monthly /\ \E i \in 1 .. Len(events') : events'[i].donation = d /\ events'[i].type = "plan"
    <3>1. CASE plan[d] # "none"
      BY <1>2, <2>1, <3>1 DEF SaidOf
    <3>2. CASE plan[d] = "none" /\ plan'[d] # "none"
      <4>1. PICK j \in 1 .. Len(list) : list[j].type = "plan"
        BY <3>2 DEF TellsAll
      <4>2. d \in Monthly /\ list[j].donation = d
        BY <3>2 DEF TellsAll, Within
      <4> QED
        BY <1>2, <4>1, <4>2
    <3> QED
      BY <3>1, <3>2
  <2>4. ASSUME NEW n \in Invoices
        PROVE  /\ invoice'[d][n] = "paid" => Said(Event("invoicePaid", d, n))'
               /\ invoice'[d][n] = "failed" => Said(Event("invoiceFailed", d, n))'
    <3>1. CASE invoice'[d][n] = invoice[d][n]
      BY <1>3, <2>1, <3>1 DEF SaidOf
    <3>2. CASE invoice'[d][n] # invoice[d][n]
      BY <1>4, <3>2 DEF TellsAll
    <3> QED
      BY <3>1, <3>2
  <2> QED
    BY <2>2, <2>3, <2>4 DEF SaidOf
<1> QED
  BY <1>5, <1>6 DEF LogIsComplete

LEMMA LogStaysInOrder ==
    ASSUME IInv, LogIsTrue, LogIsComplete, LogIsInOrder, NEW CONSTANT d \in Donations, NEW CONSTANT list,
           Within(d, list), TellsInOrder(d, list)
    PROVE  LogIsInOrder'
<1>1. events \in Seq(Emitted) /\ list \in Seq(Emitted) /\ events' = events \o list
  BY EventsAreEmitted DEF Within
<1>2. /\ Len(events) \in Nat /\ Len(list) \in Nat /\ Len(events') = Len(events) + Len(list)
      /\ \A i \in 1 .. Len(events) : i \in 1 .. Len(events') /\ events'[i] = events[i]
      /\ \A j \in 1 .. Len(list) : Len(events) + j \in 1 .. Len(events') /\ events'[Len(events) + j] = list[j]
      /\ \A i \in 1 .. Len(events') : i \in 1 .. Len(events) \/
                \E j \in 1 .. Len(list) : i = Len(events) + j
  BY <1>1, AppendedTo
<1>3. \A j \in 1 .. Len(list) : list[j].donation = d
  BY DEF Within
<1>4. ASSUME NEW c \in Donations, c # d
      PROVE  EndsWithPlan(c)'
  <2> SUFFICES ASSUME plan'[c] # "none"
               PROVE  \E i \in 1 .. Len(events') : events'[i].donation = c /\ IsLast(i)' /\ Says(events'[i], plan'[c])
    BY DEF EndsWithPlan
  <2>1. plan'[c] = plan[c]
    BY <1>4 DEF Within
  <2>2. PICK i \in 1 .. Len(events) : events[i].donation = c /\ IsLast(i) /\ Says(events[i], plan[c])
    BY <2>1 DEF LogIsInOrder, EndsWithPlan
  <2>3. ASSUME NEW j \in 1 .. Len(events'), j > i
        PROVE  events'[j].donation # events'[i].donation
    <3>1. events'[i].donation = c
      BY <1>2, <2>2
    <3>2. CASE j \in 1 .. Len(events)
      BY <1>2, <2>2, <2>3, <3>1, <3>2 DEF IsLast
    <3>3. ASSUME NEW k \in 1 .. Len(list), j = Len(events) + k
          PROVE  events'[j].donation # c
      BY <1>2, <1>3, <1>4, <3>3
    <3> QED
      BY <1>2, <3>1, <3>2, <3>3
  <2> QED
    BY <1>2, <2>1, <2>2, <2>3 DEF IsLast
<1>5. EndsWithPlan(d)'
  <2> SUFFICES ASSUME plan'[d] # "none"
               PROVE  \E i \in 1 .. Len(events') : events'[i].donation = d /\ IsLast(i)' /\ Says(events'[i], plan'[d])
    BY DEF EndsWithPlan
  <2>1. CASE list = <<>>
    <3>1. events' = events /\ plan'[d] = plan[d]
      BY <1>1, <2>1 DEF TellsInOrder
    <3>2. PICK i \in 1 .. Len(events) : events[i].donation = d /\ IsLast(i) /\ Says(events[i], plan[d])
      BY <3>1 DEF LogIsInOrder, EndsWithPlan
    <3> QED
      BY <3>1, <3>2 DEF IsLast
  <2>2. CASE list # <<>>
    <3>1. Len(list) \in 1 .. Len(list) /\ Says(list[Len(list)], plan'[d])
      BY <1>1, <1>2, <2>2 DEF TellsInOrder
    <3>2. /\ Len(events') \in 1 .. Len(events') /\ events'[Len(events')] = list[Len(list)]
          /\ events'[Len(events')].donation = d
      BY <1>2, <1>3, <3>1
    <3>3. \A j \in 1 .. Len(events') : ~ (j > Len(events'))
      BY <1>2
    <3>4. IsLast(Len(events))'
      BY <3>3 DEF IsLast
    <3> QED
      BY <3>1, <3>2, <3>4
  <2> QED
    BY <2>1, <2>2
<1>6. PlanComesFirst'
  <2> SUFFICES ASSUME NEW i \in 1 .. Len(events'), OfInvoice(events'[i])
               PROVE  \E j \in 1 .. Len(events') : j < i /\ events'[j].donation = events'[i].donation /\ events'[j].type = "plan"
    BY DEF PlanComesFirst, OfInvoice
  <2>1. CASE i \in 1 .. Len(events)
    <3>1. PICK j \in 1 .. Len(events) : j < i /\ events[j].donation = events[i].donation /\ events[j].type = "plan"
      BY <1>2, <2>1 DEF LogIsInOrder, PlanComesFirst, OfInvoice
    <3> QED
      BY <1>2, <2>1, <3>1
  <2>2. ASSUME NEW j \in 1 .. Len(list), i = Len(events) + j
        PROVE  \E k \in 1 .. Len(events') : k < i /\ events'[k].donation = events'[i].donation /\ events'[k].type = "plan"
    <3>1. events'[i] = list[j] /\ events'[i].donation = d /\ OfInvoice(list[j])
      BY <1>2, <1>3, <2>2 DEF OfInvoice
    <3>2. CASE plan[d] # "none"
      <4>1. PICK k \in 1 .. Len(events) : events[k].donation = d /\ events[k].type = "plan"
        BY <3>2 DEF LogIsComplete, SaidOf
      <4>2. k < i /\ k \in 1 .. Len(events') /\ events'[k] = events[k]
        BY <1>2, <2>2
      <4> QED
        BY <3>1, <4>1, <4>2
    <3>3. ASSUME NEW k \in 1 .. Len(list), k < j, list[k].type = "plan"
          PROVE  \E m \in 1 .. Len(events') : m < i /\ events'[m].donation = events'[i].donation /\ events'[m].type = "plan"
      <4>1. /\ Len(events) + k \in 1 .. Len(events') /\ Len(events) + k < i
            /\ events'[Len(events) + k] = list[k] /\ list[k].donation = d
        BY <1>2, <1>3, <2>2, <3>3
      <4> QED
        BY <3>1, <3>3, <4>1
    <3> QED
      BY <3>1, <3>2, <3>3 DEF TellsInOrder
  <2> QED
    BY <1>2, <2>1, <2>2
<1>7. PaidComesLast'
  <2> SUFFICES ASSUME NEW i \in 1 .. Len(events'), NEW j \in 1 .. Len(events'),
                      events'[i].type = "invoicePaid", events'[j].type = "invoiceFailed",
                      events'[j].donation = events'[i].donation, events'[j].about = events'[i].about
               PROVE  j < i
    BY DEF PaidComesLast
  <2>1. CASE i \in 1 .. Len(events) /\ j \in 1 .. Len(events)
    BY <1>2, <2>1 DEF LogIsInOrder, PaidComesLast
  <2>2. CASE i \notin 1 .. Len(events) /\ j \in 1 .. Len(events)
    BY <1>2, <2>2
  <2>3. ASSUME NEW m \in 1 .. Len(list), j = Len(events) + m
        PROVE  FALSE
    <3>1. events'[j] = list[m] /\ list[m].donation = d
      BY <1>2, <1>3, <2>3
    <3>2. invoice[d][list[m].about] = "none" /\ \A k \in 1 .. Len(list) : list[k].type # "invoicePaid"
      BY <3>1 DEF TellsInOrder
    <3>3. i \in 1 .. Len(events)
      <4>1. ASSUME NEW k \in 1 .. Len(list), i = Len(events) + k
            PROVE  FALSE
        BY <1>2, <3>2, <4>1
      <4> QED
        BY <1>2, <4>1
    <3>4. events'[i] = events[i] /\ TrueOf(events[i])
      BY <1>2, <3>3 DEF LogIsTrue
    <3> QED
      BY <3>1, <3>2, <3>4 DEF TrueOf
  <2> QED
    BY <1>2, <2>1, <2>2, <2>3
<1> QED
  BY <1>4, <1>5, <1>6, <1>7 DEF LogIsInOrder

FollowsWithin(d, list) ==
    /\ session[d] # "none" => status'[d] = status[d]
    /\ session'[d] \in {"open", "unpaid"} => status'[d] = "pending"
    /\ session'[d] = "lost" => status'[d] = "failed"
    /\ status'[d] = "succeeded" => session'[d] = "paid"
    /\ subscription'[d] # "none" => plan'[d] # "none"
    /\ list = <<>> => plan'[d] = plan[d] /\ subscription'[d] = subscription[d]

LEMMA WorkStays ==
    ASSUME IInv, RowsAreTyped, LogIsTrue, WorkInv, NEW CONSTANT d \in Donations, NEW CONSTANT list,
           Within(d, list), KeepsRows(d), FollowsWithin(d, list)
    PROVE  WorkInv'
<1> USE DEF WorkInv
<1>1. /\ events \in Seq(Emitted) /\ list \in Seq(Emitted) /\ events' = events \o list
      /\ \A i \in 1 .. Len(events) : /\ events[i].donation \in Donations
                                     /\ session[events[i].donation] # "none"
  BY EventsAreEmitted DEF Within
<1>2. /\ Len(events) \in Nat /\ Len(list) \in Nat /\ Len(events') = Len(events) + Len(list)
      /\ \A i \in 1 .. Len(events) : i \in 1 .. Len(events') /\ events'[i] = events[i]
      /\ \A j \in 1 .. Len(list) : Len(events) + j \in 1 .. Len(events') /\ events'[Len(events) + j] = list[j]
  BY <1>1, AppendedTo
<1>3. UNCHANGED <<linked, payments, processed, worker, setup>>
  BY DEF Within
<1>4. /\ processed \subseteq 1 .. Len(events)
      /\ \A w \in Workers : worker[w].pc # "idle" => worker[w].event \in 1 .. Len(events)
  BY DEF RowsAreTyped, IInv, Typing, At
<1>5. \A i \in 1 .. Len(events') : Done(i)' => i \in 1 .. Len(events) /\ Done(i)
  BY <1>3, <1>4 DEF Done
<1>6. StatusFollows'
  BY DEF Within, FollowsWithin, StatusFollows
<1>7. \A i \in 1 .. Len(events) : status'[events[i].donation] = status[events[i].donation]
  BY <1>1 DEF Within, FollowsWithin
<1>8. CheckoutsAreDone'
  <2> SUFFICES ASSUME NEW i \in 1 .. Len(events'), Done(i)'
               PROVE  CheckoutEffect(events[i])'
    BY DEF CheckoutsAreDone
  <2>1. i \in 1 .. Len(events) /\ CheckoutEffect(events[i]) /\ events'[i] = events[i]
    BY <1>2, <1>5 DEF CheckoutsAreDone
  <2> QED
    BY <1>3, <1>7, <2>1 DEF CheckoutEffect
<1>9. PlansAreDone'
  <2> SUFFICES ASSUME setup.ordered, NEW i \in 1 .. Len(events'), Done(i)'
               PROVE  PlanEffect(i)'
    BY <1>3 DEF PlansAreDone
  <2>1. /\ i \in 1 .. Len(events) /\ PlanEffect(i) /\ events'[i] = events[i] /\ TrueOf(events[i])
        /\ events[i].donation \in Donations
    BY <1>1, <1>2, <1>5 DEF PlansAreDone, LogIsTrue
  <2>2. PICK e : e = events[i]
    OBVIOUS
  <2>3. e.type = "plan" => e.donation \in linked'
    BY <1>3, <2>1, <2>2 DEF PlanEffect
  <2>4. e.type = "invoicePaid" => payments'[<<e.donation, e.about>>] = "succeeded"
    BY <1>3, <2>1, <2>2 DEF PlanEffect
  <2>5. e.type = "invoiceFailed" /\ invoice'[e.donation][e.about] = "failed" => payments'[<<e.donation, e.about>>] = "failed"
    <3>1. SUFFICES ASSUME e.type = "invoiceFailed", invoice'[e.donation][e.about] = "failed"
                   PROVE  payments'[<<e.donation, e.about>>] = "failed"
      OBVIOUS
    <3>2. e.about \in Invoices /\ invoice[e.donation][e.about] # "none"
      BY <2>1, <2>2, <3>1 DEF TrueOf, AboutsOf
    <3>3. invoice[e.donation][e.about] = "failed"
      BY <2>1, <2>2, <3>1, <3>2 DEF Within, KeepsRows
    <3> QED
      BY <1>3, <2>1, <2>2, <3>1, <3>3 DEF PlanEffect
  <2>6. e.donation \in Monthly /\ IsLast(i)' /\ plan'[e.donation] # "none" =>
          Agree(subscription'[e.donation], plan'[e.donation])
    <3>1. IsLast(i)' => IsLast(i)
      BY <1>2, <2>1 DEF IsLast
    <3>2. CASE e.donation # d
      BY <2>1, <2>2, <3>1, <3>2 DEF PlanEffect, Within, Agree
    <3>3. CASE list = <<>>
      BY <2>1, <2>2, <3>1, <3>2, <3>3 DEF PlanEffect, FollowsWithin, Agree
    <3>4. CASE e.donation = d /\ list # <<>>
      <4>1. 1 \in 1 .. Len(list) /\ Len(events) + 1 \in 1 .. Len(events') /\ Len(events) + 1 > i
        BY <1>1, <1>2, <2>1, <3>4
      <4>2. events'[Len(events) + 1].donation = d
        BY <1>2, <4>1 DEF Within
      <4>3. ~ IsLast(i)'
        BY <2>1, <2>2, <3>4, <4>1, <4>2 DEF IsLast
      <4> QED
        BY <4>3
    <3> QED
      BY <3>2, <3>3, <3>4
  <2> QED
    BY <2>1, <2>2, <2>3, <2>4, <2>5, <2>6 DEF PlanEffect, Agree
<1>10. OneByOne'
  <2>1. \A w \in Workers : worker[w].pc # "idle" => About(w)' = About(w)
    BY <1>2, <1>3, <1>4 DEF About, Handled
  <2>2. \A i \in 1 .. Len(events) : EarlierAreProcessed(i) => EarlierAreProcessed(i)'
    BY <1>2, <1>3 DEF EarlierAreProcessed
  <2> QED
    BY <1>3, <1>4, <2>1, <2>2 DEF OneByOne
<1>11. NothingUnasked'
  <2>1. \A c \in Donations : subscription'[c] # "none" => plan'[c] # "none"
    BY DEF NothingUnasked, Within, FollowsWithin
  <2>2. \A c \in Donations, n \in Invoices : payments'[<<c, n>>] # "none" => invoice'[c][n] # "none"
    BY <1>3 DEF NothingUnasked, Within, KeepsRows
  <2> QED
    BY <2>1, <2>2 DEF NothingUnasked
<1> QED
  BY <1>6, <1>8, <1>9, <1>10, <1>11

\* All of it.
Happens(d, list) ==
    /\ Within(d, list) /\ KeepsRows(d) /\ TellsTruth(list) /\ TellsAll(d, list) /\ TellsInOrder(d, list)
    /\ FollowsWithin(d, list)
    /\ invoice' \in [Donations -> [Invoices -> {"none", "paid", "failed"}]]
    /\ subscription' \in [Donations -> SubscriptionStatus]

LEMMA OutsideReconciles ==
    ASSUME IInv, RInv, NEW CONSTANT d \in Donations, NEW CONSTANT list, Happens(d, list)
    PROVE  RInv'
<1> USE DEF Happens, RInv, LogInv
<1>1. RowsAreTyped'
  <2>1. events \in Seq(Emitted) /\ list \in Seq(Emitted) /\ events' = events \o list
    BY EventsAreEmitted DEF Within
  <2>2. Len(events) \in Nat /\ Len(events') = Len(events) + Len(list) /\ Len(list) \in Nat
    BY <2>1, AppendedTo
  <2> QED
    BY <2>2 DEF RowsAreTyped, Within
<1>2. LogIsTrue'
  BY LogStaysTrue
<1>3. LogIsComplete'
  BY LogStaysComplete
<1>4. LogIsInOrder'
  BY LogStaysInOrder
<1>5. WorkInv'
  BY WorkStays
<1> QED
  BY <1>1, <1>2, <1>3, <1>4, <1>5

LEMMA CheckoutReconciles ==
    ASSUME IInv, RInv, NEW CONSTANT d \in Donations, Checkout(d)
    PROVE  RInv'
<1> USE DEF stripe, tables
<1>1. /\ session \in [Donations -> Sessions] /\ status \in [Donations -> DonationStatus]
      /\ invoice \in [Donations -> [Invoices -> {"none", "paid", "failed"}]]
      /\ subscription \in [Donations -> SubscriptionStatus]
      /\ subscription[d] # "none" => plan[d] # "none"
      /\ session[d] # "none" => status[d] # "none"
  BY DEF IInv, Typing, StripeIsTruthful, RInv, RowsAreTyped, WorkInv, NothingUnasked
<1>2. UNCHANGED <<plan, invoice, events, linked, subscription, payments, processed, worker, setup>>
  BY DEF Checkout, CreateDonation, OpenSession, OpenSessionFails
<1>3. /\ session[d] = "none"
      /\ \/ session' = session /\ status' = [status EXCEPT ![d] = "pending"]
         \/ session' = [session EXCEPT ![d] = "open"] /\ status' = status /\ status[d] = "pending"
         \/ /\ \E s \in {"none", "lost"} : session' = [session EXCEPT ![d] = s]
            /\ status' = [status EXCEPT ![d] = "failed"]
  BY <1>1 DEF Checkout, CreateDonation, OpenSession, OpenSessionFails
<1>4. /\ \A c \in Donations : c # d => session'[c] = session[c] /\ status'[c] = status[c]
      /\ session'[d] \in {"none", "open", "lost"}
      /\ session'[d] = "open" => status'[d] = "pending"
      /\ session'[d] = "lost" => status'[d] = "failed"
      /\ status'[d] # "succeeded"
  BY <1>1, <1>3
<1>5. PICK list : list = <<>>
  OBVIOUS
<1>6. /\ list \in Seq(Emitted) /\ events' = events \o list
      /\ \A j \in 1 .. Len(list) : FALSE
  BY <1>2, <1>5 DEF IInv, Typing
<1>7. Within(d, list)
  BY <1>2, <1>4, <1>6 DEF Within
<1>8. KeepsRows(d)
  BY <1>1, <1>2, <1>3 DEF KeepsRows
<1>9. TellsTruth(list) /\ TellsAll(d, list) /\ TellsInOrder(d, list)
  BY <1>2, <1>4, <1>5, <1>6 DEF TellsTruth, TellsAll, TellsInOrder
<1>10. FollowsWithin(d, list)
  BY <1>1, <1>2, <1>3, <1>4 DEF FollowsWithin
<1> QED
  BY <1>1, <1>2, <1>7, <1>8, <1>9, <1>10, OutsideReconciles DEF Happens

\* What an event of Stripe finds.
LEMMA RowsOf ==
    ASSUME IInv, RInv, NEW d \in Donations
    PROVE  /\ session \in [Donations -> Sessions] /\ plan \in [Donations -> PlanStatus]
           /\ invoice \in [Donations -> [Invoices -> {"none", "paid", "failed"}]]
           /\ subscription \in [Donations -> SubscriptionStatus]
           /\ subscription[d] # "none" => plan[d] # "none"
           /\ plan[d] # "none" => session[d] = "paid" /\ d \in Monthly
           /\ session[d] \in {"open", "unpaid"} => status[d] = "pending"
           /\ session[d] = "lost" => status[d] = "failed"
           /\ status[d] = "succeeded" => session[d] = "paid"
  BY DEF IInv, Typing, StripeIsTruthful, RInv, LogInv, LogIsComplete, SaidOf, RowsAreTyped, WorkInv, NothingUnasked,
     StatusFollows

LEMMA PaymentReconciles ==
    ASSUME IInv, RInv, NEW CONSTANT d \in Donations, Pay(d) \/ PayLater(d) \/ Expire(d)
    PROVE  RInv'
<1> USE DEF Emit, tables
<1>1. /\ session \in [Donations -> Sessions]
      /\ invoice \in [Donations -> [Invoices -> {"none", "paid", "failed"}]]
      /\ subscription \in [Donations -> SubscriptionStatus]
      /\ subscription[d] # "none" => plan[d] # "none"
      /\ plan[d] # "none" => session[d] = "paid"
      /\ session[d] \in {"open", "unpaid"} => status[d] = "pending"
      /\ session[d] = "lost" => status[d] = "failed"
  BY RowsOf
<1>2. /\ UNCHANGED <<plan, invoice, tables, processed, worker, setup>>
      /\ session[d] \in {"open", "unpaid", "lost"} /\ plan[d] = "none" /\ subscription[d] = "none"
      /\ session[d] # "lost" => status[d] = "pending"
  BY <1>1 DEF Pay, PayLater, Expire
<1>3. \A c \in Donations : c # d => session'[c] = session[c]
  BY <1>1 DEF Pay, PayLater, Expire
<1>4. {"paid", "unpaid", "expired"} \subseteq Abouts
  BY DEF Abouts, Sessions
<1>5. ASSUME NEW CONSTANT list, Within(d, list), TellsTruth(list), TellsAll(d, list),
             list # <<>>, \A j \in 1 .. Len(list) : list[j].type \in {"completed", "intent", "expired"},
             FollowsWithin(d, list)
      PROVE  RInv'
  <2>1. KeepsRows(d)
    BY <1>1, <1>2 DEF KeepsRows
  <2>2. TellsInOrder(d, list)
    BY <1>2, <1>5 DEF TellsInOrder, OfInvoice
  <2> QED
    BY <1>1, <1>2, <1>5, <2>1, <2>2, OutsideReconciles DEF Happens
<1>6. ASSUME NEW CONSTANT list, list \in Seq(Emitted), events' = events \o list,
             \A j \in 1 .. Len(list) : list[j].donation = d
      PROVE  Within(d, list)
  BY <1>2, <1>3, <1>6 DEF Within
<1>7. CASE Pay(d)
  <2> DEFINE e == Event("completed", d, "paid")
             f == Event("intent", d, "paid")
  <2>1. /\ e \in Emitted /\ e.type = "completed" /\ e.donation = d /\ e.about = "paid"
        /\ f \in Emitted /\ f.type = "intent" /\ f.donation = d /\ f.about = "paid"
    BY <1>4, EventIsEmitted DEF EventTypes
  <2>2. d \notin Monthly /\ session'[d] = "paid" /\ status[d] = "pending"
    BY <1>1, <1>2, <1>7 DEF Pay
  <2>3. PICK list : list = <<e, f>>
    OBVIOUS
  <2>4. events' = events \o list
    BY <1>7, <2>3 DEF Pay
  <2>5. (e = Event("completed", d, "paid")) /\ (f = Event("intent", d, "paid"))
    OBVIOUS
  <2> HIDE DEF e, f
  <2>6. list \in Seq(Emitted) /\ Len(list) = 2 /\ list[1] = e /\ list[2] = f /\ list # <<>>
    BY <2>1, <2>3
  <2>7. /\ \A j \in 1 .. Len(list) : list[j] = e \/ list[j] = f
        /\ \E j \in 1 .. Len(list) : list[j] = e
        /\ \E j \in 1 .. Len(list) : list[j] = f
    BY <2>6
  <2>8. TellsTruth(list)
    BY <2>1, <2>2, <2>7 DEF TellsTruth, TrueOf, AboutsOf, OfPlan, OfInvoice
  <2>9. TellsAll(d, list)
    BY <1>2, <2>2, <2>5, <2>7 DEF TellsAll
  <2>10. FollowsWithin(d, list)
    BY <1>2, <2>2, <2>6 DEF FollowsWithin
  <2> QED
    BY <1>5, <1>6, <2>1, <2>4, <2>6, <2>7, <2>8, <2>9, <2>10
<1>8. CASE PayLater(d)
  <2> DEFINE e == Event("completed", d, "unpaid")
  <2>1. e \in Emitted /\ e.type = "completed" /\ e.donation = d /\ e.about = "unpaid"
    BY <1>4, EventIsEmitted DEF EventTypes
  <2>2. d \notin Monthly /\ session'[d] = "unpaid" /\ status[d] = "pending"
    BY <1>1, <1>2, <1>8 DEF PayLater
  <2>3. PICK list : list = <<e>>
    OBVIOUS
  <2>4. events' = events \o list
    BY <1>8, <2>3 DEF PayLater
  <2> HIDE DEF e
  <2>6. list \in Seq(Emitted) /\ Len(list) = 1 /\ list[1] = e /\ list # <<>>
    BY <2>1, <2>3
  <2>7. \A j \in 1 .. Len(list) : list[j] = e
    BY <2>6
  <2>8. TellsTruth(list)
    BY <2>1, <2>2, <2>7 DEF TellsTruth, TrueOf, AboutsOf, OfPlan, OfInvoice
  <2>9. TellsAll(d, list)
    BY <1>2, <2>2, <2>7 DEF TellsAll
  <2>10. FollowsWithin(d, list)
    BY <1>2, <2>2, <2>6 DEF FollowsWithin
  <2> QED
    BY <1>5, <1>6, <2>1, <2>4, <2>6, <2>7, <2>8, <2>9, <2>10
<1>9. CASE Expire(d)
  <2> DEFINE e == Event("expired", d, "expired")
  <2>1. e \in Emitted /\ e.type = "expired" /\ e.donation = d /\ e.about = "expired"
    BY <1>4, EventIsEmitted DEF EventTypes
  <2>2. session'[d] = "expired" /\ status[d] # "succeeded"
    BY <1>1, <1>9 DEF Expire
  <2>3. PICK list : list = <<e>>
    OBVIOUS
  <2>4. events' = events \o list
    BY <1>9, <2>3 DEF Expire
  <2>5. e = Event("expired", d, "expired")
    OBVIOUS
  <2> HIDE DEF e
  <2>6. list \in Seq(Emitted) /\ Len(list) = 1 /\ list[1] = e /\ list # <<>>
    BY <2>1, <2>3
  <2>7. (\A j \in 1 .. Len(list) : list[j] = e) /\ (\E j \in 1 .. Len(list) : list[j] = e)
    BY <2>6
  <2>8. TellsTruth(list)
    BY <2>1, <2>2, <2>7 DEF TellsTruth, TrueOf, AboutsOf, OfPlan, OfInvoice
  <2>9. TellsAll(d, list)
    BY <1>2, <2>2, <2>5, <2>7 DEF TellsAll
  <2>10. FollowsWithin(d, list)
    BY <1>2, <2>2, <2>6 DEF FollowsWithin
  <2> QED
    BY <1>5, <1>6, <2>1, <2>4, <2>6, <2>7, <2>8, <2>9, <2>10
<1> QED
  BY <1>7, <1>8, <1>9

LEMMA InvoicesOf ==
    ASSUME IInv, NEW n \in 1 .. setup.invoices
    PROVE  n \in Invoices /\ n \in Nat /\ n \in Abouts
<1>1. setup.invoices \in 0 .. MaxInvoices /\ MaxInvoices \in Nat
  BY SetupAssumption, ShapeAssumption DEF IInv, Typing
<1> QED
  BY <1>1 DEF Invoices, Abouts

LEMMA SubscribeReconciles ==
    ASSUME IInv, RInv, NEW CONSTANT d \in Donations, Subscribe(d), 1 \in Invoices
    PROVE  RInv'
<1> USE DEF Emit, tables
<1>1. /\ session \in [Donations -> Sessions] /\ plan \in [Donations -> PlanStatus]
      /\ invoice \in [Donations -> [Invoices -> {"none", "paid", "failed"}]]
      /\ subscription \in [Donations -> SubscriptionStatus]
      /\ subscription[d] # "none" => plan[d] # "none"
      /\ plan[d] # "none" => session[d] = "paid"
  BY RowsOf
<1>2. /\ UNCHANGED <<tables, processed, worker, setup>>
      /\ d \in Monthly /\ session[d] = "open" /\ plan[d] = "none" /\ subscription[d] = "none"
      /\ session' = [session EXCEPT ![d] = "paid"] /\ plan' = [plan EXCEPT ![d] = "active"]
      /\ invoice' = [invoice EXCEPT ![d][1] = "paid"]
  BY <1>1 DEF Subscribe
<1>3. /\ session'[d] = "paid" /\ plan'[d] = "active" /\ invoice'[d][1] = "paid"
      /\ \A n \in Invoices : n # 1 => invoice'[d][n] = invoice[d][n]
      /\ \A c \in Donations : c # d => session'[c] = session[c] /\ plan'[c] = plan[c] /\ invoice'[c] = invoice[c]
      /\ invoice' \in [Donations -> [Invoices -> {"none", "paid", "failed"}]]
  BY <1>1, <1>2
<1>4. {"paid", "incomplete", "active"} \subseteq Abouts /\ 1 \in Abouts
  BY DEF Abouts, Sessions, PlanStatus
<1> DEFINE e == Event("plan", d, "incomplete")
           f == Event("invoicePaid", d, 1)
           g == Event("plan", d, "active")
           h == Event("completed", d, "paid")
<1>5. /\ e \in Emitted /\ e.type = "plan" /\ e.donation = d /\ e.about = "incomplete"
      /\ f \in Emitted /\ f.type = "invoicePaid" /\ f.donation = d /\ f.about = 1
  BY <1>4, EventIsEmitted DEF EventTypes
<1>6. /\ g \in Emitted /\ g.type = "plan" /\ g.donation = d /\ g.about = "active"
      /\ h \in Emitted /\ h.type = "completed" /\ h.donation = d /\ h.about = "paid"
  BY <1>4, EventIsEmitted DEF EventTypes
<1>7. f = Event("invoicePaid", d, 1) /\ h = Event("completed", d, "paid")
  OBVIOUS
<1>8. PICK list : list = <<e, f, g, h>>
  OBVIOUS
<1>9. events' = events \o list
  BY <1>8 DEF Subscribe
<1> HIDE DEF e, f, g, h
<1>10. list \in Seq(Emitted)
  BY <1>5, <1>6, <1>8
<1>11. /\ Len(list) = 4 /\ list # <<>> /\ list[1] = e /\ list[2] = f /\ list[3] = g /\ list[4] = h
       /\ \A j \in 1 .. Len(list) : j = 1 \/ j = 2 \/ j = 3 \/ j = 4
  BY <1>8
<1>12. /\ \A j \in 1 .. Len(list) : list[j] = e \/ list[j] = f \/ list[j] = g \/ list[j] = h
       /\ 1 \in 1 .. Len(list) /\ 2 \in 1 .. Len(list) /\ 4 \in 1 .. Len(list)
  BY <1>11
<1>13. Within(d, list)
  <2>1. \A j \in 1 .. Len(list) : list[j].donation = d
    BY <1>5, <1>6, <1>12
  <2>2. UNCHANGED <<status, subscription, linked, payments, processed, worker, setup>>
    BY <1>2
  <2> QED
    BY <1>3, <1>9, <1>10, <2>1, <2>2 DEF Within
<1>14. KeepsRows(d)
  BY <1>1, <1>2, <1>3 DEF KeepsRows
<1>15. TellsTruth(list)
  <2>1. TrueOf(e)' /\ TrueOf(f)'
    BY <1>3, <1>5 DEF TrueOf, AboutsOf, OfPlan, OfInvoice
  <2>2. TrueOf(g)' /\ TrueOf(h)'
    BY <1>3, <1>6 DEF TrueOf, AboutsOf, OfPlan, OfInvoice
  <2> QED
    BY <2>1, <2>2, <1>12 DEF TellsTruth, TrueOf
<1>16. TellsAll(d, list)
  <2>1. list[1].type = "plan" /\ list[2] = Event("invoicePaid", d, 1) /\ list[4] = Event("completed", d, "paid")
    BY <1>5, <1>7, <1>11
  <2>2. \A n \in Invoices : invoice'[d][n] # invoice[d][n] => n = 1
    BY <1>3
  <2> QED
    BY <1>2, <1>3, <1>12, <2>1, <2>2 DEF TellsAll
<1>17. TellsInOrder(d, list)
  <2>1. Says(list[Len(list)], plan'[d])
    BY <1>3, <1>6, <1>11 DEF Says
  <2>2. ASSUME NEW j \in 1 .. Len(list), OfInvoice(list[j])
        PROVE  \E i \in 1 .. Len(list) : i < j /\ list[i].type = "plan"
    <3>1. j # 1
      BY <1>5, <1>11, <2>2 DEF OfInvoice
    <3>2. 1 < j /\ list[1].type = "plan"
      BY <1>5, <1>11, <3>1
    <3> QED
      BY <1>12, <3>2
  <2>3. \A j \in 1 .. Len(list) : list[j].type # "invoiceFailed"
    BY <1>5, <1>6, <1>12
  <2> QED
    BY <1>11, <2>1, <2>2, <2>3 DEF TellsInOrder
<1>18. FollowsWithin(d, list)
  <2>1. status[d] = "pending" /\ status' = status
    BY <1>2, RowsOf
  <2> QED
    BY <1>2, <1>3, <1>11, <2>1 DEF FollowsWithin
<1> QED
  BY <1>1, <1>2, <1>3, <1>13, <1>14, <1>15, <1>16, <1>17, <1>18, OutsideReconciles DEF Happens

\* A subscription goes on, with an invoice or without, or is cancelled.
LEMMA PlanReconciles ==
    ASSUME IInv, RInv, NEW CONSTANT d \in Donations, NEW CONSTANT list, NEW CONSTANT s,
           s \in {"active", "past_due", "canceled"},
           plan[d] \in {"active", "past_due"}, plan' = [plan EXCEPT ![d] = s],
           list \in Seq(Emitted), events' = events \o list, \A j \in 1 .. Len(list) : list[j].donation = d,
           list # <<>>, list[Len(list)] = Event("plan", d, s),
           UNCHANGED <<session, status, linked, payments, processed, worker, setup>>,
           subscription' = subscription \/ subscription' = [subscription EXCEPT ![d] = "cancelled"],
           invoice' \in [Donations -> [Invoices -> {"none", "paid", "failed"}]],
           \A c \in Donations : c # d => invoice'[c] = invoice[c],
           KeepsRows(d), TellsTruth(list),
           \A n \in Invoices : invoice'[d][n] # invoice[d][n] => \E j \in 1 .. Len(list) :
               /\ invoice'[d][n] = "paid" => list[j] = Event("invoicePaid", d, n)
               /\ invoice'[d][n] = "failed" => list[j] = Event("invoiceFailed", d, n),
           \A j \in 1 .. Len(list) : list[j].type = "invoiceFailed" =>
               /\ invoice[d][list[j].about] = "none"
               /\ \A i \in 1 .. Len(list) : list[i].type # "invoicePaid"
    PROVE  RInv'
<1>1. /\ plan \in [Donations -> PlanStatus] /\ subscription \in [Donations -> SubscriptionStatus]
      /\ plan[d] # "none" /\ session[d] = "paid" /\ d \in Monthly
  BY RowsOf
<1>2. plan'[d] = s /\ plan'[d] # "none" /\ \A c \in Donations : c # d => plan'[c] = plan[c]
  BY <1>1
<1>3. /\ subscription' \in [Donations -> SubscriptionStatus]
      /\ \A c \in Donations : c # d => subscription'[c] = subscription[c]
  BY <1>1 DEF SubscriptionStatus
<1>4. Within(d, list)
  BY <1>2, <1>3 DEF Within
<1>5. TellsAll(d, list)
  BY <1>1, <1>2 DEF TellsAll
<1>6. Says(list[Len(list)], plan'[d])
  BY <1>2 DEF Says, Event
<1>7. TellsInOrder(d, list)
  BY <1>1, <1>6 DEF TellsInOrder
<1>8. FollowsWithin(d, list)
  BY <1>1, <1>2 DEF FollowsWithin
<1> QED
  BY <1>3, <1>4, <1>5, <1>7, <1>8, OutsideReconciles DEF Happens

Invoiced(d, n, s, t, x) ==
    /\ (s = "active" /\ t = "invoicePaid" /\ x = "paid") \/ (s = "past_due" /\ t = "invoiceFailed" /\ x = "failed")
    /\ plan' = [plan EXCEPT ![d] = s] /\ invoice' = [invoice EXCEPT ![d][n] = x]
    /\ events' = events \o <<Event(t, d, n), Event("plan", d, s)>>
    /\ invoice[d][n] = "none" \/ (x = "paid" /\ invoice[d][n] = "failed")
    /\ plan[d] \in {"active", "past_due"}
    /\ UNCHANGED <<session, status, linked, payments, processed, worker, setup, subscription>>

LEMMA InvoiceReconciles ==
    ASSUME IInv, RInv, NEW CONSTANT d \in Donations, NEW CONSTANT n \in Invoices, n \in Nat, n \in Abouts,
           NEW CONSTANT s, NEW CONSTANT t, NEW CONSTANT x, Invoiced(d, n, s, t, x)
    PROVE  RInv'
<1> USE DEF Invoiced
<1>1. /\ invoice \in [Donations -> [Invoices -> {"none", "paid", "failed"}]]
      /\ plan \in [Donations -> PlanStatus]
  BY RowsOf
<1>2. s \in {"active", "past_due"} /\ t \in {"invoicePaid", "invoiceFailed"} /\ x \in {"paid", "failed"}
  OBVIOUS
<1>4. /\ invoice'[d][n] = x /\ \A m \in Invoices : m # n => invoice'[d][m] = invoice[d][m]
      /\ \A c \in Donations : c # d => invoice'[c] = invoice[c]
      /\ invoice' \in [Donations -> [Invoices -> {"none", "paid", "failed"}]]
      /\ plan'[d] = s
  BY <1>1, <1>2
<1> DEFINE e == Event(t, d, n)
           f == Event("plan", d, s)
<1>5. e \in Emitted /\ e.type = t /\ e.donation = d /\ e.about = n
  BY EventIsEmitted DEF EventTypes
<1>6. f \in Emitted /\ f.type = "plan" /\ f.donation = d /\ f.about = s
  <2>1. s \in Abouts
    BY DEF Abouts, PlanStatus
  <2>2. "plan" \in EventTypes
    BY DEF EventTypes
  <2>3. f = Event("plan", d, s)
    OBVIOUS
  <2> HIDE DEF f
  <2> QED
    BY <2>1, <2>2, <2>3, EventIsEmitted
<1>7. e = Event(t, d, n) /\ f = Event("plan", d, s)
  OBVIOUS
<1>8. PICK list : list = <<e, f>>
  OBVIOUS
<1>9. events' = events \o list
  BY <1>8
<1> HIDE DEF e, f
<1>10. list \in Seq(Emitted) /\ Len(list) = 2 /\ list # <<>> /\ list[1] = e /\ list[2] = f
  BY <1>5, <1>6, <1>8
<1>11. (\A j \in 1 .. Len(list) : list[j] = e \/ list[j] = f) /\ 1 \in 1 .. Len(list) /\ list[Len(list)] = f
  BY <1>10
<1>12. KeepsRows(d)
  BY <1>1, <1>2, <1>4 DEF KeepsRows
<1>13. TellsTruth(list)
  <2>1. TrueOf(e)'
    BY <1>2, <1>4, <1>5 DEF TrueOf, AboutsOf, OfPlan, OfInvoice
  <2>2. TrueOf(f)'
    BY <1>4, <1>6 DEF TrueOf, AboutsOf, OfPlan, OfInvoice
  <2> QED
    BY <2>1, <2>2, <1>11 DEF TellsTruth, TrueOf
<1>14. \A m \in Invoices : invoice'[d][m] # invoice[d][m] => \E j \in 1 .. Len(list) :
               /\ invoice'[d][m] = "paid" => list[j] = Event("invoicePaid", d, m)
               /\ invoice'[d][m] = "failed" => list[j] = Event("invoiceFailed", d, m)
  BY <1>2, <1>4, <1>7, <1>10, <1>11
<1>15. \A j \in 1 .. Len(list) : list[j].type = "invoiceFailed" =>
               /\ invoice[d][list[j].about] = "none"
               /\ \A i \in 1 .. Len(list) : list[i].type # "invoicePaid"
  BY <1>2, <1>5, <1>6, <1>11
<1>16. \A j \in 1 .. Len(list) : list[j].donation = d
  BY <1>5, <1>6, <1>11
<1> QED
  BY <1>2, <1>4, <1>7, <1>9, <1>10, <1>11, <1>12, <1>13, <1>14, <1>15, <1>16, PlanReconciles

LEMMA RenewReconciles ==
    ASSUME IInv, RInv, NEW CONSTANT d \in Donations, NEW CONSTANT n \in Invoices, n \in Nat, n \in Abouts,
           Renew(d, n) \/ RenewFails(d, n)
    PROVE  RInv'
<1> USE DEF Emit, tables
<1>1. CASE Renew(d, n)
  <2>1. Invoiced(d, n, "active", "invoicePaid", "paid")
    BY <1>1 DEF Renew, Invoiced
  <2> QED
    BY <2>1, InvoiceReconciles
<1>2. CASE RenewFails(d, n)
  <2>1. Invoiced(d, n, "past_due", "invoiceFailed", "failed")
    BY <1>2 DEF RenewFails, Invoiced
  <2> QED
    BY <2>1, InvoiceReconciles
<1> QED
  BY <1>1, <1>2

\* The supporter or an administrator cancels.
LEMMA CancelReconciles ==
    ASSUME IInv, RInv, NEW CONSTANT d \in Donations,
           plan[d] \in {"active", "past_due"}, plan' = [plan EXCEPT ![d] = "canceled"],
           events' = events \o <<Event("plan", d, "canceled")>>,
           subscription' = subscription \/ subscription' = [subscription EXCEPT ![d] = "cancelled"],
           UNCHANGED <<session, invoice, status, linked, payments, processed, worker, setup>>
    PROVE  RInv'
<1>1. /\ invoice \in [Donations -> [Invoices -> {"none", "paid", "failed"}]]
      /\ plan \in [Donations -> PlanStatus]
  BY RowsOf
<1> DEFINE f == Event("plan", d, "canceled")
<1>2. f \in Emitted /\ f.type = "plan" /\ f.donation = d /\ f.about = "canceled"
  <2>1. "canceled" \in Abouts
    BY DEF Abouts, PlanStatus
  <2> QED
    BY <2>1, EventIsEmitted DEF EventTypes
<1>3. f = Event("plan", d, "canceled")
  OBVIOUS
<1>4. PICK list : list = <<f>>
  OBVIOUS
<1>5. events' = events \o list
  BY <1>4
<1> HIDE DEF f
<1>6. list \in Seq(Emitted) /\ Len(list) = 1 /\ list # <<>> /\ list[1] = f
  BY <1>2, <1>4
<1>7. (\A j \in 1 .. Len(list) : list[j] = f) /\ list[Len(list)] = f
  BY <1>6
<1>8. plan'[d] = "canceled"
  BY <1>1
<1>9. KeepsRows(d)
  BY <1>1, <1>8 DEF KeepsRows
<1>10. TellsTruth(list)
  BY <1>2, <1>7, <1>8 DEF TellsTruth, TrueOf, AboutsOf, OfPlan, OfInvoice
<1>11. \A j \in 1 .. Len(list) : list[j].donation = d /\ list[j].type # "invoiceFailed"
  BY <1>2, <1>7
<1>12. \A n \in Invoices : invoice'[d][n] = invoice[d][n]
  OBVIOUS
<1> QED
  BY <1>1, <1>3, <1>5, <1>6, <1>7, <1>9, <1>10, <1>11, <1>12, PlanReconciles

-----------------------------------------------------------------------------
(* The handlers: what one writes undoes nothing that was done.             *)

LEMMA LogStays ==
    ASSUME LogInv, UNCHANGED stripe
    PROVE  LogInv'
<1> USE DEF stripe
<1>1. LogIsTrue'
  BY DEF LogInv, LogIsTrue, TrueOf
<1>2. LogIsComplete'
  BY DEF LogInv, LogIsComplete, SaidOf, Said
<1>3. LogIsInOrder'
  BY DEF LogInv, LogIsInOrder, EndsWithPlan, IsLast, PlanComesFirst, PaidComesLast
<1> QED
  BY <1>1, <1>2, <1>3 DEF LogInv

\* What a handler of event e may write.
MayWrite(e) ==
    /\ \A c \in Donations : status'[c] = status[c] \/
         /\ c = e.donation
         /\ (status'[c] = "succeeded" /\ session[c] = "paid") \/ (status'[c] = "expired" /\ session[c] = "expired")
    /\ linked \subseteq linked' /\ linked' \subseteq Donations
    /\ subscription' \in [Donations -> SubscriptionStatus]
    /\ \A c \in Donations : subscription'[c] = subscription[c] \/ (c = e.donation /\ OfPlan(e))
    /\ payments' \in [References -> {"none", "succeeded", "failed"}]
    /\ \A c \in Donations : payments'[<<c, 0>>] \in {payments[<<c, 0>>], "succeeded"}
    /\ \A c \in Donations, n \in Invoices : payments'[<<c, n>>] = payments[<<c, n>>] \/
         /\ c = e.donation /\ OfInvoice(e) /\ n = e.about
         /\ payments'[<<c, n>>] = IF e.type = "invoicePaid" THEN "succeeded" ELSE "failed"

\* Nothing that was done is undone.
LEMMA WritingKeeps ==
    ASSUME IInv, RInv, NEW CONSTANT k \in 1 .. Len(events), MayWrite(events[k]),
           UNCHANGED <<stripe, setup>>,
           setup.ordered => \A i \in 1 .. Len(events) :
               Done(i) /\ events[i].donation = events[k].donation => i < k,
           \A i \in 1 .. Len(events) : Done(i)' => i = k \/ Done(i),
           CheckoutEffect(events[k])', setup.ordered => PlanEffect(k)'
    PROVE  StatusFollows' /\ CheckoutsAreDone' /\ PlansAreDone' /\ NothingUnasked'
<1> USE DEF stripe, RInv, WorkInv, LogInv
<1>1. /\ \A i \in 1 .. Len(events) : events[i].donation \in Donations
      /\ \A i \in 1 .. Len(events) : TellsOfPayment(events[i]) => session[events[i].donation] = "paid"
      /\ \A i \in 1 .. Len(events) : TrueOf(events[i])
  BY EventsAreEmitted DEF IInv, StripeIsTruthful, LogIsTrue
<1>2. PICK e : e = events[k]
  OBVIOUS
<1>3. MayWrite(e) /\ TrueOf(e) /\ e.donation \in Donations
  BY <1>1, <1>2
<1>4. OfInvoice(e) => e.about \in Invoices
  BY <1>3 DEF OfInvoice, TrueOf, AboutsOf
<1>5. StatusFollows'
  BY <1>3 DEF StatusFollows, MayWrite
<1>6. CheckoutsAreDone'
  <2> SUFFICES ASSUME NEW i \in 1 .. Len(events), Done(i), i # k
               PROVE  CheckoutEffect(events[i])'
    BY DEF CheckoutsAreDone
  <2>1. PICK f : f = events[i]
    OBVIOUS
  <2>2. CheckoutEffect(f) /\ TrueOf(f) /\ f.donation \in Donations /\ (TellsOfPayment(f) => session[f.donation] = "paid")
    BY <1>1, <2>1 DEF CheckoutsAreDone
  <2>3. f.type = "completed" /\ f.about = "paid" => status'[f.donation] = "succeeded"
    BY <1>3, <2>2 DEF CheckoutEffect, MayWrite, TellsOfPayment
  <2>4. f.type = "expired" => status'[f.donation] \in {"expired", "failed"}
    BY <1>3, <2>2 DEF CheckoutEffect, MayWrite, TrueOf
  <2>5. f.type = "intent" => payments'[<<f.donation, 0>>] = "succeeded"
    BY <1>3, <2>2 DEF CheckoutEffect, MayWrite
  <2> QED
    BY <2>1, <2>3, <2>4, <2>5 DEF CheckoutEffect
<1>7. PlansAreDone'
  <2> SUFFICES ASSUME setup.ordered, NEW i \in 1 .. Len(events), Done(i), i # k
               PROVE  PlanEffect(i)'
    BY DEF PlansAreDone
  <2>1. PICK f : f = events[i]
    OBVIOUS
  <2>2. PlanEffect(i) /\ TrueOf(f) /\ f.donation \in Donations
    BY <1>1, <2>1 DEF PlansAreDone
  <2>3. f.donation = e.donation => i < k
    BY <1>2, <2>1
  <2>4. f.type = "plan" => f.donation \in linked'
    BY <1>3, <2>1, <2>2 DEF PlanEffect, MayWrite
  <2>5. f.donation \in Monthly /\ IsLast(i) /\ plan[f.donation] # "none" => Agree(subscription'[f.donation], plan[f.donation])
    <3>1. CASE f.donation = e.donation
      <4>1. ~ IsLast(i)
        BY <1>2, <2>1, <2>3, <3>1 DEF IsLast
      <4> QED
        BY <4>1
    <3>2. CASE f.donation # e.donation
      BY <1>3, <2>1, <2>2, <3>2 DEF PlanEffect, MayWrite, Agree
    <3> QED
      BY <3>1, <3>2
  <2>6. f.type = "invoicePaid" => payments'[<<f.donation, f.about>>] = "succeeded"
    <3> SUFFICES ASSUME f.type = "invoicePaid"
                 PROVE  payments'[<<f.donation, f.about>>] = "succeeded"
      OBVIOUS
    <3>1. f.about \in Invoices /\ payments[<<f.donation, f.about>>] = "succeeded"
      BY <2>1, <2>2 DEF PlanEffect, TrueOf, AboutsOf
    <3>2. CASE e.type = "invoiceFailed" /\ f.donation = e.donation /\ e.about = f.about
      <4>1. k < i
        BY <1>2, <2>1, <3>2 DEF LogIsInOrder, PaidComesLast
      <4> QED
        BY <2>3, <3>2, <4>1, EventsAreEmitted
    <3> QED
      BY <1>3, <2>2, <3>1, <3>2 DEF MayWrite, OfInvoice
  <2>7. f.type = "invoiceFailed" /\ invoice[f.donation][f.about] = "failed" => payments'[<<f.donation, f.about>>] = "failed"
    <3> SUFFICES ASSUME f.type = "invoiceFailed", invoice[f.donation][f.about] = "failed"
                 PROVE  payments'[<<f.donation, f.about>>] = "failed"
      OBVIOUS
    <3>1. f.about \in Invoices /\ payments[<<f.donation, f.about>>] = "failed"
      BY <2>1, <2>2 DEF PlanEffect, TrueOf, AboutsOf
    <3>2. e.donation = f.donation /\ e.about = f.about => e.type # "invoicePaid"
      BY <1>3 DEF TrueOf
    <3> QED
      BY <1>3, <2>2, <3>1, <3>2 DEF MayWrite, OfInvoice
  <2> QED
    BY <2>1, <2>4, <2>5, <2>6, <2>7 DEF PlanEffect, IsLast, Agree
<1>8. NothingUnasked'
  <2>1. ASSUME NEW c \in Donations, subscription'[c] # "none"
        PROVE  plan[c] # "none"
    BY <1>3, <2>1 DEF NothingUnasked, MayWrite, TrueOf
  <2>2. ASSUME NEW c \in Donations, NEW n \in Invoices, payments'[<<c, n>>] # "none"
        PROVE  invoice[c][n] # "none"
    BY <1>3, <2>2 DEF NothingUnasked, MayWrite, TrueOf, OfInvoice
  <2> QED
    BY <2>1, <2>2 DEF NothingUnasked
<1> QED
  BY <1>5, <1>6, <1>7, <1>8

LEMMA QuietStep ==
    ASSUME IInv, RInv, UNCHANGED <<stripe, tables, setup>>,
           \A i \in 1 .. Len(events) : Done(i)' =>
               Done(i) \/ (CheckoutEffect(events[i]) /\ (setup.ordered => PlanEffect(i)))
    PROVE  StatusFollows' /\ CheckoutsAreDone' /\ PlansAreDone' /\ NothingUnasked'
<1> USE DEF stripe, tables, RInv, WorkInv
<1>1. StatusFollows' /\ NothingUnasked'
  BY DEF StatusFollows, NothingUnasked
<1>2. CheckoutsAreDone'
  BY DEF CheckoutsAreDone, CheckoutEffect
<1>3. PlansAreDone'
  <2>1. \A i \in 1 .. Len(events) : PlanEffect(i) => PlanEffect(i)'
    BY DEF PlanEffect, IsLast, Agree
  <2> QED
    BY <2>1 DEF PlansAreDone
<1> QED
  BY <1>1, <1>2, <1>3

\* How a handler may go on: with its event, to the next one, or to the end.
GoesOn(w, q) ==
    /\ w \in setup.workers /\ worker' = [worker EXCEPT ![w] = q] /\ UNCHANGED <<stripe, setup>>
    /\ \/ processed' = processed /\ (q.pc = "idle" \/ (worker[w].pc # "idle" /\ q.event = worker[w].event))
       \/ processed' = processed /\ q.event \in (1 .. Len(events)) \ processed /\ MayArrive(q.event)
       \/ processed' = processed \union {worker[w].event} /\ q.pc = "idle" /\ worker[w].pc # "idle"

LEMMA GoingOn ==
    ASSUME IInv, RInv, NEW w, NEW q, GoesOn(w, q)
    PROVE  OneByOne' /\ processed' \subseteq 1 .. Len(events)
<1> USE DEF stripe, RInv, WorkInv
<1>1. /\ w \in Workers /\ worker'[w] = q
      /\ \A v \in Workers : v # w => worker'[v] = worker[v]
      /\ UNCHANGED <<events, setup>>
  BY Shape DEF IInv, Typing, GoesOn
<1>2. \A v \in Workers : worker[v].pc # "idle" => worker[v].event \in 1 .. Len(events)
  BY DEF IInv, Typing, At
<1>3. processed \subseteq 1 .. Len(events) /\ processed \subseteq processed' /\ processed' \subseteq 1 .. Len(events)
  BY <1>1, <1>2 DEF RowsAreTyped, GoesOn
<1>4. \A i \in 1 .. Len(events) : EarlierAreProcessed(i) => EarlierAreProcessed(i)'
  BY <1>1, <1>3 DEF EarlierAreProcessed
<1>5. \A v \in Workers : v # w => About(v)' = About(v)
  BY <1>1 DEF About, Handled
<1>6. ASSUME setup.ordered
      PROVE  /\ \A i \in processed' : EarlierAreProcessed(i)'
             /\ \A v \in Workers : worker'[v].pc # "idle" =>
                  /\ worker'[v].event \notin processed'
                  /\ EarlierAreProcessed(worker[v].event)'
                  /\ \A x \in Workers : x # v /\ worker'[x].pc # "idle" => About(x)' # About(v)'
  <2>1. /\ \A i \in processed : EarlierAreProcessed(i)
        /\ \A v \in Workers : worker[v].pc # "idle" =>
             /\ worker[v].event \notin processed
             /\ EarlierAreProcessed(worker[v].event)
             /\ \A x \in Workers : x # v /\ worker[x].pc # "idle" => About(x) # About(v)
    BY <1>6 DEF OneByOne
  <2>2. \A v \in Workers : v # w /\ worker[v].pc # "idle" => EarlierAreProcessed(worker[v].event)'
    <3>1. SUFFICES ASSUME NEW v \in Workers, v # w, worker[v].pc # "idle"
                   PROVE  EarlierAreProcessed(worker[v].event)'
      OBVIOUS
    <3>2. worker'[v] = worker[v] /\ worker[v].event \in 1 .. Len(events) /\ EarlierAreProcessed(worker[v].event)
      BY <1>1, <1>2, <2>1, <3>1
    <3> QED
      BY <1>1, <1>3, <3>2 DEF EarlierAreProcessed
  <2>3. CASE processed' = processed /\ q.pc = "idle"
    BY <1>1, <1>3, <1>4, <1>5, <2>1, <2>2, <2>3
  <2>4. CASE processed' = processed /\ worker[w].pc # "idle" /\ q.event = worker[w].event
    <3>1. About(w)' = About(w) /\ EarlierAreProcessed(worker[w].event)'
      BY <1>1, <1>2, <1>4, <2>1, <2>4 DEF About, Handled, EarlierAreProcessed
    <3> QED
      BY <1>1, <1>3, <1>4, <1>5, <2>1, <2>2, <2>4, <3>1
  <2>5. CASE processed' = processed /\ q.event \in (1 .. Len(events)) \ processed /\ MayArrive(q.event)
    <3>1. About(w)' = events[q.event].donation
      BY <1>1 DEF About, Handled
    <3>2. /\ \A j \in 1 .. q.event - 1 : events[j].donation = events[q.event].donation => j \in processed
          /\ \A v \in Workers : worker[v].pc # "idle" => About(v) # events[q.event].donation
      BY <1>6, <2>5 DEF MayArrive, At
    <3>3. EarlierAreProcessed(worker[w].event)'
      <4>1. Len(events) \in Nat
        BY EventsAreEmitted
      <4> QED
        BY <1>1, <2>5, <3>2, <4>1 DEF EarlierAreProcessed
    <3> QED
      BY <1>1, <1>3, <1>4, <1>5, <2>1, <2>2, <2>5, <3>1, <3>2, <3>3
  <2>6. CASE processed' = processed \union {worker[w].event} /\ q.pc = "idle" /\ worker[w].pc # "idle"
    <3>1. \A i \in processed' : EarlierAreProcessed(i)'
      BY <1>2, <1>3, <1>1, <1>4, <2>1, <2>6
    <3>2. \A v \in Workers : v # w /\ worker[v].pc # "idle" => worker[v].event # worker[w].event
      BY <1>1, <2>1, <2>6 DEF About, Handled
    <3> QED
      BY <1>1, <1>5, <2>1, <2>2, <2>6, <3>1, <3>2
  <2> QED
    BY <2>3, <2>4, <2>5, <2>6 DEF GoesOn
<1>7. OneByOne'
  BY <1>1, <1>6 DEF OneByOne
<1> QED
  BY <1>3, <1>7

LEMMA AtWork ==
    ASSUME IInv, RInv, NEW w \in setup.workers, worker[w].pc # "idle"
    PROVE  /\ w \in Workers /\ worker[w] \in Progress /\ worker[w].event \in 1 .. Len(events)
           /\ Handled(w) = events[worker[w].event] /\ About(w) = Handled(w).donation /\ About(w) \in Donations
           /\ TrueOf(Handled(w)) /\ session[About(w)] # "none"
           /\ TellsOfPayment(Handled(w)) => session[About(w)] = "paid"
           /\ OfInvoice(Handled(w)) => Handled(w).about \in Invoices
<1>1. w \in Workers /\ worker[w] \in Progress /\ worker[w].event \in 1 .. Len(events)
  BY Shape DEF IInv, Typing, At
<1>2. PICK k \in 1 .. Len(events) : k = worker[w].event
  BY <1>1
<1>3. /\ TrueOf(events[k]) /\ events[k].donation \in Donations /\ session[events[k].donation] # "none"
      /\ TellsOfPayment(events[k]) => session[events[k].donation] = "paid"
  BY EventsAreEmitted DEF RInv, LogInv, LogIsTrue, IInv, StripeIsTruthful
<1>4. OfInvoice(events[k]) => events[k].about \in Invoices
  BY <1>3 DEF TrueOf, OfInvoice, AboutsOf
<1> QED
  BY <1>1, <1>2, <1>3, <1>4 DEF Handled, About

LEMMA StatusIsNormalized ==
    /\ \A s \in {"incomplete", "active", "past_due"} : Normalized(s) = s
    /\ Normalized("canceled") = "cancelled"
  BY DEF Normalized, SubscriptionStatus

\* What a handler of event e has written when it is through.
Wrote(e) ==
    LET d == e.donation IN
    /\ e.type = "completed" /\ e.about = "paid" => status'[d] = "succeeded"
    /\ e.type = "completed" /\ d \in Monthly => subscription'[d] = "active"
    /\ e.type = "expired" => status'[d] \in {"expired", "failed"}
    /\ e.type = "intent" => payments'[<<d, 0>>] = "succeeded"
    /\ e.type = "plan" => d \in linked' /\ subscription'[d] = Normalized(e.about)
    /\ e.type = "invoicePaid" => payments'[<<d, e.about>>] = "succeeded"
    /\ e.type = "invoiceFailed" => payments'[<<d, e.about>>] = "failed"

Finishes(w) ==
    /\ w \in setup.workers /\ At(w, "commit") /\ UNCHANGED <<stripe, processed, setup>>
    /\ Goto(w, "confirm") \/ Goto(w, "ack")

LEMMA FinishingMoves ==
    ASSUME IInv, RInv, NEW w, Finishes(w)
    PROVE  /\ worker'[w].pc \in {"confirm", "ack"} /\ worker'[w].event = worker[w].event
           /\ \A v \in Workers : v # w => worker'[v] = worker[v]
           /\ OneByOne'
<1>1. /\ w \in setup.workers /\ w \in Workers /\ worker[w] \in Progress /\ worker[w].pc = "commit"
      /\ worker \in [Workers -> Progress] /\ UNCHANGED <<stripe, processed, setup>>
  BY AtWork DEF Finishes, At, IInv, Typing
<1>2. ASSUME NEW x \in {"confirm", "ack"}, Goto(w, x)
      PROVE  /\ worker'[w].pc \in {"confirm", "ack"} /\ worker'[w].event = worker[w].event
             /\ \A v \in Workers : v # w => worker'[v] = worker[v]
             /\ OneByOne'
  <2> DEFINE q == [worker[w] EXCEPT !.pc = x]
  <2>1. q.pc = x /\ q.event = worker[w].event
    BY <1>1 DEF Progress
  <2>2. worker' = [worker EXCEPT ![w] = q]
    BY <1>2 DEF Goto, Becomes
  <2> HIDE DEF q
  <2>3. worker'[w] = q /\ \A v \in Workers : v # w => worker'[v] = worker[v]
    BY <1>1, <2>2
  <2>4. GoesOn(w, q)
    BY <1>1, <2>1, <2>2 DEF GoesOn
  <2> QED
    BY <2>1, <2>3, <2>4, GoingOn
<1> QED
  BY <1>2 DEF Finishes

LEMMA FinishingReconciles ==
    ASSUME IInv, RInv, NEW w, Finishes(w), MayWrite(Handled(w)), Wrote(Handled(w))
    PROVE  RInv'
<1> USE DEF stripe
<1>1. /\ w \in setup.workers /\ worker[w].pc = "commit" /\ UNCHANGED <<stripe, processed, setup>>
  BY DEF Finishes, At
<1>2. /\ w \in Workers /\ worker[w].event \in 1 .. Len(events)
      /\ Handled(w) = events[worker[w].event] /\ About(w) = Handled(w).donation /\ About(w) \in Donations
  BY <1>1, AtWork
<1>3. /\ worker'[w].pc \in {"confirm", "ack"} /\ worker'[w].event = worker[w].event
      /\ \A v \in Workers : v # w => worker'[v] = worker[v]
      /\ OneByOne'
  BY FinishingMoves
<1>4. PICK k \in 1 .. Len(events) : k = worker[w].event
  BY <1>2
<1>5. PICK e : e = events[k]
  OBVIOUS
<1>6. MayWrite(e) /\ Wrote(e) /\ TrueOf(e) /\ e.donation \in Donations
  BY <1>1, <1>2, <1>4, <1>5, AtWork
<1>7. \A i \in 1 .. Len(events) : Done(i)' => i = k \/ Done(i)
  BY <1>1, <1>3, <1>4 DEF Done
<1>8. ASSUME setup.ordered, NEW i \in 1 .. Len(events), Done(i), events[i].donation = e.donation
      PROVE  i < k
  <2>1. /\ \A j \in processed : EarlierAreProcessed(j)
        /\ k \notin processed /\ EarlierAreProcessed(k)
        /\ \A v \in Workers : v # w /\ worker[v].pc # "idle" => About(v) # About(w)
    BY <1>1, <1>2, <1>4, <1>8 DEF RInv, WorkInv, OneByOne
  <2>2. i \in processed
    BY <1>1, <1>2, <1>4, <1>5, <1>8, <2>1 DEF Done, About, Handled
  <2>3. i # k /\ ~ (k < i)
    BY <1>5, <1>8, <2>1, <2>2 DEF EarlierAreProcessed
  <2> QED
    BY <2>3, EventsAreEmitted
<1>9. CheckoutEffect(events[k])'
  BY <1>1, <1>5, <1>6 DEF CheckoutEffect, Wrote
<1>10. PlanEffect(k)'
  <2>1. e.donation \in Monthly /\ IsLast(k) /\ plan[e.donation] # "none" => Agree(subscription'[e.donation], plan[e.donation])
    <3> SUFFICES ASSUME e.donation \in Monthly, IsLast(k), plan[e.donation] # "none"
                 PROVE  Agree(subscription'[e.donation], plan[e.donation])
      OBVIOUS
    <3>1. PICK i \in 1 .. Len(events) : events[i].donation = e.donation /\ IsLast(i) /\ Says(events[i], plan[e.donation])
      BY <1>6 DEF RInv, LogInv, LogIsInOrder, EndsWithPlan
    <3>2. i = k
      <4>1. ~ (i < k) /\ ~ (k < i)
        BY <1>5, <3>1 DEF IsLast
      <4> QED
        BY <4>1, EventsAreEmitted
    <3>3. Says(e, plan[e.donation])
      BY <1>5, <3>1, <3>2
    <3>4. CASE e.type = "completed" /\ plan[e.donation] = "active"
      BY <1>6, <3>4 DEF Wrote, Agree
    <3>5. CASE e.type = "plan" /\ plan[e.donation] = e.about
      <4>1. e.about \in {"incomplete", "active", "past_due", "canceled"}
        BY <1>6, <3>5 DEF TrueOf, AboutsOf
      <4>2. subscription'[e.donation] = Normalized(e.about)
        BY <1>6, <3>5 DEF Wrote
      <4> QED
        BY <3>5, <4>1, <4>2, StatusIsNormalized DEF Agree
    <3> QED
      BY <3>3, <3>4, <3>5 DEF Says
  <2>2. e.type = "invoiceFailed" => payments'[<<e.donation, e.about>>] = "failed"
    BY <1>6 DEF Wrote
  <2>3. e.type = "invoicePaid" => payments'[<<e.donation, e.about>>] = "succeeded"
    BY <1>6 DEF Wrote
  <2>4. e.type = "plan" => e.donation \in linked'
    BY <1>6 DEF Wrote
  <2> QED
    BY <1>1, <1>5, <2>1, <2>2, <2>3, <2>4 DEF PlanEffect, IsLast, Agree
<1>11. StatusFollows' /\ CheckoutsAreDone' /\ PlansAreDone' /\ NothingUnasked'
  BY <1>1, <1>5, <1>6, <1>7, <1>8, <1>9, <1>10, WritingKeeps
<1>12. RowsAreTyped'
  BY <1>1, <1>6 DEF RInv, RowsAreTyped, MayWrite
<1>13. LogInv'
  BY <1>1, LogStays DEF RInv
<1> QED
  BY <1>3, <1>11, <1>12, <1>13 DEF RInv, WorkInv

LEMMA PaymentRecorded ==
    ASSUME RInv, NEW d \in Donations, NEW n \in 0 .. MaxInvoices, NEW s \in {"succeeded", "failed"},
           payments' = [payments EXCEPT ![<<d, n>>] = s]
    PROVE  /\ payments' \in [References -> {"none", "succeeded", "failed"}]
           /\ payments'[<<d, n>>] = s
           /\ \A c \in Donations, m \in 0 .. MaxInvoices : c # d \/ m # n => payments'[<<c, m>>] = payments[<<c, m>>]
<1>1. payments \in [References -> {"none", "succeeded", "failed"}] /\ <<d, n>> \in References
  BY DEF RInv, RowsAreTyped, References
<1>2. \A c \in Donations, m \in 0 .. MaxInvoices : <<c, m>> \in References /\ (<<c, m>> = <<d, n>> => c = d /\ m = n)
  BY DEF References
<1> QED
  BY <1>1, <1>2

LEMMA ReferencesOfInvoices ==
    /\ 0 \in 0 .. MaxInvoices /\ 0 \notin Invoices
    /\ \A n \in Invoices : n \in 0 .. MaxInvoices /\ n # 0
  BY ShapeAssumption DEF Invoices

LEMMA CommitReconciles ==
    ASSUME IInv, RInv, NEW w \in setup.workers,
           \/ CheckoutCompleted(w) \/ CheckoutExpired(w) \/ PaymentIntentSucceeded(w)
           \/ InvoicePaid(w) \/ InvoiceFailed(w) \/ SubscriptionChanged(w)
    PROVE  RInv'
<1>1. Commits(w)
  BY DEF CheckoutCompleted, CheckoutExpired, PaymentIntentSucceeded, InvoicePaid, InvoiceFailed, SubscriptionChanged
<1>2. worker[w].pc = "commit" /\ UNCHANGED <<stripe, processed, setup>>
  BY <1>1 DEF Commits, At
<1>3. /\ About(w) = Handled(w).donation /\ About(w) \in Donations /\ TrueOf(Handled(w))
      /\ TellsOfPayment(Handled(w)) => session[About(w)] = "paid"
      /\ OfInvoice(Handled(w)) => Handled(w).about \in Invoices
  BY <1>2, AtWork
<1>4. PICK d \in Donations : d = About(w) /\ Handled(w).donation = d
  BY <1>3
<1>5. PICK e : e = Handled(w) /\ d = About(w) /\ e.donation = d
  BY <1>4
<1>6. /\ TrueOf(e) /\ (TellsOfPayment(e) => session[d] = "paid") /\ (OfInvoice(e) => e.about \in Invoices)
  BY <1>3, <1>5
<1>7. /\ status \in [Donations -> DonationStatus] /\ linked \subseteq Donations
      /\ subscription \in [Donations -> SubscriptionStatus]
      /\ payments \in [References -> {"none", "succeeded", "failed"}]
      /\ \A c \in Donations, n \in Invoices : <<c, n>> \in References /\ <<c, 0>> \in References
      /\ \A c \in Donations : <<c, 0>> \in References
  BY InvoicesAreNumbers DEF IInv, Typing, RInv, RowsAreTyped
<1>8. Finishes(w) <=> (Goto(w, "confirm") \/ Goto(w, "ack"))
  BY <1>2 DEF Finishes, At
<1>9. /\ MarkSucceeded(w) => Finishes(w) /\ status' = [status EXCEPT ![d] = "succeeded"]
      /\ MarksNothing(w) => Finishes(w) /\ status' = status
  BY <1>5, <1>8 DEF MarkSucceeded, MarksNothing
<1>10. ASSUME Finishes(w), MayWrite(e), Wrote(e)
      PROVE  RInv'
  BY <1>5, <1>10, FinishingReconciles
<1>11. CASE CheckoutCompleted(w)
  <2>1. /\ e.type = "completed" /\ payments' = payments
        /\ IF e.about = "paid" THEN MarkSucceeded(w) ELSE MarksNothing(w)
        /\ IF d \in Monthly THEN linked' = linked \union {d} /\ subscription' = [subscription EXCEPT ![d] = "active"]
           ELSE UNCHANGED <<linked, subscription>>
    BY <1>5, <1>11, StatusIsNormalized DEF CheckoutCompleted, Is, SetSubscription
  <2>2. /\ subscription' \in [Donations -> SubscriptionStatus]
        /\ d \in Monthly => subscription'[d] = "active"
        /\ \A c \in Donations : subscription'[c] = subscription[c] \/ (c = d /\ OfPlan(e))
    BY <1>5, <1>7, <2>1 DEF SubscriptionStatus, OfPlan
  <2>3. /\ e.about = "paid" => status'[d] = "succeeded" /\ session[d] = "paid"
        /\ \A c \in Donations : status'[c] = status[c] \/ (c = d /\ e.about = "paid")
    BY <1>6, <1>7, <1>9, <2>1 DEF TellsOfPayment
  <2>4. MayWrite(e)
    BY <1>5, <1>7, <2>1, <2>2, <2>3 DEF MayWrite
  <2>5. Wrote(e)
    BY <1>5, <2>1, <2>2, <2>3 DEF Wrote
  <2> QED
    BY <1>9, <1>10, <2>1, <2>4, <2>5
<1>12. CASE CheckoutExpired(w)
  <2>1. /\ e.type = "expired" /\ UNCHANGED <<linked, subscription, payments>> /\ Goto(w, "ack")
        /\ status' = [status EXCEPT ![d] = "expired"]
    BY <1>5, <1>12 DEF CheckoutExpired, Is
  <2>2. session[d] = "expired"
    BY <1>5, <1>6, <2>1 DEF TrueOf
  <2>3. MayWrite(e)
    BY <1>5, <1>7, <2>1, <2>2 DEF MayWrite
  <2>4. Wrote(e)
    BY <1>5, <1>7, <2>1 DEF Wrote
  <2> QED
    BY <1>8, <1>10, <2>1, <2>3, <2>4
<1>13. CASE PaymentIntentSucceeded(w)
  <2>1. /\ e.type = "intent" /\ UNCHANGED <<linked, subscription>> /\ MarkSucceeded(w)
        /\ payments' = [payments EXCEPT ![<<d, 0>>] = "succeeded"]
    BY <1>5, <1>13 DEF PaymentIntentSucceeded, Is, RecordPayment
  <2>2. status' = [status EXCEPT ![d] = "succeeded"] /\ session[d] = "paid"
    BY <1>6, <1>9, <2>1 DEF TellsOfPayment
  <2>3. /\ payments' \in [References -> {"none", "succeeded", "failed"}] /\ payments'[<<d, 0>>] = "succeeded"
        /\ \A c \in Donations, m \in 0 .. MaxInvoices : c # d \/ m # 0 => payments'[<<c, m>>] = payments[<<c, m>>]
    BY <2>1, PaymentRecorded, ReferencesOfInvoices
  <2>4. MayWrite(e)
    <3>1. \A c \in Donations : payments'[<<c, 0>>] \in {payments[<<c, 0>>], "succeeded"}
      BY <2>3, ReferencesOfInvoices
    <3>2. \A c \in Donations, n \in Invoices : payments'[<<c, n>>] = payments[<<c, n>>]
      BY <2>3, ReferencesOfInvoices
    <3> QED
      BY <1>5, <1>7, <2>1, <2>2, <2>3, <3>1, <3>2 DEF MayWrite
  <2>5. Wrote(e)
    BY <1>5, <2>1, <2>3 DEF Wrote
  <2> QED
    BY <1>9, <1>10, <2>1, <2>4, <2>5
<1>14. ASSUME NEW s \in {"succeeded", "failed"}, OfInvoice(e),
              s = IF e.type = "invoicePaid" THEN "succeeded" ELSE "failed",
              payments' = [payments EXCEPT ![<<d, e.about>>] = s], UNCHANGED linked,
              \E x \in SubscriptionStatus : subscription' = [subscription EXCEPT ![d] = x],
              status' = status \/ (status' = [status EXCEPT ![d] = "succeeded"] /\ session[d] = "paid")
       PROVE  MayWrite(e) /\ Wrote(e)
  <2>1. e.about \in Invoices /\ e.about \in 0 .. MaxInvoices /\ e.about # 0
    BY <1>6, <1>14, ReferencesOfInvoices
  <2>2. /\ payments' \in [References -> {"none", "succeeded", "failed"}] /\ payments'[<<d, e.about>>] = s
        /\ \A c \in Donations, m \in 0 .. MaxInvoices : c # d \/ m # e.about => payments'[<<c, m>>] = payments[<<c, m>>]
    <3>1. PICK n \in 0 .. MaxInvoices : n = e.about
      BY <2>1
    <3>2. payments' = [payments EXCEPT ![<<d, n>>] = s]
      BY <1>14, <3>1
    <3>3. /\ payments' \in [References -> {"none", "succeeded", "failed"}] /\ payments'[<<d, n>>] = s
          /\ \A c \in Donations, m \in 0 .. MaxInvoices : c # d \/ m # n => payments'[<<c, m>>] = payments[<<c, m>>]
      BY <3>2, PaymentRecorded
    <3> QED
      BY <3>1, <3>3
  <2>3. \A c \in Donations : payments'[<<c, 0>>] = payments[<<c, 0>>]
    BY <2>1, <2>2, ReferencesOfInvoices
  <2>4. \A c \in Donations, n \in Invoices : payments'[<<c, n>>] = payments[<<c, n>>] \/
          (c = d /\ n = e.about /\ payments'[<<c, n>>] = s)
    BY <2>2, ReferencesOfInvoices
  <2>5. subscription' \in [Donations -> SubscriptionStatus] /\ \A c \in Donations : c # d => subscription'[c] = subscription[c]
    BY <1>7, <1>14
  <2>6. OfPlan(e)
    BY <1>14 DEF OfPlan
  <2>7. MayWrite(e)
    <3>1. \A c \in Donations : status'[c] = status[c] \/ (c = d /\ status'[c] = "succeeded" /\ session[c] = "paid")
      BY <1>7, <1>14
    <3>2. \A c \in Donations : subscription'[c] = subscription[c] \/ (c = d /\ OfPlan(e))
      BY <2>5, <2>6
    <3> QED
      BY <1>5, <1>7, <1>14, <2>2, <2>3, <2>4, <2>5, <3>1, <3>2 DEF MayWrite
  <2>8. Wrote(e)
    BY <1>5, <1>14, <2>2 DEF Wrote, OfInvoice
  <2> QED
    BY <2>7, <2>8
<1>15. CASE InvoicePaid(w)
  <2>1. /\ e.type = "invoicePaid" /\ UNCHANGED linked /\ MarkSucceeded(w)
        /\ payments' = [payments EXCEPT ![<<d, e.about>>] = "succeeded"]
        /\ subscription' = [subscription EXCEPT ![d] = "active"]
    BY <1>5, <1>15, StatusIsNormalized DEF InvoicePaid, Is, RecordPayment, SetSubscription
  <2>2. status' = [status EXCEPT ![d] = "succeeded"] /\ session[d] = "paid" /\ "active" \in SubscriptionStatus /\ OfInvoice(e)
    BY <1>6, <1>9, <2>1 DEF TellsOfPayment, SubscriptionStatus, OfInvoice
  <2>3. MayWrite(e) /\ Wrote(e)
    BY <1>14, <2>1, <2>2
  <2> QED
    BY <1>9, <1>10, <2>1, <2>3
<1>16. CASE InvoiceFailed(w)
  <2>1. /\ e.type = "invoiceFailed" /\ UNCHANGED linked /\ MarksNothing(w)
        /\ payments' = [payments EXCEPT ![<<d, e.about>>] = "failed"]
        /\ subscription' = [subscription EXCEPT ![d] = "past_due"]
    BY <1>5, <1>16, StatusIsNormalized DEF InvoiceFailed, Is, RecordPayment, SetSubscription
  <2>2. status' = status /\ "past_due" \in SubscriptionStatus /\ OfInvoice(e)
    BY <1>9, <2>1 DEF SubscriptionStatus, OfInvoice
  <2>3. MayWrite(e) /\ Wrote(e)
    BY <1>14, <2>1, <2>2
  <2> QED
    BY <1>9, <1>10, <2>1, <2>3
<1>17. CASE SubscriptionChanged(w)
  <2>1. /\ e.type = "plan" /\ linked' = linked \union {d} /\ MarksNothing(w) /\ payments' = payments
        /\ subscription' = [subscription EXCEPT ![d] = Normalized(e.about)]
    BY <1>5, <1>17 DEF SubscriptionChanged, Is, SetSubscription
  <2>2. Normalized(e.about) \in SubscriptionStatus /\ OfPlan(e)
    BY <1>6, <2>1, StatusIsNormalized DEF TrueOf, AboutsOf, SubscriptionStatus, OfPlan
  <2>3. /\ subscription' \in [Donations -> SubscriptionStatus] /\ subscription'[d] = Normalized(e.about)
        /\ \A c \in Donations : c # d => subscription'[c] = subscription[c]
    BY <1>7, <2>1, <2>2
  <2>4. status' = status
    BY <1>9, <2>1
  <2>5. MayWrite(e)
    BY <1>5, <1>7, <2>1, <2>2, <2>3, <2>4 DEF MayWrite
  <2>6. Wrote(e)
    BY <1>5, <2>1, <2>3 DEF Wrote
  <2> QED
    BY <1>9, <1>10, <2>1, <2>5, <2>6
<1> QED
  BY <1>11, <1>12, <1>13, <1>15, <1>16, <1>17

\* A handler that writes to no table.
Waits(w, q) ==
    /\ GoesOn(w, q) /\ UNCHANGED tables
    /\ q.pc \in {"confirm", "ack"} => worker[w].pc # "idle" /\ q.event = worker[w].event
    /\ q.pc \in {"confirm", "ack"} /\ worker[w].pc \notin {"confirm", "ack"} =>
         /\ CheckoutEffect(Handled(w))
         /\ setup.ordered => PlanEffect(worker[w].event)
    /\ processed' # processed => worker[w].pc \in {"confirm", "ack"}

LEMMA WaitingReconciles ==
    ASSUME IInv, RInv, NEW w, NEW q, Waits(w, q)
    PROVE  RInv'
<1> USE DEF stripe
<1>1. /\ w \in Workers /\ worker'[w] = q
      /\ \A v \in Workers : v # w => worker'[v] = worker[v]
      /\ UNCHANGED <<stripe, tables, setup>>
  BY Shape DEF IInv, Typing, GoesOn, Waits
<1>2. ASSUME NEW i \in 1 .. Len(events), Done(i)'
      PROVE  Done(i) \/ (CheckoutEffect(events[i]) /\ (setup.ordered => PlanEffect(i)))
  <2>1. CASE i \in processed' /\ i \notin processed
    BY <1>1, <2>1 DEF Done, Waits, GoesOn
  <2>2. CASE i \in processed
    BY <2>2 DEF Done
  <2>3. ASSUME NEW v \in Workers, worker'[v].event = i, worker'[v].pc \in {"confirm", "ack"}
        PROVE  Done(i) \/ (CheckoutEffect(events[i]) /\ (setup.ordered => PlanEffect(i)))
    <3>1. CASE v # w
      BY <1>1, <2>3, <3>1 DEF Done
    <3>2. CASE v = w
      <4>1. q.event = i /\ q.pc \in {"confirm", "ack"} /\ worker[w].event = i
        BY <1>1, <2>3, <3>2 DEF Waits
      <4> QED
        BY <1>1, <4>1 DEF Done, Waits, Handled
    <3> QED
      BY <3>1, <3>2
  <2> QED
    BY <1>2, <2>1, <2>2, <2>3 DEF Done
<1>3. StatusFollows' /\ CheckoutsAreDone' /\ PlansAreDone' /\ NothingUnasked'
  BY <1>1, <1>2, QuietStep
<1>4. OneByOne' /\ processed' \subseteq 1 .. Len(events)
  BY GoingOn DEF Waits
<1>5. LogInv'
  BY <1>1, LogStays DEF RInv
<1>6. RowsAreTyped'
  BY <1>1, <1>4 DEF RInv, RowsAreTyped, tables
<1> QED
  BY <1>3, <1>4, <1>5, <1>6 DEF RInv, WorkInv

\* What is answered without a write needs none: the donation is not pending any more, or what an
\* invoice looks up is there already.
LEMMA ReadingReconciles ==
    ASSUME IInv, RInv, NEW w \in setup.workers, Read(w)
    PROVE  RInv'
<1>1. worker[w].pc = "read"
  BY DEF Read, At
<1>2. /\ w \in Workers /\ worker[w] \in Progress /\ worker[w].event \in 1 .. Len(events)
      /\ Handled(w) = events[worker[w].event] /\ About(w) = Handled(w).donation /\ About(w) \in Donations
      /\ TrueOf(Handled(w)) /\ session[About(w)] # "none"
  BY <1>1, AtWork
<1>3. ASSUME Is(w, {"expired"}), status[About(w)] # "pending"
      PROVE  CheckoutEffect(Handled(w)) /\ (setup.ordered => PlanEffect(worker[w].event))
  <2>1. session[About(w)] = "expired" /\ Handled(w).type = "expired"
    BY <1>2, <1>3 DEF TrueOf, Is
  <2>2. plan[About(w)] = "none"
    BY <1>2, <2>1 DEF IInv, StripeIsTruthful
  <2>3. status[About(w)] \in {"expired", "failed"}
    BY <1>2, <1>3, <2>1 DEF IInv, Typing, StripeIsTruthful, DonationStatus, RInv, WorkInv, StatusFollows
  <2> QED
    BY <1>2, <2>1, <2>2, <2>3 DEF CheckoutEffect, PlanEffect
<1>4. ASSUME ~ Found(w)
      PROVE  CheckoutEffect(Handled(w)) /\ ~ setup.ordered
  <2>1. OfInvoice(Handled(w)) /\ About(w) \notin linked
    BY <1>4 DEF Found, Is, OfInvoice
  <2>2. PICK k \in 1 .. Len(events) : k = worker[w].event
    BY <1>2
  <2>3. PICK j \in 1 .. Len(events) : j < k /\ events[j].donation = events[k].donation /\ events[j].type = "plan"
    BY <1>2, <2>1, <2>2 DEF RInv, LogInv, LogIsInOrder, PlanComesFirst
  <2>4. setup.ordered => j \in processed
    BY <1>1, <1>2, <2>2, <2>3 DEF RInv, WorkInv, OneByOne, EarlierAreProcessed
  <2>5. setup.ordered => events[j].donation \in linked
    BY <2>3, <2>4 DEF RInv, WorkInv, PlansAreDone, PlanEffect, Done
  <2> QED
    BY <1>2, <2>1, <2>2, <2>3, <2>5 DEF CheckoutEffect, OfInvoice
<1> DEFINE q == [worker[w] EXCEPT
         !.status = status[About(w)],
         !.number = number[SupporterOf[About(w)]],
         !.pc = IF ~ Found(w) \/ (Is(w, {"expired"}) /\ status[About(w)] # "pending") THEN "ack"
                ELSE IF Is(w, {"expired"}) THEN "commit" ELSE "lock"]
<1>5. /\ q.event = worker[w].event
      /\ q.pc \in {"ack", "commit", "lock"}
      /\ q.pc = "ack" => ~ Found(w) \/ (Is(w, {"expired"}) /\ status[About(w)] # "pending")
  BY <1>2 DEF Progress
<1>6. worker' = [worker EXCEPT ![w] = q] /\ UNCHANGED <<stripe, tables, processed, setup>>
  BY DEF Read, Becomes
<1> HIDE DEF q
<1>7. Waits(w, q)
  BY <1>1, <1>3, <1>4, <1>5, <1>6 DEF Waits, GoesOn
<1> QED
  BY <1>7, WaitingReconciles

LEMMA WebhookReconciles ==
    ASSUME IInv, RInv, NEW w \in setup.workers, Webhook(w)
    PROVE  RInv'
<1>1. w \in Workers /\ worker[w] \in Progress
  BY Shape DEF IInv, Typing
<1>2. Idle.pc = "idle"
  BY DEF Idle
<1>3. CASE Receive(w)
  <2>1. PICK i \in 1 .. Len(events) :
          /\ MayArrive(i) /\ i \notin processed
          /\ worker' = [worker EXCEPT ![w] = [Idle EXCEPT !.pc = "read", !.event = i]]
    BY <1>3 DEF Receive, Becomes
  <2> DEFINE q == [Idle EXCEPT !.pc = "read", !.event = i]
  <2>2. q.pc = "read" /\ q.event = i
    BY DEF Idle
  <2>3. UNCHANGED <<stripe, tables, processed, setup>>
    BY <1>3 DEF Receive
  <2> HIDE DEF q
  <2>4. Waits(w, q)
    BY <2>1, <2>2, <2>3 DEF Waits, GoesOn, q
  <2> QED
    BY <2>4, WaitingReconciles
<1>4. CASE Read(w)
  BY <1>4, ReadingReconciles
<1>5. ASSUME NEW q, worker' = [worker EXCEPT ![w] = q], UNCHANGED <<stripe, tables, processed, setup>>,
             q.event = worker[w].event, worker[w].pc # "idle",
             q.pc \in {"confirm", "ack"} => worker[w].pc \in {"confirm", "ack"}
      PROVE  RInv'
  <2>1. Waits(w, q)
    BY <1>5 DEF Waits, GoesOn
  <2> QED
    BY <2>1, WaitingReconciles
<1>6. CASE Lock(w)
  <2> DEFINE q1 == [worker[w] EXCEPT !.pc = "commit", !.number = number[SupporterOf[About(w)]]]
             q2 == [worker[w] EXCEPT !.pc = "commit"]
  <2>1. q1.event = worker[w].event /\ q1.pc = "commit" /\ q2.event = worker[w].event /\ q2.pc = "commit"
    BY <1>1 DEF Progress
  <2>2. /\ worker' = [worker EXCEPT ![w] = q1] \/ worker' = [worker EXCEPT ![w] = q2]
        /\ worker[w].pc = "lock" /\ UNCHANGED <<stripe, tables, processed, setup>>
    BY <1>6 DEF Lock, Becomes, Goto, At
  <2> HIDE DEF q1, q2
  <2> QED
    BY <1>5, <2>1, <2>2
<1>7. CASE \/ CheckoutCompleted(w) \/ CheckoutExpired(w) \/ PaymentIntentSucceeded(w)
           \/ InvoicePaid(w) \/ InvoiceFailed(w) \/ SubscriptionChanged(w)
  BY <1>7, CommitReconciles
<1>8. CASE Confirm(w)
  <2> DEFINE q == [worker[w] EXCEPT !.pc = "ack"]
  <2>1. q.event = worker[w].event /\ q.pc = "ack"
    BY <1>1 DEF Progress
  <2>2. /\ worker' = [worker EXCEPT ![w] = q]
        /\ worker[w].pc = "confirm" /\ UNCHANGED <<stripe, tables, processed, setup>>
    BY <1>8 DEF Confirm, Becomes, Goto, At
  <2> HIDE DEF q
  <2> QED
    BY <1>5, <2>1, <2>2
<1>9. CASE Acknowledge(w) \/ Fail(w)
  <2>1. /\ worker' = [worker EXCEPT ![w] = Idle] /\ UNCHANGED <<stripe, tables, setup>> /\ worker[w].pc # "idle"
        /\ \/ processed' = processed
           \/ processed' = processed \union {worker[w].event} /\ worker[w].pc = "ack"
    BY <1>9 DEF Acknowledge, Fail, Becomes, At
  <2>2. Waits(w, Idle)
    BY <1>2, <2>1 DEF Waits, GoesOn
  <2> QED
    BY <2>2, WaitingReconciles
<1> QED
  BY <1>3, <1>4, <1>6, <1>7, <1>8, <1>9 DEF Webhook

LEMMA NothingReconciles ==
    ASSUME IInv, RInv, UNCHANGED <<stripe, tables, processed, worker, setup>>
    PROVE  RInv'
<1> USE DEF stripe, tables
<1>1. LogInv'
  BY LogStays DEF RInv
<1>2. \A i \in 1 .. Len(events) : Done(i)' => Done(i)
  BY DEF Done
<1>3. StatusFollows' /\ CheckoutsAreDone' /\ PlansAreDone' /\ NothingUnasked'
  BY <1>2, QuietStep
<1>4. OneByOne'
  BY DEF RInv, WorkInv, OneByOne, EarlierAreProcessed, About, Handled
<1>5. RowsAreTyped'
  BY DEF RInv, RowsAreTyped
<1> QED
  BY <1>1, <1>3, <1>4, <1>5 DEF RInv, WorkInv

LEMMA NextReconciles == IInv /\ AdminIsKnown /\ RInv /\ [DonationsNext]_donationVars => RInv'
<1> SUFFICES ASSUME IInv, AdminIsKnown, RInv, [DonationsNext]_donationVars
             PROVE  RInv'
  OBVIOUS
<1>1. setup.donations \subseteq Donations
  BY Shape DEF IInv, Typing
<1>2. CASE UNCHANGED donationVars
  BY <1>2, NothingReconciles DEF donationVars
<1>3. ASSUME NEW d \in Donations, Stripe(d)
      PROVE  RInv'
  <2>1. ASSUME NEW n \in 1 .. setup.invoices, Renew(d, n) \/ RenewFails(d, n)
        PROVE  RInv'
    <3>1. n \in Invoices /\ n \in Nat /\ n \in Abouts
      BY <2>1, InvoicesOf
    <3> QED
      BY <2>1, <3>1, RenewReconciles
  <2>2. CASE Subscribe(d)
    <3>1. 1 \in Invoices
      BY ShapeAssumption DEF Invoices
    <3> QED
      BY <2>2, <3>1, SubscribeReconciles
  <2>3. CASE CancelPlan(d)
    <3>1. /\ plan[d] \in {"active", "past_due"} /\ plan' = [plan EXCEPT ![d] = "canceled"]
          /\ events' = events \o <<Event("plan", d, "canceled")>>
          /\ UNCHANGED <<session, invoice, tables, processed, worker, setup>>
      BY <2>3 DEF CancelPlan, Emit
    <3> QED
      BY <3>1, CancelReconciles DEF tables
  <2>4. CASE Pay(d) \/ PayLater(d) \/ Expire(d)
    BY <2>4, PaymentReconciles
  <2> QED
    BY <1>3, <2>1, <2>2, <2>3, <2>4 DEF Stripe
<1>4. ASSUME NEW d \in Donations, BeginCancel(d)
      PROVE  RInv'
  BY <1>4, NothingReconciles DEF BeginCancel
<1>5. ASSUME admin # Nothing, plan[admin] \in {"active", "past_due"},
             plan' = [plan EXCEPT ![admin] = "canceled"],
             events' = events \o <<Event("plan", admin, "canceled")>>,
             subscription' = subscription \/ subscription' = [subscription EXCEPT ![admin] = "cancelled"],
             UNCHANGED <<session, invoice, status, linked, payments, processed, worker, setup>>
      PROVE  RInv'
  <2>1. PICK d \in Donations : d = admin
    BY <1>5 DEF AdminIsKnown
  <2> QED
    BY <1>5, <2>1, CancelReconciles
<1>6. CASE CancelFails
  <2>1. CASE UNCHANGED <<stripe, tables, processed, worker, emails, setup>>
    BY <2>1, NothingReconciles
  <2>2. CASE ~ UNCHANGED <<stripe, tables, processed, worker, emails, setup>>
    <3>1. /\ admin # Nothing /\ plan[admin] \in {"active", "past_due"}
          /\ plan' = [plan EXCEPT ![admin] = "canceled"]
          /\ events' = events \o <<Event("plan", admin, "canceled")>>
          /\ UNCHANGED <<session, invoice, tables, processed, worker, setup>>
      BY <1>6, <2>2 DEF CancelFails, Emit
    <3> QED
      BY <1>5, <3>1 DEF tables
  <2> QED
    BY <2>1, <2>2
<1>7. CASE CancelSubscription
  <2>1. events' = Append(events, Event("plan", admin, "canceled"))
    BY <1>7 DEF CancelSubscription
  <2>2. events' = events \o <<Event("plan", admin, "canceled")>>
    <3>1. events \in Seq(Emitted)
      BY EventsAreEmitted
    <3>2. \A e : Append(events, e) = events \o <<e>>
      BY <3>1
    <3> QED
      BY <2>1, <3>2
  <2> QED
    BY <1>5, <1>7, <2>2 DEF CancelSubscription
<1>8. ASSUME NEW d \in Donations, Checkout(d)
      PROVE  RInv'
  BY <1>8, CheckoutReconciles
<1>9. ASSUME NEW w \in setup.workers, Webhook(w)
      PROVE  RInv'
  BY <1>9, WebhookReconciles
<1> QED
  BY <1>1, <1>2, <1>3, <1>4, <1>6, <1>7, <1>8, <1>9 DEF DonationsNext

\* stripe_webhook and its handlers, create_checkout and cancel_subscription: once everything that
\* Stripe says about a donation was delivered, in any order and however often, by any workers that
\* overlap, fail and try again, the donation says what became of its checkout; and if the events of a
\* donation come in order, its subscription is as it is at Stripe, an administrator's cancellation
\* included, and every invoice is in the ledger with its outcome.
THEOREM ReconciliationHolds == DonationsSpec => []DonationsAreReconciled
<1>1. DonationsInit => IInv /\ AdminIsKnown /\ RInv
  BY InitHolds, AdminInit, ReconciledInit
<1>2. IInv /\ AdminIsKnown /\ RInv /\ [DonationsNext]_donationVars => IInv' /\ AdminIsKnown' /\ RInv'
  BY NextKeeps, NextReconciles
<1>3. IInv /\ RInv => DonationsAreReconciled
  BY ReconciledHolds
<1> QED
  BY <1>1, <1>2, <1>3, PTL DEF DonationsSpec

=============================================================================
