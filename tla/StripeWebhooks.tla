--------------------------- MODULE StripeWebhooks ---------------------------
(***************************************************************************)
(* Donations paid on pages hosted by Stripe (core/donations): the checkout *)
(* request, the events that Stripe emits about it, and the webhook workers *)
(* that bring the donation, its subscription, the payment ledger and the   *)
(* numbers of early supporters up to date.  Stripe delivers every event    *)
(* until it is answered with success, any number of times and in any order.*)
(*                                                                         *)
(* A handler is one database transaction: it reads the donation, locks a   *)
(* row (its first write), reads what else it needs, and commits.  Of the   *)
(* ledger of events it matters which are PROCESSED: RECEIVED and FAILED    *)
(* ones are handled alike when they are delivered again.                   *)
(***************************************************************************)
EXTENDS Naturals, Sequences, FiniteSets

CONSTANTS
    Donations,      \* donations, each with a checkout session of its own
    Monthly,        \* those of type monthly, each with a subscription of its own
    Supporters,     \* supporter identities
    SupporterOf,    \* the identity that the email of each donation belongs to
    Workers,        \* webhook requests that may be in progress at a time
    EarlyLimit,     \* EARLY_SUPPORTER_LIMIT
    MaxInvoices,    \* bound: invoices per subscription, at most
    Setups          \* the circumstances to consider; see SetupAssumption

\* Which donations there are, whether the events of one donation arrive one by one in
\* the order in which they were emitted, the workers (with two, handlers overlap),
\* whether they and calls to Stripe may fail, and how many invoices a subscription gets.
ASSUME SetupAssumption ==
    Setups \subseteq [donations : SUBSET Donations, ordered : BOOLEAN,
               workers : SUBSET Workers, failing : BOOLEAN, invoices : 0 .. MaxInvoices]
\* A subscription starts with its first invoice (Subscribe), so there is room for one.
ASSUME ShapeAssumption ==
    /\ Monthly \subseteq Donations
    /\ SupporterOf \in [Donations -> Supporters]
    /\ EarlyLimit \in Nat /\ MaxInvoices \in Nat \ {0}

VARIABLES
    session,    \* Stripe: the checkout session of each donation
    plan,       \* Stripe: the status of its subscription
    invoice,    \* Stripe: the status of each invoice of the subscription
    events,     \* Stripe: the events emitted so far
    status,     \* donations.status, "none" before the row exists
    linked,     \* donations whose row knows the id of its subscription
    subscription, \* donations_subscriptions.status, "none" before the row exists
    payments,   \* support_payments: the status of each payment reference
    number,     \* supporter_identities.early_supporter_number, 0 for NULL
    next,       \* supporter_program_state.next_early_supporter_number
    processed,  \* stripe_webhook_events: the events that are PROCESSED
    worker,     \* the progress of each webhook request
    admin,      \* the donation whose subscription an administrator is cancelling
    emails,     \* history: the confirmations sent for each donation
    setup       \* the circumstances, fixed from the start

stripe == <<session, plan, invoice, events>>
tables == <<status, linked, subscription, payments, number, next>>
donationVars == <<stripe, tables, processed, worker, admin, emails, setup>>

Nothing == "nothing"
Invoices == 1 .. MaxInvoices
\* A payment is known by its invoice, the initial one (0) by its payment intent.
References == Donations \X (0 .. MaxInvoices)
Overlap == \E v, w \in setup.workers : v # w

Sessions == {"none", "open", "lost", "unpaid", "paid", "expired"}
DonationStatus == {"none", "pending", "succeeded", "failed", "expired"}
SubscriptionStatus == {"none", "incomplete", "active", "past_due", "cancelled"}
PlanStatus == {"none", "active", "past_due", "canceled"}    \* Stripe's spelling
EventTypes == {"completed", "expired", "intent", "invoicePaid", "invoiceFailed", "plan"}
Steps == {"idle", "read", "lock", "commit", "confirm", "ack"}

\* about: the status of the session or the subscription that the event shows, or the
\* number of its invoice.
Event(type, d, about) == [type |-> type, donation |-> d, about |-> about]
Idle == [pc |-> "idle", event |-> 0, status |-> "none", number |-> 0]

DonationsInit ==
    /\ session = [d \in Donations |-> "none"]
    /\ plan = [d \in Donations |-> "none"]
    /\ invoice = [d \in Donations |-> [n \in Invoices |-> "none"]]
    /\ events = <<>>
    /\ status = [d \in Donations |-> "none"]
    /\ linked = {}
    /\ subscription = [d \in Donations |-> "none"]
    /\ payments = [p \in References |-> "none"]
    /\ number = [s \in Supporters |-> 0]
    /\ next = 1
    /\ processed = {}
    /\ worker = [w \in Workers |-> Idle]
    /\ admin = Nothing
    /\ emails = [d \in Donations |-> 0]
    /\ setup \in Setups

-----------------------------------------------------------------------------
(* create_checkout: the row, then Stripe, then the row again.              *)

CreateDonation(d) ==
    /\ status[d] = "none"
    /\ status' = [status EXCEPT ![d] = "pending"]
    /\ UNCHANGED <<stripe, linked, subscription, payments, number, next,
                   processed, worker, admin, emails, setup>>

OpenSession(d) ==
    /\ status[d] = "pending" /\ session[d] = "none"
    /\ session' = [session EXCEPT ![d] = "open"]
    /\ UNCHANGED <<plan, invoice, events, tables, processed, worker, admin, emails, setup>>

\* The call raises, whether or not Stripe has created the session: nobody gets its URL.
OpenSessionFails(d) ==
    /\ setup.failing
    /\ status[d] = "pending" /\ session[d] = "none"
    /\ session' \in {[session EXCEPT ![d] = s] : s \in {"none", "lost"}}
    /\ status' = [status EXCEPT ![d] = "failed"]
    /\ UNCHANGED <<plan, invoice, events, linked, subscription, payments, number, next,
                   processed, worker, admin, emails, setup>>

-----------------------------------------------------------------------------
(* Stripe.                                                                 *)

Emit(list) ==
    /\ events' = events \o list
    /\ UNCHANGED <<tables, processed, worker, emails, setup>>

\* A single donation is paid at once, or by a method that settles later.
Pay(d) ==
    /\ d \notin Monthly /\ session[d] \in {"open", "unpaid"}
    /\ session' = [session EXCEPT ![d] = "paid"]
    /\ Emit(<<Event("completed", d, "paid"), Event("intent", d, "paid")>>)
    /\ UNCHANGED <<plan, invoice, admin>>

PayLater(d) ==
    /\ d \notin Monthly /\ session[d] = "open"
    /\ session' = [session EXCEPT ![d] = "unpaid"]
    /\ Emit(<<Event("completed", d, "unpaid")>>)
    /\ UNCHANGED <<plan, invoice, admin>>

Expire(d) ==
    /\ session[d] \in {"open", "lost"}
    /\ session' = [session EXCEPT ![d] = "expired"]
    /\ Emit(<<Event("expired", d, "expired")>>)
    /\ UNCHANGED <<plan, invoice, admin>>

Subscribe(d) ==
    /\ d \in Monthly /\ session[d] = "open"
    /\ session' = [session EXCEPT ![d] = "paid"]
    /\ plan' = [plan EXCEPT ![d] = "active"]
    /\ invoice' = [invoice EXCEPT ![d][1] = "paid"]
    /\ Emit(<<Event("plan", d, "incomplete"), Event("invoicePaid", d, 1),
              Event("plan", d, "active"), Event("completed", d, "paid")>>)
    /\ UNCHANGED admin

\* The next invoice is paid, or fails and is paid later.
Renew(d, n) ==
    /\ plan[d] \in {"active", "past_due"} /\ n > 1
    /\ \/ invoice[d][n] = "none" /\ invoice[d][n - 1] = "paid"
       \/ invoice[d][n] = "failed"
    /\ invoice' = [invoice EXCEPT ![d][n] = "paid"]
    /\ plan' = [plan EXCEPT ![d] = "active"]
    /\ Emit(<<Event("invoicePaid", d, n), Event("plan", d, "active")>>)
    /\ UNCHANGED <<session, admin>>

RenewFails(d, n) ==
    /\ plan[d] = "active" /\ n > 1
    /\ invoice[d][n] = "none" /\ invoice[d][n - 1] = "paid"
    /\ invoice' = [invoice EXCEPT ![d][n] = "failed"]
    /\ plan' = [plan EXCEPT ![d] = "past_due"]
    /\ Emit(<<Event("invoiceFailed", d, n), Event("plan", d, "past_due")>>)
    /\ UNCHANGED <<session, admin>>

\* By the supporter, on Stripe's own page.
CancelPlan(d) ==
    /\ plan[d] \in {"active", "past_due"}
    /\ plan' = [plan EXCEPT ![d] = "canceled"]
    /\ Emit(<<Event("plan", d, "canceled")>>)
    /\ UNCHANGED <<session, invoice, admin>>

-----------------------------------------------------------------------------
(* stripe_webhook and the handlers of HostedSupportService.                *)

At(w, step) == worker[w].pc = step
Becomes(w, row) == worker' = [worker EXCEPT ![w] = row]
Goto(w, step) == Becomes(w, [worker[w] EXCEPT !.pc = step])
Handled(w) == events[worker[w].event]
About(w) == Handled(w).donation
Is(w, types) == Handled(w).type \in types

MayArrive(i) ==
    setup.ordered =>
        /\ \A j \in 1 .. i - 1 : events[j].donation = events[i].donation => j \in processed
        /\ \A v \in {v \in Workers : ~ At(v, "idle")} : About(v) # events[i].donation

Receive(w) ==
    /\ At(w, "idle")
    /\ \E i \in 1 .. Len(events) :
         /\ MayArrive(i)
         /\ i \notin processed
         /\ Becomes(w, [Idle EXCEPT !.pc = "read", !.event = i])
    /\ UNCHANGED <<stripe, tables, processed, admin, emails, setup>>

\* Sessions, payment intents and subscriptions carry the id of their donation; an
\* invoice is looked up by the id of its subscription.
Found(w) == Is(w, {"invoicePaid", "invoiceFailed"}) => About(w) \in linked

\* The donation is read; an expiry, which locks nothing before it writes, and an
\* invoice go on from what was read.
Read(w) ==
    /\ At(w, "read")
    /\ Becomes(w, [worker[w] EXCEPT
         !.status = status[About(w)],
         !.number = number[SupporterOf[About(w)]],
         !.pc = IF ~ Found(w) \/ (Is(w, {"expired"}) /\ status[About(w)] # "pending") THEN "ack"
                ELSE IF Is(w, {"expired"}) THEN "commit" ELSE "lock"])
    /\ UNCHANGED <<stripe, tables, processed, admin, emails, setup>>

\* The rows that a transaction holds from its first write on.
HoldsDonation(w, d) == At(w, "commit") /\ About(w) = d /\ Is(w, {"completed", "intent", "plan"})
HoldsSubscription(w, d) ==
    At(w, "commit") /\ About(w) = d /\ Is(w, {"invoicePaid", "invoiceFailed"})
DonationFree(w, d) == \A v \in Workers \ {w} : ~ HoldsDonation(v, d)
SubscriptionFree(w, d) ==
    admin # d /\ \A v \in Workers \ {w} : ~ HoldsSubscription(v, d)

\* The first write: of the donation, whose supporter is read after it, or of the
\* subscription of an invoice.
Lock(w) ==
    /\ At(w, "lock")
    /\ IF Is(w, {"completed", "intent", "plan"})
         THEN /\ DonationFree(w, About(w))
              /\ Becomes(w, [worker[w] EXCEPT !.pc = "commit",
                                              !.number = number[SupporterOf[About(w)]]])
         ELSE SubscriptionFree(w, About(w)) /\ Goto(w, "commit")
    /\ UNCHANGED <<stripe, tables, processed, admin, emails, setup>>

\* Mutant, used by no specification, as are all that are marked so: a plausible bug
\* in the definition that follows.
AssignBeyondTheLimit(w) ==
    LET s == SupporterOf[About(w)] IN
    \/ /\ worker[w].number = 0 /\ next <= EarlyLimit + 1
       /\ number' = [number EXCEPT ![s] = next]
       /\ next' = next + 1
    \/ /\ worker[w].number # 0 \/ next > EarlyLimit + 1
       /\ number' = [number EXCEPT ![s] = worker[w].number]
       /\ UNCHANGED next

\* _assign_early_supporter: the counter is read under its lock, the supporter was read
\* before, and its columns are written whatever they hold by now.
AssignEarlySupporter(w) ==
    LET s == SupporterOf[About(w)] IN
    \/ /\ worker[w].number = 0 /\ next <= EarlyLimit
       /\ number' = [number EXCEPT ![s] = next]
       /\ next' = next + 1
    \/ /\ worker[w].number # 0 \/ next > EarlyLimit
       /\ number' = [number EXCEPT ![s] = worker[w].number]
       /\ UNCHANGED next

\* Mutant.
MarkAndConfirm(w) ==
    /\ status' = [status EXCEPT ![About(w)] = "succeeded"]
    /\ AssignEarlySupporter(w)
    /\ Goto(w, "confirm")

\* _mark_succeeded; the confirmation follows the commit.
MarkSucceeded(w) ==
    /\ status' = [status EXCEPT ![About(w)] = "succeeded"]
    /\ AssignEarlySupporter(w)
    /\ Goto(w, IF worker[w].status # "succeeded" THEN "confirm" ELSE "ack")

MarksNothing(w) == Goto(w, "ack") /\ UNCHANGED <<status, number, next>>

\* Mutant.
AsStripeSpellsIt(s) == s

\* _upsert_subscription writes its own spelling, and "incomplete" for a status it does not
\* know.
Normalized(s) ==
    CASE s = "canceled" -> "cancelled"
      [] s \in SubscriptionStatus -> s
      [] OTHER -> "incomplete"

SetSubscription(w, s) == subscription' = [subscription EXCEPT ![About(w)] = Normalized(s)]
RecordPayment(w, n, s) == payments' = [payments EXCEPT ![<<About(w), n>>] = s]
Commits(w) == At(w, "commit") /\ UNCHANGED <<stripe, processed, admin, emails, setup>>

CheckoutCompleted(w) ==
    /\ Commits(w) /\ Is(w, {"completed"})
    /\ IF About(w) \in Monthly
         THEN /\ SubscriptionFree(w, About(w))
              /\ linked' = linked \union {About(w)}
              /\ SetSubscription(w, "active")
         ELSE UNCHANGED <<linked, subscription>>
    /\ IF Handled(w).about = "paid" THEN MarkSucceeded(w) ELSE MarksNothing(w)
    /\ UNCHANGED payments

CheckoutExpired(w) ==
    /\ Commits(w) /\ Is(w, {"expired"})
    /\ DonationFree(w, About(w))
    /\ status' = [status EXCEPT ![About(w)] = "expired"]
    /\ Goto(w, "ack")
    /\ UNCHANGED <<linked, subscription, payments, number, next>>

PaymentIntentSucceeded(w) ==
    /\ Commits(w) /\ Is(w, {"intent"})
    /\ MarkSucceeded(w)
    /\ RecordPayment(w, 0, "succeeded")
    /\ UNCHANGED <<linked, subscription>>

InvoicePaid(w) ==
    /\ Commits(w) /\ Is(w, {"invoicePaid"})
    /\ DonationFree(w, About(w))
    /\ SetSubscription(w, "active")
    /\ MarkSucceeded(w)
    /\ RecordPayment(w, Handled(w).about, "succeeded")
    /\ UNCHANGED linked

InvoiceFailed(w) ==
    /\ Commits(w) /\ Is(w, {"invoiceFailed"})
    /\ SetSubscription(w, "past_due")
    /\ RecordPayment(w, Handled(w).about, "failed")
    /\ MarksNothing(w)
    /\ UNCHANGED linked

SubscriptionChanged(w) ==
    /\ Commits(w) /\ Is(w, {"plan"})
    /\ SubscriptionFree(w, About(w))
    /\ linked' = linked \union {About(w)}
    /\ SetSubscription(w, Handled(w).about)
    /\ MarksNothing(w)
    /\ UNCHANGED payments

\* _queue_confirmation_email swallows its errors.
Confirm(w) ==
    /\ At(w, "confirm")
    /\ emails' \in {emails, [emails EXCEPT ![About(w)] = @ + 1]}
    /\ Goto(w, "ack")
    /\ UNCHANGED <<stripe, tables, processed, admin, setup>>

Acknowledge(w) ==
    /\ At(w, "ack")
    /\ processed' = processed \union {worker[w].event}
    /\ Becomes(w, Idle)
    /\ UNCHANGED <<stripe, tables, admin, emails, setup>>

\* Mutant.
FailAcknowledged(w) ==
    /\ setup.failing
    /\ ~ At(w, "idle")
    /\ processed' = processed \union {worker[w].event}
    /\ Becomes(w, Idle)
    /\ UNCHANGED <<stripe, tables, admin, emails, setup>>

\* The handler raises, which the database makes it do to end a deadlock, the process
\* dies, or its answer is lost: what was not committed is gone, and Stripe tries again.
Fail(w) ==
    /\ setup.failing
    /\ ~ At(w, "idle")
    /\ Becomes(w, Idle)
    /\ UNCHANGED <<stripe, tables, processed, admin, emails, setup>>

-----------------------------------------------------------------------------
(* cancel_subscription of the dashboard: the row is locked around the call *)
(* to Stripe.                                                              *)

BeginCancel(d) ==
    /\ admin = Nothing
    /\ Overlap \/ \A w \in setup.workers : At(w, "idle")
    /\ subscription[d] \notin {"none", "cancelled"}
    /\ \A w \in Workers : ~ HoldsSubscription(w, d)
    /\ admin' = d
    /\ UNCHANGED <<stripe, tables, processed, worker, emails, setup>>

\* Stripe refuses to cancel twice.
CancelFails ==
    /\ admin # Nothing
    /\ admin' = Nothing
    /\ \/ /\ plan[admin] \in {"active", "past_due"}
          /\ plan' = [plan EXCEPT ![admin] = "canceled"]
          /\ Emit(<<Event("plan", admin, "canceled")>>)
          /\ UNCHANGED <<session, invoice>>
       \/ UNCHANGED <<stripe, tables, processed, worker, emails, setup>>

CancelSubscription ==
    /\ admin # Nothing
    /\ plan[admin] \in {"active", "past_due"}
    /\ plan' = [plan EXCEPT ![admin] = "canceled"]
    /\ subscription' = [subscription EXCEPT ![admin] = "cancelled"]
    /\ events' = Append(events, Event("plan", admin, "canceled"))
    /\ admin' = Nothing
    /\ UNCHANGED <<session, invoice, status, linked, payments, number, next,
                   processed, worker, emails, setup>>

-----------------------------------------------------------------------------

Checkout(d) == CreateDonation(d) \/ OpenSession(d) \/ OpenSessionFails(d)

Stripe(d) ==
    \/ Pay(d) \/ PayLater(d) \/ Expire(d) \/ Subscribe(d) \/ CancelPlan(d)
    \/ \E n \in 1 .. setup.invoices : Renew(d, n) \/ RenewFails(d, n)

Webhook(w) ==
    \/ Receive(w) \/ Read(w) \/ Lock(w)
    \/ CheckoutCompleted(w) \/ CheckoutExpired(w) \/ PaymentIntentSucceeded(w)
    \/ InvoicePaid(w) \/ InvoiceFailed(w) \/ SubscriptionChanged(w)
    \/ Confirm(w) \/ Acknowledge(w) \/ Fail(w)

DonationsNext ==
    \/ \E d \in setup.donations : Checkout(d) \/ Stripe(d) \/ BeginCancel(d)
    \/ CancelFails \/ CancelSubscription
    \/ \E w \in setup.workers : Webhook(w)

DonationsSpec == DonationsInit /\ [][DonationsNext]_donationVars

-----------------------------------------------------------------------------
(* Properties.                                                             *)

\* The state has its type.
DonationsTypeOK ==
    /\ session \in [Donations -> Sessions]
    /\ plan \in [Donations -> PlanStatus]
    /\ invoice \in [Donations -> [Invoices -> {"none", "paid", "failed"}]]
    /\ \A i \in DOMAIN events : events[i].type \in EventTypes /\ events[i].donation \in Donations
    /\ status \in [Donations -> DonationStatus]
    /\ linked \subseteq Donations
    /\ subscription \in [Donations -> SubscriptionStatus]
    /\ payments \in [References -> {"none", "succeeded", "failed"}]
    /\ number \in [Supporters -> Nat] /\ next \in Nat
    /\ processed \subseteq DOMAIN events
    /\ worker \in [Workers -> [pc : Steps, event : 0 .. Len(events),
                               status : DonationStatus, number : Nat]]
    /\ admin \in Donations \union {Nothing}
    /\ emails \in [Donations -> Nat]

\* The numbers of early supporters are distinct, were given out by the counter and stay
\* within the limit, whatever handlers overlap; without overlap none was given in vain.
EarlyNumbersAreDistinct ==
    LET early == {s \in Supporters : number[s] # 0} IN
    /\ next <= EarlyLimit + 1
    /\ \A s \in early : number[s] < next
    /\ \A s, t \in early : number[s] = number[t] => s = t
    /\ ~ Overlap => Cardinality(early) = next - 1

\* Retries, duplicates and crashes do not confirm a donation twice (_mark_succeeded), and
\* only what was paid is confirmed.
ConfirmedOnce ==
    \A d \in Donations :
        /\ ~ Overlap => emails[d] <= 1
        /\ emails[d] > 0 => session[d] = "paid"

\* Stripe, _mark_succeeded and _assign_early_supporter: retries and duplicates confirm a donation
\* once, and the numbers of early supporters are distinct and limited.
DonationsAreConfirmedOnce == ConfirmedOnce /\ EarlyNumbersAreDistinct

Delivered(d) ==
    /\ \A i \in DOMAIN events : events[i].donation = d => i \in processed
    /\ \A w \in Workers : At(w, "idle")
    /\ admin = Nothing

\* Once everything about it has been delivered, in whatever order, a donation says what
\* became of its checkout, and a single payment is in the ledger.
CheckoutsAreReconciled ==
    \A d \in Donations : Delivered(d) =>
        /\ status[d] = "succeeded" <=> session[d] = "paid"
        /\ session[d] = "expired" => status[d] \in {"expired", "failed"}
        /\ session[d] = "unpaid" => status[d] = "pending"
        /\ d \notin Monthly /\ session[d] = "paid" => payments[<<d, 0>>] = "succeeded"

\* The same status in both spellings.
Agree(ours, stripes) == ours = stripes \/ (ours = "cancelled" /\ stripes = "canceled")

\* Events that arrive in order leave the subscription as it is at Stripe, cancellations
\* by an administrator included, and every invoice with its outcome.
SubscriptionsAreReconciled ==
    setup.ordered => \A d \in Monthly : Delivered(d) =>
        /\ Agree(subscription[d], plan[d])
        /\ \A n \in Invoices : payments[<<d, n>>] = (IF invoice[d][n] = "paid" THEN "succeeded"
                                                      ELSE invoice[d][n])

\* Stripe, webhook handlers: once its events were delivered, a donation says what became of
\* its checkout, and of its subscription if they came in order.
DonationsAreReconciled == CheckoutsAreReconciled /\ SubscriptionsAreReconciled

\* What the code says and does not do.

\* "Immutable payment ledger for one-time and recurring support charges" (SupportPayment):
\* every invoice that was paid and delivered is in it.
PaidInvoicesAreRecorded ==
    \A d \in Monthly : Delivered(d) =>
        \A n \in Invoices : invoice[d][n] = "paid" => payments[<<d, n>>] = "succeeded"

=============================================================================
