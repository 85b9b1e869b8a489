------------------------------- MODULE Support -------------------------------
(***************************************************************************)
(* Conversations with the support (core/admin_dashboard/                   *)
(* help_conversations.py, contact_services.py): a user writes in the app,  *)
(* or somebody in a form of the website (core/landing/services.py),        *)
(* administrators reply and decide the status, the app polls for messages. *)
(*                                                                         *)
(* Whoever adds a message or decides holds the lock of the conversation's  *)
(* row to the end of the transaction; what is added is seen after the end. *)
(* The time of a message is the moment when it is created.               *)
(***************************************************************************)
EXTENDS Naturals, FiniteSets, FiniteSetsExt

CONSTANTS
    Conversations,  \* rows ever added, in order
    ClientIds,      \* client_message_id: the app names a message, which it may send again
    Transactions,   \* at a time: those that add a message
    MaxMessages,    \* bound: messages ever created
    MaxDecisions,   \* bound: decisions of the status
    PageSize,       \* first
    Visits          \* what to explore: who writes where, fixed from the start

Writers == {"submit", "send", "form"}

ASSUME SupportAssumption ==
    /\ Conversations \subseteq Nat \ {0} /\ {MaxMessages, MaxDecisions} \subseteq Nat /\ PageSize \in Nat \ {0}
    /\ Visits \subseteq SUBSET Writers

VARIABLES
    contact,    \* ContactMessage: the row of each conversation
    messages,   \* ContactConversationMessage: what each holds
    transaction,  \* the progress of each
    moment,     \* a clock that goes on with each message
    decisions,  \* so far
    cursor,     \* the last message the app has read of each conversation, 0 for none
    shown,      \* history: the messages the app has read
    resolved,   \* history: when each conversation was last resolved
    visit

supportVars == <<contact, messages, transaction, moment, decisions, cursor, shown, resolved, visit>>

NoContact == [status |-> "none", source |-> "app", last |-> 0, replied |-> FALSE]
NoTransaction == [pc |-> "idle", at |-> 0, row |-> NoContact, message |-> [at |-> 0, by |-> "user", id |-> {}]]
Message(by, id) == [at |-> moment + 1, by |-> by, id |-> id]

SupportInit ==
    /\ visit \in Visits
    /\ contact = [c \in Conversations |-> NoContact] /\ messages = [c \in Conversations |-> {}]
    /\ transaction = [t \in Transactions |-> NoTransaction] /\ moment = 0 /\ decisions = 0
    /\ cursor = [c \in Conversations |-> 0] /\ shown = [c \in Conversations |-> {}]
    /\ resolved = [c \in Conversations |-> 0]

-----------------------------------------------------------------------------

Contacts == {c \in Conversations : contact[c].status # "none"}
Open == {c \in Contacts : contact[c].source = "app" /\ contact[c].status # "resolved"}
Newest(rows) == {c \in rows : \A d \in rows : contact[c].last >= contact[d].last}
Locked(c) == \E t \in Transactions : transaction[t].pc = "working" /\ transaction[t].at = c

\* The row that a message leaves behind: _append_user_message, reply_to_contact.
Appended(row, message) ==
    [row EXCEPT !.last = message.at,
        !.replied = @ \/ message.by = "admin",
        !.status = CASE message.by = "user" /\ @ = "resolved" -> "pending"
                     [] message.by = "admin" /\ @ = "pending" -> "in progress"
                     [] OTHER -> @]

\* What was read with the lock is written when the transaction ends.
Appends(t, c, message) ==
    /\ transaction[t] = NoTransaction /\ moment < MaxMessages /\ moment' = message.at
    /\ transaction' = [transaction EXCEPT ![t] =
            [pc |-> "working", at |-> c, row |-> Appended(contact[c], message), message |-> message]]
    /\ UNCHANGED <<contact, messages, decisions, cursor, shown, resolved, visit>>

\* A new row, nobody sees it before the end.
Creates(t, source) ==
    /\ transaction[t] = NoTransaction /\ moment < MaxMessages /\ moment' = moment + 1
    /\ \E c \in {d \in Conversations \ Contacts : ~ Locked(d)} :
        /\ \A d \in 1 .. c - 1 : d \in Contacts \/ Locked(d)
        /\ transaction' = [transaction EXCEPT ![t] =
                [pc |-> "working", at |-> c, message |-> Message("user", {}),
                 row |-> [status |-> "pending", source |-> source, last |-> moment + 1, replied |-> FALSE]]]
    /\ UNCHANGED <<contact, messages, decisions, cursor, shown, resolved, visit>>

\* submit_help_message: to the open conversation that was used last, or a new one.
SubmitHelpMessage(t) ==
    /\ "submit" \in visit
    /\ IF Open = {} THEN Creates(t, "app")
       ELSE \E c \in Newest(Open) : ~ Locked(c) /\ Appends(t, c, Message("user", {}))

\* ContactService.submit, submit_message
SubmitForm(t) == "form" \in visit /\ Creates(t, "form")

\* Mutant, used by no specification, as are all that are marked so: a plausible bug
\* in the definition that follows.
SendHelpMessageUnlocked(t, c, id) ==
    /\ "send" \in visit /\ c \in Contacts /\ contact[c].source = "app"
    /\ \A m \in messages[c] : m.id # {id}
    /\ Appends(t, c, Message("user", {id}))

\* A message the conversation has already is not added again.
SendHelpMessage(t, c, id) ==
    /\ "send" \in visit /\ c \in Contacts /\ contact[c].source = "app" /\ ~ Locked(c)
    /\ \A m \in messages[c] : m.id # {id}
    /\ Appends(t, c, Message("user", {id}))

ReplyToContact(t, c) == c \in Contacts /\ ~ Locked(c) /\ Appends(t, c, Message("admin", {}))

\* The transaction ends; what it then notifies or mails is not modelled.
Commit(t) ==
    /\ transaction[t].pc = "working"
    /\ LET c == transaction[t].at IN
        /\ contact' = [contact EXCEPT ![c] = transaction[t].row]
        /\ messages' = [messages EXCEPT ![c] = @ \union {transaction[t].message}]
    /\ transaction' = [transaction EXCEPT ![t] = NoTransaction]
    /\ UNCHANGED <<moment, decisions, cursor, shown, resolved, visit>>

RequestDies(t) ==
    /\ transaction[t].pc = "working" /\ transaction' = [transaction EXCEPT ![t] = NoTransaction]
    /\ UNCHANGED <<contact, messages, moment, decisions, cursor, shown, resolved, visit>>

\* update_contact_status by an administrator, and resolve_help_conversation by the user.
Decide(c, status) ==
    /\ c \in Contacts /\ ~ Locked(c) /\ decisions < MaxDecisions /\ decisions' = decisions + 1
    /\ contact' = [contact EXCEPT ![c].status = status]
    /\ resolved' = IF status = "resolved" THEN [resolved EXCEPT ![c] = moment] ELSE resolved
    /\ UNCHANGED <<messages, transaction, moment, cursor, shown, visit>>

\* list_help_conversation_messages: the messages after the cursor, the first of them.
Poll(c) ==
    LET later == {m \in messages[c] : m.at > cursor[c]}
        page == {m \in later : Cardinality({n \in later : n.at < m.at}) < PageSize}
    IN /\ later # {}
       /\ shown' = [shown EXCEPT ![c] = @ \union page]
       /\ cursor' = [cursor EXCEPT ![c] = Max({m.at : m \in page})]
       /\ UNCHANGED <<contact, messages, transaction, moment, decisions, resolved, visit>>

-----------------------------------------------------------------------------

Writing == \E t \in Transactions :
    \/ SubmitHelpMessage(t) \/ Commit(t) \/ RequestDies(t)
    \/ \E c \in Conversations, id \in ClientIds : SendHelpMessage(t, c, id)

Contacting == \E t \in Transactions : SubmitForm(t) \/ \E c \in Conversations : ReplyToContact(t, c)

Deciding == \E c \in Conversations, status \in {"pending", "in progress", "resolved"} : Decide(c, status)

Polling == \E c \in Conversations : Poll(c)

SupportNext == Writing \/ Contacting \/ Deciding \/ Polling

SupportSpec == SupportInit /\ [][SupportNext]_supportVars

-----------------------------------------------------------------------------

SupportTypeOK ==
    /\ \A c \in Conversations :
        /\ contact[c].status \in {"none", "pending", "in progress", "resolved"} /\ contact[c].last \in 0 .. MaxMessages
        /\ messages[c] \subseteq [at : 1 .. MaxMessages, by : {"user", "admin"}, id : SUBSET ClientIds]
        /\ shown[c] \subseteq messages[c] /\ {cursor[c], resolved[c]} \subseteq 0 .. MaxMessages
    /\ moment \in 0 .. MaxMessages /\ decisions \in 0 .. MaxDecisions

\* list_help_conversation_messages: however many write at a time, an app that polls from its
\* cursor misses no message.
PollsMissNothing == \A c \in Conversations : \A m \in messages[c] : m.at <= cursor[c] => m \in shown[c]

\* send_help_message: a message that is sent again is there once.
RetriesAddOnce ==
    \A c \in Conversations, id \in ClientIds : Cardinality({m \in messages[c] : m.id = {id}}) <= 1

\* _append_user_message: what a user writes opens the conversation again, unless it is resolved
\* after that; and the conversation is listed by its newest message.
WrittenIsOpen == \A c \in Contacts :
    /\ contact[c].status = "resolved" => \A m \in messages[c] : m.by = "user" => m.at <= resolved[c]
    /\ contact[c].last = Max({m.at : m \in messages[c]})
    /\ contact[c].replied <=> \E m \in messages[c] : m.by = "admin"

\* A support conversation as the app shows it, however many write at a time, poll and decide.
ConversationsAreExact == PollsMissNothing /\ RetriesAddOnce /\ WrittenIsOpen

=============================================================================
