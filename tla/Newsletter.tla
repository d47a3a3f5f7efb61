------------------------------ MODULE Newsletter ------------------------------
(***************************************************************************)
(* The digest subscriptions of one scope (services/newsletter-service.ts   *)
(* and the routes of api/app.ts): anybody may enter any address, only a    *)
(* link from a mail confirms or ends a subscription, and the address's     *)
(* owner reads mails of every age.  Mails wait in the outbox while the     *)
(* call that sends them, the loop of a digest before it, or the mail       *)
(* system holds them.                                                      *)
(***************************************************************************)
EXTENDS Integers

CONSTANTS Address,    \* e-mail addresses, trimmed and in lower case
          MaxTokens   \* bound: tokens stored

ASSUME NewsletterAssumption == MaxTokens \in Nat

Token == 1..MaxTokens  \* random, told apart by when they were stored
NoToken == 0

VARIABLES
    token, confirmed, unsubscribed,  \* the row of an address, if it has a token
    issued,                          \* tokens stored so far
    outbox, mailbox,                 \* mails on their way, and mails delivered
    round,                           \* history: how often the address unsubscribed
    consents,                        \* history: rounds in which the owner confirmed
    removed                          \* history: who last saw the page that says removed

row == <<token, confirmed, unsubscribed>>
history == <<round, consents, removed>>
vars == <<row, issued, outbox, mailbox, history>>

\* round: that of the row when the mail was decided on.
Mail(kind, a, t) == [kind |-> kind, to |-> a, token |-> t, round |-> round[a]]

Init ==
    /\ token = [a \in Address |-> NoToken]
    /\ confirmed = [a \in Address |-> FALSE]
    /\ unsubscribed = [a \in Address |-> FALSE]
    /\ issued = 0
    /\ outbox = {} /\ mailbox = {}
    /\ round = [a \in Address |-> 0]
    /\ consents = {} /\ removed = {}

\* subscribe: the row is inserted, or restarted after an unsubscription; otherwise it
\* is left as it is.
RotatedToken(a) == issued + 1
StoredToken(a) == IF token[a] = NoToken \/ unsubscribed[a] THEN issued + 1 ELSE token[a]
ConfirmationKept(a) == confirmed[a]
ConfirmedOnConflict(a) == IF unsubscribed[a] THEN FALSE ELSE confirmed[a]

\* The route then mails a confirmation link, unless the row is confirmed already.
Subscribe(a) ==
    /\ StoredToken(a) \in Token
    /\ token' = [token EXCEPT ![a] = StoredToken(a)]
    /\ issued' = IF token'[a] > issued THEN token'[a] ELSE issued
    /\ confirmed' = [confirmed EXCEPT ![a] = ConfirmedOnConflict(a)]
    /\ unsubscribed' = [unsubscribed EXCEPT ![a] = FALSE]
    /\ outbox' = IF confirmed'[a] THEN outbox
                 ELSE outbox \cup {Mail("confirmation", a, token'[a])}
    /\ UNCHANGED <<mailbox, history>>

\* The link of a confirmation mail; confirm matches rows by token.
Confirm(m) ==
    /\ m \in mailbox /\ m.kind = "confirmation"
    /\ confirmed' = [a \in Address |->
           confirmed[a] \/ (token[a] = m.token /\ ~unsubscribed[a])]
    /\ consents' = consents \cup {<<m.to, m.round>>}
    /\ removed' = removed \ {m.to}
    /\ UNCHANGED <<token, unsubscribed, issued, outbox, mailbox, round>>

\* The link every mail carries; whatever it does, the page says removed.
Unsubscribe(m) ==
    LET ended == {a \in Address : token[a] = m.token /\ ~unsubscribed[a]} IN
    /\ m \in mailbox
    /\ unsubscribed' = [a \in Address |-> unsubscribed[a] \/ a \in ended]
    /\ round' = [a \in Address |-> IF a \in ended THEN round[a] + 1 ELSE round[a]]
    /\ removed' = removed \cup {m.to}
    /\ UNCHANGED <<token, confirmed, issued, outbox, mailbox, consents>>

\* getConfirmedSubscribers, read once per digest.
EverConfirmed == {a \in Address : confirmed[a]}
NotUnsubscribed == {a \in Address : token[a] # NoToken /\ ~unsubscribed[a]}
Subscribers == {a \in Address : confirmed[a] /\ ~unsubscribed[a]}

\* sendDigest, after a publication through the HTTP route.
SendDigest ==
    /\ outbox' = outbox \cup {Mail("digest", a, token[a]) : a \in Subscribers}
    /\ UNCHANGED <<row, issued, mailbox, history>>

\* sendEmail resolves, throws (the error is logged), or its process dies.
Deliver(m) ==
    /\ m \in outbox
    /\ outbox' = outbox \ {m}
    /\ mailbox' = mailbox \cup {m}
    /\ UNCHANGED <<row, issued, history>>
Lose(m) ==
    /\ m \in outbox
    /\ outbox' = outbox \ {m}
    /\ UNCHANGED <<row, issued, mailbox, history>>

Next ==
    \/ \E a \in Address : Subscribe(a)
    \/ \E m \in mailbox : Confirm(m) \/ Unsubscribe(m)
    \/ SendDigest
    \/ \E m \in outbox : Deliver(m) \/ Lose(m)

Spec == Init /\ [][Next]_vars

\* Every mail is sent or given up in the end: the calls to the provider settle, and
\* the loop of a digest goes on after an error.
Settle(a) == \E m \in outbox : m.to = a /\ (Deliver(m) \/ Lose(m))
FairSpec == Spec /\ \A a \in Address : WF_vars(Settle(a))

-----------------------------------------------------------------------------

\* tests/subscribe.test.ts: "requires a new confirmation before reactivating an
\* unsubscribed email".  Nobody is subscribed unless the owner, since last
\* unsubscribing, used a link asked for since then: neither a stranger's request nor
\* an old link is enough.
NoSubscriptionWithoutConsent ==
    \A a \in Subscribers : <<a, round[a]>> \in consents

\* Whoever enters the address again, the links in all mails of a subscription, those
\* on their way included, work until it ends: the row still has their token.
LinksOfThisSubscriptionWork ==
    \A m \in mailbox \cup outbox :
        m.round = round[m.to] /\ ~unsubscribed[m.to] => token[m.to] = m.token

\* A digest goes only to an owner who had confirmed when its list was read.
DigestsOnlyOnConsent ==
    \A m \in mailbox \cup outbox : m.kind = "digest" => <<m.to, m.round>> \in consents

\* Once an address stays unsubscribed, its mails stop: the digests in flight end and
\* no further one names it.
UnsubscribedIsLeftAlone ==
    \A a \in Address :
        <>[]unsubscribed[a] => <>[](\A m \in outbox : m.to # a)

\* api/pages/subscribe.ts:117-118, the page the unsubscribe link always answers with:
\* "You've been removed." and "You won't receive any more NyaayWatch digests."
\* Whoever saw it, and has not confirmed again since, is no subscriber.
RemovedPageIsTrue == removed \cap Subscribers = {}

=============================================================================
