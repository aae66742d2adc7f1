--------------------------- MODULE OncePerPayment ---------------------------
(***************************************************************************)
(* What the notification service promises of a payment, with no word of    *)
(* queues, retries or Redis: whoever is to send its e-mail first claims the *)
(* payment; a claimed one is nobody else's; it is given back only if no    *)
(* e-mail was sent, and it may stay claimed for ever with nobody to send   *)
(* it.  A claim may be broken from outside; from then on nothing is        *)
(* promised of that payment.  NotificationConsumer implements this.        *)
(***************************************************************************)
EXTENDS Naturals

CONSTANTS Payments, Workers

VARIABLES
    taken,      \* taken[p]: p is claimed
    owners,     \* <<p, w>>: w has claimed p and is at it
    void,       \* payments with a claim that was broken
    emails      \* emails[p]: e-mails sent about p, counted up to two

vars == <<taken, owners, void, emails>>

Init ==
    /\ taken = [p \in Payments |-> FALSE]
    /\ owners = {}
    /\ void = {}
    /\ emails = [p \in Payments |-> 0]

\* The claimant may never learn that it has succeeded.
Claim(p, w) ==
    /\ ~taken[p]
    /\ taken' = [taken EXCEPT ![p] = TRUE]
    /\ owners' \in {owners, owners \cup {<<p, w>>}}
    /\ UNCHANGED <<void, emails>>

Send(p, w) ==
    /\ <<p, w>> \in owners
    /\ emails[p] = 0 \/ p \in void
    /\ emails' = [emails EXCEPT ![p] = IF @ < 2 THEN @ + 1 ELSE @]
    /\ owners' = owners \ {<<p, w>>}
    /\ UNCHANGED <<taken, void>>

\* Nothing was sent; giving the claim back may fail.
GiveUp(p, w) ==
    /\ <<p, w>> \in owners
    /\ emails[p] = 0 \/ p \in void
    /\ taken' \in {taken, [taken EXCEPT ![p] = FALSE]}
    /\ owners' = owners \ {<<p, w>>}
    /\ UNCHANGED <<void, emails>>

\* The claim is gone, whoever has it and whether or not the e-mail was sent.
Break(p) ==
    /\ taken[p]
    /\ taken' = [taken EXCEPT ![p] = FALSE]
    /\ void' = void \cup {p}
    /\ UNCHANGED <<owners, emails>>

Die ==
    /\ owners' \subseteq owners
    /\ UNCHANGED <<taken, void, emails>>

Next ==
    \/ Die
    \/ \E p \in Payments : Break(p)
    \/ \E p \in Payments, w \in Workers : Claim(p, w) \/ Send(p, w) \/ GiveUp(p, w)

Spec == Init /\ [][Next]_vars

=============================================================================
