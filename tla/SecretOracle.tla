---------------------------- MODULE SecretOracle ----------------------------
(***************************************************************************)
(* What khefin promises, without keyfiles, lists of devices, PINs or       *)
(* cryptography: an oracle for secrets that takes two factors.  Somebody   *)
(* enrols an authenticator under a passphrase; whoever asks with that      *)
(* passphrase while that authenticator is attached may be told the secret  *)
(* of that enrolment, for the mixin asked with.  A question may always go  *)
(* unanswered.                                                             *)
(***************************************************************************)

CONSTANTS
    NULL,
    Proc,         \* who asks
    Device,       \* authenticators
    Question      \* what each may ask: [wants, passphrase, mixin]

VARIABLES
    asked,        \* the question of each process, or NULL
    ended,        \* the processes whose question is closed
    attached,     \* the authenticators that are there
    enrolled,     \* the authenticator each enrolment was made on, or NULL
    answer        \* the secret each process was told, or NULL

vars == << asked, ended, attached, enrolled, answer >>

Open(p) == asked[p] # NULL /\ p \notin ended

\* A secret belongs to one enrolment, its credential and its salt, on one
\* authenticator; each mixin selects another one.
Secret(q, mixin) ==
    [ credential |-> q, salt |-> q, device |-> enrolled[q], mixin |-> mixin ]

Init ==
    /\ asked = [p \in Proc |-> NULL]
    /\ ended = {}
    /\ attached \in SUBSET Device
    /\ enrolled = [p \in Proc |-> NULL]
    /\ answer = [p \in Proc |-> NULL]

Ask(p) ==
    /\ asked[p] = NULL
    /\ p \notin ended
    /\ \E q \in Question[p] : asked' = [asked EXCEPT ![p] = q]
    /\ UNCHANGED << ended, attached, enrolled, answer >>

\* Once for each process that wants it.
Enrol(p) ==
    /\ Open(p)
    /\ asked[p].wants = "enrol"
    /\ enrolled[p] = NULL
    /\ \E d \in attached : enrolled' = [enrolled EXCEPT ![p] = d]
    /\ UNCHANGED << asked, ended, attached, answer >>

\* Both factors: the passphrase of an enrolment, and its authenticator.
Answer(p) ==
    /\ Open(p)
    /\ asked[p].wants = "generate"
    /\ \E q \in Proc :
          /\ enrolled[q] \in attached
          /\ asked[q].passphrase = asked[p].passphrase
          /\ answer' = [answer EXCEPT ![p] = Secret(q, asked[p].mixin)]
    /\ ended' = ended \union {p}
    /\ UNCHANGED << asked, attached, enrolled >>

\* Nothing, or nothing more, is told.
End(p) ==
    /\ Open(p)
    /\ ended' = ended \union {p}
    /\ UNCHANGED << asked, attached, enrolled, answer >>

Attach(d) ==
    /\ attached' = attached \union {d}
    /\ UNCHANGED << asked, ended, enrolled, answer >>

Detach(d) ==
    /\ attached' = attached \ {d}
    /\ UNCHANGED << asked, ended, enrolled, answer >>

Next ==
    \/ \E p \in Proc : Ask(p) \/ Enrol(p) \/ Answer(p) \/ End(p)
    \/ \E d \in Device : Attach(d) \/ Detach(d)

Spec == Init /\ [][Next]_vars

\* Every question is closed in the end.
FairSpec == Spec /\ \A p \in Proc : WF_vars(Answer(p) \/ End(p))

=============================================================================
