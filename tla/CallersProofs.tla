--------------------------- MODULE CallersProofs ---------------------------
(***************************************************************************)
(* The safety of the two scripts that answer with what khefin prints, for  *)
(* any number of callers and of ssh keys.                                  *)
(***************************************************************************)
EXTENDS Callers, TLAPS

-----------------------------------------------------------------------------
(* The inductive invariant *)

Labels == {"arguments", "enumerate", "fingerprint", "notify", "generate",
           "ended"}

TypeOK ==
    /\ call \in [Caller -> Calls]
    /\ pc \in [Caller -> Labels]
    /\ status \in [Caller -> Nat]
    /\ mixin \in [Caller -> SshKey \union {"", NULL}]
    /\ touched \in [Caller -> BOOLEAN]
    /\ stdout \in [Caller -> Secrets \union {NULL}]

\* A script that is not over has said nothing.
NotYet(c) == ~Ended(c) => ~touched[c] /\ stdout[c] = NULL

\* Once the fingerprint was taken, ssh-askpass runs khefin with it.
MixinOfKey(c) ==
    pc[c] \in {"notify", "generate"} /\ ~IsKeyscript(c) /\ ~Confirms(c) =>
        mixin[c] = call[c].key

\* The secret for ssh is made of the fingerprint of the key asked about, and
\* is not given to who only has to allow its use.
OwnSecret(c) ==
    stdout[c] # NULL /\ ~IsKeyscript(c) =>
        stdout[c] = [keyfile |-> "ssh-askpass", mixin |-> call[c].key]

\* SuccessMeansAnswered, of one caller.
Answered(c) ==
    Ended(c) =>
        /\ status[c] = EXIT_SUCCESS <=> touched[c]
        /\ touched[c] /\ ~Confirms(c) => stdout[c] # NULL

CallerInv(c) == NotYet(c) /\ MixinOfKey(c) /\ OwnSecret(c) /\ Answered(c)

Inv == TypeOK /\ \A c \in Caller : CallerInv(c)

-----------------------------------------------------------------------------
(* Init and every step *)

\* A step of one caller is no concern of another.
LEMMA OthersInv ==
    ASSUME NEW c \in Caller, CallerInv(c),
           call' = call, pc'[c] = pc[c], status'[c] = status[c],
           mixin'[c] = mixin[c], touched'[c] = touched[c],
           stdout'[c] = stdout[c]
    PROVE  CallerInv(c)'
  BY DEF CallerInv, NotYet, MixinOfKey, OwnSecret, Answered, Ended, Confirms,
         IsKeyscript

\* What any step of a caller does to its place in the script.
Moved(c) ==
    /\ pc' \in [Caller -> Labels]
    /\ status' \in [Caller -> Nat]
    /\ \A d \in Caller \ {c} : pc'[d] = pc[d] /\ status'[d] = status[d]

\* The status of a script that failed is not that of success.
LEMMA OneIsFailure == 1 \in Nat /\ 1 # EXIT_SUCCESS
  BY DEF EXIT_SUCCESS

\* The script goes on at a label.
LEMMA GotoMoves ==
    ASSUME NEW c \in Caller, TypeOK, NEW label \in Labels, Goto(c, label)
    PROVE  Moved(c) /\ pc'[c] = label
  BY DEF TypeOK, Goto, Moved

\* The script ends with a status.
LEMMA ExitMoves ==
    ASSUME NEW c \in Caller, TypeOK, NEW code \in Nat, ExitWith(c, code)
    PROVE  Moved(c) /\ pc'[c] = "ended" /\ status'[c] = code
  BY DEF TypeOK, ExitWith, Moved, Labels

\* A step that keeps the types and the invariant of the caller that takes it
\* keeps the invariant.
LEMMA StepEnough ==
    ASSUME NEW c \in Caller, Inv, Moved(c), CallerInv(c)', call' = call,
           mixin' \in [Caller -> SshKey \union {"", NULL}],
           touched' \in [Caller -> BOOLEAN],
           stdout' \in [Caller -> Secrets \union {NULL}],
           \A d \in Caller \ {c} :
              /\ mixin'[d] = mixin[d] /\ touched'[d] = touched[d]
              /\ stdout'[d] = stdout[d]
    PROVE  Inv'
  <1>1. ASSUME NEW d \in Caller \ {c} PROVE CallerInv(d)'
    BY OthersInv DEF Inv, Moved
  <1>2. TypeOK'
    BY DEF Inv, TypeOK, Moved
  <1> QED
    BY <1>1, <1>2 DEF Inv

\* Nothing was said before the scripts began.
LEMMA InvInit == Init => Inv
  <1> SUFFICES ASSUME Init PROVE Inv
    OBVIOUS
  <1>1. TypeOK
    BY DEF Init, TypeOK, Labels
  <1>2. ASSUME NEW c \in Caller PROVE CallerInv(c)
    BY DEF Init, CallerInv, NotYet, MixinOfKey, OwnSecret, Answered, Ended
  <1> QED
    BY <1>1, <1>2 DEF Inv

\* A step that goes on or fails before khefin generate, and changes at most
\* the mixin, as it has to be for the place that it goes to.
LEMMA EarlyStep ==
    ASSUME NEW c \in Caller, Inv, ~Ended(c),
           UNCHANGED << call, touched, stdout >>,
           mixin' \in [Caller -> SshKey \union {"", NULL}],
           \A d \in Caller \ {c} : mixin'[d] = mixin[d],
           \/ ExitWith(c, 1)
           \/ \E label \in Labels \ {"ended"} : Goto(c, label) /\ MixinOfKey(c)'
    PROVE  Inv'
  <1>0. TypeOK /\ CallerInv(c)
    BY DEF Inv
  <1>1. Moved(c) /\ MixinOfKey(c)' /\ (pc'[c] = "ended" => status'[c] = 1)
    BY <1>0, GotoMoves, ExitMoves DEF MixinOfKey
  <1>2. ~touched'[c] /\ stdout'[c] = NULL
    BY <1>0 DEF CallerInv, NotYet
  <1>3. NotYet(c)' /\ OwnSecret(c)' /\ Answered(c)'
    BY <1>1, <1>2, OneIsFailure DEF NotYet, OwnSecret, Answered, Ended
  <1>4. CallerInv(c)'
    BY <1>1, <1>3 DEF CallerInv
  <1> QED
    BY <1>0, <1>1, <1>4, StepEnough DEF TypeOK

\* No step of a script breaks the invariant.
LEMMA CallerStepInv ==
    ASSUME NEW c \in Caller, Inv, CallerStep(c)
    PROVE  Inv'
  <1>0. TypeOK /\ CallerInv(c)
    BY DEF Inv
  <1>1. CASE Arguments(c)
    <2>1. \/ ExitWith(c, 1)
          \/ Goto(c, "enumerate") /\ MixinOfKey(c)'
      <3>1. CASE Goto(c, "enumerate")
        <4>1. pc'[c] = "enumerate"
          BY <1>0, <3>1, GotoMoves DEF Labels
        <4> QED
          BY <3>1, <4>1 DEF MixinOfKey
      <3> QED
        BY <1>1, <3>1 DEF Arguments
    <2> QED
      BY <1>0, <1>1, <2>1, EarlyStep DEF Arguments, Ended, Labels, TypeOK
  <1>2. CASE Enumerate(c)
    <2> DEFINE label == IF IsKeyscript(c) THEN "generate"
                        ELSE IF Confirms(c) THEN "notify" ELSE "fingerprint"
    <2>1. \/ ExitWith(c, 1)
          \/ Goto(c, label)
      BY <1>2 DEF Enumerate
    <2>2. CASE Goto(c, label)
      <3>1. pc'[c] = label
        BY <1>0, <2>2, GotoMoves DEF Labels
      <3>2. MixinOfKey(c)'
        BY <1>2, <3>1 DEF MixinOfKey, Enumerate, IsKeyscript, Confirms
      <3> QED
        BY <1>0, <1>2, <2>2, <3>2, EarlyStep
           DEF Enumerate, Ended, Labels, TypeOK
    <2>3. CASE ExitWith(c, 1)
      BY <1>0, <1>2, <2>3, EarlyStep DEF Enumerate, Ended, TypeOK
    <2> QED
      BY <2>1, <2>2, <2>3
  <1>3. CASE Fingerprint(c)
    <2> DEFINE key == call[c].key
    <2>1. \/ ExitWith(c, 1) /\ UNCHANGED mixin
          \/ /\ Goto(c, "notify")
             /\ mixin' = [mixin EXCEPT ![c] = key]
             /\ key # NULL
      BY <1>3 DEF Fingerprint, FingerprintOf, KeyfileNamed
    <2>2. key \in SshKey \union {NULL}
      BY <1>0 DEF TypeOK, Calls
    <2>3. CASE ExitWith(c, 1) /\ UNCHANGED mixin
      BY <1>0, <1>3, <2>3, EarlyStep DEF Fingerprint, Ended, TypeOK
    <2>4. CASE /\ Goto(c, "notify")
               /\ mixin' = [mixin EXCEPT ![c] = key]
      <3>1. /\ mixin' \in [Caller -> SshKey \union {"", NULL}]
            /\ \A d \in Caller \ {c} : mixin'[d] = mixin[d]
            /\ mixin'[c] = key
        BY <1>0, <2>2, <2>4 DEF TypeOK
      <3>2. MixinOfKey(c)'
        BY <1>3, <3>1 DEF MixinOfKey, Fingerprint
      <3> QED
        BY <1>3, <2>4, <3>1, <3>2, EarlyStep DEF Fingerprint, Ended, Labels
    <2> QED
      BY <2>1, <2>3, <2>4
  <1>4. CASE Notify(c)
    <2>1. CASE ExitWith(c, 1) /\ UNCHANGED mixin
      BY <1>0, <1>4, <2>1, EarlyStep DEF Notify, Ended, TypeOK
    <2>2. CASE /\ Goto(c, "generate")
               /\ mixin' = [mixin EXCEPT ![c] = IF Confirms(c) THEN "" ELSE @]
      <3>1. /\ mixin' \in [Caller -> SshKey \union {"", NULL}]
            /\ \A d \in Caller \ {c} : mixin'[d] = mixin[d]
            /\ mixin'[c] = IF Confirms(c) THEN "" ELSE mixin[c]
        BY <1>0, <2>2 DEF TypeOK
      <3>2. MixinOfKey(c)'
        BY <1>0, <1>4, <3>1
           DEF CallerInv, MixinOfKey, Notify, Confirms, IsKeyscript
      <3> QED
        BY <1>4, <2>2, <3>1, <3>2, EarlyStep DEF Notify, Ended, Labels
    <2> QED
      BY <1>4, <2>1, <2>2 DEF Notify
  <1>5. CASE Generate(c)
    <2>1. PICK result \in {EXIT_SUCCESS, EXIT_BAD_PASSPHRASE,
                           EXIT_AUTHENTICATOR_ERROR,
                           EXIT_NO_VALID_AUTHENTICATOR, EXIT_NO_DEVICES} :
             /\ ExitWith(c, StatusOf(c, result))
             /\ touched' = [touched EXCEPT ![c] = result = EXIT_SUCCESS]
             /\ stdout' = [stdout EXCEPT ![c] =
                              IF result = EXIT_SUCCESS /\ ~Confirms(c)
                              THEN Secret(c) ELSE NULL]
      BY <1>5 DEF Generate
    <2>2. Secret(c) \in Secrets /\ Secret(c) # NULL
      <3>1. mixin[c] \in SshKey \union {"", NULL}
        BY <1>0 DEF TypeOK
      <3>2. Secret(c) \in Secrets
        BY <3>1 DEF Secret, Secrets
      <3> QED
        BY <3>2, CallersAssumption
    <2>3. result \in Nat
      BY DEF EXIT_SUCCESS, EXIT_BAD_PASSPHRASE, EXIT_AUTHENTICATOR_ERROR,
         EXIT_NO_VALID_AUTHENTICATOR, EXIT_NO_DEVICES, EXIT_H_USER_ERROR_BITS,
         EXIT_H_RUNTIME_ERROR_BITS
    <2>4. /\ StatusOf(c, result) \in Nat
          /\ StatusOf(c, result) = EXIT_SUCCESS <=> result = EXIT_SUCCESS
      <3>1. CASE IsKeyscript(c) /\ result # EXIT_SUCCESS
        BY <3>1, OneIsFailure DEF StatusOf
      <3>2. CASE ~(IsKeyscript(c) /\ result # EXIT_SUCCESS)
        BY <2>3, <3>2 DEF StatusOf
      <3> QED
        BY <3>1, <3>2
    <2>5. Moved(c) /\ pc'[c] = "ended" /\ status'[c] = StatusOf(c, result)
      BY <1>0, <2>1, <2>4, ExitMoves
    <2>6. /\ touched' \in [Caller -> BOOLEAN]
          /\ touched'[c] <=> result = EXIT_SUCCESS
          /\ \A d \in Caller \ {c} : touched'[d] = touched[d]
      BY <1>0, <2>1 DEF TypeOK
    <2>7. /\ stdout' \in [Caller -> Secrets \union {NULL}]
          /\ stdout'[c] = IF result = EXIT_SUCCESS /\ ~Confirms(c)
                          THEN Secret(c) ELSE NULL
          /\ \A d \in Caller \ {c} : stdout'[d] = stdout[d]
      BY <1>0, <2>1, <2>2 DEF TypeOK
    <2>8. CallerInv(c)'
      <3>1. NotYet(c)' /\ MixinOfKey(c)'
        BY <2>5 DEF NotYet, MixinOfKey, Ended
      <3>2. OwnSecret(c)'
        BY <1>0, <1>5, <2>7 DEF CallerInv, MixinOfKey, OwnSecret, Generate,
           IsKeyscript, Confirms, Secret
      <3>3. Answered(c)'
        BY <1>5, <2>2, <2>4, <2>5, <2>6, <2>7 DEF Answered, Generate, Confirms
      <3> QED
        BY <3>1, <3>2, <3>3 DEF CallerInv
    <2> QED
      BY <1>0, <1>5, <2>5, <2>6, <2>7, <2>8, StepEnough DEF TypeOK, Generate
  <1> QED
    BY <1>1, <1>2, <1>3, <1>4, <1>5 DEF CallerStep

\* No step breaks the invariant.
LEMMA InvNext == Inv /\ [Next]_vars => Inv'
  <1> SUFFICES ASSUME Inv, [Next]_vars PROVE Inv'
    OBVIOUS
  <1>1. CASE \E c \in Caller : CallerStep(c)
    BY <1>1, CallerStepInv
  <1>2. CASE UNCHANGED << call, pc, status, mixin, touched, stdout >>
    BY <1>2, OthersInv DEF Inv, TypeOK
  <1> QED
    BY <1>1, <1>2 DEF Next, Plug, Over, vars

-----------------------------------------------------------------------------
(* The theorems *)

\* The invariant holds in every state.
LEMMA Invariant == Spec => []Inv
  BY InvInit, InvNext, PTL DEF Spec

\* One secret for each ssh key: whoever asks about a key is given the same one,
\* and nobody is given that of another key.
THEOREM KeysApart == Spec => []SecretsApart
  <1>1. Inv => SecretsApart
    <2> SUFFICES ASSUME Inv, NEW c \in Caller, NEW d \in Caller,
                        stdout[c] # NULL, ~IsKeyscript(c),
                        stdout[d] # NULL, ~IsKeyscript(d)
                 PROVE  stdout[c] = stdout[d] <=> call[c].key = call[d].key
      BY DEF SecretsApart
    <2>1. /\ stdout[c] = [keyfile |-> "ssh-askpass", mixin |-> call[c].key]
          /\ stdout[d] = [keyfile |-> "ssh-askpass", mixin |-> call[d].key]
      BY DEF Inv, CallerInv, OwnSecret
    <2>2. \A k, l : [keyfile |-> "ssh-askpass", mixin |-> k]
                     = [keyfile |-> "ssh-askpass", mixin |-> l] => k = l
      <3> TAKE k, l
      <3> DEFINE S(x) == [keyfile |-> "ssh-askpass", mixin |-> x]
      <3>1. S(k).mixin = k /\ S(l).mixin = l
        OBVIOUS
      <3> HIDE DEF S
      <3>2. S(k) = S(l) => k = l
        BY <3>1
      <3> QED
        BY <3>2 DEF S
    <2> QED
      BY <2>1, <2>2
  <1> QED
    BY <1>1, Invariant, PTL

\* The status 0 is given exactly when the authenticator was touched, and then
\* with a secret, unless the user only had to confirm.
THEOREM AnsweredTruly == Spec => []SuccessMeansAnswered
  <1>1. Inv => SuccessMeansAnswered
    BY DEF Inv, CallerInv, Answered, SuccessMeansAnswered
  <1> QED
    BY <1>1, Invariant, PTL

=============================================================================
