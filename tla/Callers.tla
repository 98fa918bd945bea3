------------------------------ MODULE Callers ------------------------------
(***************************************************************************)
(* The scripts that run khefin for another program and answer with what it *)
(* prints: scripts/ssh-askpass.m4 for ssh-add, ssh-agent and the user, and *)
(* scripts/initramfs-tools/keyscript.m4 for cryptsetup.  Each caller runs  *)
(* one script once; callers, and the user's hand on the authenticator,     *)
(* interleave.                                                             *)
(*                                                                         *)
(* ssh-askpass is a bash script under set -euo pipefail: a failed command, *)
(* also in the middle of a pipe or in a $(...) that is assigned, ends it.  *)
(***************************************************************************)
EXTENDS ExitCodes, FiniteSets

CONSTANTS
    NULL,
    Caller,         \* who runs one of the scripts, once
    SshKey          \* the private keys of ssh

\* The prompts of ssh-askpass that the script tells apart.
Prompts ==
    { "get-passphrase", "Allow use of key", "Enter passphrase for",
      "Enter passphrase for (will confirm each use)", "another" }

\* What khefin prints for a script, by its keyfile and mixin.
Secrets == [keyfile : {"ssh-askpass", "keyscript"},
            mixin : SshKey \union {"", NULL}]

ASSUME CallersAssumption ==
    /\ NULL \notin SshKey \union Secrets
    /\ SshKey \intersect {"", "keyscript"} = {}

Calls ==
    [script : {"ssh-askpass"}, prompt : Prompts, key : SshKey]
    \union [script : {"keyscript"}, prompt : {""}, key : {NULL}]

VARIABLES
    call,           \* what each caller asks for
    pc,
    status,         \* the exit status of the script
    mixin,          \* the fingerprint, "" or NULL: what generate is given
    touched,        \* whether a generate of the caller succeeded
    stdout,         \* what the caller is given: NULL or a secret
    plugged         \* whether the authenticator is there

vars == << call, pc, status, mixin, touched, stdout, plugged >>

Init ==
    /\ call \in [Caller -> Calls]
    /\ pc = [c \in Caller |-> "arguments"]
    /\ status = [c \in Caller |-> 0]
    /\ mixin = [c \in Caller |-> NULL]
    /\ touched = [c \in Caller |-> FALSE]
    /\ stdout = [c \in Caller |-> NULL]
    /\ plugged \in BOOLEAN

Ended(c) == pc[c] = "ended"

Goto(c, label) == pc' = [pc EXCEPT ![c] = label] /\ UNCHANGED status

ExitWith(c, code) ==
    pc' = [pc EXCEPT ![c] = "ended"] /\ status' = [status EXCEPT ![c] = code]

IsKeyscript(c) == call[c].script = "keyscript"

Confirms(c) == call[c].prompt = "Allow use of key"

-----------------------------------------------------------------------------
(* The steps of the scripts *)

\* An argument or the keyfile of khefin may be missing, or khefin itself.
Arguments(c) ==
    /\ pc[c] = "arguments"
    /\ Goto(c, "enumerate") \/ ExitWith(c, 1)
    /\ UNCHANGED << call, mixin, touched, stdout, plugged >>

\* What khefin enumerate exits with; 65 for a device it cannot talk to.
enumerate_statuses ==
    IF plugged THEN {EXIT_SUCCESS, EXIT_AUTHENTICATOR_ERROR}
               ELSE {EXIT_NO_DEVICES, EXIT_AUTHENTICATOR_ERROR}

\* Mutant: where there is no device the script starts over.
Enumerate_again(c) ==
    /\ pc[c] = "enumerate"
    /\ \E result \in enumerate_statuses :
          Goto(c, IF result = EXIT_NO_DEVICES THEN "arguments" ELSE "generate")
    /\ UNCHANGED << call, mixin, touched, stdout, plugged >>

\* Only the status that says that there is no device stops the script.  (The
\* notification of it may fail: set -e is off.)
Enumerate(c) ==
    /\ pc[c] = "enumerate"
    /\ \E result \in enumerate_statuses :
          IF result = EXIT_NO_DEVICES THEN ExitWith(c, 1)
          ELSE Goto(c, IF IsKeyscript(c) THEN "generate"
                       ELSE IF Confirms(c) THEN "notify" ELSE "fingerprint")
    /\ UNCHANGED << call, mixin, touched, stdout, plugged >>

\* The private key that an argument or a prompt names, by sed: a prompt of
\* another form is taken for the name of a file as it is, and there is none.
KeyfileNamed(prompt, key) == IF prompt = "another" THEN NULL ELSE key

\* Mutant: without pipefail the fingerprint of what ssh-keygen cannot read
\* is empty.
FingerprintOf_unchecked(key, readable) == IF readable THEN key ELSE ""

\* ssh-keygen -l | cut: NULL where it fails.
FingerprintOf(key, readable) == IF readable THEN key ELSE NULL

Fingerprint(c) ==
    /\ pc[c] = "fingerprint"
    /\ LET keyfile == KeyfileNamed(call[c].prompt, call[c].key) IN
       \E exists, readable \in BOOLEAN :
          LET fingerprint == FingerprintOf(keyfile, readable) IN
          IF keyfile = NULL \/ ~exists \/ fingerprint = NULL
          THEN ExitWith(c, 1) /\ UNCHANGED mixin
          ELSE Goto(c, "notify") /\ mixin' = [mixin EXCEPT ![c] = fingerprint]
    /\ UNCHANGED << call, touched, stdout, plugged >>

\* A notification that fails ends the script.
Notify(c) ==
    /\ pc[c] = "notify"
    /\ \/ /\ Goto(c, "generate")
          /\ mixin' = [mixin EXCEPT ![c] = IF Confirms(c) THEN "" ELSE @]
       \/ ExitWith(c, 1) /\ UNCHANGED mixin
    /\ UNCHANGED << call, touched, stdout, plugged >>

\* The secret that khefin prints is determined by its keyfile and the mixin.
Secret(c) ==
    [keyfile |-> IF IsKeyscript(c) THEN "keyscript" ELSE "ssh-askpass",
     mixin   |-> mixin[c]]

\* Mutant: what decrypt_khefin returns is not looked at.
StatusOf_ignored(c, result) == IF IsKeyscript(c) THEN 0 ELSE result

\* The keyscript says 1 for any failure, ssh-askpass what khefin said.
StatusOf(c, result) ==
    IF IsKeyscript(c) /\ result # EXIT_SUCCESS THEN 1 ELSE result

\* khefin generate, as generate.c promises: a secret and 0, or neither.  The
\* answer to a request to allow the use of a key is the status alone.
Generate(c) ==
    /\ pc[c] = "generate"
    /\ \E result \in {EXIT_SUCCESS, EXIT_BAD_PASSPHRASE, EXIT_AUTHENTICATOR_ERROR,
                      EXIT_NO_VALID_AUTHENTICATOR, EXIT_NO_DEVICES} :
          /\ result = EXIT_SUCCESS => plugged
          /\ ExitWith(c, StatusOf(c, result))
          /\ touched' = [touched EXCEPT ![c] = result = EXIT_SUCCESS]
          /\ stdout' = [stdout EXCEPT ![c] =
                           IF result = EXIT_SUCCESS /\ ~Confirms(c)
                           THEN Secret(c) ELSE NULL]
    /\ UNCHANGED << call, mixin, plugged >>

CallerStep(c) ==
    Arguments(c) \/ Enumerate(c) \/ Fingerprint(c) \/ Notify(c) \/ Generate(c)

Plug ==
    /\ \E c \in Caller : ~Ended(c)
    /\ plugged' = ~plugged
    /\ UNCHANGED << call, pc, status, mixin, touched, stdout >>

Over == (\A c \in Caller : Ended(c)) /\ UNCHANGED vars

Next == (\E c \in Caller : CallerStep(c)) \/ Plug \/ Over

\* The commands a script runs end, and the script goes on.
Spec == Init /\ [][Next]_vars
FairSpec == Spec /\ \A c \in Caller : WF_vars(CallerStep(c))

-----------------------------------------------------------------------------
(* What makes the scripts correct *)

\* The passphrase of an ssh key is its own, and the same whenever it is asked
\* for: what get-passphrase gave when the key was set up is what ssh-add gets
\* later, and no two keys have one passphrase (man/1/khefin-ssh-askpass.m4).
SecretsApart ==
    \A c, d \in Caller :
        {c, d} \subseteq { x \in Caller : stdout[x] # NULL /\ ~IsKeyscript(x) } =>
            (stdout[c] = stdout[d] <=> call[c].key = call[d].key)

\* A script says 0 exactly when the authenticator has answered it, and then
\* cryptsetup or ssh-add has a secret.
SuccessMeansAnswered ==
    \A c \in Caller : Ended(c) =>
        /\ status[c] = EXIT_SUCCESS <=> touched[c]
        /\ touched[c] /\ ~Confirms(c) => stdout[c] # NULL

\* A script that was called ends.
CallersEnd == \A c \in Caller : <>Ended(c)

=============================================================================
