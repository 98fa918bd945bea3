------------------------------- MODULE Khefin -------------------------------
(***************************************************************************)
(* khefin: any number of enrol and generate processes that share keyfiles  *)
(* and authenticators, on a machine where devices come and go, keyfiles    *)
(* are damaged and processes die.                                          *)
(***************************************************************************)
EXTENDS Enrol, Generate

vars == << machineVars, authenticatorVars, enrolVars, generateVars >>

NoInvocation == [ subcommand |-> NULL, device |-> NULL, file |-> NULL,
                  passphrase |-> NULL, authenticator_pin |-> NULL,
                  mixin |-> NULL, obfuscate_device_info |-> FALSE,
                  kdf_hardness |-> NULL ]

\* Nobody has started, there is no keyfile, and every device is as it was
\* when its PIN was last entered right.
Init ==
    /\ pc = [p \in Proc |-> "ready"]
    /\ exit = [p \in Proc |-> EXIT_SUCCESS]
    /\ inv = [p \in Proc |-> NoInvocation]
    /\ held = [p \in Proc |-> {}]
    /\ cleartext = [p \in Proc |-> NULL]
    /\ disk = [f \in File |-> NULL]
    /\ damages = [f \in File |-> 0]
    /\ port \in Plugged
    /\ hotplugs = 0
    /\ retries = [d \in Device |-> MaxPinRetries]
    /\ device = [p \in Proc |-> NoHandle]
    /\ params = [p \in Proc |-> NoParams]
    /\ credentials = {}
    /\ devices_list = [p \in Proc |-> << >>]
    /\ i = [p \in Proc |-> 1]
    /\ length = [p \in Proc |-> 0]
    /\ data = [p \in Proc |-> NULL]
    /\ out = [p \in Proc |-> NULL]
    /\ log = [p \in Proc |-> << >>]

\* One step of the program text of a process.
Step(p) ==
    \/ EnrolStep(p) /\ UNCHANGED generateVars
    \/ GenerateStep(p) /\ UNCHANGED enrolVars

\* What happens to a process.
Fate(p) ==
    /\ Start(p) \/ Kill(p) \/ OutOfMemory(p)
    /\ UNCHANGED << authenticatorVars, enrolVars, generateVars >>

\* What happens around the processes.
World ==
    \/ \E f \in File : Damage(f) /\ UNCHANGED << authenticatorVars, enrolVars,
                                                 generateVars >>
    \/ \E x \in Port : /\ \/ Unplug(x)
                          \/ \E d \in Device : Plug(x, d)
                       /\ UNCHANGED << enrolVars, generateVars >>

\* Everybody is done: the machine may stay as it is.
Idle == (\A p \in Proc : Ended(p)) /\ UNCHANGED vars

Next == World \/ Idle \/ \E p \in Proc : Step(p) \/ Fate(p)

Spec == Init /\ [][Next]_vars

\* A process that can take its next step takes it: the scheduler runs it,
\* libfido2 times out on a device that does not answer, and the user answers
\* a prompt or closes it.  Nobody has to start, kill, plug or damage.
FairSpec == Spec /\ \A p \in Proc : WF_vars(Step(p))

-----------------------------------------------------------------------------
(* Types *)

EnrolLabels ==
    { "enrol: get_device", "enrol: get_device_info",
      "enrol: prompt_for_secret", "enrol: create_credential",
      "enrol: build_deserialized_cleartext", "enrol: fopen", "enrol: fclose" }

\* Generate before its passphrase is known to be right, and after.
LockedLabels ==
    { "generate: list_devices", "generate: fopen", "generate: fread",
      "generate: load_cleartext", "generate: derive_key" }

UnlockedLabels ==
    { "generate: get_device", "generate: get_device_info",
      "generate: prompt_for_secret", "generate: get_secret" }

Labels == EnrolLabels \union LockedLabels \union UnlockedLabels
              \union { "ready", "exited", "killed" }

\* Type correctness of the control state and of what the processes share.
TypeOK ==
    /\ pc \in [Proc -> Labels]
    /\ exit \in [Proc -> ExitCodes]
    /\ DOMAIN inv = Proc
    /\ \A p \in Proc : inv[p] \in CommandLine[p] \union {NoInvocation}
    /\ held \in [Proc -> SUBSET {"passphrase", "pin"}]
    /\ DOMAIN disk = File
    /\ damages \in [File -> 0 .. MaxDamages]
    /\ port \in [Port -> Device \union {NULL}]
    /\ hotplugs \in 0 .. MaxHotplugs
    /\ retries \in [Device -> 0 .. MaxPinRetries]
    /\ device \in [Proc -> [id : Device \union {NULL}, live : BOOLEAN]]
    /\ credentials \subseteq [device : Device, rp : Proc]
    /\ devices_list \in [Proc -> Seq(Port)]
    /\ i \in [Proc -> Nat \ {0}]

-----------------------------------------------------------------------------
(* What the properties talk about *)

Enrols(p)    == inv[p].subcommand = "enrol"
Generates(p) == inv[p].subcommand = "generate"

\* The plain text that the enrolment q sealed around a credential.
SecretsSealedBy(q, credential) ==
    serialize_secrets_to_cbor_v1(
        SecretsOf([NoParams EXCEPT
            !.relying_party_id = q,
            !.credential_id = Bytes(CredentialSize[credential.device],
                                    credential),
            !.salt = FreshSalt(q)]))

\* A box that the enrolment q made, for a credential of its own.
MadeBy(box, q) ==
    /\ Enrols(q)
    /\ box.key.passphrase = inv[q].passphrase
    /\ \E credential \in credentials :
          /\ credential.rp = q
          /\ box.plain = SecretsSealedBy(q, credential)

\* The keyfile of an enrolment, as its passphrase must find it.
OpensWith(clear, passphrase) ==
    SecretBoxOpens(clear,
        PasswordHash(
            make_key_spec_from_passphrase_and_cleartext(passphrase, clear)))

\* A whole keyfile that the passphrase of some enrolment opens.
Whole(file) ==
    /\ IsCleartextV1(cbor_load(file))
    /\ \E q \in Proc :
          LET clear == deserialize_cleartext_from_cbor_v1(cbor_load(file)) IN
          /\ MadeBy(clear.encrypted_data.val, q)
          /\ OpensWith(clear, inv[q].passphrase)

\* Somebody enrolled with the passphrase that this process was given.
PassphraseWasEnrolled(p) ==
    \E q \in Proc :
       /\ Enrols(q)
       /\ inv[q].passphrase = inv[p].passphrase
       /\ \E credential \in credentials : credential.rp = q

-----------------------------------------------------------------------------
(* Safety *)

\* A secret that generate prints is the hmac-secret of one enrolment: of the
\* credential made then, for the salt drawn then combined with the mixin of
\* this command line, and the passphrase is the one enrolled with.  Damaged
\* and half-written keyfiles, other enrolments of the same file and moving
\* devices never make it print anything else.
SecretIsBound ==
    \A p \in Proc : out[p] # NULL =>
        \E q \in Proc : \E credential \in credentials :
            /\ Enrols(q)
            /\ inv[q].passphrase = inv[p].passphrase
            /\ credential.rp = q
            /\ out[p] = Hmac(credential, [base |-> q, mixin |-> inv[p].mixin])

\* A wrong passphrase stops generate before it talks to any device: no
\* request, no PIN attempt and no verdict about devices without an enrolment
\* under that passphrase.
UnlockedFirst ==
    \A p \in Proc :
        \/ pc[p] \in UnlockedLabels
        \/ log[p] # << >>
        \/ Exited(p, EXIT_NO_DEVICES)
        \/ Exited(p, EXIT_NO_VALID_AUTHENTICATOR)
        => PassphraseWasEnrolled(p)

\* "Bad passphrase" is said only of a passphrase that is not the one the
\* keyfile was sealed under, as long as nobody damaged the keyfile.
BadPassphraseIsTrue ==
    \A p \in Proc :
        Exited(p, EXIT_BAD_PASSPHRASE) /\ damages[inv[p].file] = 0 =>
            cleartext[p].encrypted_data.val.key.passphrase
                # inv[p].passphrase

\* Enrolments that race for a keyfile, and generates that read it meanwhile,
\* leave a whole keyfile behind once no enrolment of it is between opening
\* and closing the file, unless one was killed there.
KeyfileWholeWhenQuiet ==
    \A f \in File :
        \/ disk[f] = NULL
        \/ damages[f] > 0
        \/ \E p \in Proc : /\ Enrols(p)
                           /\ inv[p].file = f
                           /\ pc[p] \in {"enrol: fclose", "killed"}
        \/ Whole(disk[f])

\* At the end of its list, generate has asked the authenticator that the
\* keyfile was enrolled with if that one was listed, for its PIN or for the
\* secret: nothing skipped it.
EnrolledNeverPassedOver ==
    \A p \in Proc :
        pc[p] = "generate: get_device" /\ ~MoreDevices(p) /\ hotplugs = 0 =>
            LET enrolled == params[p].credential_id.val.device
                aaguid == cleartext[p].device_aaguid
            IN  (/\ aaguid.size = 0 \/ aaguid.val = Aaguid[enrolled]
                 /\ \E k \in DOMAIN devices_list[p] :
                       port[devices_list[p][k]] = enrolled)
                => \E k \in DOMAIN log[p] : log[p][k].device = enrolled

\* The device told the process that its PIN is wrong, or, when that cost the
\* last retry, that it is blocked, which enrol calls an authenticator error.
ToldOfPin(p, d) ==
    \/ /\ Enrols(p)
       /\ device[p].id = d
       /\ Exited(p, EXIT_BAD_PIN) \/ Exited(p, EXIT_AUTHENTICATOR_ERROR)
    \/ \E k \in DOMAIN log[p] :
          /\ log[p][k].device = d
          /\ log[p][k].answer \in {"FIDO_ERR_PIN_INVALID",
                                   "FIDO_ERR_PIN_BLOCKED"}

\* Every PIN retry a device has lost was spent by a process of its own that
\* was told so: no invocation tries a wrong PIN twice on a device.
PinRetriesAccounted ==
    hotplugs = 0 =>
        \A d \in Device :
            MaxPinRetries - retries[d] <=
                Cardinality({p \in Proc : ToldOfPin(p, d)})

\* A keyfile changes only when somebody damages it, or when an enrolment
\* writes it that already holds the sealed replacement, which the passphrase
\* of that enrolment opens.  An enrolment that fails leaves the old keyfile.
ReplacementReady ==
    [][ \A f \in File : disk'[f] # disk[f] =>
            \/ damages'[f] # damages[f]
            \/ \E p \in Proc :
                  /\ Enrols(p) /\ inv[p].file = f
                  /\ pc[p] \in {"enrol: fopen", "enrol: fclose"}
                  /\ MadeBy(cleartext[p].encrypted_data.val, p)
                  /\ OpensWith(cleartext[p], inv[p].passphrase)
      ]_vars

-----------------------------------------------------------------------------
(* Liveness *)

\* An invocation that has started ends.
EveryInvocationEnds == \A p \in Proc : Running(p) ~> Ended(p)

-----------------------------------------------------------------------------
(* The abstract specification: keyfiles, handles, PINs and retries are     *)
(* forgotten, and what is left is who asked what, who ended, which         *)
(* authenticators are plugged in, where each enrolment has its credential, *)
(* and what was printed.                                                   *)

QuestionOf(c) ==
    [wants |-> c.subcommand, passphrase |-> c.passphrase, mixin |-> c.mixin]

\* NULL is nobody's question.
ASSUME KhefinAssumption ==
    \A p \in Proc : \A c \in CommandLine[p] : QuestionOf(c) # NULL

EnrolledOn(q) ==
    IF \E credential \in credentials : credential.rp = q
    THEN (CHOOSE credential \in credentials : credential.rp = q).device
    ELSE NULL

Printed(p) ==
    IF out[p] = NULL THEN NULL
    ELSE [ credential |-> out[p].credential.rp,
           salt       |-> out[p].salt.base,
           device     |-> out[p].credential.device,
           mixin      |-> out[p].salt.mixin ]

Oracle == INSTANCE SecretOracle WITH
    Question <- [p \in Proc |-> { QuestionOf(c) : c \in CommandLine[p] }],
    asked    <- [p \in Proc |-> IF inv[p] = NoInvocation THEN NULL
                                ELSE QuestionOf(inv[p])],
    ended    <- { p \in Proc : Ended(p) },
    attached <- { d \in Device : Present(d) },
    enrolled <- [q \in Proc |-> EnrolledOn(q)],
    answer   <- [p \in Proc |-> Printed(p)]

\* khefin implements the oracle: a step of a process, of the disk or of the
\* user is a step of the oracle or none, a secret is printed only while the
\* authenticator it was enrolled on is plugged in, and every question is
\* closed in the end.
ImplementsOracle == Oracle!FairSpec

-----------------------------------------------------------------------------
(* What the documentation says and the code does not do *)

\* man/1/khefin.m4:67: with --obfuscate-device-info the AAGUID is not stored.
ObfuscationHidesDevice ==
    \A p \in Proc :
        pc[p] = "enrol: fclose" /\ inv[p].obfuscate_device_info =>
            cleartext[p].device_aaguid.size = 0

\* INTERNALS.md:26: with an empty AAGUID every device that has hmac-secret is
\* tried.  (Unless one of those that were asked failed.)
EveryDeviceTried ==
    \A p \in Proc :
        /\ Generates(p)
        /\ Exited(p, EXIT_AUTHENTICATOR_ERROR)
        /\ cleartext[p] # NULL
        /\ \A k \in DOMAIN log[p] : log[p][k].answer \in SoftAnswers
        => \A k \in DOMAIN devices_list[p] :
              LET d == port[devices_list[p][k]] IN
              d \in HmacSecret /\ cleartext[p].device_aaguid.size = 0 =>
                  \E n \in DOMAIN log[p] : log[p][n].device = d

\* man/1/khefin.m4:110: one PIN for each PIN-protected authenticator.  A
\* device that has no PIN is given none.
PinlessGetsNoPin ==
    \A p \in Proc : \A k \in DOMAIN log[p] :
        DevicePin[log[p][k].device] = NULL => log[p][k].pin = NULL

\* man/1/khefin.m4:119: the exit status 0 is success: the keyfile is there.
SuccessMeansWritten ==
    \A p \in Proc :
        Enrols(p) /\ Exited(p, EXIT_SUCCESS) /\ damages[inv[p].file] = 0 =>
            IsCleartextV1(cbor_load(disk[inv[p].file]))

\* man/1/khefin.m4:27, 119: generate generates the secret, the exit status 0 is
\* success: the secret was printed.
SuccessMeansPrinted ==
    \A p \in Proc : Generates(p) /\ Exited(p, EXIT_SUCCESS) => out[p] # NULL

\* man/1/khefin.m4:118: the exit statuses of the manual.
DocumentedStatuses == ExitCodes \ {EXIT_BAD_PIN}
StatusIsDocumented ==
    \A p \in Proc : pc[p] = "exited" => exit[p] \in DocumentedStatuses

\* man/1/khefin.m4:139, 163: a corrupt keyfile is status 36; status 96 is
\* evidence of a bug.
CorruptKeyfileIsNoBug ==
    \A p \in Proc : ~Exited(p, EXIT_PROGRAMMER_ERROR)

\* INTERNALS.md:28: any modification of any field, the nonce among them,
\* renders the key unusable.
ModifiedNonceIsUseless ==
    \A p \in Proc :
        pc[p] \in UnlockedLabels => cleartext[p].nonce.size = crypto_box_NONCEBYTES

=============================================================================
