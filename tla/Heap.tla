-------------------------------- MODULE Heap --------------------------------
(***************************************************************************)
(* The memory of one enrol or generate: which blocks it has allocated,     *)
(* which secrets are in them, and which secrets stay behind in memory that *)
(* was freed or lost without being zeroed.  Every step of the program is   *)
(* made of calls of malloc, sodium_memzero and free, and uses of what it   *)
(* has, each a function of the memory; so are the functions of the program *)
(* that free a structure.                                                  *)
(*                                                                         *)
(* A process that exits in the middle frees nothing more: the system takes *)
(* all of its memory, so only what a process does before is followed.      *)
(***************************************************************************)
EXTENDS ExitCodes, Sequences

CONSTANTS
    MaxDevices,     \* bound: devices that generate lists
    MaxOptions      \* bound: options of the command line that bring a secret

ASSUME HeapAssumption == MaxDevices \in Nat /\ MaxOptions \in Nat

VARIABLES
    pc,
    status,        \* what main returns, or the process exits with
    argv,          \* the options -p, -r and -n of the command line
    optind,        \* ... and which of them is looked at next
    devices,       \* how many devices are left in the list
    listed,        \* ... and were at the start
    memory         \* the blocks, the secrets, the mistakes

vars == << pc, status, argv, optind, devices, listed, memory >>

\* "passphrase_file" is the text that was read from the file of -r, and
\* "replaced" a passphrase or a PIN that a later option takes the place of.
Secrets ==
    { "passphrase", "passphrase_file", "pin", "replaced", "key", "enrolment",
      "secret" }

ParamsBlocks ==
    { "params", "relying_party_id", "credential_id", "salt",
      "authenticator_pin" }

Blocks ==
    ParamsBlocks \union
    { "invocation", "invocation.passphrase", "invocation.pin",
      "key_spec", "key_spec.passphrase", "key_bytes", "cleartext",
      "deserialized_secrets", "decrypted", "cbor", "serialized", "file",
      "devices_list", "device", "device_info", "credential", "assertion",
      "secret_t", "secret" }

-----------------------------------------------------------------------------
(* What a call does to the memory *)

Memory ==
    [ state   : [Blocks -> {"null", "live", "freed"}],
      holds   : [Blocks -> SUBSET Secrets],
      residue : SUBSET Secrets,
      fault   : BOOLEAN ]

\* A pointer that is overwritten loses its block, with what is in it.
malloc(block, secrets) ==
    [m \in Memory |->
        [m EXCEPT !.state[block] = "live",
                  !.holds[block] = secrets,
                  !.residue = @ \union m.holds[block]]]

zero(block) ==
    [m \in Memory |->
        [m EXCEPT !.holds[block] = {},
                  !.fault = @ \/ m.state[block] # "live"]]

free(block) ==
    [m \in Memory |->
        [m EXCEPT !.state[block] = "freed",
                  !.holds[block] = {},
                  !.residue = @ \union m.holds[block],
                  !.fault = @ \/ m.state[block] # "live"]]

use(block) ==
    [m \in Memory |-> [m EXCEPT !.fault = @ \/ m.state[block] # "live"]]

null(block) == [m \in Memory |-> [m EXCEPT !.state[block] = "null"]]

\* if (block != NULL) ..., on a pointer that is NULL where nothing was ever
\* allocated or NULL was assigned after the block was freed.
if_set(block, calls) ==
    [m \in Memory |-> IF m.state[block] = "null" THEN m ELSE calls[m]]

if_null(block, calls) ==
    [m \in Memory |-> IF m.state[block] = "null" THEN calls[m] ELSE m]

\* Some calls and then others.
calls ** others == [m \in Memory |-> others[calls[m]]]

Step(label, calls) ==
    /\ pc' = label
    /\ memory' = calls[memory]

Return(label, code, calls) ==
    /\ Step(label, calls)
    /\ status' = code

Exit(code, calls) == Return("exited", code, calls)

\* Secrets that are somewhere in the memory of the process.
Remaining ==
    memory.residue \union UNION { memory.holds[b] : b \in Blocks }

-----------------------------------------------------------------------------
(* The functions that free *)

free_secret_field(block) == if_set(block, zero(block) ** free(block))

free_key_spec ==
    free_secret_field("key_spec.passphrase") ** free("key_spec")

free_key == zero("key_bytes") ** free("key_bytes")

free_parameters ==
    use("params")
    ** free_secret_field("relying_party_id")
    ** free_secret_field("credential_id") ** free_secret_field("salt")
    ** free_secret_field("authenticator_pin")
    ** free("params")

free_secrets == zero("deserialized_secrets") ** free("deserialized_secrets")

free_secret == if_set("secret", free("secret")) ** free("secret_t")

free_cleartext == free("cleartext")

\* Mutant: the passphrase is not zeroed.
free_invocation_unzeroed ==
    if_set("invocation.passphrase", free("invocation.passphrase"))
    ** free("invocation")

\* The PIN of the command line is not freed.
free_invocation ==
    free_secret_field("invocation.passphrase") ** free("invocation")

\* (A device that cannot be closed is not freed; there is no secret in it.)
close_and_free_device_ignoring_errors == use("device") ** free("device")

free_device_info == free("device_info")

free_devices_list == free("devices_list")

-----------------------------------------------------------------------------
(* parse_arguments_and_get_passphrase *)

Empty == [ state   |-> [b \in Blocks |-> "null"],
           holds   |-> [b \in Blocks |-> {}],
           residue |-> {},
           fault   |-> FALSE ]

\* The options that are there for the passphrase, and for the PIN.
PassphraseOptions == {"p", "r"}
PinOptions        == {"n"}

Options == PassphraseOptions \union PinOptions

\* Of the options for the same thing the last one counts.
IsLast(options, i, same) ==
    \A j \in DOMAIN options : j > i => options[j] \notin same

Given(secret, same) ==
    IF IsLast(argv, optind, same) THEN {secret} ELSE {"replaced"}

\* The buffer that the file was read into is freed as it is.
free_encoded_file == free("file")

read_file == malloc("file", {"passphrase_file"})

Init ==
    /\ pc = "getopt"
    /\ status = EXIT_SUCCESS
    /\ argv \in UNION { [1 .. n -> Options] : n \in 0 .. MaxOptions }
    /\ optind = 1
    /\ listed = 0
    /\ devices = 0
    /\ memory = malloc("invocation", {})[Empty]

\* One option; a copy that an earlier one left is lost.
GetOption ==
    LET passphrase == malloc("invocation.passphrase",
                             Given("passphrase", PassphraseOptions))
        pin == malloc("invocation.pin", Given("pin", PinOptions))
    IN
    /\ pc = "getopt"
    /\ optind \in DOMAIN argv
    /\ optind' = optind + 1
    /\ \/ /\ \/ argv[optind] = "p" /\ Step("getopt", passphrase)
             \/ argv[optind] = "n" /\ Step("getopt", pin)
             \/ /\ argv[optind] = "r"
                /\ Step("getopt", read_file ** passphrase ** free_encoded_file)
          /\ UNCHANGED status
       \/ /\ argv[optind] = "r"
          /\ Exit(EXIT_DESERIALIZATION_ERROR, malloc("file", {}))
    /\ UNCHANGED << argv, devices, listed >>

\* The line is one of the program's or not; a passphrase that it does not have
\* is asked for.
EndOptions ==
    LET prompt(secrets) == if_null("invocation.passphrase",
                                   malloc("invocation.passphrase", secrets))
    IN
    /\ pc = "getopt"
    /\ optind \notin DOMAIN argv
    /\ \/ /\ Step("enrol", prompt({"passphrase"}))
          /\ UNCHANGED << status, devices, listed >>
       \/ /\ Step("generate", prompt({"passphrase"}))
          /\ listed' \in 0 .. MaxDevices
          /\ devices' = listed'
          /\ UNCHANGED status
       \/ /\ memory.state["invocation.passphrase"] = "null"
          /\ Exit(EXIT_UNABLE_TO_GET_USER_SECRET, prompt({}))
          /\ UNCHANGED << devices, listed >>
       \/ /\ Exit(EXIT_BAD_INVOCATION, free_invocation)
          /\ UNCHANGED << devices, listed >>
    /\ UNCHANGED << argv, optind >>

get_device == malloc("device", {}) ** malloc("device_info", {})

\* The PIN is typed into its own block or copied there.
read_pin(pin) == malloc("authenticator_pin", pin)

-----------------------------------------------------------------------------
(* enrol_device *)

EnrolGetDevice ==
    /\ pc = "enrol"
    /\ \/ Step("enrol: params", get_device) /\ UNCHANGED status
       \/ Exit(EXIT_AUTHENTICATOR_ERROR, get_device ** free_device_info)
    /\ UNCHANGED << argv, optind, devices, listed >>

EnrolParams ==
    LET allocate == malloc("params", {}) ** malloc("salt", {"enrolment"})
                    ** malloc("relying_party_id", {"enrolment"})
    IN
    /\ pc = "enrol: params"
    /\ \/ /\ \/ Step("enrol: create_credential", allocate)
             \/ Step("enrol: create_credential",
                     allocate ** read_pin({"pin"}))
          /\ UNCHANGED status
       \/ Exit(EXIT_BAD_PIN, allocate ** read_pin({}) ** free_device_info
                             ** free_parameters)
    /\ UNCHANGED << argv, optind, devices, listed >>

EnrolCreateCredential ==
    /\ pc = "enrol: create_credential"
    /\ \/ /\ Step("enrol: build",
                  malloc("credential", {}) ** use("device") ** use("params")
                  ** malloc("credential_id", {"enrolment"})
                  ** free("credential")
                  ** close_and_free_device_ignoring_errors)
          /\ UNCHANGED status
       \/ \E code \in {EXIT_AUTHENTICATOR_ERROR, EXIT_BAD_PIN} :
             Exit(code, malloc("credential", {}) ** free("credential")
                        ** close_and_free_device_ignoring_errors)
    /\ UNCHANGED << argv, optind, devices, listed >>

make_key_spec ==
    use("invocation.passphrase") ** malloc("key_spec", {})
    ** malloc("key_spec.passphrase", {"passphrase"})

derive_key ==
    use("key_spec.passphrase") ** malloc("key_bytes", {"key"})

\* build_deserialized_cleartext_...: the key goes back with free.
build_deserialized_cleartext ==
    malloc("cleartext", {}) ** use("credential_id") ** use("salt")
    ** malloc("deserialized_secrets", {"enrolment"})
    ** malloc("cbor", {"enrolment"}) ** free_secrets
    ** malloc("serialized", {"enrolment"}) ** derive_key
    ** free("key_bytes") ** zero("serialized") ** free("serialized")
    ** free("cbor")

\* Mutant: only the passphrase is zeroed.
zero_invocation_passphrase == zero("invocation.passphrase")

zero_invocation ==
    zero("invocation.passphrase")
    ** if_set("invocation.pin", zero("invocation.pin"))

EnrolBuild ==
    /\ pc = "enrol: build"
    /\ Step("enrol: write",
            make_key_spec ** build_deserialized_cleartext ** free_key_spec
            ** use("device_info") ** free_device_info
            ** free_parameters ** null("params") ** zero_invocation)
    /\ UNCHANGED << status, argv, optind, devices, listed >>

EnrolWrite ==
    /\ pc = "enrol: write"
    /\ \/ Return("returned", EXIT_SUCCESS,
                 malloc("file", {}) ** use("cleartext") ** use("invocation")
                 ** free("file") ** free_cleartext ** free_invocation)
       \/ Exit(EXIT_DESERIALIZATION_ERROR,
               malloc("file", {}) ** use("cleartext"))
    /\ UNCHANGED << argv, optind, devices, listed >>

-----------------------------------------------------------------------------
(* print_secret_consuming_invocation *)

build_authenticator_parameters ==
    use("cleartext") ** malloc("decrypted", {"enrolment"})
    ** malloc("deserialized_secrets", {"enrolment"}) ** free("decrypted")
    ** malloc("params", {}) ** malloc("credential_id", {"enrolment"})
    ** malloc("salt", {"enrolment"})
    ** malloc("relying_party_id", {"enrolment"}) ** free_secrets

GenerateUnlock ==
    LET before == malloc("devices_list", {}) ** malloc("file", {})
                  ** malloc("cleartext", {}) ** free("file")
                  ** make_key_spec ** derive_key ** free_key_spec
                  ** null("key_spec")
    IN
    /\ pc = "generate"
    /\ \/ /\ Step("generate: loop",
                  before ** build_authenticator_parameters
                  ** free_key ** null("key_bytes"))
          /\ UNCHANGED status
       \/ Exit(EXIT_BAD_PASSPHRASE, before)
    /\ UNCHANGED << argv, optind, devices, listed >>

\* One turn of the loop up to the request.  A device whose AAGUID does not
\* match is neither closed nor freed.
GenerateDevice ==
    /\ pc = "generate: loop"
    /\ devices > 0
    /\ devices' = devices - 1
    /\ \/ Step("generate: loop", get_device)
       \/ Step("generate: loop",
               get_device ** close_and_free_device_ignoring_errors
               ** free_device_info)
       \/ Step("generate: loop",
               get_device ** read_pin({})
               ** close_and_free_device_ignoring_errors ** free_device_info)
       \/ Step("generate: request",
               get_device ** malloc("secret_t", {}) ** null("secret"))
       \/ Step("generate: request",
               get_device ** read_pin({"pin"}) ** malloc("secret_t", {})
               ** null("secret"))
    /\ UNCHANGED << status, argv, optind, listed >>

\* Mutant: the parameters are consumed by a request that fails softly.
SoftAnswer_consuming == free("assertion") ** free_parameters

SoftAnswer == free("assertion")

\* get_secret_from_authenticator_params and what follows it in the loop.
GenerateRequest ==
    LET ask == malloc("assertion", {}) ** use("device") ** use("params")
               ** use("salt") ** use("relying_party_id")
               ** use("credential_id")
        done == close_and_free_device_ignoring_errors ** free_device_info
    IN
    /\ pc = "generate: request"
    /\ \/ Return("returned", EXIT_SUCCESS,
                 ask ** malloc("secret", {"secret"}) ** free("assertion")
                 ** done ** free_parameters ** null("params")
                 ** free_cleartext ** free_secret ** free_devices_list)
       \/ /\ Step("generate: loop",
                  ask ** SoftAnswer ** done ** free_secret ** null("secret"))
          /\ UNCHANGED status
       \/ Exit(EXIT_AUTHENTICATOR_ERROR,
               ask ** free("assertion") ** free_parameters
               ** close_and_free_device_ignoring_errors)
       \/ Exit(EXIT_AUTHENTICATOR_ERROR,
               ask ** close_and_free_device_ignoring_errors
               ** free("assertion"))
       \/ Exit(EXIT_PROGRAMMER_ERROR,
               use("params") ** close_and_free_device_ignoring_errors)
    /\ UNCHANGED << argv, optind, devices, listed >>

\* The end of the list, and the rest of main.
GenerateFinish ==
    /\ pc = "generate: loop"
    /\ devices = 0
    /\ Return("returned", IF listed > 0 THEN EXIT_NO_VALID_AUTHENTICATOR
                                        ELSE EXIT_NO_DEVICES,
              free_invocation ** free_parameters ** free_cleartext
              ** use("devices_list") ** free_devices_list)
    /\ UNCHANGED << argv, optind, devices, listed >>

-----------------------------------------------------------------------------

Over == pc \in {"returned", "exited"} /\ UNCHANGED vars

Next ==
    \/ GetOption \/ EndOptions
    \/ EnrolGetDevice \/ EnrolParams \/ EnrolCreateCredential
    \/ EnrolBuild \/ EnrolWrite
    \/ GenerateUnlock \/ GenerateDevice \/ GenerateRequest \/ GenerateFinish
    \/ Over

Spec == Init /\ [][Next]_vars

-----------------------------------------------------------------------------
(* What makes the use of memory correct *)

\* No block is freed twice and none is used after it was freed, whatever the
\* devices answer, in any order (CHANGELOG.md:72 is about such a mistake).
NoMemoryFault == ~memory.fault

\* What the options leave in memory that is freed or lost without being zeroed:
\* the text of a passphrase file, and what an option given again had brought.
LeftByOptions(options) ==
    { s \in {"passphrase_file", "replaced"} :
        \/ s = "passphrase_file" /\ \E i \in DOMAIN options : options[i] = "r"
        \/ /\ s = "replaced"
           /\ \E same \in {PassphraseOptions, PinOptions} :
                \E i \in DOMAIN options :
                   options[i] \in same /\ ~IsLast(options, i, same) }

FromTheUser == {"passphrase", "passphrase_file", "pin", "replaced"}

\* enrol.c:76: the passphrase and the PIN are no longer needed once the
\* parameters are freed, and no copy of either is anywhere from there on, but
\* for what the options left: with -p, or when the passphrase was typed, and no
\* option given twice, nothing at all.
EnrolForgetsPassphraseAndPin ==
    pc = "enrol: write" =>
        FromTheUser \intersect Remaining \subseteq LeftByOptions(argv)

\* While generate asks the devices, the key of the keyfile is nowhere in
\* memory, and once it has given up the passphrase is not either, but for what
\* the options left.  (When it succeeds main returns with the passphrase still
\* in the invocation; the PIN stays there in both cases.)
GenerateForgetsKeyAndPassphrase ==
    /\ pc \in {"generate: loop", "generate: request"} =>
          "key" \notin Remaining
    /\ pc = "returned" /\ status \in {EXIT_NO_DEVICES,
                                      EXIT_NO_VALID_AUTHENTICATOR} =>
          (FromTheUser \ {"pin"}) \intersect Remaining
              \subseteq LeftByOptions(argv)

-----------------------------------------------------------------------------
(* What -r makes of it *)

\* "We no longer need the passphrase or PIN, so zero it out" (enrol.c:76): the
\* passphrase that was read from a file stays in the freed buffer.
PassphraseFileIsZeroed ==
    pc = "enrol: write" => "passphrase_file" \notin Remaining

=============================================================================
