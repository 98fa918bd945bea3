--------------------------- MODULE Authenticator ---------------------------
(***************************************************************************)
(* The FIDO2 authenticators plugged into the machine, and what             *)
(* src/authenticator.c does with them.  A device is at a port, which is    *)
(* the path khefin opens; devices come and go while processes run.  The    *)
(* answers of a device are external: they follow from how                  *)
(* src/authenticator.c tells them apart.                                   *)
(***************************************************************************)
EXTENDS Machine, FiniteSets

CONSTANTS
    Port,                 \* paths of devices, whether one is there or not
    Device,               \* authenticators
    Fido2,                \* the devices that speak FIDO2
    HmacSecret,           \* ... and have the hmac-secret extension
    Aaguid,               \* the make and model of each device
    DevicePin,            \* the PIN set on each device, or NULL
    CredentialSize,       \* the size of the credential ids of each device
    TypedPin,             \* what the user may type when asked for a PIN
    EmptyPin,             \* ... among them nothing
    Plugged,              \* where the devices may be at the start
    DeviceErrors,         \* whether a device may fail at any time
    MAX_DEVICES_TO_LIST,
    MaxPinRetries,        \* wrong PINs a device takes before it blocks
    MaxHotplugs           \* bound: how often devices are plugged or unplugged

ASSUME AuthenticatorAssumption ==
    /\ IsFiniteSet(Port)
    /\ HmacSecret \subseteq Fido2
    /\ Fido2 \subseteq Device
    /\ NULL \notin Device
    /\ EmptyPin # NULL
    /\ NULL \notin TypedPin
    /\ \A d \in Device : DevicePin[d] # EmptyPin
    /\ CredentialSize \in [Device -> Nat \ {0}]
    /\ Plugged \subseteq [Port -> Device \union {NULL}]
    /\ \A plugged \in Plugged : \A x, y \in Port :
          plugged[x] = plugged[y] /\ plugged[x] # NULL => x = y
    /\ DeviceErrors \in BOOLEAN
    /\ MAX_DEVICES_TO_LIST \in Nat
    /\ MaxPinRetries \in Nat \ {0}
    /\ MaxHotplugs \in Nat
    /\ \A p \in Proc : \A c \in CommandLine[p] :
          c.subcommand = "enrol" => c.device \in Port

VARIABLES
    port,       \* the device at each port, or NULL
    hotplugs,   \* how often devices were plugged or unplugged
    retries,    \* the PIN attempts each device has left
    device,     \* the fido_dev_t each process has open
    params      \* the authenticator_parameters_t of each process

worldVars == << port, hotplugs, retries >>
authenticatorVars == << port, hotplugs, retries, device, params >>

\* An open device: which one it is, and whether it is still there.
Handle(d) == [id |-> d, live |-> TRUE]
NoHandle  == [id |-> NULL, live |-> FALSE]

NoParams == [ relying_party_id  |-> NULL,
              credential_id     |-> Bytes(0, NULL),
              salt              |-> Bytes(0, NULL),
              authenticator_pin |-> NULL ]

-----------------------------------------------------------------------------
(* Devices come and go.  A handle to a device that was unplugged is dead,  *)
(* even when the device comes back.                                        *)

Present(d) == \E x \in Port : port[x] = d

Plug(x, d) ==
    /\ hotplugs < MaxHotplugs
    /\ port[x] = NULL
    /\ ~Present(d)
    /\ port' = [port EXCEPT ![x] = d]
    /\ hotplugs' = hotplugs + 1
    /\ UNCHANGED << machineVars, retries, device, params >>

Unplug(x) ==
    /\ hotplugs < MaxHotplugs
    /\ port[x] # NULL
    /\ port' = [port EXCEPT ![x] = NULL]
    /\ hotplugs' = hotplugs + 1
    /\ device' = [p \in Proc |-> IF device[p].id = port[x]
                                 THEN [device[p] EXCEPT !.live = FALSE]
                                 ELSE device[p]]
    /\ UNCHANGED << machineVars, retries, params >>

-----------------------------------------------------------------------------
(* Listing and opening.  A status is what the function exits with, or      *)
(* EXIT_SUCCESS when it returns.                                           *)

Glitch(status) == IF DeviceErrors THEN {status} ELSE {}

\* fido_dev_info_manifest: the ports with a device, each once, in any order,
\* as many as there is room for.
Manifests ==
    LET Occupied == { x \in Port : port[x] # NULL }
        n == IF Cardinality(Occupied) > MAX_DEVICES_TO_LIST
             THEN MAX_DEVICES_TO_LIST ELSE Cardinality(Occupied)
    IN  { s \in [1 .. n -> Occupied] :
            \A i, j \in 1 .. n : s[i] = s[j] => i = j }

\* A manifest that fails with FIDO_ERR_INTERNAL counts as an empty list.
list_devices_results ==
    { [status |-> EXIT_SUCCESS, list |-> s] : s \in Manifests }
    \union { [status |-> EXIT_SUCCESS, list |-> s] : s \in Glitch(<< >>) }
    \union { [status |-> s, list |-> << >>] :
               s \in Glitch(EXIT_AUTHENTICATOR_ERROR) }

\* Mutant: the process exits with the error number of libfido2.
get_device_fido_error(x) ==
    IF port[x] \in Fido2
    THEN {EXIT_SUCCESS} \union Glitch(EXIT_AUTHENTICATOR_ERROR)
    ELSE {-2}

\* Opening fails without a device and exits for one that is not FIDO2.
get_device_statuses(x) ==
    IF port[x] \in Fido2
    THEN {EXIT_SUCCESS} \union Glitch(EXIT_AUTHENTICATOR_ERROR)
    ELSE {EXIT_AUTHENTICATOR_ERROR}

\* The handle a process has after get_device came back with that status.
HandleAfter(p, x, status) ==
    IF status = EXIT_SUCCESS THEN Handle(port[x]) ELSE device[p]

get_device_info_statuses(p) ==
    IF device[p].live
    THEN {EXIT_SUCCESS} \union Glitch(EXIT_AUTHENTICATOR_ERROR)
    ELSE {EXIT_AUTHENTICATOR_ERROR}

device_supports_hmac_secret(p) == device[p].id \in HmacSecret

fido_dev_has_pin(p) == DevicePin[device[p].id] # NULL

\* The PIN a process uses: the one of its command line, for every device, or
\* what the user types.  NULL is the end of the input.
PinAnswers(p) ==
    IF inv[p].authenticator_pin # NULL
    THEN {inv[p].authenticator_pin}
    ELSE TypedPin \union {NULL}

-----------------------------------------------------------------------------
(* What a device makes of the PIN that comes with a request. *)

\* The wrong PIN that costs the last retry may be told as the block it causes.
PinVerdicts(d, pin) ==
    IF DevicePin[d] = NULL
    THEN {IF pin = NULL THEN "FIDO_OK" ELSE "FIDO_ERR_PIN_NOT_SET"}
    ELSE IF retries[d] = 0 THEN {"FIDO_ERR_PIN_BLOCKED"}
    ELSE IF pin = DevicePin[d] THEN {"FIDO_OK"}
    ELSE {"FIDO_ERR_PIN_INVALID"}
         \union IF retries[d] = 1 THEN {"FIDO_ERR_PIN_BLOCKED"} ELSE {}

\* A wrong PIN costs a retry, the right one gives all of them back.
RetriesAfter(d, pin) ==
    IF DevicePin[d] = NULL \/ retries[d] = 0 THEN retries[d]
    ELSE IF pin = DevicePin[d] THEN MaxPinRetries
    ELSE retries[d] - 1

\* The answers to a request: a device that is gone does not answer, one
\* that takes the PIN waits for a touch, and answers as if accepted says.
Answers(p, accepted) ==
    LET verdicts == PinVerdicts(device[p].id, params[p].authenticator_pin)
    IN
    IF ~device[p].live THEN {"FIDO_ERR_RX"}
    ELSE Glitch("FIDO_ERR_RX")
         \union IF "FIDO_OK" \in verdicts THEN accepted ELSE verdicts

\* Every answer a device gave has counted the PIN.
CountPin(p, answer) ==
    retries' = IF answer \in {"FIDO_ERR_RX", "not asked"} THEN retries
               ELSE [retries EXCEPT ![device[p].id] =
                        RetriesAfter(device[p].id,
                                     params[p].authenticator_pin)]

=============================================================================
