------------------------------ MODULE Generate ------------------------------
(***************************************************************************)
(* khefin generate (src/generate.c, list_devices and                       *)
(* get_secret_from_authenticator_params of src/authenticator.c, read_file  *)
(* of src/files.c, and the part of src/main.c that calls them): list the   *)
(* devices, read and open the keyfile, ask one device after the other.     *)
(***************************************************************************)
EXTENDS Authenticator

VARIABLES
    devices_list,   \* the ports each process listed
    i,              \* the position of each process in its list, from 1
    length,         \* the size of the keyfile each process opened
    data,           \* the encoded_file each process read
    out,            \* the secret each process printed; NULL when it did not
    log             \* what each process asked which device, and the answer

generateVars == << devices_list, i, length, data, out, log >>

\* list_devices, in main before the keyfile is looked at.
GenerateListDevices(p) ==
    /\ pc[p] = "generate: list_devices"
    /\ \E result \in list_devices_results :
          /\ Proceed(p, result.status, "generate: fopen")
          /\ devices_list' = [devices_list EXCEPT ![p] = result.list]
    /\ UNCHANGED << inv, held, cleartext, disk, damages, authenticatorVars,
                    i, length, data, out, log >>

\* read_file: fopen, and the size of the file.
GenerateOpenFile(p) ==
    /\ pc[p] = "generate: fopen"
    /\ LET f == inv[p].file IN
       /\ Proceed(p, open_status(f), "generate: fread")
       /\ length' = IF open_status(f) = EXIT_SUCCESS
                    THEN [length EXCEPT ![p] = disk[f].length]
                    ELSE length
    /\ UNCHANGED << inv, held, cleartext, disk, damages, authenticatorVars,
                    devices_list, i, data, out, log >>

\* read_file: fread of as many bytes as the file had.
GenerateReadFile(p) ==
    /\ pc[p] = "generate: fread"
    /\ LET f == inv[p].file
           status == fread_status(f, length[p])
       IN  /\ Proceed(p, status, "generate: load_cleartext")
           /\ data' = IF status = EXIT_SUCCESS
                      THEN [data EXCEPT ![p] = FirstBytes(f, length[p])]
                      ELSE data
    /\ UNCHANGED << inv, held, cleartext, disk, damages, authenticatorVars,
                    devices_list, i, length, out, log >>

load_cleartext_status(file) ==
    IF IsCleartextV1(cbor_load(file)) THEN EXIT_SUCCESS
                                      ELSE EXIT_DESERIALIZATION_ERROR

\* load_cleartext, then free_encoded_file.  The version of an empty array is
\* read through a pointer that is not there: the process dies, or finds no
\* version in what it reads.
GenerateLoadCleartext(p) ==
    /\ pc[p] = "generate: load_cleartext"
    /\ LET root == cbor_load(data[p])
           status == load_cleartext_status(data[p])
       IN  /\ \/ Proceed(p, status, "generate: derive_key")
              \/ root = Array(<< >>) /\ Goto(p, "killed")
           /\ cleartext' = IF status = EXIT_SUCCESS
                           THEN [cleartext EXCEPT ![p] =
                                    deserialize_cleartext_from_cbor_v1(root)]
                           ELSE cleartext
    /\ data' = [data EXCEPT ![p] = NULL]
    /\ UNCHANGED << inv, held, disk, damages, authenticatorVars,
                    devices_list, i, length, out, log >>

\* derive_key, then the box is opened and the parameters are built.
GenerateUnlock(p) ==
    /\ pc[p] = "generate: derive_key"
    /\ LET spec == make_key_spec_from_passphrase_and_cleartext(
                       inv[p].passphrase, cleartext[p])
           status == IF derive_key_status(spec) # EXIT_SUCCESS
                     THEN derive_key_status(spec)
                     ELSE build_authenticator_parameters_status(
                              cleartext[p], PasswordHash(spec), inv[p].mixin)
       IN  /\ Proceed(p, status, "generate: get_device")
           /\ params' = IF status = EXIT_SUCCESS
                        THEN [params EXCEPT ![p] =
                build_authenticator_parameters_from_deserialized_cleartext_and_key_and_mixin(
                    cleartext[p], inv[p].mixin)]
                        ELSE params
    /\ UNCHANGED << inv, held, cleartext, disk, damages, worldVars, device,
                    generateVars >>

-----------------------------------------------------------------------------
(* The loop over the devices. *)

\* Mutant: the last device of the list is left out.
MoreDevices_but_last(p) == i[p] < Len(devices_list[p])

MoreDevices(p) == i[p] <= Len(devices_list[p])

\* An empty AAGUID in the keyfile matches every device.
device_aaguid_matches(p) ==
    \/ cleartext[p].device_aaguid.size = 0
    \/ cleartext[p].device_aaguid =
           Bytes(AAGUID_SIZE_BYTES, Aaguid[device[p].id])

\* Mutant: a device whose AAGUID does not match is looked at again.
Continue_after_match(p) ==
    /\ Goto(p, "generate: get_device")
    /\ i' = [i EXCEPT ![p] = IF device_aaguid_matches(p) THEN @ + 1 ELSE @]

\* Mutant: the same device is tried again.
Continue_retries(p) ==
    /\ Goto(p, "generate: get_device")
    /\ UNCHANGED i

\* On to the next device of the list.
Continue(p) ==
    /\ Goto(p, "generate: get_device")
    /\ i' = [i EXCEPT ![p] = @ + 1]

LogEntry(p, answer) ==
    [ device |-> device[p].id,
      pin    |-> params[p].authenticator_pin,
      answer |-> answer ]

\* get_device for the port at this position, whatever is plugged there now.
GenerateGetDevice(p) ==
    /\ pc[p] = "generate: get_device"
    /\ MoreDevices(p)
    /\ LET x == devices_list[p][i[p]] IN
       \E status \in get_device_statuses(x) :
          /\ Proceed(p, status, "generate: get_device_info")
          /\ device' = [device EXCEPT ![p] = HandleAfter(p, x, status)]
    /\ UNCHANGED << inv, held, cleartext, disk, damages, worldVars, params,
                    generateVars >>

\* get_device_info, device_aaguid_matches and device_supports_hmac_secret.  A
\* device that does not match stays open.
GenerateGetDeviceInfo(p) ==
    /\ pc[p] = "generate: get_device_info"
    /\ \E status \in get_device_info_statuses(p) :
          IF status # EXIT_SUCCESS
          THEN Exit(p, status) /\ UNCHANGED << i, device >>
          ELSE IF ~device_aaguid_matches(p)
          THEN Continue(p) /\ UNCHANGED device
          ELSE IF ~device_supports_hmac_secret(p)
          THEN /\ Continue(p)
               /\ device' = [device EXCEPT ![p] = NoHandle]
          ELSE /\ Goto(p, IF fido_dev_has_pin(p)
                          THEN "generate: prompt_for_secret"
                          ELSE "generate: get_secret")
               /\ UNCHANGED << i, device >>
    /\ UNCHANGED << inv, held, cleartext, disk, damages, worldVars, params,
                    devices_list, length, data, out, log >>

\* The PIN of the command line, or prompt_for_secret.  The PIN stays in the
\* parameters until another one replaces it; no PIN skips the device.
GenerateReadPin(p) ==
    /\ pc[p] = "generate: prompt_for_secret"
    /\ \E pin \in PinAnswers(p) :
          IF pin = NULL
          THEN /\ Exit(p, EXIT_UNABLE_TO_GET_USER_SECRET)
               /\ UNCHANGED << i, device, params, log >>
          ELSE /\ params' = [params EXCEPT ![p].authenticator_pin = pin]
               /\ IF pin = EmptyPin
                  THEN /\ Continue(p)
                       /\ device' = [device EXCEPT ![p] = NoHandle]
                       /\ log' = [log EXCEPT ![p] =
                                     Append(@, [LogEntry(p, "skipped")
                                                EXCEPT !.pin = pin])]
                  ELSE /\ Goto(p, "generate: get_secret")
                       /\ UNCHANGED << i, device, log >>
    /\ UNCHANGED << inv, held, cleartext, disk, damages, worldVars,
                    devices_list, length, data, out >>

\* The answers after which the next device is tried.
SoftAnswers == { "FIDO_ERR_NO_CREDENTIALS", "FIDO_ERR_ACTION_TIMEOUT",
                 "FIDO_ERR_PIN_INVALID", "FIDO_ERR_INVALID_CREDENTIAL",
                 "FIDO_ERR_USER_ACTION_PENDING" }

\* The checks of get_secret_from_authenticator_params before it asks.
request_status(p) ==
    CASE params[p].credential_id.size < 1 -> EXIT_PROGRAMMER_ERROR
      [] params[p].salt.size < 1 -> EXIT_PROGRAMMER_ERROR
      [] params[p].salt.size \notin {32, 64} -> EXIT_AUTHENTICATOR_ERROR
      [] OTHER -> EXIT_SUCCESS

\* A credential works on the device that made it, for the relying party it
\* was made for, when the user touches the device, which then gives the
\* hmac-secret with its answer.
AssertAnswers(p) ==
    LET credential == params[p].credential_id.val IN
    Answers(p, IF credential = [device |-> device[p].id,
                                rp |-> params[p].relying_party_id]
               THEN { "FIDO_OK", "FIDO_ERR_ACTION_TIMEOUT",
                      "FIDO_ERR_USER_ACTION_TIMEOUT" }
                    \union Glitch("no hmac-secret")
               ELSE { "FIDO_ERR_NO_CREDENTIALS" })

\* The hmac-secret of a credential and a salt.
Hmac(credential, salt) == [credential |-> credential, salt |-> salt]

\* get_secret_from_authenticator_params; on success the secret is printed (and
\* nobody looks at what printf and fflush return), the parameters and the
\* cleartext are freed, and main returns, unless there is no memory for a copy
\* of the secret the device has given.
GenerateGetSecret(p) ==
    /\ pc[p] = "generate: get_secret"
    /\ \E answer \in IF request_status(p) = EXIT_SUCCESS THEN AssertAnswers(p)
                                                         ELSE {"not asked"} :
          /\ CASE answer = "FIDO_OK" ->
                    \/ /\ \/ out' = [out EXCEPT ![p] =
                                     Hmac(params[p].credential_id.val,
                                          params[p].salt.val)]
                          \/ DiskMayFill /\ UNCHANGED out
                       /\ Exit(p, EXIT_SUCCESS)
                       /\ params' = [params EXCEPT ![p] = NoParams]
                       /\ cleartext' = [cleartext EXCEPT ![p] = NULL]
                       /\ UNCHANGED i
                    \/ /\ Exit(p, EXIT_OUT_OF_MEMORY)
                       /\ UNCHANGED << cleartext, params, i, out >>
               [] answer \in SoftAnswers ->
                    Continue(p) /\ UNCHANGED << cleartext, params, out >>
               [] answer = "not asked" ->
                    /\ Exit(p, request_status(p))
                    /\ params' = IF request_status(p) = EXIT_AUTHENTICATOR_ERROR
                                 THEN [params EXCEPT ![p] = NoParams]
                                 ELSE params
                    /\ UNCHANGED << cleartext, i, out >>
               [] answer = "no hmac-secret" ->
                    /\ Exit(p, EXIT_AUTHENTICATOR_ERROR)
                    /\ UNCHANGED << cleartext, params, i, out >>
               [] OTHER ->
                    /\ Exit(p, EXIT_AUTHENTICATOR_ERROR)
                    /\ params' = [params EXCEPT ![p] = NoParams]
                    /\ UNCHANGED << cleartext, i, out >>
          /\ CountPin(p, answer)
          /\ log' = [log EXCEPT ![p] = Append(@, LogEntry(p, answer))]
    /\ device' = [device EXCEPT ![p] = NoHandle]
    /\ UNCHANGED << inv, held, disk, damages, port, hotplugs,
                    devices_list, length, data >>

\* No device gave the secret: the invocation, which has its passphrase
\* zeroed, the parameters and the cleartext are freed, and main exits.
GenerateFinish(p) ==
    /\ pc[p] = "generate: get_device"
    /\ ~MoreDevices(p)
    /\ Exit(p, IF Len(devices_list[p]) > 0 THEN EXIT_NO_VALID_AUTHENTICATOR
                                           ELSE EXIT_NO_DEVICES)
    /\ held' = [held EXCEPT ![p] = @ \ {"passphrase"}]
    /\ params' = [params EXCEPT ![p] = NoParams]
    /\ cleartext' = [cleartext EXCEPT ![p] = NULL]
    /\ UNCHANGED << inv, disk, damages, worldVars, device, generateVars >>

GenerateStep(p) ==
    \/ GenerateListDevices(p)
    \/ GenerateOpenFile(p)
    \/ GenerateReadFile(p)
    \/ GenerateLoadCleartext(p)
    \/ GenerateUnlock(p)
    \/ GenerateGetDevice(p)
    \/ GenerateGetDeviceInfo(p)
    \/ GenerateReadPin(p)
    \/ GenerateGetSecret(p)
    \/ GenerateFinish(p)

=============================================================================
