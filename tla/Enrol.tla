------------------------------- MODULE Enrol -------------------------------
(***************************************************************************)
(* khefin enrol (src/enrol.c, create_credential of src/authenticator.c,    *)
(* write_file of src/files.c): make a credential on one authenticator,     *)
(* seal it and the salt under the passphrase, write the keyfile.           *)
(*                                                                         *)
(* Random bytes are named after the process that draws them: no two        *)
(* enrolments share a salt, a relying party, a nonce or a key salt.        *)
(***************************************************************************)
EXTENDS Authenticator

VARIABLE
    credentials     \* every credential an authenticator made for an enrolment

enrolVars == << credentials >>

\* get_device.
EnrolGetDevice(p) ==
    /\ pc[p] = "enrol: get_device"
    /\ \E status \in get_device_statuses(inv[p].device) :
          /\ Proceed(p, status, "enrol: get_device_info")
          /\ device' = [device EXCEPT ![p] =
                            HandleAfter(p, inv[p].device, status)]
    /\ UNCHANGED << inv, held, cleartext, disk, damages, worldVars, params,
                    enrolVars >>

\* get_device_info, the check for hmac-secret, and the parameters: a random
\* salt and a random relying party id.
EnrolGetDeviceInfo(p) ==
    /\ pc[p] = "enrol: get_device_info"
    /\ \E answer \in get_device_info_statuses(p) :
          LET status == IF device_supports_hmac_secret(p)
                        THEN answer ELSE EXIT_AUTHENTICATOR_ERROR
          IN  /\ Proceed(p, status, IF fido_dev_has_pin(p)
                                    THEN "enrol: prompt_for_secret"
                                    ELSE "enrol: create_credential")
              /\ params' =
                    IF status # EXIT_SUCCESS THEN params
                    ELSE [params EXCEPT ![p] =
                            [NoParams EXCEPT !.relying_party_id = p,
                                             !.salt = FreshSalt(p)]]
    /\ UNCHANGED << inv, held, cleartext, disk, damages, worldVars, device,
                    enrolVars >>

\* The PIN of the command line, or prompt_for_secret.  Without a PIN the
\* parameters are freed before enrol exits.
EnrolReadPin(p) ==
    /\ pc[p] = "enrol: prompt_for_secret"
    /\ \E pin \in PinAnswers(p) :
          /\ Proceed(p, CASE pin = NULL -> EXIT_UNABLE_TO_GET_USER_SECRET
                          [] pin = EmptyPin -> EXIT_BAD_PIN
                          [] OTHER -> EXIT_SUCCESS,
                     "enrol: create_credential")
          /\ params' = CASE pin = NULL -> params
                         [] pin = EmptyPin -> [params EXCEPT ![p] = NoParams]
                         [] OTHER ->
                              [params EXCEPT ![p].authenticator_pin = pin]
    /\ UNCHANGED << inv, held, cleartext, disk, damages, worldVars, device,
                    enrolVars >>

create_credential_status(answer) ==
    CASE answer = "FIDO_OK" -> EXIT_SUCCESS
      [] answer = "FIDO_ERR_PIN_INVALID" -> EXIT_BAD_PIN
      [] OTHER -> EXIT_AUTHENTICATOR_ERROR

\* A device may also make a credential that has no id.
CreateAnswers(p) ==
    Answers(p, {"FIDO_OK", "FIDO_ERR_USER_ACTION_TIMEOUT"}
                   \union Glitch("no credential id"))

\* The credential the device makes: only it can use it, and only for the
\* relying party it was made for.
NewCredential(p) ==
    Bytes(CredentialSize[device[p].id],
          [device |-> device[p].id, rp |-> params[p].relying_party_id])

\* create_credential, then close_and_free_device_ignoring_errors.
EnrolCreateCredential(p) ==
    /\ pc[p] = "enrol: create_credential"
    /\ \E answer \in CreateAnswers(p) :
          LET status == create_credential_status(answer) IN
          /\ Proceed(p, status, "enrol: build_deserialized_cleartext")
          /\ CountPin(p, answer)
          /\ credentials' = IF status = EXIT_SUCCESS
                            THEN credentials \union {NewCredential(p).val}
                            ELSE credentials
          /\ params' = IF status = EXIT_SUCCESS
                       THEN [params EXCEPT ![p].credential_id =
                                NewCredential(p)]
                       ELSE params
          /\ device' = [device EXCEPT ![p].live = FALSE]
    /\ UNCHANGED << inv, held, cleartext, disk, damages, port, hotplugs >>

\* The key specification and the sealed cleartext.  The AAGUID is stored
\* whatever --obfuscate-device-info says.  The parameters are freed, and the
\* passphrase and the PIN of the command line are zeroed.  The key is derived
\* before any of that.
EnrolBuildCleartext(p) ==
    /\ pc[p] = "enrol: build_deserialized_cleartext"
    /\ LET spec == make_new_key_spec_from_invocation(
                       inv[p].passphrase, inv[p].kdf_hardness, p)
           status == derive_key_status(spec)
       IN  IF status # EXIT_SUCCESS
           THEN /\ Exit(p, status)
                /\ UNCHANGED << held, cleartext, device, params >>
           ELSE /\ Goto(p, "enrol: fopen")
                /\ cleartext' = [cleartext EXCEPT ![p] =
                     build_deserialized_cleartext_from_authenticator_parameters_and_key_spec(
                         params[p], spec,
                         Bytes(AAGUID_SIZE_BYTES, Aaguid[device[p].id]), p)]
                /\ params' = [params EXCEPT ![p] = NoParams]
                /\ device' = [device EXCEPT ![p] = NoHandle]
                /\ held' = [held EXCEPT ![p] = {}]
    /\ UNCHANGED << inv, disk, damages, worldVars, enrolVars >>

\* write_file: fopen(path, "w") empties the file.
EnrolOpenFile(p) ==
    /\ pc[p] = "enrol: fopen"
    /\ LET f == inv[p].file
           status == IF f \in Unwritable THEN EXIT_DESERIALIZATION_ERROR
                                         ELSE EXIT_SUCCESS
       IN  /\ Proceed(p, status, "enrol: fclose")
           /\ disk' = IF status = EXIT_SUCCESS
                      THEN [disk EXCEPT ![f] = EmptyFile]
                      ELSE disk
    /\ UNCHANGED << inv, held, cleartext, damages, authenticatorVars,
                    enrolVars >>

\* write_file: fwrite fills the buffer of the stream and succeeds; fclose
\* writes it out, and nobody looks at what fclose returns.
EnrolCloseFile(p) ==
    /\ pc[p] = "enrol: fclose"
    /\ LET f == inv[p].file
           file == cbor_serialize_alloc(cleartext[p])
       IN  \/ disk' = [disk EXCEPT ![f] = Overwrite(@, file)]
           \/ DiskMayFill /\ UNCHANGED disk
    /\ cleartext' = [cleartext EXCEPT ![p] = NULL]
    /\ Exit(p, EXIT_SUCCESS)
    /\ UNCHANGED << inv, held, damages, authenticatorVars, enrolVars >>

EnrolStep(p) ==
    \/ EnrolGetDevice(p)
    \/ EnrolGetDeviceInfo(p)
    \/ EnrolReadPin(p)
    \/ EnrolCreateCredential(p)
    \/ EnrolBuildCleartext(p)
    \/ EnrolOpenFile(p)
    \/ EnrolCloseFile(p)

=============================================================================
