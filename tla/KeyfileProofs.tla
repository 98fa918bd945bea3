---------------------------- MODULE KeyfileProofs ---------------------------
(***************************************************************************)
(* The keyfile on disk, and the devices that generate tries it with.       *)
(*                                                                         *)
(* An enrolment opens a keyfile only with the sealed replacement at hand,  *)
(* races leave it whole, and "bad passphrase" is said only of a passphrase *)
(* that it was not sealed under.  The argument follows the cleartext.      *)
(* What an enrolment is about to write was sealed by it, opens with its    *)
(* passphrase and survives encoding and decoding.  So as long as nobody    *)
(* damages a keyfile, whatever can be decoded of it opens under the        *)
(* passphrase it was sealed with; and between two enrolments of it the     *)
(* whole of it is there.                                                   *)
(*                                                                         *)
(* The loop of generate over the devices passes over no device that the    *)
(* keyfile was enrolled with, and no PIN retry is lost unaccounted.  The   *)
(* argument follows the position in the list: the enrolled device is not   *)
(* behind it unless it was asked, and no device is asked twice.            *)
(***************************************************************************)
EXTENDS SecretProofs

-----------------------------------------------------------------------------
(* The keyfile: the invariant *)

\* The cleartext was sealed by the enrolment q, and opens with its passphrase.
\* I and C are the command lines and the credentials, of either state.
SealedIn(clear, q, I, C) ==
    /\ I[q].subcommand = "enrol"
    /\ clear.encrypted_data.val.key.passphrase = I[q].passphrase
    /\ \E credential \in C :
          /\ credential.rp = q
          /\ clear.encrypted_data.val.plain = SecretsSealedBy(q, credential)
    /\ OpensWith(clear, I[q].passphrase)

WholeIn(file, I, C) ==
    /\ IsCleartextV1(cbor_load(file))
    /\ \E q \in Proc :
          SealedIn(deserialize_cleartext_from_cbor_v1(cbor_load(file)), q, I, C)

\* A cleartext that its encoding does not change.
Encodable(clear) ==
    /\ clear = [ version        |-> SERIALIZATION_MAX_VERSION,
                 device_aaguid  |-> clear.device_aaguid,
                 kdf_salt       |-> clear.kdf_salt,
                 opslimit       |-> clear.opslimit,
                 memlimit       |-> clear.memlimit,
                 algorithm      |-> crypto_pwhash_ALG_ARGON2I13,
                 nonce          |-> clear.nonce,
                 encrypted_data |-> clear.encrypted_data ]
    /\ clear.device_aaguid.size \in Int
    /\ clear.kdf_salt.size \in Int
    /\ clear.nonce.size \in Int
    /\ clear.encrypted_data.size \in Int

\* The passphrase it was sealed under opens it.
SelfOpening(clear) ==
    OpensWith(clear, clear.encrypted_data.val.key.passphrase)

SoundItem(item) ==
    IsCleartextV1(item) =>
        SelfOpening(deserialize_cleartext_from_cbor_v1(item))

\* An enrolment has the file open, or died while it had.
Busy(f) ==
    \E p \in Proc : /\ Enrols(p) /\ inv[p].file = f
                    /\ pc[p] \in {"enrol: fclose", "killed"}

KeyProc(p) ==
    /\ pc[p] \in {"enrol: fopen", "enrol: fclose"} =>
          Encodable(cleartext[p]) /\ SealedIn(cleartext[p], p, inv, credentials)
    /\ inv[p].file \in File /\ damages[inv[p].file] = 0 =>
          /\ pc[p] = "enrol: fclose" => disk[inv[p].file].length \in Int
          /\ pc[p] = "generate: fread" => SoundItem(disk[inv[p].file].item)
          /\ pc[p] = "generate: load_cleartext" => SoundItem(data[p].item)
          /\ pc[p] = "generate: derive_key" => SelfOpening(cleartext[p])
          /\ Exited(p, EXIT_BAD_PASSPHRASE) =>
                cleartext[p].encrypted_data.val.key.passphrase
                    # inv[p].passphrase

KeyFile(f) ==
    disk[f] # NULL /\ damages[f] = 0 =>
        /\ SoundItem(disk[f].item)
        /\ disk[f].length \in Int
        /\ DiskMayFill \/ Busy(f) \/ WholeIn(disk[f], inv, credentials)

KeyInv ==
    /\ BindInv
    /\ \A p \in Proc : KeyProc(p)
    /\ \A f \in File : KeyFile(f)

-----------------------------------------------------------------------------
(* Sealing, writing and decoding *)

\* What was sealed, and what is whole, stays so when more is enrolled.
LEMMA SealedStays ==
    ASSUME Grows
    PROVE  /\ \A clear : \A q \in Proc :
                 SealedIn(clear, q, inv, credentials) =>
                 SealedIn(clear, q, inv', credentials')
           /\ \A file : WholeIn(file, inv, credentials) =>
                        WholeIn(file, inv', credentials')
<1>1. \A clear : \A q \in Proc :
         SealedIn(clear, q, inv, credentials) =>
         SealedIn(clear, q, inv', credentials')
  BY DEF Grows, SealedIn
<1> QED BY <1>1 DEF WholeIn

\* Encoding a cleartext and decoding it gives it back.
LEMMA EncodingRoundTrip ==
    ASSUME NEW clear, Encodable(clear)
    PROVE  /\ IsCleartextV1(serialize_cleartext_to_cbor_v1(clear))
           /\ deserialize_cleartext_from_cbor_v1(
                  serialize_cleartext_to_cbor_v1(clear)) = clear
<1>1. /\ clear.version = SERIALIZATION_VERSION
      /\ clear.version % 256 = clear.version
      /\ clear.algorithm % 65536 = clear.algorithm
  BY DEF Encodable, SERIALIZATION_VERSION, SERIALIZATION_MAX_VERSION,
         crypto_pwhash_ALG_ARGON2I13
<1>2. IsCleartextV1(serialize_cleartext_to_cbor_v1(clear))
  BY <1>1
  DEF IsCleartextV1, HasVersion, IsUint, IsArray, IsBytes,
      serialize_cleartext_to_cbor_v1, UintItem, ByteItem, Array,
      CLEAR_COUNT_OF_FIELDS
<1>3. deserialize_cleartext_from_cbor_v1(
          serialize_cleartext_to_cbor_v1(clear)) =
      [ version        |-> clear.version,
        device_aaguid  |-> clear.device_aaguid,
        kdf_salt       |-> clear.kdf_salt,
        opslimit       |-> clear.opslimit,
        memlimit       |-> clear.memlimit,
        algorithm      |-> clear.algorithm,
        nonce          |-> clear.nonce,
        encrypted_data |-> clear.encrypted_data ]
  BY <1>1
  DEF deserialize_cleartext_from_cbor_v1, serialize_cleartext_to_cbor_v1,
      UintItem, ByteItem, Array
<1>4. @ = clear
  BY DEF Encodable
<1> QED BY <1>2, <1>3, <1>4

\* A keyfile that is written over another one holds the whole cleartext.
LEMMA WrittenWhole ==
    ASSUME NEW clear, Encodable(clear), NEW old, old.length \in Int,
           NEW file, file = Overwrite(old, cbor_serialize_alloc(clear))
    PROVE  /\ file.length \in Int
           /\ file.item = serialize_cleartext_to_cbor_v1(clear)
           /\ cbor_load(file) = file.item
<1> DEFINE n == HEADER_BYTES + clear.device_aaguid.size + clear.kdf_salt.size
                  + clear.nonce.size + clear.encrypted_data.size
<1>1. n \in Int
  BY DEF Encodable, HEADER_BYTES
<1> HIDE DEF n
<1>2. cbor_serialize_alloc(clear) =
          EncodedFile(n, n, serialize_cleartext_to_cbor_v1(clear))
  BY DEF cbor_serialize_alloc, n
<1>3. file = EncodedFile(IF old.length > n THEN old.length ELSE n, n,
                         serialize_cleartext_to_cbor_v1(clear))
  BY <1>2 DEF Overwrite, EncodedFile
<1> QED BY <1>1, <1>3 DEF EncodedFile, cbor_load

\* What was sealed opens under the passphrase it was sealed with, and so does
\* the item that it is encoded as.
LEMMA SealedSound ==
    ASSUME NEW clear, NEW q, NEW I, NEW C,
           Encodable(clear), SealedIn(clear, q, I, C)
    PROVE  SoundItem(serialize_cleartext_to_cbor_v1(clear))
  BY EncodingRoundTrip DEF SealedIn, SoundItem, SelfOpening

\* The cleartext an enrolment makes is sealed by it.
LEMMA BuiltSealed ==
    ASSUME NEW I, NEW C, NEW q \in Proc, NEW credential \in C, NEW params_,
           NEW hardness, NEW aaguid, NEW clear,
           aaguid.size \in Int,
           CredentialSize[credential.device] \in Int,
           I[q].subcommand = "enrol",
           credential.rp = q,
           params_.relying_party_id = q,
           params_.salt = FreshSalt(q),
           params_.credential_id =
               Bytes(CredentialSize[credential.device], credential),
           clear =
build_deserialized_cleartext_from_authenticator_parameters_and_key_spec(
               params_,
               make_new_key_spec_from_invocation(I[q].passphrase, hardness, q),
               aaguid, q)
    PROVE  Encodable(clear) /\ SealedIn(clear, q, I, C)
<1> DEFINE spec == make_new_key_spec_from_invocation(I[q].passphrase, hardness, q)
           secrets == SecretsOf(params_)
           key == PasswordHash(spec)
           box == SealedBox(secrets, q, key)
<1>1. /\ spec.passphrase = I[q].passphrase
      /\ spec.kdf_salt = Bytes(crypto_pwhash_SALTBYTES, q)
      /\ spec.algorithm = crypto_pwhash_ALG_ARGON2I13
  BY DEF make_new_key_spec_from_invocation
<1> HIDE DEF spec
<1>2. secrets = SecretsOf([NoParams EXCEPT
                   !.relying_party_id = q,
                   !.credential_id =
                       Bytes(CredentialSize[credential.device], credential),
                   !.salt = FreshSalt(q)])
  BY DEF SecretsOf, NoParams
<1>3. serialize_secrets_to_cbor_v1(secrets) = SecretsSealedBy(q, credential)
  BY <1>2 DEF SecretsSealedBy
<1>4. /\ secrets.credential_id.size \in Int
      /\ secrets.salt.size \in Int
  BY DEF SecretsOf, FreshSalt, Bytes, SALT_SIZE_BYTES
<1> HIDE DEF secrets, key
<1>5. /\ box.size \in Int
      /\ box.val = [ plain  |-> SecretsSealedBy(q, credential),
                     nonce  |-> q, key |-> key, intact |-> TRUE ]
  BY <1>3, <1>4
  DEF SealedBox, Bytes, crypto_secretbox_MACBYTES, SECRETS_HEADER_BYTES
<1> HIDE DEF box
<1>6. clear = [ version        |-> SERIALIZATION_MAX_VERSION,
                device_aaguid  |-> aaguid,
                kdf_salt       |-> spec.kdf_salt,
                opslimit       |-> spec.opslimit,
                memlimit       |-> spec.memlimit,
                algorithm      |-> spec.algorithm,
                nonce          |-> Bytes(crypto_box_NONCEBYTES, q),
                encrypted_data |-> box ]
  BY DEF spec, key, secrets, box,
build_deserialized_cleartext_from_authenticator_parameters_and_key_spec
<1>7. Encodable(clear)
  BY <1>1, <1>5, <1>6
  DEF Encodable, Bytes, crypto_pwhash_SALTBYTES, crypto_box_NONCEBYTES
<1>8. key = PasswordHash(make_key_spec_from_passphrase_and_cleartext(
                             I[q].passphrase, clear))
  BY <1>1, <1>6
  DEF key, PasswordHash, make_key_spec_from_passphrase_and_cleartext
<1>9. OpensWith(clear, I[q].passphrase)
  BY <1>5, <1>6, <1>8 DEF OpensWith, SecretBoxOpens, Bytes
<1>10. clear.encrypted_data.val.key.passphrase = I[q].passphrase
  BY <1>1, <1>5, <1>6 DEF key, PasswordHash
<1> QED BY <1>5, <1>6, <1>7, <1>9, <1>10 DEF SealedIn

-----------------------------------------------------------------------------
(* What steps leave as it is *)

\* The disk of a step: a keyfile stays, is damaged, or becomes one whose item
\* is sound.
SoundStep ==
    \A f \in File : /\ damages[f] # 0 => damages'[f] # 0
                    /\ \/ disk'[f] = disk[f]
                       \/ damages'[f] # 0
                       \/ SoundItem(disk'[f].item) /\ disk'[f].length \in Int

\* The initial states have no keyfile.
LEMMA KeyInit == Init => KeyInv
<1> SUFFICES ASSUME Init PROVE KeyInv
  OBVIOUS
<1>1. BindInv
  BY BindInit
<1>2. ASSUME NEW p \in Proc PROVE KeyProc(p)
  BY DEF Init, KeyProc, Exited
<1>3. ASSUME NEW f \in File PROVE KeyFile(f)
  BY DEF Init, KeyFile
<1> QED BY <1>1, <1>2, <1>3 DEF KeyInv

\* A process that is not disturbed keeps what it knows of its keyfile.
LEMMA KeyOthers ==
    ASSUME Grows, SoundStep, NEW q \in Proc, KeyProc(q),
           pc'[q] = pc[q], exit'[q] = exit[q], inv'[q] = inv[q],
           cleartext'[q] = cleartext[q], data'[q] = data[q]
    PROVE  KeyProc(q)'
<1>1. pc[q] \in {"enrol: fopen", "enrol: fclose"} =>
          /\ Encodable(cleartext[q])'
          /\ SealedIn(cleartext'[q], q, inv', credentials')
  BY SealedStays DEF KeyProc, Encodable
<1>2. inv'[q].file \in File /\ damages'[inv'[q].file] = 0 =>
         /\ damages[inv[q].file] = 0
         /\ \/ disk'[inv[q].file] = disk[inv[q].file]
            \/ /\ SoundItem(disk'[inv[q].file].item)
               /\ disk'[inv[q].file].length \in Int
  BY DEF SoundStep
<1>3. inv'[q].file \in File /\ damages'[inv'[q].file] = 0 =>
         /\ pc'[q] = "enrol: fclose" => disk'[inv'[q].file].length \in Int
         /\ pc'[q] = "generate: fread" => SoundItem(disk'[inv'[q].file].item)
         /\ pc'[q] = "generate: load_cleartext" => SoundItem(data'[q].item)
         /\ pc'[q] = "generate: derive_key" => SelfOpening(cleartext'[q])
         /\ Exited(q, EXIT_BAD_PASSPHRASE)' =>
               cleartext'[q].encrypted_data.val.key.passphrase
                   # inv'[q].passphrase
  BY <1>2 DEF KeyProc, Exited
<1> QED BY <1>1, <1>3 DEF KeyProc

\* A keyfile that nobody touches is as whole or as busy as it was.
LEMMA FileStays ==
    ASSUME Grows, NEW f \in File, KeyFile(f),
           disk'[f] = disk[f], damages'[f] = damages[f],
           Busy(f) => Busy(f)'
    PROVE  KeyFile(f)'
  BY SealedStays DEF KeyFile

\* A process that writes no keyfile, and does not come back from the dead,
\* leaves all of them as they were.
LEMMA FilesStay ==
    ASSUME KeyInv, Grows, NEW p \in Proc, \A q \in Proc \ {p} : Untouched(q),
           UNCHANGED << disk, damages >>,
           pc[p] \in {"enrol: fclose", "killed"} => pc'[p] = "killed"
    PROVE  SoundStep /\ \A f \in File : KeyFile(f)'
<1>1. ASSUME NEW f \in File, Busy(f) PROVE Busy(f)'
  <2>1. PICK r \in Proc : /\ Enrols(r) /\ inv[r].file = f
                          /\ pc[r] \in {"enrol: fclose", "killed"}
    BY <1>1 DEF Busy
  <2>2. Enrols(r)' /\ inv'[r].file = f
    BY <2>1 DEF Grows, Enrols
  <2>3. pc'[r] \in {"enrol: fclose", "killed"}
    BY <2>1 DEF Untouched
  <2> QED BY <2>2, <2>3 DEF Busy
<1> QED BY <1>1, FileStays DEF SoundStep, KeyInv

\* What a step of a process has to show.
LEMMA KeyStepEnough ==
    ASSUME KeyInv, BindInv', NEW p \in Proc, Step(p) \/ Fate(p),
           KeyProc(p)', SoundStep, \A f \in File : KeyFile(f)'
    PROVE  KeyInv'
<1>1. Grows
  BY StepGrows DEF KeyInv
<1>2. ASSUME NEW q \in Proc, q # p PROVE KeyProc(q)'
  <2>1. Untouched(q)
    BY <1>2, StepLocal DEF KeyInv, BindInv, TypeInv
  <2> QED BY <1>1, <2>1, KeyOthers DEF KeyInv, Untouched
<1> QED BY <1>2 DEF KeyInv

\* A process that is not between opening its keyfile and its verdict on the
\* passphrase claims nothing of the keyfile.
LEMMA Elsewhere ==
    ASSUME NEW p \in Proc,
           pc'[p] \notin { "enrol: fopen", "enrol: fclose", "generate: fread",
                           "generate: load_cleartext", "generate: derive_key" },
           pc'[p] = "exited" => exit'[p] # EXIT_BAD_PASSPHRASE
    PROVE  KeyProc(p)'
  BY DEF KeyProc, Exited

\* No function but the one that opens the box says "bad passphrase", and that
\* one only when the box does not open.
LEMMA StatusNotBad ==
    /\ \A spec : derive_key_status(spec) # EXIT_BAD_PASSPHRASE
    /\ \A clear, key, mixin :
          build_authenticator_parameters_status(clear, key, mixin)
              = EXIT_BAD_PASSPHRASE => ~SecretBoxOpens(clear, key)
    /\ \A f : open_status(f) # EXIT_BAD_PASSPHRASE
    /\ \A f, n : fread_status(f, n) # EXIT_BAD_PASSPHRASE
    /\ \A file : load_cleartext_status(file) # EXIT_BAD_PASSPHRASE
    /\ \A answer : create_credential_status(answer) # EXIT_BAD_PASSPHRASE
    /\ \A x : EXIT_BAD_PASSPHRASE \notin get_device_statuses(x)
    /\ \A p : EXIT_BAD_PASSPHRASE \notin get_device_info_statuses(p)
    /\ \A result \in list_devices_results : result.status # EXIT_BAD_PASSPHRASE
    /\ EXIT_BAD_PASSPHRASE \notin
          { EXIT_SUCCESS, EXIT_NO_DEVICES, EXIT_NO_VALID_AUTHENTICATOR,
            EXIT_DESERIALIZATION_ERROR, EXIT_BAD_PIN, EXIT_OUT_OF_MEMORY,
            EXIT_AUTHENTICATOR_ERROR, EXIT_CRYPTOGRAPHY_ERROR,
            EXIT_UNABLE_TO_GET_USER_SECRET, EXIT_PROGRAMMER_ERROR }
<1>1. EXIT_BAD_PASSPHRASE \notin
          { EXIT_SUCCESS, EXIT_NO_DEVICES, EXIT_NO_VALID_AUTHENTICATOR,
            EXIT_DESERIALIZATION_ERROR, EXIT_BAD_PIN, EXIT_OUT_OF_MEMORY,
            EXIT_AUTHENTICATOR_ERROR, EXIT_CRYPTOGRAPHY_ERROR,
            EXIT_UNABLE_TO_GET_USER_SECRET, EXIT_PROGRAMMER_ERROR }
  BY DEF EXIT_NO_DEVICES, EXIT_NO_VALID_AUTHENTICATOR, EXIT_SUCCESS,
         EXIT_BAD_PASSPHRASE, EXIT_BAD_PIN, EXIT_OUT_OF_MEMORY,
         EXIT_AUTHENTICATOR_ERROR, EXIT_DESERIALIZATION_ERROR,
         EXIT_CRYPTOGRAPHY_ERROR, EXIT_PROGRAMMER_ERROR,
         EXIT_UNABLE_TO_GET_USER_SECRET, EXIT_H_USER_ERROR_BITS,
         EXIT_H_RUNTIME_ERROR_BITS, EXIT_H_PROGRAMMER_ERROR_BITS
<1>2. ASSUME NEW result \in list_devices_results
      PROVE  result.status # EXIT_BAD_PASSPHRASE
  <2>1. result.status \in {EXIT_SUCCESS, EXIT_AUTHENTICATOR_ERROR}
    BY DEF list_devices_results, Glitch
  <2> QED BY <1>1, <2>1
<1>3. /\ \A spec : derive_key_status(spec) # EXIT_BAD_PASSPHRASE
      /\ \A clear, key, mixin :
            build_authenticator_parameters_status(clear, key, mixin)
                = EXIT_BAD_PASSPHRASE => ~SecretBoxOpens(clear, key)
  BY <1>1 DEF derive_key_status, build_authenticator_parameters_status
<1>4. /\ \A f : open_status(f) # EXIT_BAD_PASSPHRASE
      /\ \A f, n : fread_status(f, n) # EXIT_BAD_PASSPHRASE
      /\ \A file : load_cleartext_status(file) # EXIT_BAD_PASSPHRASE
      /\ \A answer : create_credential_status(answer) # EXIT_BAD_PASSPHRASE
  BY <1>1 DEF open_status, fread_status, load_cleartext_status,
              create_credential_status
<1>5. /\ \A x : EXIT_BAD_PASSPHRASE \notin get_device_statuses(x)
      /\ \A p : EXIT_BAD_PASSPHRASE \notin get_device_info_statuses(p)
  BY <1>1 DEF get_device_statuses, get_device_info_statuses, Glitch
<1> QED BY <1>1, <1>2, <1>3, <1>4, <1>5

-----------------------------------------------------------------------------
(* The steps *)

\* The steps of enrol.
LEMMA EnrolKey ==
    ASSUME KeyInv, NEW p \in Proc, EnrolStep(p), UNCHANGED generateVars
    PROVE  KeyProc(p)' /\ SoundStep /\ \A f \in File : KeyFile(f)'
<1>0. /\ Shape /\ Grows /\ TypeOK
      /\ BoundProc(p) /\ KeyProc(p) /\ EnrolmentFresh(p)
      /\ \A q \in Proc \ {p} : Untouched(q)
      /\ \A f \in File : KeyFile(f)
  BY StepGrows, StepLocal DEF KeyInv, BindInv, TypeInv, Step
<1>1. ASSUME NEW status, NEW l, Proceed(p, status, l),
             status # EXIT_BAD_PASSPHRASE,
             l \in { "enrol: get_device_info", "enrol: prompt_for_secret",
                     "enrol: create_credential",
                     "enrol: build_deserialized_cleartext" },
             pc[p] \notin {"enrol: fclose", "killed"},
             UNCHANGED << disk, damages >>
      PROVE  KeyProc(p)' /\ SoundStep /\ \A f \in File : KeyFile(f)'
  <2>1. \/ pc'[p] = l
        \/ pc'[p] = "exited" /\ exit'[p] # EXIT_BAD_PASSPHRASE
    BY <1>0, <1>1 DEF Proceed, Goto, Exit, Shape
  <2>2. KeyProc(p)'
    BY <1>1, <2>1, Elsewhere
  <2> QED BY <1>0, <1>1, <2>2, FilesStay
<1>2. CASE EnrolGetDevice(p)
  <2>1. PICK status \in get_device_statuses(inv[p].device) :
           Proceed(p, status, "enrol: get_device_info")
    BY <1>2 DEF EnrolGetDevice
  <2>2. status # EXIT_BAD_PASSPHRASE
    BY <2>1, StatusNotBad
  <2> QED BY <1>1, <1>2, <2>1, <2>2 DEF EnrolGetDevice
<1>3. CASE EnrolGetDeviceInfo(p)
  <2>1. PICK l \in {"enrol: prompt_for_secret", "enrol: create_credential"},
             status \in get_device_info_statuses(p)
                           \union {EXIT_AUTHENTICATOR_ERROR} :
           Proceed(p, status, l)
    BY <1>3 DEF EnrolGetDeviceInfo
  <2>2. status # EXIT_BAD_PASSPHRASE
    BY <2>1, StatusNotBad
  <2> QED BY <1>1, <1>3, <2>1, <2>2 DEF EnrolGetDeviceInfo
<1>4. CASE EnrolReadPin(p)
  <2>1. PICK status : /\ Proceed(p, status, "enrol: create_credential")
                      /\ status # EXIT_BAD_PASSPHRASE
    BY <1>4, StatusNotBad DEF EnrolReadPin
  <2> QED BY <1>1, <1>4, <2>1 DEF EnrolReadPin
<1>5. CASE EnrolCreateCredential(p)
  <2>1. PICK answer :
           Proceed(p, create_credential_status(answer),
                   "enrol: build_deserialized_cleartext")
    BY <1>5 DEF EnrolCreateCredential
  <2> QED BY <1>1, <1>5, <2>1, StatusNotBad DEF EnrolCreateCredential
<1>6. CASE EnrolBuildCleartext(p)
  <2> DEFINE spec == make_new_key_spec_from_invocation(
                         inv[p].passphrase, inv[p].kdf_hardness, p)
             aaguid == Bytes(AAGUID_SIZE_BYTES, Aaguid[device[p].id])
             sealed ==
build_deserialized_cleartext_from_authenticator_parameters_and_key_spec(
                 params[p], spec, aaguid, p)
  <2>1. /\ Proceed(p, derive_key_status(spec), "enrol: fopen")
        /\ \/ Exit(p, derive_key_status(spec))
           \/ cleartext' = [cleartext EXCEPT ![p] = sealed]
        /\ pc[p] = "enrol: build_deserialized_cleartext"
        /\ UNCHANGED << inv, disk, damages, credentials >>
    BY <1>6 DEF EnrolBuildCleartext, enrolVars, Proceed
  <2>2. PICK credential \in credentials :
           /\ credential.rp = p
           /\ params[p].credential_id =
                  Bytes(CredentialSize[credential.device], credential)
    BY <1>0, <2>1 DEF BoundProc, OwnCredential
  <2>3. CredentialSize[credential.device] \in Int
    BY <1>0, <2>2, AuthenticatorAssumption DEF TypeOK, AuthenticatorAssumption
  <2>a. aaguid.size \in Int
    BY DEF Bytes, AAGUID_SIZE_BYTES
  <2> HIDE DEF aaguid, sealed, spec
  <2>4. /\ inv[p].subcommand = "enrol"
        /\ params[p].relying_party_id = p
        /\ params[p].salt = FreshSalt(p)
    BY <1>0, <2>1
    DEF BoundProc, Enrols, EnrolLabels, EnrolmentFresh, DeviceLabels
  <2>5. Encodable(sealed) /\ SealedIn(sealed, p, inv, credentials)
    BY <2>2, <2>3, <2>4, <2>a, BuiltSealed DEF sealed, spec
  <2>6. derive_key_status(spec) # EXIT_BAD_PASSPHRASE
    BY StatusNotBad
  <2>7. \/ /\ pc'[p] = "enrol: fopen"
           /\ cleartext'[p] = sealed
        \/ pc'[p] = "exited" /\ exit'[p] # EXIT_BAD_PASSPHRASE
    BY <1>0, <2>1, <2>6 DEF Proceed, Goto, Exit, Shape
  <2>8. KeyProc(p)'
    <3>1. CASE pc'[p] = "exited" /\ exit'[p] # EXIT_BAD_PASSPHRASE
      BY <3>1, Elsewhere
    <3>2. CASE pc'[p] = "enrol: fopen" /\ cleartext'[p] = sealed
      BY <2>1, <2>5, <3>2 DEF KeyProc, Exited, Encodable
    <3> QED BY <2>7, <3>1, <3>2
  <2> QED BY <1>0, <2>1, <2>8, FilesStay
<1>7. CASE EnrolOpenFile(p)
  <2>f. PICK f : f = inv[p].file
    OBVIOUS
  <2>1. PICK status \in {EXIT_SUCCESS, EXIT_DESERIALIZATION_ERROR} :
           /\ Proceed(p, status, "enrol: fclose")
           /\ disk' = IF status = EXIT_SUCCESS
                      THEN [disk EXCEPT ![f] = EmptyFile]
                      ELSE disk
    BY <1>7, <2>f DEF EnrolOpenFile
  <2>2. /\ pc[p] = "enrol: fopen"
        /\ UNCHANGED << inv, credentials, cleartext, damages >>
    BY <1>7 DEF EnrolOpenFile, enrolVars
  <2>3. \/ pc'[p] = "enrol: fclose" /\ status = EXIT_SUCCESS
        \/ /\ pc'[p] = "exited" /\ exit'[p] # EXIT_BAD_PASSPHRASE
           /\ status # EXIT_SUCCESS
    BY <1>0, <2>1, StatusNotBad DEF Proceed, Goto, Exit, Shape
  <2>4. CASE status # EXIT_SUCCESS
    <3>1. KeyProc(p)'
      BY <2>3, <2>4, Elsewhere
    <3> QED BY <1>0, <2>1, <2>2, <2>4, <3>1, FilesStay
  <2>5. CASE status = EXIT_SUCCESS
    <3>2. Enrols(p) /\ f \in File
      BY <1>0, <2>2, <2>f, MachineAssumption
      DEF MachineAssumption, BoundProc, EnrolLabels
    <3>3. /\ DOMAIN disk = File
          /\ disk' = [disk EXCEPT ![f] = EmptyFile]
      BY <1>0, <2>1, <2>5 DEF Shape
    <3>e. disk'[f] = EmptyFile
      BY <3>2, <3>3
    <3>4. /\ SoundItem(EmptyFile.item)
          /\ EmptyFile.length \in Int
      BY DEF SoundItem, EmptyFile, EncodedFile, Malformed, IsCleartextV1,
             HasVersion
    <3>1. KeyProc(p)'
      BY <1>0, <2>2, <2>3, <2>5, <2>f, <3>e, <3>4
      DEF KeyProc, Exited, Encodable
    <3>5. SoundStep
      BY <2>2, <3>3, <3>4 DEF SoundStep
    <3>6. Busy(f)'
      BY <2>2, <2>3, <2>5, <2>f, <3>2 DEF Busy, Enrols
    <3>7. KeyFile(f)'
      BY <3>4, <3>6, <3>e DEF KeyFile
    <3>8. ASSUME NEW g \in File, g # f PROVE KeyFile(g)'
      <4>1. Busy(g) => Busy(g)'
        <5>1. ASSUME NEW r \in Proc, Enrols(r), inv[r].file = g,
                     pc[r] \in {"enrol: fclose", "killed"}
              PROVE  Busy(g)'
          <6>1. r # p
            BY <2>2, <5>1
          <6> QED BY <1>0, <2>2, <5>1, <6>1 DEF Busy, Enrols, Untouched
        <5> QED BY <5>1 DEF Busy
      <4>2. disk'[g] = disk[g] /\ damages'[g] = damages[g]
        BY <2>2, <3>3, <3>8
      <4> QED BY <1>0, <4>1, <4>2, FileStays
    <3> QED BY <3>1, <3>5, <3>7, <3>8
  <2> QED BY <2>4, <2>5
<1>8. CASE EnrolCloseFile(p)
  <2>f. PICK f : f = inv[p].file
    OBVIOUS
  <2>n. PICK new :
           new = Overwrite(disk[f], cbor_serialize_alloc(cleartext[p]))
    OBVIOUS
  <2>1. /\ pc[p] = "enrol: fclose"
        /\ \/ disk' = [disk EXCEPT ![f] = new]
           \/ DiskMayFill /\ UNCHANGED disk
        /\ UNCHANGED << inv, credentials, damages >>
    BY <1>8, <2>f, <2>n DEF EnrolCloseFile, enrolVars
  <2>2. pc'[p] = "exited" /\ exit'[p] # EXIT_BAD_PASSPHRASE
    BY <1>0, <1>8, StatusNotBad DEF EnrolCloseFile, Exit, Shape
  <2>3. KeyProc(p)'
    BY <2>2, Elsewhere
  <2>4. /\ f \in File
        /\ Encodable(cleartext[p])
        /\ SealedIn(cleartext[p], p, inv, credentials)
    BY <1>0, <2>1, <2>f, MachineAssumption
    DEF MachineAssumption, BoundProc, KeyProc
  <2>5. /\ new.item = serialize_cleartext_to_cbor_v1(cleartext[p])
        /\ SoundItem(new.item)
    <3>1. new.item = serialize_cleartext_to_cbor_v1(cleartext[p])
      BY <2>n DEF Overwrite, cbor_serialize_alloc, EncodedFile
    <3> QED BY <2>4, <3>1, SealedSound
  <2>6. ASSUME damages[f] = 0
        PROVE  new.length \in Int /\ WholeIn(new, inv, credentials)
    <3>0. disk[f].length \in Int
      BY <1>0, <2>1, <2>4, <2>6, <2>f DEF KeyProc
    <3>1. new.length \in Int /\ cbor_load(new) = new.item
      BY <2>4, <2>n, <3>0, WrittenWhole
    <3>2. /\ IsCleartextV1(new.item)
          /\ deserialize_cleartext_from_cbor_v1(new.item) = cleartext[p]
      BY <2>4, <2>5, EncodingRoundTrip
    <3> QED BY <2>4, <3>1, <3>2 DEF WholeIn
  <2>7. DOMAIN disk = File
    BY <1>0 DEF Shape
  <2>8. SoundStep
    BY <2>1, <2>5, <2>6, <2>7 DEF SoundStep
  <2>9. ASSUME NEW g \in File PROVE KeyFile(g)'
    <3>1. CASE g = f /\ disk'[f] = new
      BY <2>1, <2>5, <2>6, <3>1 DEF KeyFile
    <3>2. CASE g = f /\ DiskMayFill /\ UNCHANGED disk
      BY <1>0, <2>1, <2>9, <3>2 DEF KeyFile
    <3>3. CASE g # f
      <4>1. Busy(g) => Busy(g)'
        <5>1. ASSUME NEW r \in Proc, Enrols(r), inv[r].file = g,
                     pc[r] \in {"enrol: fclose", "killed"}
              PROVE  Busy(g)'
          <6>1. r # p
            BY <2>f, <3>3, <5>1
          <6> QED BY <1>0, <2>1, <5>1, <6>1 DEF Busy, Enrols, Untouched
        <5> QED BY <5>1 DEF Busy
      <4>2. disk'[g] = disk[g] /\ damages'[g] = damages[g]
        BY <2>1, <2>7, <3>3
      <4> QED BY <1>0, <4>1, <4>2, FileStays
    <3> QED BY <2>1, <2>4, <2>7, <3>1, <3>2, <3>3
  <2> QED BY <2>3, <2>8, <2>9
<1> QED BY <1>2, <1>3, <1>4, <1>5, <1>6, <1>7, <1>8 DEF EnrolStep

\* The steps of generate.
LEMMA GenerateKey ==
    ASSUME KeyInv, NEW p \in Proc, GenerateStep(p), UNCHANGED enrolVars
    PROVE  KeyProc(p)' /\ SoundStep /\ \A f \in File : KeyFile(f)'
<1>0. /\ Shape /\ Grows
      /\ BoundProc(p) /\ KeyProc(p)
      /\ \A q \in Proc \ {p} : Untouched(q)
      /\ \A f \in File : KeyFile(f)
  BY StepGrows, StepLocal DEF KeyInv, BindInv, TypeInv, Step
<1>1. UNCHANGED << inv, disk, damages >>
  BY DEF GenerateStep, GenerateListDevices, GenerateOpenFile,
         GenerateReadFile, GenerateLoadCleartext, GenerateUnlock,
         GenerateGetDevice, GenerateGetDeviceInfo, GenerateReadPin,
         GenerateGetSecret, GenerateFinish
<1>2. pc[p] \in LockedLabels \union UnlockedLabels
  BY DEF LockedLabels, UnlockedLabels, GenerateStep, GenerateListDevices,
         GenerateOpenFile, GenerateReadFile, GenerateLoadCleartext,
         GenerateUnlock, GenerateGetDevice, GenerateGetDeviceInfo,
         GenerateReadPin, GenerateGetSecret, GenerateFinish
<1>3. SoundStep /\ \A f \in File : KeyFile(f)'
  <2>1. pc[p] \notin {"enrol: fclose", "killed"}
    BY <1>2 DEF LockedLabels, UnlockedLabels
  <2> QED BY <1>0, <1>1, <2>1, FilesStay
<1>m. ASSUME NEW status, NEW l, Proceed(p, status, l),
             status # EXIT_BAD_PASSPHRASE
      PROVE  \/ pc'[p] = l /\ status = EXIT_SUCCESS
             \/ /\ pc'[p] = "exited" /\ exit'[p] # EXIT_BAD_PASSPHRASE
                /\ status # EXIT_SUCCESS
  BY <1>0, <1>m DEF Proceed, Goto, Exit, Shape
<1>d. EXIT_DESERIALIZATION_ERROR # EXIT_SUCCESS
  BY DEF EXIT_SUCCESS, EXIT_DESERIALIZATION_ERROR, EXIT_H_USER_ERROR_BITS
<1>4. CASE GenerateListDevices(p)
  <2>1. PICK result \in list_devices_results :
           Proceed(p, result.status, "generate: fopen")
    BY <1>4 DEF GenerateListDevices
  <2>2. result.status # EXIT_BAD_PASSPHRASE
    BY StatusNotBad
  <2>3. \/ pc'[p] = "generate: fopen"
        \/ pc'[p] = "exited" /\ exit'[p] # EXIT_BAD_PASSPHRASE
    BY <1>m, <2>1, <2>2
  <2> QED BY <1>3, <2>3, Elsewhere
<1>5. CASE GenerateOpenFile(p)
  <2>1. /\ pc[p] = "generate: fopen"
        /\ Proceed(p, open_status(inv[p].file), "generate: fread")
    BY <1>5 DEF GenerateOpenFile
  <2>2. \/ pc'[p] = "generate: fread" /\ open_status(inv[p].file) = EXIT_SUCCESS
        \/ pc'[p] = "exited" /\ exit'[p] # EXIT_BAD_PASSPHRASE
    <3>1. open_status(inv[p].file) # EXIT_BAD_PASSPHRASE
      BY StatusNotBad
    <3> QED BY <1>m, <2>1, <3>1
  <2>3. CASE /\ pc'[p] = "generate: fread"
             /\ open_status(inv[p].file) = EXIT_SUCCESS
    <3>1. disk[inv[p].file] # NULL
      BY <1>d, <2>3 DEF open_status
    <3>2. inv[p].file \in File /\ damages[inv[p].file] = 0 =>
             SoundItem(disk[inv[p].file].item)
      BY <1>0, <3>1 DEF KeyFile
    <3>3. KeyProc(p)'
      BY <1>1, <2>3, <3>2 DEF KeyProc, Exited
    <3> QED BY <1>3, <3>3
  <2>4. CASE pc'[p] = "exited" /\ exit'[p] # EXIT_BAD_PASSPHRASE
    BY <1>3, <2>4, Elsewhere
  <2> QED BY <2>2, <2>3, <2>4
<1>6. CASE GenerateReadFile(p)
  <2> DEFINE f == inv[p].file
             status == fread_status(f, length[p])
  <2>1. /\ pc[p] = "generate: fread"
        /\ Proceed(p, status, "generate: load_cleartext")
        /\ status = EXIT_SUCCESS =>
              data' = [data EXCEPT ![p] = FirstBytes(f, length[p])]
    BY <1>6 DEF GenerateReadFile
  <2>2. \/ pc'[p] = "generate: load_cleartext" /\ status = EXIT_SUCCESS
        \/ pc'[p] = "exited" /\ exit'[p] # EXIT_BAD_PASSPHRASE
    <3>1. status # EXIT_BAD_PASSPHRASE
      BY StatusNotBad
    <3> QED BY <1>m, <2>1, <3>1
  <2>3. CASE pc'[p] = "generate: load_cleartext" /\ status = EXIT_SUCCESS
    <3>1. disk[f] = EncodedFile(disk[f].length, disk[f].size, disk[f].item)
      BY <1>0, <2>1 DEF BoundProc, BoundFile
    <3>2. FirstBytes(f, length[p]).item = disk[f].item
      BY <3>1 DEF FirstBytes, EncodedFile
    <3>3. data'[p].item = disk[f].item
      BY <1>0, <2>1, <2>3, <3>2 DEF Shape
    <3>4. inv[p].file \in File /\ damages[inv[p].file] = 0 =>
             SoundItem(disk[f].item)
      BY <1>0, <2>1 DEF KeyProc
    <3>5. KeyProc(p)'
      BY <1>1, <2>3, <3>3, <3>4 DEF KeyProc, Exited
    <3> QED BY <1>3, <3>5
  <2>4. CASE pc'[p] = "exited" /\ exit'[p] # EXIT_BAD_PASSPHRASE
    BY <1>3, <2>4, Elsewhere
  <2> QED BY <2>2, <2>3, <2>4
<1>7. CASE GenerateLoadCleartext(p)
  <2> DEFINE root == cbor_load(data[p])
             status == load_cleartext_status(data[p])
             new == deserialize_cleartext_from_cbor_v1(root)
  <2>1. /\ pc[p] = "generate: load_cleartext"
        /\ \/ Proceed(p, status, "generate: derive_key")
           \/ Goto(p, "killed")
        /\ status = EXIT_SUCCESS => cleartext' = [cleartext EXCEPT ![p] = new]
    BY <1>7 DEF GenerateLoadCleartext
  <2>2. \/ pc'[p] = "generate: derive_key" /\ status = EXIT_SUCCESS
        \/ pc'[p] = "exited" /\ exit'[p] # EXIT_BAD_PASSPHRASE
        \/ pc'[p] = "killed"
    <3>1. status # EXIT_BAD_PASSPHRASE
      BY StatusNotBad
    <3>2. Goto(p, "killed") => pc'[p] = "killed"
      BY <1>0 DEF Goto, Shape
    <3> QED BY <1>m, <2>1, <3>1, <3>2
  <2>3. CASE pc'[p] = "generate: derive_key" /\ status = EXIT_SUCCESS
    <3>1. IsCleartextV1(root)
      BY <1>d, <2>3 DEF load_cleartext_status
    <3>2. root = data[p].item
      BY <3>1 DEF cbor_load, IsCleartextV1, HasVersion, Malformed
    <3> HIDE DEF root, new
    <3>3. cleartext'[p] = new
      BY <1>0, <2>1, <2>3 DEF Shape
    <3>4. SoundItem(data[p].item) => SelfOpening(new)
      BY <3>1, <3>2 DEF SoundItem, new
    <3>5. KeyProc(p)'
      BY <1>0, <1>1, <2>1, <2>3, <3>3, <3>4 DEF KeyProc, Exited
    <3> QED BY <1>3, <3>5
  <2>4. CASE \/ pc'[p] = "exited" /\ exit'[p] # EXIT_BAD_PASSPHRASE
             \/ pc'[p] = "killed"
    BY <1>3, <2>4, Elsewhere
  <2> QED BY <2>2, <2>3, <2>4
<1>8. CASE GenerateUnlock(p)
  <2> DEFINE passphrase == inv[p].passphrase
             clear == cleartext[p]
             spec ==
                 make_key_spec_from_passphrase_and_cleartext(passphrase, clear)
             opened == build_authenticator_parameters_status(
                           clear, PasswordHash(spec), inv[p].mixin)
             status == IF derive_key_status(spec) # EXIT_SUCCESS
                       THEN derive_key_status(spec) ELSE opened
  <2>1. /\ pc[p] = "generate: derive_key"
        /\ UNCHANGED cleartext
        /\ Proceed(p, status, "generate: get_device")
    BY <1>8 DEF GenerateUnlock
  <2>2. status = EXIT_BAD_PASSPHRASE =>
           ~SecretBoxOpens(clear, PasswordHash(spec))
    <3>1. derive_key_status(spec) # EXIT_BAD_PASSPHRASE
      BY StatusNotBad
    <3>2. opened = EXIT_BAD_PASSPHRASE =>
             ~SecretBoxOpens(clear, PasswordHash(spec))
      BY StatusNotBad
    <3> QED BY <3>1, <3>2
  <2>3. /\ SelfOpening(clear)
        /\ clear.encrypted_data.val.key.passphrase = passphrase
        => SecretBoxOpens(clear, PasswordHash(spec))
    BY DEF SelfOpening, OpensWith
  <2> HIDE DEF spec, status
  <2>4. \/ pc'[p] = "generate: get_device"
        \/ pc'[p] = "exited" /\ exit'[p] = status
    BY <1>0, <2>1 DEF Proceed, Goto, Exit, Shape
  <2>5. CASE pc'[p] = "generate: get_device"
    BY <1>3, <2>5, Elsewhere
  <2>6. CASE pc'[p] = "exited" /\ exit'[p] = status
    <3>1. inv[p].file \in File /\ damages[inv[p].file] = 0 => SelfOpening(clear)
      BY <1>0, <2>1 DEF KeyProc
    <3>2. KeyProc(p)'
      BY <1>1, <2>1, <2>2, <2>3, <2>6, <3>1 DEF KeyProc, Exited
    <3> QED BY <1>3, <3>2
  <2> QED BY <2>4, <2>5, <2>6
<1>9. ASSUME \/ GenerateGetDevice(p) \/ GenerateGetDeviceInfo(p)
             \/ GenerateReadPin(p) \/ GenerateGetSecret(p) \/ GenerateFinish(p)
      PROVE  \/ pc'[p] \in UnlockedLabels
             \/ pc'[p] = "exited" /\ exit'[p] # EXIT_BAD_PASSPHRASE
  <2>1. CASE GenerateGetDevice(p)
    <3>1. PICK status \in get_device_statuses(devices_list[p][i[p]]) :
             Proceed(p, status, "generate: get_device_info")
      BY <2>1 DEF GenerateGetDevice
    <3>2. status # EXIT_BAD_PASSPHRASE
      BY <3>1, StatusNotBad
    <3> QED BY <1>m, <3>1, <3>2 DEF UnlockedLabels
  <2>2. CASE GenerateGetDeviceInfo(p)
    <3>1. PICK status \in get_device_info_statuses(p) :
             \/ Exit(p, status)
             \/ Continue(p)
             \/ \E l \in UnlockedLabels : Goto(p, l)
      BY <2>2 DEF GenerateGetDeviceInfo, UnlockedLabels
    <3>2. status # EXIT_BAD_PASSPHRASE
      BY <3>1, StatusNotBad
    <3> QED
      BY <1>0, <3>1, <3>2 DEF Exit, Continue, Goto, Shape, UnlockedLabels
  <2>3. CASE GenerateReadPin(p)
    <3>1. \/ Exit(p, EXIT_UNABLE_TO_GET_USER_SECRET)
          \/ Continue(p)
          \/ Goto(p, "generate: get_secret")
      BY <2>3 DEF GenerateReadPin
    <3> QED
      BY <1>0, <3>1, StatusNotBad
      DEF Exit, Continue, Goto, Shape, UnlockedLabels
  <2>4. CASE GenerateGetSecret(p)
    <3>1. \/ \E status \in { EXIT_SUCCESS, EXIT_OUT_OF_MEMORY,
                             EXIT_AUTHENTICATOR_ERROR,
                             EXIT_PROGRAMMER_ERROR } : Exit(p, status)
          \/ Continue(p)
      BY <2>4 DEF GenerateGetSecret, request_status
    <3> QED
      BY <1>0, <3>1, StatusNotBad
      DEF Exit, Continue, Goto, Shape, UnlockedLabels
  <2>5. CASE GenerateFinish(p)
    BY <1>0, <2>5, StatusNotBad DEF GenerateFinish, Exit, Shape
  <2> QED BY <1>9, <2>1, <2>2, <2>3, <2>4, <2>5
<1>10. CASE \/ GenerateGetDevice(p) \/ GenerateGetDeviceInfo(p)
            \/ GenerateReadPin(p) \/ GenerateGetSecret(p) \/ GenerateFinish(p)
  <2>1. KeyProc(p)'
    BY <1>9, <1>10, Elsewhere DEF UnlockedLabels
  <2> QED BY <1>3, <2>1
<1> QED BY <1>4, <1>5, <1>6, <1>7, <1>8, <1>10 DEF GenerateStep

\* A process that starts has nothing yet, one that dies claims nothing.
LEMMA FateKey ==
    ASSUME KeyInv, NEW p \in Proc, Fate(p)
    PROVE  KeyProc(p)' /\ SoundStep /\ \A f \in File : KeyFile(f)'
<1>0. /\ Shape /\ Grows
      /\ \A q \in Proc \ {p} : Untouched(q)
      /\ UNCHANGED << disk, damages >>
  BY StepGrows, StepLocal
  DEF KeyInv, BindInv, TypeInv, Fate, Start, Kill, OutOfMemory
<1>1. \/ /\ pc[p] = "ready"
         /\ pc'[p] \in {"enrol: get_device", "generate: list_devices"}
      \/ /\ Running(p)
         /\ pc'[p] = "killed"
      \/ /\ Running(p) /\ pc[p] # "enrol: fclose"
         /\ pc'[p] = "exited" /\ exit'[p] = EXIT_OUT_OF_MEMORY
  BY <1>0 DEF Fate, Start, Kill, OutOfMemory, Goto, Exit, Shape
<1>2. KeyProc(p)'
  BY <1>1, StatusNotBad, Elsewhere
<1>3. pc[p] \in {"enrol: fclose", "killed"} => pc'[p] = "killed"
  BY <1>1 DEF Running, Ended
<1> QED BY <1>0, <1>2, <1>3, FilesStay

\* Damage is counted, plugging and unplugging touch no keyfile.
LEMMA WorldKey == ASSUME KeyInv, World PROVE KeyInv'
<1>1. BindInv'
  BY WorldBound DEF KeyInv
<1>2. /\ UNCHANGED << pc, exit, inv, cleartext, credentials, data >>
      /\ Grows
  BY WorldLocal DEF KeyInv, BindInv, enrolVars, generateVars, Grows
<1>3. /\ SoundStep
      /\ \A f \in File :
            \/ disk'[f] = disk[f] /\ damages'[f] = damages[f]
            \/ damages'[f] # 0
  <2>1. CASE UNCHANGED << disk, damages >>
    BY <2>1 DEF SoundStep
  <2>2. ASSUME NEW f \in File, Damage(f)
        PROVE  /\ damages'[f] # 0
               /\ \A g \in File \ {f} : /\ disk'[g] = disk[g]
                                        /\ damages'[g] = damages[g]
    <3>1. damages \in [File -> 0 .. MaxDamages] /\ DOMAIN disk = File
      BY DEF KeyInv, BindInv, TypeInv, TypeOK
    <3> QED BY <2>2, <3>1 DEF Damage
  <2> QED BY <2>1, <2>2 DEF World, Plug, Unplug, machineVars, SoundStep
<1>4. ASSUME NEW q \in Proc PROVE KeyProc(q)'
  BY <1>2, <1>3, KeyOthers DEF KeyInv
<1>5. ASSUME NEW f \in File PROVE KeyFile(f)'
  <2>1. CASE disk'[f] = disk[f] /\ damages'[f] = damages[f]
    <3>1. Busy(f) => Busy(f)'
      BY <1>2 DEF Busy, Enrols
    <3> QED BY <1>2, <2>1, <3>1, FileStays DEF KeyInv
  <2>2. CASE damages'[f] # 0
    BY <2>2 DEF KeyFile
  <2> QED BY <1>3, <2>1, <2>2
<1> QED BY <1>1, <1>4, <1>5 DEF KeyInv

\* The invariant is inductive.
LEMMA KeyNext == KeyInv /\ [Next]_vars => KeyInv'
<1> SUFFICES ASSUME KeyInv, [Next]_vars PROVE KeyInv'
  OBVIOUS
<1>1. BindInv'
  BY BindNext DEF KeyInv
<1>2. CASE UNCHANGED vars
  <2>1. /\ UNCHANGED << pc, exit, inv, cleartext, credentials, data, disk,
                        damages >>
        /\ Grows
    BY <1>2
    DEF vars, machineVars, authenticatorVars, enrolVars, generateVars, Grows
  <2>2. SoundStep
    BY <2>1 DEF SoundStep
  <2>3. ASSUME NEW q \in Proc PROVE KeyProc(q)'
    BY <2>1, <2>2, KeyOthers DEF KeyInv
  <2>4. ASSUME NEW f \in File PROVE KeyFile(f)'
    <3>1. Busy(f) => Busy(f)'
      BY <2>1 DEF Busy, Enrols
    <3> QED BY <2>1, <3>1, FileStays DEF KeyInv
  <2> QED BY <1>1, <2>3, <2>4 DEF KeyInv
<1>3. CASE World
  BY <1>3, WorldKey
<1>4. ASSUME NEW p \in Proc, Step(p) \/ Fate(p) PROVE KeyInv'
  BY <1>1, <1>4, EnrolKey, GenerateKey, FateKey, KeyStepEnough DEF Step
<1> QED BY <1>2, <1>3, <1>4 DEF Next, Idle

-----------------------------------------------------------------------------
(* The theorems *)

\* As long as nobody damaged the keyfile, "bad passphrase" is said only of a
\* passphrase that the keyfile was not sealed under, even while enrolments
\* replace it.
THEOREM BadPassphraseTrue == Spec => []BadPassphraseIsTrue
<1>1. KeyInv => BadPassphraseIsTrue
  <2> SUFFICES ASSUME KeyInv, NEW p \in Proc, Exited(p, EXIT_BAD_PASSPHRASE),
                      damages[inv[p].file] = 0
               PROVE  cleartext[p].encrypted_data.val.key.passphrase
                          # inv[p].passphrase
    BY DEF BadPassphraseIsTrue
  <2>1. inv[p].file \in File
    BY MachineAssumption
    DEF MachineAssumption, KeyInv, BindInv, BoundProc, Exited
  <2> QED BY <2>1 DEF KeyInv, KeyProc
<1> QED BY <1>1, KeyInit, KeyNext, PTL DEF Spec

\* Unless a write fails, enrolments that race for a keyfile leave a whole one
\* behind, sealed by one of them, once none of them is writing it.
THEOREM WholeWhenQuiet ==
    ASSUME ~DiskMayFill PROVE Spec => []KeyfileWholeWhenQuiet
<1>1. KeyInv => KeyfileWholeWhenQuiet
  <2> SUFFICES ASSUME KeyInv, NEW f \in File,
                      disk[f] # NULL, ~(damages[f] > 0), ~Busy(f)
               PROVE  Whole(disk[f])
    BY DEF KeyfileWholeWhenQuiet, Busy
  <2>1. damages[f] = 0
    <3>1. damages[f] \in 0 .. MaxDamages
      BY DEF KeyInv, BindInv, TypeInv, TypeOK
    <3> QED BY <3>1, MachineAssumption DEF MachineAssumption
  <2>2. WholeIn(disk[f], inv, credentials)
    BY <2>1 DEF KeyInv, KeyFile
  <2> QED BY <2>2 DEF WholeIn, SealedIn, Whole, MadeBy, Enrols
<1> QED BY <1>1, KeyInit, KeyNext, PTL DEF Spec

\* A keyfile changes only when it is damaged, or by an enrolment of it that
\* holds the sealed replacement, which its passphrase opens.  An enrolment
\* that fails earlier leaves the old keyfile alone.
THEOREM ReplacedWhenReady == Spec => ReplacementReady
<1>1. ASSUME KeyInv, [Next]_vars, NEW f \in File, disk'[f] # disk[f]
      PROVE  \/ damages'[f] # damages[f]
             \/ \E p \in Proc :
                   /\ Enrols(p) /\ inv[p].file = f
                   /\ pc[p] \in {"enrol: fopen", "enrol: fclose"}
                   /\ MadeBy(cleartext[p].encrypted_data.val, p)
                   /\ OpensWith(cleartext[p], inv[p].passphrase)
  <2>0. /\ damages \in [File -> 0 .. MaxDamages]
        /\ DOMAIN disk = File
    BY <1>1 DEF KeyInv, BindInv, TypeInv, TypeOK
  <2>1. CASE World
    <3>1. PICK g \in File : Damage(g)
      BY <1>1, <2>1 DEF World, Plug, Unplug, machineVars
    <3>2. g = f
      BY <1>1, <2>0, <3>1 DEF Damage
    <3>3. damages'[f] = damages[f] + 1
      BY <2>0, <3>1, <3>2 DEF Damage
    <3>4. damages[f] \in Int
      BY <2>0, MachineAssumption DEF MachineAssumption
    <3>5. damages[f] + 1 # damages[f]
      BY <3>4
    <3> QED BY <3>3, <3>5
  <2>2. ASSUME NEW p \in Proc, EnrolOpenFile(p) \/ EnrolCloseFile(p)
        PROVE  /\ Enrols(p) /\ inv[p].file = f
               /\ pc[p] \in {"enrol: fopen", "enrol: fclose"}
               /\ MadeBy(cleartext[p].encrypted_data.val, p)
               /\ OpensWith(cleartext[p], inv[p].passphrase)
    <3>1. pc[p] \in {"enrol: fopen", "enrol: fclose"}
      BY <2>2 DEF EnrolOpenFile, EnrolCloseFile
    <3>2. inv[p].file = f
      BY <1>1, <2>0, <2>2 DEF EnrolOpenFile, EnrolCloseFile
    <3>3. SealedIn(cleartext[p], p, inv, credentials)
      BY <1>1, <3>1 DEF KeyInv, KeyProc
    <3> QED BY <3>1, <3>2, <3>3 DEF SealedIn, MadeBy, Enrols
  <2>3. ASSUME NEW p \in Proc, Step(p) \/ Fate(p)
        PROVE  EnrolOpenFile(p) \/ EnrolCloseFile(p)
    BY <1>1, <2>3
    DEF Step, Fate, EnrolStep, GenerateStep, EnrolGetDevice,
        EnrolGetDeviceInfo, EnrolReadPin, EnrolCreateCredential,
        EnrolBuildCleartext, GenerateListDevices, GenerateOpenFile,
        GenerateReadFile, GenerateLoadCleartext, GenerateUnlock,
        GenerateGetDevice, GenerateGetDeviceInfo, GenerateReadPin,
        GenerateGetSecret, GenerateFinish, Start, Kill, OutOfMemory
  <2> QED
    BY <1>1, <2>1, <2>2, <2>3 DEF Next, Idle, vars, machineVars
<1>2. KeyInv /\ [Next]_vars =>
      [ \A f \in File : disk'[f] # disk[f] =>
            \/ damages'[f] # damages[f]
            \/ \E p \in Proc :
                  /\ Enrols(p) /\ inv[p].file = f
                  /\ pc[p] \in {"enrol: fopen", "enrol: fclose"}
                  /\ MadeBy(cleartext[p].encrypted_data.val, p)
                  /\ OpensWith(cleartext[p], inv[p].passphrase) ]_vars
  BY <1>1
<1> QED BY <1>2, KeyInit, KeyNext, PTL DEF Spec, ReplacementReady

-----------------------------------------------------------------------------
(* The loop over the devices: the invariant *)

\* The stored AAGUID is empty, or one of the size devices have.
FullAaguid(clear) ==
    clear.device_aaguid \in
        { Bytes(0, NULL), Bytes(AAGUID_SIZE_BYTES, clear.device_aaguid.val) }

AaguidItem(item) ==
    IsCleartextV1(item) => FullAaguid(deserialize_cleartext_from_cbor_v1(item))

\* generate has a device open.
Asking == UnlockedLabels \ {"generate: get_device"}

\* The device that the enrolment of the open keyfile was made with.
Target(p) == params[p].credential_id.val.device

\* The keyfile is for this make of device, or for any.
IsFor(clear, d) ==
    clear.device_aaguid.size = 0 \/ clear.device_aaguid.val = Aaguid[d]

IsLog(s) == s \in Seq({ s[n] : n \in DOMAIN s })

LoggedDevice(p, d) == \E n \in DOMAIN log[p] : log[p][n].device = d

\* The positions of the list that the loop has passed.
Passed(p) == { k \in DOMAIN devices_list[p] : k < i[p] }

NonePassedOver(p) ==
    \A k \in Passed(p) :
        port[devices_list[p][k]] = Target(p) /\ IsFor(cleartext[p], Target(p))
            => LoggedDevice(p, Target(p))

\* Every device that was asked is at a position that was passed.
OnlyPassedAsked(p) ==
    \A n \in DOMAIN log[p] :
        \E k \in Passed(p) : log[p][n].device = port[devices_list[p][k]]

\* Where the loop of a generate is; the ports stay as they are.
LoopProc(p) ==
    /\ pc[p] \in {"ready"} \union LockedLabels => i[p] = 1
    /\ \A k, m \in DOMAIN devices_list[p] :
          devices_list[p][k] = devices_list[p][m] => k = m
    /\ IsLog(log[p])
    /\ hotplugs = 0 /\ pc[p] \in Asking =>
          /\ MoreDevices(p)
          /\ device[p].id \in Device
          /\ device[p].id = port[devices_list[p][i[p]]]
    /\ hotplugs = 0 /\ pc[p] \in UnlockedLabels =>
          NonePassedOver(p) /\ OnlyPassedAsked(p)

\* The AAGUID that a process holds, by the place where it is; and an enrolment
\* goes on only with a device that has hmac-secret.
AaguidProc(p) ==
    /\ pc[p] \in {"enrol: prompt_for_secret", "enrol: create_credential"} =>
          device[p].id \in HmacSecret
    /\ pc[p] \in UnlockedLabels \union
                 {"enrol: fopen", "enrol: fclose", "generate: derive_key"} =>
          FullAaguid(cleartext[p])
    /\ pc[p] = "generate: fread" => AaguidItem(disk[inv[p].file].item)
    /\ pc[p] = "generate: load_cleartext" => AaguidItem(data[p].item)

\* A device is plugged in at one port.
PortsApart ==
    \A x, y \in Port : port[x] = port[y] /\ port[x] # NULL => x = y

AaguidInv ==
    /\ \A c \in credentials : c.device \in HmacSecret
    /\ \A f \in File : disk[f] # NULL => AaguidItem(disk[f].item)
    /\ \A p \in Proc : AaguidProc(p)

LoopInv ==
    /\ BindInv
    /\ AaguidInv
    /\ PortsApart
    /\ \A p \in Proc : LoopProc(p)

\* The processes that lost a retry of the device.
Spent(d) == {p \in Proc : ToldOfPin(p, d)}

RetriesKept ==
    hotplugs = 0 =>
        \A d \in Device :
            /\ IsFiniteSet(Spent(d))
            /\ MaxPinRetries - retries[d] <= Cardinality(Spent(d))

-----------------------------------------------------------------------------
(* The AAGUID in a keyfile *)

\* Encoding a cleartext keeps its AAGUID.
LEMMA AaguidEncoded ==
    ASSUME NEW clear, FullAaguid(clear)
    PROVE  AaguidItem(serialize_cleartext_to_cbor_v1(clear))
<1>1. deserialize_cleartext_from_cbor_v1(
          serialize_cleartext_to_cbor_v1(clear)).device_aaguid
      = clear.device_aaguid
  BY DEF deserialize_cleartext_from_cbor_v1, serialize_cleartext_to_cbor_v1,
         ByteItem, Array
<1> QED BY <1>1 DEF AaguidItem, FullAaguid

\* Whatever happens to a keyfile outside the program leaves its AAGUID, or
\* empties it.
LEMMA AaguidDamaged ==
    ASSUME NEW I, NEW C, NEW file, BoundFile(file, I, C),
           AaguidItem(file.item), NEW damaged \in Damaged(file)
    PROVE  AaguidItem(damaged.item)
<1>1. CASE damaged \in { EncodedFile(n, file.size, file.item) :
                            n \in {0, file.size - 1} }
  BY <1>1 DEF EncodedFile
<1>2. CASE damaged \in { EncodedFile(file.length, file.length, root) :
                            root \in BrokenRoots(file.item) }
  BY <1>2, BrokenRejected DEF BoundFile, EncodedFile, AaguidItem
<1>3. ASSUME IsCleartextV1(file.item),
             NEW c \in
               ChangedFields(deserialize_cleartext_from_cbor_v1(file.item)),
             damaged = cbor_serialize_alloc(c)
      PROVE  AaguidItem(damaged.item)
  <2> DEFINE clear == deserialize_cleartext_from_cbor_v1(file.item)
  <2>1. FullAaguid(clear)
    BY <1>3 DEF AaguidItem
  <2>2. clear = [ version |-> clear.version,
                  device_aaguid |-> clear.device_aaguid,
                  kdf_salt |-> clear.kdf_salt, opslimit |-> clear.opslimit,
                  memlimit |-> clear.memlimit, algorithm |-> clear.algorithm,
                  nonce |-> clear.nonce,
                  encrypted_data |-> clear.encrypted_data ]
    BY DEF deserialize_cleartext_from_cbor_v1
  <2>3. c \in ChangedFields(clear)
    BY <1>3
  <2> HIDE DEF clear
  <2>4. c.device_aaguid \in {clear.device_aaguid, Bytes(0, NULL)}
    <3>1. CASE c = [clear EXCEPT !.device_aaguid = Bytes(0, NULL)]
      BY <2>2, <3>1
    <3>2. CASE c = [clear EXCEPT !.encrypted_data.val.intact = FALSE]
      BY <2>2, <3>2
    <3>3. CASE c = [clear EXCEPT
                       !.encrypted_data.size = crypto_secretbox_MACBYTES - 1,
                       !.encrypted_data.val.intact = FALSE]
      BY <2>2, <3>3
    <3>4. \/ c.device_aaguid = clear.device_aaguid
          \/ c = [clear EXCEPT !.device_aaguid = Bytes(0, NULL)]
          \/ c = [clear EXCEPT !.encrypted_data.val.intact = FALSE]
          \/ c = [clear EXCEPT
                     !.encrypted_data.size = crypto_secretbox_MACBYTES - 1,
                     !.encrypted_data.val.intact = FALSE]
      BY <2>2, <2>3 DEF ChangedFields
    <3> QED BY <3>1, <3>2, <3>3, <3>4
  <2>5. FullAaguid(c)
    BY <2>1, <2>4 DEF FullAaguid, Bytes
  <2>6. damaged.item = serialize_cleartext_to_cbor_v1(c)
    BY <1>3 DEF cbor_serialize_alloc, EncodedFile
  <2> QED BY <2>5, <2>6, AaguidEncoded
<1> QED BY <1>1, <1>2, <1>3 DEF Damaged

\* A device whose AAGUID the keyfile names matches.
LEMMA NamedMatches ==
    ASSUME NEW p, FullAaguid(cleartext[p]), IsFor(cleartext[p], device[p].id)
    PROVE  device_aaguid_matches(p)
  BY DEF FullAaguid, IsFor, device_aaguid_matches, Bytes


-----------------------------------------------------------------------------
(* The AAGUIDs stay whole, and credentials are made with hmac-secret *)

\* A keyfile stays, or becomes one whose AAGUID is whole.
AaguidStep ==
    \A f \in File : disk'[f] = disk[f] \/ AaguidItem(disk'[f].item)

\* A process that exits, dies or has no keyfile holds no AAGUID.
LEMMA NoAaguid ==
    ASSUME NEW p, pc'[p] \notin UnlockedLabels \union
                      { "enrol: prompt_for_secret", "enrol: create_credential",
                        "enrol: fopen", "enrol: fclose", "generate: fread",
                        "generate: load_cleartext", "generate: derive_key" }
    PROVE  AaguidProc(p)'
  BY DEF AaguidProc

\* A process that is not disturbed holds what it held.
LEMMA AaguidOthers ==
    ASSUME AaguidStep, BindInv, NEW q \in Proc, AaguidProc(q),
           pc'[q] = pc[q], inv'[q] = inv[q], cleartext'[q] = cleartext[q],
           data'[q] = data[q], device'[q].id = device[q].id
    PROVE  AaguidProc(q)'
<1>1. pc[q] = "generate: fread" => inv[q].file \in File
  BY MachineAssumption DEF MachineAssumption, BindInv, BoundProc
<1>2. /\ pc'[q] = "generate: fread" => AaguidItem(disk'[inv'[q].file].item)
      /\ pc'[q] = "generate: load_cleartext" => AaguidItem(data'[q].item)
  BY <1>1 DEF AaguidStep, AaguidProc
<1>3. pc'[q] \in UnlockedLabels \union
                 {"enrol: fopen", "enrol: fclose", "generate: derive_key"} =>
          FullAaguid(cleartext'[q])
  BY DEF AaguidProc
<1> QED BY <1>2, <1>3 DEF AaguidProc

\* The steps of enrol.
LEMMA EnrolAaguid ==
    ASSUME BindInv, AaguidInv, NEW p \in Proc, EnrolStep(p)
    PROVE  /\ AaguidProc(p)' /\ AaguidStep
           /\ \A c \in credentials' : c.device \in HmacSecret
<1>0. /\ Shape /\ AaguidProc(p)
      /\ \A c \in credentials : c.device \in HmacSecret
  BY DEF BindInv, TypeInv, AaguidInv
<1>1. CASE EnrolGetDevice(p)
  <2>1. /\ pc'[p] \in {"enrol: get_device_info", "exited"}
        /\ UNCHANGED << disk, credentials >>
    BY <1>0, <1>1 DEF EnrolGetDevice, Shape, Proceed, Goto, Exit, enrolVars
  <2> QED BY <1>0, <2>1, NoAaguid DEF AaguidStep, UnlockedLabels
<1>2. CASE EnrolGetDeviceInfo(p)
  <2>1. PICK answer \in get_device_info_statuses(p) :
           LET status == IF device_supports_hmac_secret(p)
                         THEN answer ELSE EXIT_AUTHENTICATOR_ERROR
           IN  Proceed(p, status, IF fido_dev_has_pin(p)
                                  THEN "enrol: prompt_for_secret"
                                  ELSE "enrol: create_credential")
    BY <1>2 DEF EnrolGetDeviceInfo
  <2>2. EXIT_AUTHENTICATOR_ERROR # EXIT_SUCCESS
    BY DEF EXIT_AUTHENTICATOR_ERROR, EXIT_SUCCESS, EXIT_H_RUNTIME_ERROR_BITS
  <2>3. \/ pc'[p] = "exited"
        \/ /\ pc'[p] \in
                { "enrol: prompt_for_secret", "enrol: create_credential" }
           /\ device_supports_hmac_secret(p)
    BY <1>0, <2>1, <2>2 DEF Shape, Proceed, Goto, Exit
  <2>4. UNCHANGED << disk, credentials, device >>
    BY <1>2 DEF EnrolGetDeviceInfo, enrolVars
  <2> QED
    BY <1>0, <2>3, <2>4
    DEF AaguidProc, AaguidStep, UnlockedLabels, device_supports_hmac_secret
<1>3. CASE EnrolReadPin(p)
  <2>1. PICK status : Proceed(p, status, "enrol: create_credential")
    BY <1>3 DEF EnrolReadPin
  <2>2. /\ pc[p] = "enrol: prompt_for_secret"
        /\ pc'[p] \in {"enrol: create_credential", "exited"}
        /\ UNCHANGED << disk, credentials, device >>
    BY <1>0, <1>3, <2>1
    DEF EnrolReadPin, Shape, Proceed, Goto, Exit, enrolVars
  <2> QED BY <1>0, <2>2 DEF AaguidProc, AaguidStep, UnlockedLabels
<1>4. CASE EnrolCreateCredential(p)
  <2>1. PICK answer :
          /\ Proceed(p, create_credential_status(answer),
                     "enrol: build_deserialized_cleartext")
          /\ credentials' \subseteq credentials \union {NewCredential(p).val}
    BY <1>4 DEF EnrolCreateCredential
  <2>2. /\ pc[p] = "enrol: create_credential"
        /\ pc'[p] \in {"enrol: build_deserialized_cleartext", "exited"}
        /\ UNCHANGED disk
    BY <1>0, <1>4, <2>1 DEF EnrolCreateCredential, Shape, Proceed, Goto, Exit
  <2>3. NewCredential(p).val.device \in HmacSecret
    BY <1>0, <2>2 DEF AaguidProc, NewCredential, Bytes
  <2> QED
    BY <1>0, <2>1, <2>2, <2>3, NoAaguid DEF AaguidStep, UnlockedLabels
<1>5. CASE EnrolBuildCleartext(p)
  <2> DEFINE spec == make_new_key_spec_from_invocation(
                         inv[p].passphrase, inv[p].kdf_hardness, p)
             aaguid == Bytes(AAGUID_SIZE_BYTES, Aaguid[device[p].id])
             sealed ==
build_deserialized_cleartext_from_authenticator_parameters_and_key_spec(
                 params[p], spec, aaguid, p)
  <2>1. /\ \/ \E status : Exit(p, status)
           \/ /\ Goto(p, "enrol: fopen")
              /\ cleartext' = [cleartext EXCEPT ![p] = sealed]
        /\ UNCHANGED << disk, credentials >>
    BY <1>5 DEF EnrolBuildCleartext, enrolVars
  <2>2. sealed.device_aaguid = aaguid
    BY
    DEF build_deserialized_cleartext_from_authenticator_parameters_and_key_spec
  <2>3. FullAaguid(sealed)
    <3> HIDE DEF sealed
    <3> QED BY <2>2 DEF FullAaguid, Bytes
  <2> HIDE DEF sealed
  <2>4. CASE \E status : Exit(p, status)
    <3>1. pc'[p] = "exited"
      BY <1>0, <2>4 DEF Exit, Shape
    <3> QED BY <1>0, <2>1, <3>1, NoAaguid DEF AaguidStep, UnlockedLabels
  <2>5. CASE /\ Goto(p, "enrol: fopen")
             /\ cleartext' = [cleartext EXCEPT ![p] = sealed]
    <3>1. pc'[p] = "enrol: fopen" /\ cleartext'[p] = sealed
      BY <1>0, <2>5 DEF Goto, Shape
    <3> QED
      BY <1>0, <2>1, <2>3, <3>1
      DEF AaguidProc, AaguidStep, FullAaguid, UnlockedLabels
  <2> QED BY <2>1, <2>4, <2>5
<1>6. CASE EnrolOpenFile(p)
  <2>1. PICK status : Proceed(p, status, "enrol: fclose")
    BY <1>6 DEF EnrolOpenFile
  <2>2. /\ pc[p] = "enrol: fopen"
        /\ pc'[p] \in {"enrol: fclose", "exited"}
        /\ UNCHANGED << cleartext, credentials >>
    BY <1>0, <1>6, <2>1 DEF EnrolOpenFile, Shape, Proceed, Goto, Exit, enrolVars
  <2>3. AaguidItem(EmptyFile.item)
    BY DEF AaguidItem, EmptyFile, EncodedFile, Malformed, IsCleartextV1,
           HasVersion
  <2>4. AaguidStep
    BY <1>0, <1>6, <2>3 DEF EnrolOpenFile, AaguidStep, Shape
  <2> QED BY <1>0, <2>2, <2>4 DEF AaguidProc, FullAaguid, UnlockedLabels
<1>7. CASE EnrolCloseFile(p)
  <2>1. /\ pc[p] = "enrol: fclose"
        /\ pc'[p] = "exited"
        /\ UNCHANGED credentials
    BY <1>0, <1>7 DEF EnrolCloseFile, Shape, Exit, enrolVars
  <2>2. AaguidItem(serialize_cleartext_to_cbor_v1(cleartext[p]))
    BY <1>0, <2>1, AaguidEncoded DEF AaguidProc
  <2>3. \A old : Overwrite(old, cbor_serialize_alloc(cleartext[p])).item
                 = serialize_cleartext_to_cbor_v1(cleartext[p])
    BY DEF Overwrite, cbor_serialize_alloc, EncodedFile
  <2>4. AaguidStep
    BY <1>0, <1>7, <2>2, <2>3 DEF EnrolCloseFile, AaguidStep, Shape
  <2> QED BY <1>0, <2>1, <2>4, NoAaguid DEF UnlockedLabels
<1> QED BY <1>1, <1>2, <1>3, <1>4, <1>5, <1>6, <1>7 DEF EnrolStep

\* The steps of generate.
LEMMA GenerateAaguid ==
    ASSUME BindInv, AaguidInv, NEW p \in Proc, GenerateStep(p)
    PROVE  AaguidProc(p)' /\ UNCHANGED disk
<1>0. /\ Shape /\ AaguidProc(p) /\ BoundProc(p)
      /\ \A f \in File : disk[f] # NULL => AaguidItem(disk[f].item)
  BY DEF BindInv, TypeInv, AaguidInv
<1>d. UNCHANGED << disk, inv >>
  BY DEF GenerateStep, GenerateListDevices, GenerateOpenFile,
         GenerateReadFile, GenerateLoadCleartext, GenerateUnlock,
         GenerateGetDevice, GenerateGetDeviceInfo, GenerateReadPin,
         GenerateGetSecret, GenerateFinish
<1>1. CASE GenerateListDevices(p)
  <2>1. PICK status : Proceed(p, status, "generate: fopen")
    BY <1>1 DEF GenerateListDevices
  <2>2. pc'[p] \in {"generate: fopen", "exited"}
    BY <1>0, <2>1 DEF Shape, Proceed, Goto, Exit
  <2> QED BY <1>d, <2>2, NoAaguid DEF UnlockedLabels
<1>2. CASE GenerateOpenFile(p)
  <2>1. /\ pc[p] = "generate: fopen"
        /\ Proceed(p, open_status(inv[p].file), "generate: fread")
    BY <1>2 DEF GenerateOpenFile
  <2>2. \/ pc'[p] = "generate: fread" /\ open_status(inv[p].file) = EXIT_SUCCESS
        \/ pc'[p] = "exited"
    BY <1>0, <2>1 DEF Shape, Proceed, Goto, Exit
  <2>3. inv[p].file \in File
    BY <1>0, <2>1, MachineAssumption DEF MachineAssumption, BoundProc
  <2>4. open_status(inv[p].file) = EXIT_SUCCESS => disk[inv[p].file] # NULL
    BY DEF open_status, EXIT_SUCCESS, EXIT_DESERIALIZATION_ERROR,
           EXIT_H_USER_ERROR_BITS
  <2> QED BY <1>0, <1>d, <2>2, <2>3, <2>4 DEF AaguidProc, UnlockedLabels
<1>3. CASE GenerateReadFile(p)
  <2> DEFINE f == inv[p].file
             status == fread_status(f, length[p])
  <2>1. /\ pc[p] = "generate: fread"
        /\ Proceed(p, status, "generate: load_cleartext")
        /\ status = EXIT_SUCCESS =>
              data' = [data EXCEPT ![p] = FirstBytes(f, length[p])]
    BY <1>3 DEF GenerateReadFile
  <2> HIDE DEF status
  <2>2. \/ /\ pc'[p] = "generate: load_cleartext"
           /\ data'[p] = FirstBytes(f, length[p])
        \/ pc'[p] = "exited"
    BY <1>0, <2>1 DEF Shape, Proceed, Goto, Exit
  <2>3. FirstBytes(f, length[p]).item = disk[f].item
    BY <1>0, <2>1 DEF BoundProc, BoundFile, EncodedFile, FirstBytes
  <2> QED BY <1>0, <1>d, <2>1, <2>2, <2>3 DEF AaguidProc, UnlockedLabels
<1>4. CASE GenerateLoadCleartext(p)
  <2> DEFINE status == load_cleartext_status(data[p])
             root == cbor_load(data[p])
             new == deserialize_cleartext_from_cbor_v1(root)
  <2>1. /\ pc[p] = "generate: load_cleartext"
        /\ \/ Proceed(p, status, "generate: derive_key")
           \/ Goto(p, "killed")
        /\ status = EXIT_SUCCESS => cleartext' = [cleartext EXCEPT ![p] = new]
    BY <1>4 DEF GenerateLoadCleartext
  <2>2. status = EXIT_SUCCESS => IsCleartextV1(root)
    BY DEF load_cleartext_status, EXIT_SUCCESS, EXIT_DESERIALIZATION_ERROR,
           EXIT_H_USER_ERROR_BITS
  <2>3. IsCleartextV1(root) => FullAaguid(new)
    <3>1. ~IsCleartextV1(Malformed)
      BY DEF IsCleartextV1, HasVersion, Malformed
    <3>2. AaguidItem(data[p].item)
      BY <1>0, <2>1 DEF AaguidProc
    <3> QED BY <3>1, <3>2 DEF AaguidItem, cbor_load
  <2> HIDE DEF status, new, root
  <2>4. \/ pc'[p] = "generate: derive_key" /\ cleartext'[p] = new
           /\ IsCleartextV1(root)
        \/ pc'[p] \in {"exited", "killed"}
    BY <1>0, <2>1, <2>2 DEF Shape, Proceed, Goto, Exit
  <2> QED BY <1>d, <2>3, <2>4 DEF AaguidProc, FullAaguid, UnlockedLabels
<1>5. CASE GenerateUnlock(p)
  <2>1. PICK status : Proceed(p, status, "generate: get_device")
    BY <1>5 DEF GenerateUnlock
  <2>2. /\ pc[p] = "generate: derive_key"
        /\ pc'[p] \in {"generate: get_device", "exited"}
        /\ UNCHANGED cleartext
    BY <1>0, <1>5, <2>1 DEF GenerateUnlock, Shape, Proceed, Goto, Exit
  <2> QED BY <1>0, <1>d, <2>2 DEF AaguidProc, FullAaguid, UnlockedLabels
<1>6. ASSUME pc[p] \in UnlockedLabels,
             \/ pc'[p] = "exited"
             \/ pc'[p] \in UnlockedLabels /\ UNCHANGED cleartext
      PROVE  AaguidProc(p)'
  BY <1>0, <1>6 DEF AaguidProc, FullAaguid, UnlockedLabels
<1>7. CASE GenerateGetDevice(p)
  BY <1>0, <1>d, <1>6, <1>7
  DEF GenerateGetDevice, Shape, Proceed, Goto, Exit, UnlockedLabels
<1>8. CASE GenerateGetDeviceInfo(p)
  <2>1. pc[p] \in UnlockedLabels /\ UNCHANGED cleartext
    BY <1>8 DEF GenerateGetDeviceInfo, UnlockedLabels
  <2>2. PICK status \in get_device_info_statuses(p) :
          \/ Exit(p, status)
          \/ Continue(p)
          \/ Goto(p, IF fido_dev_has_pin(p) THEN "generate: prompt_for_secret"
                                            ELSE "generate: get_secret")
    BY <1>8 DEF GenerateGetDeviceInfo
  <2>3. pc'[p] = "exited" \/ pc'[p] \in UnlockedLabels
    BY <1>0, <2>2 DEF Shape, Continue, Goto, Exit, UnlockedLabels
  <2> QED BY <1>6, <1>d, <2>1, <2>3
<1>9. CASE GenerateReadPin(p)
  <2>1. pc[p] \in UnlockedLabels /\ UNCHANGED cleartext
    BY <1>9 DEF GenerateReadPin, UnlockedLabels
  <2>2. PICK pin \in PinAnswers(p) :
          \/ Exit(p, EXIT_UNABLE_TO_GET_USER_SECRET)
          \/ Continue(p)
          \/ Goto(p, "generate: get_secret")
    BY <1>9 DEF GenerateReadPin
  <2>3. pc'[p] = "exited" \/ pc'[p] \in UnlockedLabels
    BY <1>0, <2>2 DEF Shape, Continue, Goto, Exit, UnlockedLabels
  <2> QED BY <1>6, <1>d, <2>1, <2>3
<1>10. CASE GenerateGetSecret(p)
  <2>1. /\ pc[p] \in UnlockedLabels
        /\ \/ \E status : Exit(p, status)
           \/ Continue(p) /\ UNCHANGED cleartext
    BY <1>10 DEF GenerateGetSecret, UnlockedLabels
  <2>2. \/ pc'[p] = "exited"
        \/ pc'[p] \in UnlockedLabels /\ UNCHANGED cleartext
    BY <1>0, <2>1 DEF Shape, Continue, Goto, Exit, UnlockedLabels
  <2> QED BY <1>6, <1>d, <2>1, <2>2
<1>11. CASE GenerateFinish(p)
  <2>1. pc[p] \in UnlockedLabels /\ pc'[p] = "exited"
    BY <1>0, <1>11 DEF GenerateFinish, Shape, Exit, UnlockedLabels
  <2> QED BY <1>6, <1>d, <2>1
<1> QED
  BY <1>d, <1>1, <1>2, <1>3, <1>4, <1>5, <1>7, <1>8, <1>9, <1>10, <1>11
  DEF GenerateStep

\* It holds at the start and is kept.
LEMMA AaguidInit == Init => AaguidInv
  BY DEF Init, AaguidInv, AaguidProc, UnlockedLabels

LEMMA AaguidNext ==
    ASSUME BindInv, AaguidInv, [Next]_vars
    PROVE  AaguidInv'
<1>1. ASSUME AaguidStep, \A c \in credentials' : c.device \in HmacSecret,
             \A q \in Proc : AaguidProc(q)'
      PROVE  AaguidInv'
  BY <1>1 DEF AaguidInv, AaguidStep
<1>2. CASE UNCHANGED vars
  BY <1>2
  DEF vars, machineVars, authenticatorVars, enrolVars, generateVars,
      AaguidInv, AaguidProc, FullAaguid
<1>3. CASE World
  <2>1. /\ UNCHANGED << pc, inv, cleartext, credentials, data >>
        /\ \A q \in Proc : device'[q].id = device[q].id
    BY <1>3, WorldLocal DEF BindInv, enrolVars, generateVars
  <2>2. AaguidStep
    <3>1. CASE UNCHANGED disk
      BY <3>1 DEF AaguidStep
    <3>2. ASSUME NEW f \in File, Damage(f) PROVE AaguidStep
      <4>1. PICK file \in Damaged(disk[f]) : disk' = [disk EXCEPT ![f] = file]
        BY <3>2 DEF Damage
      <4>2. BoundFile(disk[f], inv, credentials) /\ AaguidItem(disk[f].item)
        BY <3>2 DEF Damage, BindInv, BoundDisk, AaguidInv
      <4>3. AaguidItem(file.item)
        BY <4>2, AaguidDamaged
      <4>4. DOMAIN disk = File
        BY DEF BindInv, TypeInv, Shape
      <4> QED BY <4>1, <4>3, <4>4 DEF AaguidStep
    <3> QED BY <1>3, <3>1, <3>2 DEF World, Plug, Unplug, machineVars
  <2>3. \A q \in Proc : AaguidProc(q)'
    BY <2>1, <2>2, AaguidOthers DEF AaguidInv
  <2> QED BY <1>1, <2>1, <2>2, <2>3 DEF AaguidInv
<1>4. ASSUME NEW p \in Proc, Step(p) \/ Fate(p) PROVE AaguidInv'
  <2>1. /\ AaguidProc(p)' /\ AaguidStep
        /\ \A c \in credentials' : c.device \in HmacSecret
    <3>1. CASE EnrolStep(p)
      BY <3>1, EnrolAaguid
    <3>2. CASE GenerateStep(p) /\ UNCHANGED enrolVars
      BY <3>2, GenerateAaguid DEF AaguidInv, AaguidStep, enrolVars
    <3>3. CASE Fate(p)
      <4>1. /\ UNCHANGED << disk, credentials >>
            /\ pc'[p] \notin UnlockedLabels \union
                  { "enrol: prompt_for_secret", "enrol: create_credential",
                    "enrol: fopen", "enrol: fclose", "generate: fread",
                    "generate: load_cleartext", "generate: derive_key" }
        BY <3>3
        DEF Fate, Start, Kill, OutOfMemory, Goto, Exit, BindInv, TypeInv, Shape,
            enrolVars, UnlockedLabels
      <4> QED BY <4>1, NoAaguid DEF AaguidInv, AaguidStep
    <3> QED BY <1>4, <3>1, <3>2, <3>3 DEF Step
  <2>2. ASSUME NEW q \in Proc, q # p PROVE AaguidProc(q)'
    <3>1. Untouched(q)
      BY <1>4, <2>2, StepLocal DEF BindInv, TypeInv
    <3> QED BY <2>1, <3>1, AaguidOthers DEF AaguidInv, Untouched
  <2> QED BY <1>1, <2>1, <2>2
<1> QED BY <1>2, <1>3, <1>4 DEF Next, Idle

-----------------------------------------------------------------------------
(* The loop *)

\* A log that grows keeps its entries and has one more.
LEMMA Appended ==
    ASSUME NEW s, IsLog(s), NEW e
    PROVE  /\ IsLog(Append(s, e))
           /\ \E n \in DOMAIN Append(s, e) : Append(s, e)[n] = e
           /\ \A n \in DOMAIN s : n \in DOMAIN Append(s, e)
                                  /\ Append(s, e)[n] = s[n]
           /\ \A n \in DOMAIN Append(s, e) :
                 n \in DOMAIN s \/ Append(s, e)[n] = e
<1> DEFINE S == { s[n] : n \in DOMAIN s }
           t == Append(s, e)
<1>1. /\ s \in Seq(S \union {e})
      /\ DOMAIN s = 1 .. Len(s)
      /\ Len(s) \in Nat
  BY DEF IsLog
<1>2. /\ t \in Seq(S \union {e})
      /\ DOMAIN t = 1 .. Len(s) + 1
      /\ \A n \in 1 .. Len(s) : t[n] = s[n]
      /\ t[Len(s) + 1] = e
  BY <1>1
<1>3. /\ \A n \in DOMAIN s : n \in DOMAIN t /\ t[n] = s[n]
      /\ \A n \in DOMAIN t : n \in DOMAIN s \/ t[n] = e
      /\ Len(s) + 1 \in DOMAIN t
  BY <1>1, <1>2
<1> HIDE DEF t
<1>4. S \union {e} = { t[n] : n \in DOMAIN t }
  BY <1>2, <1>3
<1>5. IsLog(t)
  BY <1>2, <1>4 DEF IsLog
<1> QED BY <1>2, <1>3, <1>5 DEF t

\* A step of a process leaves the ports, and the loops of the others.
LEMMA LoopLocal ==
    ASSUME BindInv, NEW p \in Proc, Step(p) \/ Fate(p)
    PROVE  /\ UNCHANGED << port, hotplugs >>
           /\ \A q \in Proc \ {p} :
                 /\ devices_list'[q] = devices_list[q]
                 /\ i'[q] = i[q]
<1>0. DOMAIN devices_list = Proc /\ DOMAIN i = Proc
  BY DEF BindInv, TypeInv, TypeOK
<1>1. CASE EnrolStep(p) /\ UNCHANGED generateVars
  BY <1>1
  DEF EnrolStep, EnrolGetDevice, EnrolGetDeviceInfo, EnrolReadPin,
      EnrolCreateCredential, EnrolBuildCleartext, EnrolOpenFile,
      EnrolCloseFile, authenticatorVars, worldVars, generateVars
<1>2. CASE GenerateStep(p)
  <2>1. /\ UNCHANGED << port, hotplugs >>
        /\ \/ UNCHANGED << devices_list, i >>
           \/ \E l : /\ devices_list' = [devices_list EXCEPT ![p] = l]
                     /\ UNCHANGED i
           \/ Continue(p) /\ UNCHANGED devices_list
    BY <1>2
    DEF GenerateStep, GenerateListDevices, GenerateOpenFile,
        GenerateReadFile, GenerateLoadCleartext, GenerateUnlock,
        GenerateGetDevice, GenerateGetDeviceInfo, GenerateReadPin,
        GenerateGetSecret, GenerateFinish, authenticatorVars, worldVars,
        generateVars
  <2> QED BY <1>0, <2>1 DEF Continue
<1>3. CASE Fate(p)
  BY <1>3 DEF Fate, authenticatorVars, generateVars
<1> QED BY <1>1, <1>2, <1>3 DEF Step

\* What holds of a loop depends on these only.
LEMMA LoopKept ==
    ASSUME NEW p, port' = port, cleartext'[p] = cleartext[p],
           params'[p].credential_id = params[p].credential_id,
           devices_list'[p] = devices_list[p], i'[p] = i[p], log'[p] = log[p]
    PROVE  /\ MoreDevices(p)' <=> MoreDevices(p)
           /\ NonePassedOver(p) => NonePassedOver(p)'
           /\ OnlyPassedAsked(p) => OnlyPassedAsked(p)'
<1>1. /\ Target(p)' = Target(p)
      /\ Passed(p)' = Passed(p)
      /\ MoreDevices(p)' = MoreDevices(p)
  BY DEF Target, Passed, MoreDevices
<1>2. NonePassedOver(p) => NonePassedOver(p)'
  BY <1>1 DEF NonePassedOver, LoggedDevice, IsFor
<1>3. OnlyPassedAsked(p) => OnlyPassedAsked(p)'
  BY <1>1 DEF OnlyPassedAsked
<1> QED BY <1>1, <1>2, <1>3

\* A process that nobody disturbs stays where it is in its loop; after a
\* change of the ports nothing is said of them.
LEMMA LoopOthers ==
    ASSUME NEW q \in Proc, LoopProc(q),
           UNCHANGED << port, hotplugs >> \/ hotplugs' # 0,
           pc'[q] = pc[q], cleartext'[q] = cleartext[q],
           device'[q].id = device[q].id, params'[q] = params[q],
           devices_list'[q] = devices_list[q], i'[q] = i[q], log'[q] = log[q]
    PROVE  LoopProc(q)'
<1>1. CASE hotplugs' # 0
  BY <1>1 DEF LoopProc
<1>2. CASE UNCHANGED << port, hotplugs >>
  BY <1>2, LoopKept DEF LoopProc
<1> QED BY <1>1, <1>2

\* Nothing is said of a process that is not at its loop.
LEMMA LoopLeft ==
    ASSUME NEW p,
           pc'[p] \notin {"ready"} \union LockedLabels \union UnlockedLabels,
           IsLog(log'[p]),
           \A k, m \in DOMAIN devices_list'[p] :
               devices_list'[p][k] = devices_list'[p][m] => k = m
    PROVE  LoopProc(p)'
  BY DEF LoopProc, Asking

\* The device at the position of the loop is opened, or still is.
LEMMA LoopStays ==
    ASSUME NEW p, LoopProc(p), pc[p] \in UnlockedLabels, pc'[p] \in Asking,
           UNCHANGED << port, hotplugs >>, cleartext'[p] = cleartext[p],
           params'[p].credential_id = params[p].credential_id,
           devices_list'[p] = devices_list[p], i'[p] = i[p], log'[p] = log[p],
           hotplugs = 0 =>
              /\ MoreDevices(p)
              /\ device'[p].id \in Device
              /\ device'[p].id = port[devices_list[p][i[p]]]
    PROVE  LoopProc(p)'
<1>1. pc'[p] \notin {"ready"} \union LockedLabels
  BY DEF Asking, UnlockedLabels, LockedLabels
<1> QED BY <1>1, LoopKept DEF LoopProc

\* One more request of a process, to the device it has open, is logged.
Logs(p) ==
    \E e : e.device = device[p].id /\ log'[p] = Append(log[p], e)

LEMMA LogGrows ==
    ASSUME NEW p, IsLog(log[p]), Logs(p)
    PROVE  /\ IsLog(log'[p])
           /\ \A n \in DOMAIN log[p] :
                 n \in DOMAIN log'[p] /\ log'[p][n] = log[p][n]
           /\ \A n \in DOMAIN log'[p] :
                 n \in DOMAIN log[p] \/ log'[p][n].device = device[p].id
           /\ \E n \in DOMAIN log'[p] : log'[p][n].device = device[p].id
<1>1. PICK e : e.device = device[p].id /\ log'[p] = Append(log[p], e)
  BY DEF Logs
<1> DEFINE s == log[p]
           t == Append(s, e)
<1>2. /\ IsLog(t)
      /\ \E n \in DOMAIN t : t[n] = e
      /\ \A n \in DOMAIN s : n \in DOMAIN t /\ t[n] = s[n]
      /\ \A n \in DOMAIN t : n \in DOMAIN s \/ t[n] = e
  BY Appended
<1>3. log'[p] = t
  BY <1>1
<1> HIDE DEF t
<1> QED BY <1>1, <1>2, <1>3

\* On to the next position: the device at this one was asked, or is not the
\* one the keyfile is for.
LEMMA LoopTurns ==
    ASSUME LoopInv, NEW p \in Proc, pc[p] \in Asking,
           pc'[p] \in UnlockedLabels \ Asking, i'[p] = i[p] + 1,
           UNCHANGED << port, hotplugs >>, cleartext'[p] = cleartext[p],
           params'[p].credential_id = params[p].credential_id,
           devices_list'[p] = devices_list[p],
           \/ /\ log'[p] = log[p]
              /\ hotplugs = 0 => ~ ( /\ device[p].id = Target(p)
                                     /\ IsFor(cleartext[p], Target(p)) )
           \/ Logs(p)
    PROVE  LoopProc(p)'
<1>1. /\ LoopProc(p)
      /\ pc[p] \in UnlockedLabels
      /\ i[p] \in Nat \ {0}
      /\ devices_list[p] \in Seq(Port)
  BY DEF LoopInv, BindInv, TypeInv, TypeOK, Asking
<1>2. /\ IsLog(log'[p])
      /\ \A n \in DOMAIN log[p] :
            n \in DOMAIN log'[p] /\ log'[p][n] = log[p][n]
      /\ \A n \in DOMAIN log'[p] :
            n \in DOMAIN log[p] \/ log'[p][n].device = device[p].id
      /\ Logs(p) =>
            \E n \in DOMAIN log'[p] : log'[p][n].device = device[p].id
  <2>1. IsLog(log[p])
    BY <1>1 DEF LoopProc
  <2>2. CASE Logs(p)
    BY <2>1, <2>2, LogGrows
  <2>3. CASE log'[p] = log[p] /\ ~Logs(p)
    BY <2>1, <2>3
  <2> QED BY <2>2, <2>3
<1>3. ASSUME hotplugs = 0
      PROVE  NonePassedOver(p)' /\ OnlyPassedAsked(p)'
  <2>1. /\ NonePassedOver(p) /\ OnlyPassedAsked(p)
        /\ MoreDevices(p)
        /\ device[p].id = port[devices_list[p][i[p]]]
    BY <1>1, <1>3 DEF LoopProc
  <2>2. Target(p)' = Target(p)
    BY DEF Target
  <2>3. /\ Passed(p)' = Passed(p) \union {i[p]}
        /\ i[p] \in DOMAIN devices_list[p]
    <3>1. DOMAIN devices_list[p] = 1 .. Len(devices_list[p])
      BY <1>1
    <3> QED BY <1>1, <2>1, <3>1 DEF Passed, MoreDevices
  <2>4. NonePassedOver(p)'
    <3> SUFFICES ASSUME NEW k \in Passed(p)',
                        port[devices_list[p][k]] = Target(p),
                        IsFor(cleartext[p], Target(p))
                 PROVE  LoggedDevice(p, Target(p))'
      BY <2>2 DEF NonePassedOver, IsFor
    <3>1. CASE k \in Passed(p)
      BY <1>2, <2>1, <2>2, <3>1 DEF NonePassedOver, LoggedDevice
    <3>2. CASE k = i[p]
      <4>1. device[p].id = Target(p)
        BY <2>1, <3>2
      <4>2. \E n \in DOMAIN log'[p] : log'[p][n].device = device[p].id
        BY <1>2, <1>3, <4>1
      <4> QED BY <2>2, <4>1, <4>2 DEF LoggedDevice
    <3> QED BY <2>3, <3>1, <3>2
  <2>5. OnlyPassedAsked(p)'
    BY <1>2, <2>1, <2>3 DEF OnlyPassedAsked
  <2> QED BY <2>4, <2>5
<1>4. pc'[p] \notin {"ready"} \union LockedLabels \union Asking
  BY DEF Asking, UnlockedLabels, LockedLabels
<1> QED BY <1>1, <1>2, <1>3, <1>4 DEF LoopProc

\* A list of devices names each port once.
LEMMA ListedOnce ==
    ASSUME NEW result \in list_devices_results
    PROVE  \A k, m \in DOMAIN result.list :
               result.list[k] = result.list[m] => k = m
<1>1. \A s \in Manifests : \A k, m \in DOMAIN s : s[k] = s[m] => k = m
  BY DEF Manifests
<1>2. result.list \in Manifests \/ result.list = << >>
  BY DEF list_devices_results, Glitch
<1> QED BY <1>1, <1>2

\* The steps of generate.
LEMMA GenerateLoop ==
    ASSUME LoopInv, NEW p \in Proc, GenerateStep(p), UNCHANGED enrolVars
    PROVE  LoopProc(p)'
<1>0. /\ LoopProc(p) /\ Shape /\ AaguidProc(p) /\ BoundProc(p)
      /\ i \in [Proc -> Nat \ {0}]
      /\ devices_list \in [Proc -> Seq(Port)]
      /\ UNCHANGED << port, hotplugs >>
  BY LoopLocal DEF LoopInv, AaguidInv, BindInv, TypeInv, TypeOK, Step
<1>1. CASE GenerateListDevices(p)
  <2>1. PICK result \in list_devices_results :
           /\ Proceed(p, result.status, "generate: fopen")
           /\ devices_list' = [devices_list EXCEPT ![p] = result.list]
    BY <1>1 DEF GenerateListDevices
  <2>2. /\ pc[p] = "generate: list_devices"
        /\ pc'[p] \in {"generate: fopen", "exited"}
        /\ UNCHANGED << i, log >>
    BY <1>0, <1>1, <2>1 DEF GenerateListDevices, Shape, Proceed, Goto, Exit
  <2>3. devices_list'[p] = result.list
    BY <1>0, <2>1
  <2>4. i'[p] = 1 /\ IsLog(log'[p])
    BY <1>0, <2>2 DEF LoopProc, LockedLabels
  <2> QED
    BY <2>2, <2>3, <2>4, ListedOnce DEF LoopProc, Asking, UnlockedLabels
<1>2. ASSUME pc[p] \in LockedLabels,
             pc'[p] \in LockedLabels \union {"exited", "killed"},
             UNCHANGED << devices_list, i, log >>
      PROVE  LoopProc(p)'
  BY <1>0, <1>2 DEF LoopProc, LockedLabels, Asking, UnlockedLabels
<1>3. CASE GenerateOpenFile(p)
  <2>1. PICK status : Proceed(p, status, "generate: fread")
    BY <1>3 DEF GenerateOpenFile
  <2>2. /\ pc[p] \in LockedLabels
        /\ pc'[p] \in LockedLabels \union {"exited", "killed"}
        /\ UNCHANGED << devices_list, i, log >>
    BY <1>0, <1>3, <2>1
    DEF GenerateOpenFile, Shape, Proceed, Goto, Exit, LockedLabels
  <2> QED BY <1>2, <2>2
<1>4. CASE GenerateReadFile(p)
  <2>1. PICK status : Proceed(p, status, "generate: load_cleartext")
    BY <1>4 DEF GenerateReadFile
  <2>2. /\ pc[p] \in LockedLabels
        /\ pc'[p] \in LockedLabels \union {"exited", "killed"}
        /\ UNCHANGED << devices_list, i, log >>
    BY <1>0, <1>4, <2>1
    DEF GenerateReadFile, Shape, Proceed, Goto, Exit, LockedLabels
  <2> QED BY <1>2, <2>2
<1>5. CASE GenerateLoadCleartext(p)
  <2>1. \/ \E status : Proceed(p, status, "generate: derive_key")
        \/ Goto(p, "killed")
    BY <1>5 DEF GenerateLoadCleartext
  <2>2. pc'[p] \in LockedLabels \union {"exited", "killed"}
    BY <1>0, <2>1 DEF Shape, Proceed, Goto, Exit, LockedLabels
  <2>3. /\ pc[p] \in LockedLabels
        /\ UNCHANGED << devices_list, i, log >>
    BY <1>5 DEF GenerateLoadCleartext, LockedLabels
  <2> QED BY <1>2, <2>2, <2>3
<1>6. CASE GenerateUnlock(p)
  <2>1. PICK status : Proceed(p, status, "generate: get_device")
    BY <1>6 DEF GenerateUnlock
  <2>2. /\ pc[p] \in LockedLabels
        /\ pc'[p] \in {"generate: get_device", "exited"}
        /\ UNCHANGED << devices_list, i, log >>
    BY <1>0, <1>6, <2>1
    DEF GenerateUnlock, Shape, Proceed, Goto, Exit, generateVars, LockedLabels
  <2>3. /\ i'[p] = 1 /\ log'[p] = << >> /\ IsLog(log'[p])
        /\ devices_list'[p] = devices_list[p]
    BY <1>0, <2>2 DEF LoopProc, BoundProc
  <2>4. /\ Passed(p)' = {}
        /\ DOMAIN log'[p] = {}
    <3>1. DOMAIN devices_list[p] \subseteq Nat \ {0}
      BY <1>0
    <3> QED BY <2>3, <3>1 DEF Passed
  <2>5. NonePassedOver(p)' /\ OnlyPassedAsked(p)'
    BY <2>4 DEF NonePassedOver, OnlyPassedAsked
  <2>6. pc'[p] \notin {"ready"} \union LockedLabels \union Asking
    BY <2>2 DEF LockedLabels, Asking, UnlockedLabels
  <2> QED BY <1>0, <2>3, <2>5, <2>6 DEF LoopProc
<1>7. ASSUME pc'[p] = "exited", UNCHANGED devices_list, IsLog(log'[p])
      PROVE  LoopProc(p)'
  <2>1. pc'[p] \notin {"ready"} \union LockedLabels \union UnlockedLabels
    BY <1>7 DEF LockedLabels, UnlockedLabels
  <2> QED BY <1>0, <1>7, <2>1, LoopLeft DEF LoopProc
<1>8. CASE GenerateGetDevice(p)
  <2> DEFINE x == devices_list[p][i[p]]
  <2>1. PICK status \in get_device_statuses(x) :
           /\ Proceed(p, status, "generate: get_device_info")
           /\ device' = [device EXCEPT ![p] = HandleAfter(p, x, status)]
    BY <1>8 DEF GenerateGetDevice
  <2>2. /\ pc[p] \in UnlockedLabels
        /\ MoreDevices(p)
        /\ UNCHANGED << cleartext, params, devices_list, i, log >>
    BY <1>8 DEF GenerateGetDevice, UnlockedLabels, generateVars
  <2>3. IsLog(log'[p])
    BY <1>0, <2>2 DEF LoopProc
  <2>4. \/ pc'[p] = "exited"
        \/ pc'[p] \in Asking /\ status = EXIT_SUCCESS
    BY <1>0, <2>1 DEF Shape, Proceed, Goto, Exit, Asking, UnlockedLabels
  <2>5. status = EXIT_SUCCESS =>
            device'[p].id = port[x] /\ port[x] \in Device
    BY <1>0, <2>1, GetDeviceType DEF Shape, HandleAfter, Handle
  <2> HIDE DEF x
  <2>6. CASE pc'[p] = "exited"
    BY <1>7, <2>2, <2>3, <2>6
  <2>7. CASE pc'[p] \in Asking /\ status = EXIT_SUCCESS
    BY <1>0, <2>2, <2>5, <2>7, LoopStays DEF x
  <2> QED BY <2>4, <2>6, <2>7
<1>9. CASE GenerateGetDeviceInfo(p)
  <2>1. PICK status \in get_device_info_statuses(p) :
           \/ Exit(p, status)
           \/ Continue(p) /\ ~ ( device_aaguid_matches(p)
                                 /\ device_supports_hmac_secret(p) )
           \/ /\ \/ Goto(p, "generate: prompt_for_secret")
                 \/ Goto(p, "generate: get_secret")
              /\ UNCHANGED << i, device >>
    BY <1>9 DEF GenerateGetDeviceInfo
  <2>2. /\ pc[p] \in Asking
        /\ UNCHANGED << cleartext, params, devices_list, log >>
    BY <1>9 DEF GenerateGetDeviceInfo, Asking, UnlockedLabels
  <2>3. IsLog(log'[p]) /\ pc[p] \in UnlockedLabels
    BY <1>0, <2>2 DEF LoopProc, Asking
  <2>4. CASE Exit(p, status)
    <3>1. pc'[p] = "exited"
      BY <1>0, <2>4 DEF Exit, Shape
    <3> QED BY <1>7, <2>2, <2>3, <3>1
  <2>5. CASE Continue(p) /\ ~ ( device_aaguid_matches(p)
                                /\ device_supports_hmac_secret(p) )
    <3>1. pc'[p] \in UnlockedLabels \ Asking /\ i'[p] = i[p] + 1
      BY <1>0, <2>5 DEF Continue, Goto, Shape, Asking, UnlockedLabels
    <3>2. ASSUME device[p].id = Target(p), IsFor(cleartext[p], Target(p))
          PROVE  FALSE
      <4>1. FullAaguid(cleartext[p])
        BY <1>0, <2>3 DEF AaguidProc
      <4>2. device_aaguid_matches(p)
        BY <3>2, <4>1, NamedMatches
      <4>3. \E c \in credentials : params[p].credential_id.val = c
        BY <1>0, <2>3 DEF BoundProc, ParamsBound, ParamsFrom, EnrolledAs, Bytes
      <4>4. device_supports_hmac_secret(p)
        BY <3>2, <4>3
        DEF Target, LoopInv, AaguidInv, device_supports_hmac_secret
      <4> QED BY <2>5, <4>2, <4>4
    <3> QED BY <1>0, <2>2, <3>1, <3>2, LoopTurns
  <2>6. CASE /\ \/ Goto(p, "generate: prompt_for_secret")
                \/ Goto(p, "generate: get_secret")
             /\ UNCHANGED << i, device >>
    <3>1. pc'[p] \in Asking
      BY <1>0, <2>6 DEF Goto, Shape, Asking, UnlockedLabels
    <3> QED BY <1>0, <2>2, <2>3, <2>6, <3>1, LoopStays DEF LoopProc
  <2> QED BY <2>1, <2>4, <2>5, <2>6
<1>10. CASE GenerateReadPin(p)
  <2>1. PICK pin \in PinAnswers(p) :
          IF pin = NULL
          THEN Exit(p, EXIT_UNABLE_TO_GET_USER_SECRET) /\ UNCHANGED log
          ELSE /\ params' = [params EXCEPT ![p].authenticator_pin = pin]
               /\ IF pin = EmptyPin
                  THEN /\ Continue(p)
                       /\ log' = [log EXCEPT ![p] =
                                     Append(@, [LogEntry(p, "skipped")
                                                EXCEPT !.pin = pin])]
                  ELSE /\ Goto(p, "generate: get_secret")
                       /\ UNCHANGED << i, device, log >>
    BY <1>10 DEF GenerateReadPin
  <2>2. /\ pc[p] \in Asking
        /\ UNCHANGED << cleartext, devices_list >>
    BY <1>10 DEF GenerateReadPin, Asking, UnlockedLabels
  <2>3. IsLog(log[p]) /\ pc[p] \in UnlockedLabels
    BY <1>0, <2>2 DEF LoopProc, Asking
  <2>4. pin # NULL => params'[p].credential_id = params[p].credential_id
    <3>1. IsParams(params[p])
      BY DEF LoopInv, BindInv, TypeInv
    <3>2. pin # NULL =>
              params'[p] = [params[p] EXCEPT !.authenticator_pin = pin]
      BY <1>0, <2>1 DEF Shape
    <3> QED BY <3>1, <3>2, ParamsExcept
  <2>5. CASE pin = NULL
    <3>1. pc'[p] = "exited" /\ UNCHANGED log
      BY <1>0, <2>1, <2>5 DEF Exit, Shape
    <3> QED BY <1>7, <2>2, <2>3, <3>1
  <2>6. CASE pin # NULL /\ pin = EmptyPin
    <3>1. pc'[p] \in UnlockedLabels \ Asking /\ i'[p] = i[p] + 1
      BY <1>0, <2>1, <2>6 DEF Continue, Goto, Shape, Asking, UnlockedLabels
    <3>2. Logs(p)
      <4> DEFINE e == [LogEntry(p, "skipped") EXCEPT !.pin = pin]
      <4>1. e.device = device[p].id
        BY DEF LogEntry
      <4>2. log'[p] = Append(log[p], e)
        BY <1>0, <2>1, <2>6 DEF Shape
      <4> QED BY <4>1, <4>2 DEF Logs
    <3> QED BY <1>0, <2>2, <2>4, <2>6, <3>1, <3>2, LoopTurns
  <2>7. CASE pin # NULL /\ pin # EmptyPin
    <3>1. pc'[p] \in Asking /\ UNCHANGED << i, device, log >>
      BY <1>0, <2>1, <2>7 DEF Goto, Shape, Asking, UnlockedLabels
    <3> QED BY <1>0, <2>2, <2>3, <2>4, <2>7, <3>1, LoopStays DEF LoopProc
  <2> QED BY <2>5, <2>6, <2>7
<1>11. CASE GenerateGetSecret(p)
  <2>1. PICK answer :
           /\ \/ \E status : Exit(p, status)
              \/ Continue(p) /\ UNCHANGED << cleartext, params >>
           /\ log' = [log EXCEPT ![p] = Append(@, LogEntry(p, answer))]
    BY <1>11 DEF GenerateGetSecret
  <2>2. pc[p] \in Asking /\ UNCHANGED devices_list
    BY <1>11 DEF GenerateGetSecret, Asking, UnlockedLabels
  <2>3. Logs(p)
    BY <1>0, <2>1 DEF Shape, Logs, LogEntry
  <2>4. IsLog(log'[p])
    BY <1>0, <2>3, LogGrows DEF LoopProc
  <2>5. CASE \E status : Exit(p, status)
    <3>1. pc'[p] = "exited"
      BY <1>0, <2>5 DEF Exit, Shape
    <3> QED BY <1>7, <2>2, <2>4, <3>1
  <2>6. CASE Continue(p) /\ UNCHANGED << cleartext, params >>
    <3>1. pc'[p] \in UnlockedLabels \ Asking /\ i'[p] = i[p] + 1
      BY <1>0, <2>6 DEF Continue, Goto, Shape, Asking, UnlockedLabels
    <3> QED BY <1>0, <2>2, <2>3, <2>6, <3>1, LoopTurns
  <2> QED BY <2>1, <2>5, <2>6
<1>12. CASE GenerateFinish(p)
  <2>1. pc'[p] = "exited" /\ UNCHANGED << devices_list, log >>
    BY <1>0, <1>12 DEF GenerateFinish, Exit, Shape, generateVars
  <2>2. IsLog(log'[p])
    BY <1>0, <2>1 DEF LoopProc
  <2> QED BY <1>7, <2>1, <2>2
<1> QED
  BY <1>1, <1>3, <1>4, <1>5, <1>6, <1>8, <1>9, <1>10, <1>11, <1>12
  DEF GenerateStep

\* A step of enrol stays in enrol, or ends it.
LEMMA EnrolStays ==
    ASSUME Shape, NEW p \in Proc, EnrolStep(p)
    PROVE  pc'[p] \in EnrolLabels \union {"exited"}
<1>1. \/ \E status : Exit(p, status)
      \/ \E status : \E l \in EnrolLabels : Proceed(p, status, l)
      \/ Goto(p, "enrol: fopen")
  <2>1. CASE EnrolGetDevice(p)
    BY <2>1 DEF EnrolGetDevice, EnrolLabels
  <2>2. CASE EnrolGetDeviceInfo(p)
    BY <2>2 DEF EnrolGetDeviceInfo, EnrolLabels
  <2>3. CASE EnrolReadPin(p)
    BY <2>3 DEF EnrolReadPin, EnrolLabels
  <2>4. CASE EnrolCreateCredential(p)
    BY <2>4 DEF EnrolCreateCredential, EnrolLabels
  <2>5. CASE EnrolBuildCleartext(p)
    BY <2>5 DEF EnrolBuildCleartext
  <2>6. CASE EnrolOpenFile(p)
    BY <2>6 DEF EnrolOpenFile, EnrolLabels
  <2>7. CASE EnrolCloseFile(p)
    BY <2>7 DEF EnrolCloseFile
  <2> QED BY <2>1, <2>2, <2>3, <2>4, <2>5, <2>6, <2>7 DEF EnrolStep
<1>2. "enrol: fopen" \in EnrolLabels
  BY DEF EnrolLabels
<1> QED BY <1>1, <1>2 DEF Shape, Proceed, Goto, Exit

\* A loop that is over has passed the whole list.
LEMMA AllPassed ==
    ASSUME TypeOK, NEW p \in Proc, ~MoreDevices(p)
    PROVE  Passed(p) = DOMAIN devices_list[p]
  BY DEF TypeOK, Passed, MoreDevices

\* The invariant of the loop is one of the specification.
LEMMA LoopInit == Init => LoopInv
<1> SUFFICES ASSUME Init PROVE LoopInv
  OBVIOUS
<1>1. BindInv /\ AaguidInv
  BY BindInit, AaguidInit
<1>2. PortsApart
  BY AuthenticatorAssumption DEF AuthenticatorAssumption, Init, PortsApart
<1>3. ASSUME NEW p \in Proc PROVE LoopProc(p)
  <2>1. /\ pc[p] \notin UnlockedLabels
        /\ i[p] = 1 /\ log[p] = << >> /\ devices_list[p] = << >>
    BY DEF Init, UnlockedLabels
  <2>2. IsLog(log[p])
    BY <2>1 DEF IsLog
  <2>3. DOMAIN devices_list[p] = {}
    BY <2>1
  <2> QED BY <2>1, <2>2, <2>3 DEF LoopProc, Asking
<1> QED BY <1>1, <1>2, <1>3 DEF LoopInv

LEMMA LoopNext == LoopInv /\ [Next]_vars => LoopInv'
<1> SUFFICES ASSUME LoopInv, [Next]_vars PROVE LoopInv'
  OBVIOUS
<1>1. BindInv' /\ AaguidInv'
  BY BindNext, AaguidNext DEF LoopInv
<1>2. CASE UNCHANGED vars
  <2>1. UNCHANGED << port, hotplugs, pc, cleartext, device, params,
                     devices_list, i, log >>
    BY <1>2 DEF vars, machineVars, authenticatorVars, generateVars
  <2> QED BY <1>1, <2>1, LoopOthers DEF LoopInv, PortsApart
<1>3. CASE World
  <2>1. /\ UNCHANGED << pc, cleartext, params, devices_list, i, log >>
        /\ \A q \in Proc : device'[q].id = device[q].id
    BY <1>3, WorldLocal DEF LoopInv, BindInv, generateVars
  <2>2. \/ UNCHANGED << port, hotplugs >>
        \/ hotplugs' # 0 /\ PortsApart'
    <3>1. hotplugs + 1 # 0
      BY DEF LoopInv, BindInv, TypeInv, TypeOK
    <3>2. ASSUME NEW x \in Port, NEW d \in Device, Plug(x, d)
          PROVE  hotplugs' # 0 /\ PortsApart'
      <4>1. /\ ~Present(d)
            /\ port' = [port EXCEPT ![x] = d]
            /\ DOMAIN port = Port
            /\ hotplugs' # 0
        BY <3>1, <3>2 DEF Plug, LoopInv, BindInv, TypeInv, TypeOK
      <4> QED BY <4>1 DEF LoopInv, PortsApart, Present
    <3>3. ASSUME NEW x \in Port, Unplug(x) PROVE hotplugs' # 0 /\ PortsApart'
      <4>1. /\ port' = [port EXCEPT ![x] = NULL]
            /\ DOMAIN port = Port
            /\ hotplugs' # 0
        BY <3>1, <3>3 DEF Unplug, LoopInv, BindInv, TypeInv, TypeOK
      <4> QED BY <4>1 DEF LoopInv, PortsApart
    <3> QED BY <1>3, <3>2, <3>3 DEF World, authenticatorVars
  <2>3. \A q \in Proc : LoopProc(q)'
    BY <2>1, <2>2, LoopOthers DEF LoopInv
  <2> QED BY <1>1, <2>2, <2>3 DEF LoopInv, PortsApart
<1>4. ASSUME NEW p \in Proc, Step(p) \/ Fate(p) PROVE LoopInv'
  <2>0. /\ UNCHANGED << port, hotplugs >>
        /\ Shape
        /\ LoopProc(p)
        /\ BoundProc(p)
    BY <1>4, LoopLocal DEF LoopInv, BindInv, TypeInv
  <2>1. LoopProc(p)'
    <3>1. CASE GenerateStep(p) /\ UNCHANGED enrolVars
      BY <3>1, GenerateLoop
    <3>2. ASSUME UNCHANGED generateVars,
                 pc'[p] \notin
                    {"ready"} \union LockedLabels \union UnlockedLabels
          PROVE  LoopProc(p)'
      BY <2>0, <3>2, LoopLeft DEF LoopProc, generateVars
    <3>3. CASE EnrolStep(p) /\ UNCHANGED generateVars
      <4>1. pc'[p] \in EnrolLabels \union {"exited"}
        BY <2>0, <3>3, EnrolStays
      <4>2. pc'[p] \notin {"ready"} \union LockedLabels \union UnlockedLabels
        BY <4>1 DEF EnrolLabels, LockedLabels, UnlockedLabels
      <4> QED BY <3>2, <3>3, <4>2
    <3>4. CASE Fate(p)
      <4>1. UNCHANGED generateVars
        BY <3>4 DEF Fate
      <4>2. \/ pc'[p] \in {"killed", "exited", "enrol: get_device"}
            \/ pc[p] = "ready" /\ pc'[p] = "generate: list_devices"
        BY <2>0, <3>4 DEF Fate, Start, Kill, OutOfMemory, Goto, Exit, Shape
      <4>3. CASE pc'[p] \in {"killed", "exited", "enrol: get_device"}
        <5>1. pc'[p] \notin {"ready"} \union LockedLabels \union UnlockedLabels
          BY <4>3 DEF LockedLabels, UnlockedLabels
        <5> QED BY <3>2, <4>1, <5>1
      <4>4. CASE pc[p] = "ready" /\ pc'[p] = "generate: list_devices"
        BY <2>0, <4>1, <4>4
        DEF LoopProc, generateVars, Asking, UnlockedLabels, LockedLabels
      <4> QED BY <4>2, <4>3, <4>4
    <3> QED BY <1>4, <3>1, <3>3, <3>4 DEF Step
  <2>2. ASSUME NEW q \in Proc, q # p PROVE LoopProc(q)'
    <3>1. Untouched(q) /\ devices_list'[q] = devices_list[q] /\ i'[q] = i[q]
      BY <1>4, <2>0, <2>2, StepLocal, LoopLocal DEF LoopInv
    <3> QED BY <2>0, <3>1, LoopOthers DEF LoopInv, Untouched
  <2> QED BY <1>1, <2>0, <2>1, <2>2 DEF LoopInv, PortsApart
<1> QED BY <1>2, <1>3, <1>4 DEF Next, Idle

\* When a generate comes to the end of its list, it has asked the device that
\* its keyfile was enrolled with, if that device was in the list and nothing
\* was plugged or unplugged meanwhile: no answer of another device, and none
\* of its own before it was asked, makes the loop pass over it.
THEOREM NeverPassedOver == Spec => []EnrolledNeverPassedOver
<1>1. LoopInv => EnrolledNeverPassedOver
  <2> SUFFICES ASSUME LoopInv, NEW p \in Proc, pc[p] = "generate: get_device",
                      ~MoreDevices(p), hotplugs = 0,
                      IsFor(cleartext[p], Target(p)),
                      NEW k \in DOMAIN devices_list[p],
                      port[devices_list[p][k]] = Target(p)
               PROVE  LoggedDevice(p, Target(p))
    BY DEF EnrolledNeverPassedOver, IsFor, Target, LoggedDevice
  <2>1. pc[p] \in UnlockedLabels
    BY DEF UnlockedLabels
  <2>2. NonePassedOver(p)
    BY <2>1 DEF LoopInv, LoopProc
  <2>3. k \in Passed(p)
    BY AllPassed DEF LoopInv, BindInv, TypeInv
  <2> QED BY <2>2, <2>3 DEF NonePassedOver
<1> QED BY <1>1, LoopInit, LoopNext, PTL DEF Spec

-----------------------------------------------------------------------------
(* PIN retries *)

\* Only a wrong PIN costs a retry, and only one.
LEMMA PinCounts ==
    ASSUME TypeOK, NEW d \in Device, NEW pin
    PROVE  /\ retries[d] \in Nat
           /\ retries[d] >= retries[d]
           /\ RetriesAfter(d, pin) \in Nat
           /\ IF DevicePin[d] = NULL \/ retries[d] = 0 \/ pin = DevicePin[d]
              THEN RetriesAfter(d, pin) >= retries[d]
              ELSE RetriesAfter(d, pin) = retries[d] - 1
<1>1. retries[d] \in 0 .. MaxPinRetries /\ MaxPinRetries \in Nat
  BY AuthenticatorAssumption DEF AuthenticatorAssumption, TypeOK
<1> QED BY <1>1 DEF RetriesAfter

\* The device that was asked tells who gave the wrong PIN.
LEMMA AnswerCounts ==
    ASSUME TypeOK, NEW p \in Proc, NEW accepted,
           NEW answer \in Answers(p, accepted) \union {"not asked"},
           CountPin(p, answer), NEW d \in Device
    PROVE  /\ retries[d] \in Nat
           /\ retries'[d] \in Nat
           /\ \/ retries'[d] >= retries[d]
              \/ /\ answer \in {"FIDO_ERR_PIN_INVALID", "FIDO_ERR_PIN_BLOCKED"}
                 /\ d = device[p].id
                 /\ retries'[d] = retries[d] - 1
<1>1. CASE retries' = retries \/ d # device[p].id
  <2>1. retries'[d] = retries[d]
    BY <1>1 DEF CountPin, TypeOK
  <2> QED BY <2>1, PinCounts
<1>2. CASE d = device[p].id /\ ~(retries' = retries)
  <2> DEFINE pin == params[p].authenticator_pin
  <2>1. /\ answer \notin {"FIDO_ERR_RX", "not asked"}
        /\ retries'[d] = RetriesAfter(d, pin)
    BY <1>2 DEF CountPin, TypeOK
  <2>2. \/ "FIDO_OK" \in PinVerdicts(d, pin)
        \/ answer \in PinVerdicts(d, pin)
    BY <1>2, <2>1 DEF Answers, Glitch
  <2> HIDE DEF pin
  <2>3. CASE DevicePin[d] = NULL \/ retries[d] = 0 \/ pin = DevicePin[d]
    BY <2>1, <2>3, PinCounts
  <2>4. CASE ~(DevicePin[d] = NULL \/ retries[d] = 0 \/ pin = DevicePin[d])
    <3>1. answer \in {"FIDO_ERR_PIN_INVALID", "FIDO_ERR_PIN_BLOCKED"}
      BY <2>2, <2>4 DEF PinVerdicts
    <3>2. /\ retries[d] \in Nat /\ retries'[d] \in Nat
          /\ retries'[d] = retries[d] - 1
      BY <2>1, <2>4, PinCounts
    <3> QED BY <1>2, <3>1, <3>2
  <2> QED BY <2>3, <2>4
<1> QED BY <1>1, <1>2

\* A process that takes a step has not exited, and logs one request at most.
LEMMA LogStep ==
    ASSUME Shape, NEW p \in Proc, Step(p) \/ Fate(p)
    PROVE  pc[p] # "exited" /\ (log'[p] = log[p] \/ Logs(p))
<1>1. CASE EnrolStep(p) /\ UNCHANGED generateVars
  BY <1>1
  DEF EnrolStep, EnrolGetDevice, EnrolGetDeviceInfo, EnrolReadPin,
      EnrolCreateCredential, EnrolBuildCleartext, EnrolOpenFile,
      EnrolCloseFile, generateVars
<1>2. CASE Fate(p)
  BY <1>2 DEF Fate, Start, Kill, OutOfMemory, Running, Ended,
               generateVars
<1>3. CASE GenerateStep(p)
  <2>1. CASE GenerateReadPin(p)
    <3>1. \/ log' = log
          \/ \E pin : log' = [log EXCEPT ![p] =
                                 Append(@, [LogEntry(p, "skipped")
                                            EXCEPT !.pin = pin])]
      BY <2>1 DEF GenerateReadPin
    <3>2. \A pin : [LogEntry(p, "skipped") EXCEPT !.pin = pin].device
                   = device[p].id
      BY DEF LogEntry
    <3>3. pc[p] # "exited"
      BY <2>1 DEF GenerateReadPin
    <3> QED BY <3>1, <3>2, <3>3 DEF Shape, Logs
  <2>2. CASE GenerateGetSecret(p)
    <3>1. \E answer : log' = [log EXCEPT ![p] =
                                 Append(@, LogEntry(p, answer))]
      BY <2>2 DEF GenerateGetSecret
    <3>2. \A answer : LogEntry(p, answer).device = device[p].id
      BY DEF LogEntry
    <3>3. pc[p] # "exited"
      BY <2>2 DEF GenerateGetSecret
    <3> QED BY <3>1, <3>2, <3>3 DEF Shape, Logs
  <2>3. CASE ~GenerateReadPin(p) /\ ~GenerateGetSecret(p)
    BY <1>3, <2>3
    DEF GenerateStep, GenerateListDevices, GenerateOpenFile,
        GenerateReadFile, GenerateLoadCleartext, GenerateUnlock,
        GenerateGetDevice, GenerateGetDeviceInfo, GenerateFinish, generateVars
  <2> QED BY <2>1, <2>2, <2>3
<1> QED BY <1>1, <1>2, <1>3 DEF Step

\* Only requests that a device has answered change what is left of retries.
LEMMA RetriesMove ==
    ASSUME NEW p \in Proc, Step(p) \/ Fate(p)
    PROVE  \/ UNCHANGED retries
           \/ EnrolCreateCredential(p)
           \/ GenerateGetSecret(p)
<1>1. CASE EnrolStep(p)
  BY <1>1
  DEF EnrolStep, EnrolGetDevice, EnrolGetDeviceInfo, EnrolReadPin,
      EnrolBuildCleartext, EnrolOpenFile, EnrolCloseFile, worldVars,
      authenticatorVars
<1>2. CASE GenerateStep(p)
  BY <1>2
  DEF GenerateStep, GenerateListDevices, GenerateOpenFile, GenerateReadFile,
      GenerateLoadCleartext, GenerateUnlock, GenerateGetDevice,
      GenerateGetDeviceInfo, GenerateReadPin, GenerateFinish, worldVars,
      authenticatorVars
<1>3. CASE Fate(p)
  BY <1>3 DEF Fate, authenticatorVars
<1> QED BY <1>1, <1>2, <1>3 DEF Step

\* Who spent a retry stays counted, and a step adds its own process at most.
LEMMA SpentGrows ==
    ASSUME LoopInv, NEW p \in Proc, Step(p) \/ Fate(p), NEW d
    PROVE  /\ Spent(d) \subseteq Spent(d)'
           /\ Spent(d)' \subseteq Spent(d) \union {p}
<1>1. \A q \in Proc \ {p} : Untouched(q)
  BY StepLocal DEF LoopInv, BindInv, TypeInv
<1>2. \A q \in Proc \ {p} : q \in Spent(d)' <=> q \in Spent(d)
  BY <1>1 DEF Spent, ToldOfPin, Exited, Enrols, Untouched
<1>3. p \in Spent(d) => p \in Spent(d)'
  <2>1. pc[p] # "exited" /\ (log'[p] = log[p] \/ Logs(p))
    BY LogStep DEF LoopInv, BindInv, TypeInv
  <2>2. \A n \in DOMAIN log[p] : n \in DOMAIN log'[p] /\ log'[p][n] = log[p][n]
    BY <2>1, LogGrows DEF LoopInv, LoopProc
  <2> QED BY <2>1, <2>2 DEF Spent, ToldOfPin, Exited
<1>4. Spent(d) \subseteq Proc /\ Spent(d)' \subseteq Proc
  BY DEF Spent
<1> QED BY <1>2, <1>3, <1>4

\* An empty log has no entries.
LEMMA NoEntries == \A s, n : n \in DOMAIN s => s # << >>
  OBVIOUS

\* The positions of the loop are in its list.
LEMMA ListPositions ==
    ASSUME TypeOK, NEW p \in Proc, MoreDevices(p), NEW k \in Passed(p)
    PROVE  /\ i[p] \in DOMAIN devices_list[p]
           /\ k \in DOMAIN devices_list[p]
           /\ k # i[p]
           /\ devices_list[p][k] \in Port
           /\ devices_list[p][i[p]] \in Port
  BY DEF TypeOK, Passed, MoreDevices

\* A process about to ask a device has not spent a retry of it: it asks each
\* device once.
LEMMA FirstRequest ==
    ASSUME LoopInv, hotplugs = 0, NEW p \in Proc,
           pc[p] \in Asking \union {"enrol: create_credential"}
    PROVE  p \notin Spent(device[p].id)
<1>1. LoopProc(p) /\ BoundProc(p) /\ TypeOK
  BY DEF LoopInv, BindInv, TypeInv
<1>2. pc[p] # "exited"
  BY DEF Asking, UnlockedLabels
<1>3. ASSUME NEW n \in DOMAIN log[p], log[p][n].device = device[p].id
      PROVE  FALSE
  <2>1. pc[p] \in Asking
    <3>1. log[p] # << >>
      BY <1>3, NoEntries
    <3> QED BY <1>1, <3>1 DEF BoundProc, EnrolLabels
  <2>2. /\ OnlyPassedAsked(p)
        /\ MoreDevices(p)
        /\ device[p].id \in Device
        /\ device[p].id = port[devices_list[p][i[p]]]
    BY <1>1, <2>1 DEF LoopProc, Asking
  <2>3. PICK k \in Passed(p) : device[p].id = port[devices_list[p][k]]
    BY <1>3, <2>2 DEF OnlyPassedAsked
  <2>4. /\ i[p] \in DOMAIN devices_list[p]
        /\ k \in DOMAIN devices_list[p]
        /\ k # i[p]
        /\ devices_list[p][k] \in Port
        /\ devices_list[p][i[p]] \in Port
    BY <1>1, <2>2, <2>3, ListPositions
  <2>5. device[p].id # NULL
    BY <2>2, AuthenticatorAssumption DEF AuthenticatorAssumption
  <2>6. devices_list[p][k] = devices_list[p][i[p]]
    BY <2>2, <2>3, <2>4, <2>5 DEF LoopInv, PortsApart
  <2> QED BY <1>1, <2>4, <2>6 DEF LoopProc
<1> QED BY <1>2, <1>3 DEF Spent, ToldOfPin, Exited

\* Who lost a device a retry by this step is counted from now on.
LEMMA NowSpent ==
    ASSUME LoopInv, NEW p \in Proc, Step(p) \/ Fate(p), NEW d \in Device
    PROVE  /\ retries[d] \in Nat
           /\ retries'[d] \in Nat
           /\ \/ retries'[d] >= retries[d]
              \/ /\ retries'[d] = retries[d] - 1
                 /\ d = device[p].id
                 /\ pc[p] \in Asking \union {"enrol: create_credential"}
                 /\ p \in Spent(d)'
<1>0. TypeOK /\ Shape /\ LoopProc(p) /\ BoundProc(p)
  BY DEF LoopInv, BindInv, TypeInv
<1>1. CASE UNCHANGED retries
  BY <1>0, <1>1, PinCounts
<1>2. CASE EnrolCreateCredential(p)
  <2>1. PICK answer \in CreateAnswers(p) :
           /\ Proceed(p, create_credential_status(answer),
                      "enrol: build_deserialized_cleartext")
           /\ CountPin(p, answer)
    BY <1>2 DEF EnrolCreateCredential
  <2>2. /\ answer \in {"FIDO_ERR_PIN_INVALID", "FIDO_ERR_PIN_BLOCKED"}
        /\ d = device[p].id
        => p \in Spent(d)'
    <3>1. create_credential_status("FIDO_ERR_PIN_INVALID") = EXIT_BAD_PIN
      BY DEF create_credential_status
    <3>2. create_credential_status("FIDO_ERR_PIN_BLOCKED")
             = EXIT_AUTHENTICATOR_ERROR
      BY DEF create_credential_status
    <3>3. /\ EXIT_BAD_PIN # EXIT_SUCCESS
          /\ EXIT_AUTHENTICATOR_ERROR # EXIT_SUCCESS
      BY DEF EXIT_BAD_PIN, EXIT_SUCCESS, EXIT_AUTHENTICATOR_ERROR,
             EXIT_H_RUNTIME_ERROR_BITS, EXIT_H_USER_ERROR_BITS
    <3>4. answer \in {"FIDO_ERR_PIN_INVALID", "FIDO_ERR_PIN_BLOCKED"} =>
             Exit(p, EXIT_BAD_PIN) \/ Exit(p, EXIT_AUTHENTICATOR_ERROR)
      BY <2>1, <3>1, <3>2, <3>3 DEF Proceed
    <3>5. pc[p] = "enrol: create_credential" /\ inv' = inv
      BY <1>2 DEF EnrolCreateCredential
    <3>6. Enrols(p)'
      BY <1>0, <3>5 DEF BoundProc, EnrolLabels, Enrols
    <3>7. device'[p] = [device[p] EXCEPT !.live = FALSE]
      BY <1>0, <1>2 DEF EnrolCreateCredential, Shape
    <3>8. device[p] \in [id : Device \union {NULL}, live : BOOLEAN]
      BY <1>0 DEF TypeOK
    <3>9. device'[p].id = device[p].id
      BY <3>7, <3>8
    <3> QED BY <1>0, <3>4, <3>6, <3>9
            DEF Exit, Exited, Spent, ToldOfPin, Shape
  <2>3. pc[p] \in Asking \union {"enrol: create_credential"}
    BY <1>2 DEF EnrolCreateCredential
  <2>4. \E accepted : answer \in Answers(p, accepted) \union {"not asked"}
    BY <2>1 DEF CreateAnswers
  <2> QED BY <1>0, <2>1, <2>2, <2>3, <2>4, AnswerCounts
<1>3. CASE GenerateGetSecret(p)
  <2>1. PICK answer :
           /\ \E accepted : answer \in Answers(p, accepted) \union {"not asked"}
           /\ CountPin(p, answer)
           /\ log' = [log EXCEPT ![p] = Append(@, LogEntry(p, answer))]
    BY <1>3 DEF GenerateGetSecret, AssertAnswers
  <2>2. \E n \in DOMAIN log'[p] : log'[p][n] = LogEntry(p, answer)
    <3> DEFINE t == Append(log[p], LogEntry(p, answer))
    <3>1. IsLog(log[p])
      BY <1>0 DEF LoopProc
    <3>2. \E n \in DOMAIN t : t[n] = LogEntry(p, answer)
      BY <3>1, Appended
    <3>3. log'[p] = t
      BY <1>0, <2>1 DEF Shape
    <3> HIDE DEF t
    <3> QED BY <3>2, <3>3
  <2>3. /\ answer \in {"FIDO_ERR_PIN_INVALID", "FIDO_ERR_PIN_BLOCKED"}
        /\ d = device[p].id
        => p \in Spent(d)'
    BY <2>2 DEF LogEntry, Spent, ToldOfPin
  <2>4. pc[p] \in Asking \union {"enrol: create_credential"}
    BY <1>3 DEF GenerateGetSecret, Asking, UnlockedLabels
  <2> QED BY <1>0, <2>1, <2>3, <2>4, AnswerCounts
<1> QED BY <1>1, <1>2, <1>3, RetriesMove

\* The balance of a device is kept.
LEMMA BalanceKept ==
    ASSUME NEW old, NEW new, NEW p, NEW r \in Nat, NEW s \in Nat,
           NEW most \in Nat, IsFiniteSet(old), most - r <= Cardinality(old),
           old \subseteq new, new \subseteq old \union {p},
           s >= r \/ (s = r - 1 /\ p \in new /\ p \notin old)
    PROVE  IsFiniteSet(new) /\ most - s <= Cardinality(new)
<1>1. IsFiniteSet(old \union {p}) /\ IsFiniteSet(new)
  BY FS_AddElement, FS_Subset
<1>2. /\ Cardinality(old) \in Nat
      /\ Cardinality(new) \in Nat
      /\ Cardinality(old) <= Cardinality(new)
  BY <1>1, FS_CardinalityType, FS_Subset
<1>3. CASE s >= r
  BY <1>1, <1>2, <1>3
<1>4. CASE s = r - 1 /\ p \in new /\ p \notin old
  <2>1. new = old \union {p}
    BY <1>4
  <2>2. Cardinality(new) = Cardinality(old) + 1
    BY <1>4, <2>1, FS_AddElement
  <2> QED BY <1>1, <1>2, <1>4, <2>2
<1> QED BY <1>3, <1>4

LEMMA RetriesInit == Init => RetriesKept
<1> SUFFICES ASSUME Init, NEW d \in Device
             PROVE  /\ IsFiniteSet(Spent(d))
                    /\ MaxPinRetries - retries[d] <= Cardinality(Spent(d))
  BY DEF RetriesKept
<1>1. Spent(d) = {}
  BY NoEntries DEF Init, Spent, ToldOfPin, Exited
<1>2. MaxPinRetries - retries[d] = 0
  BY AuthenticatorAssumption DEF AuthenticatorAssumption, Init
<1> QED BY <1>1, <1>2, FS_EmptySet

LEMMA RetriesNext ==
    LoopInv /\ RetriesKept /\ [Next]_vars => RetriesKept'
<1> SUFFICES ASSUME LoopInv, RetriesKept, [Next]_vars, hotplugs' = 0,
                    NEW d \in Device
             PROVE  /\ IsFiniteSet(Spent(d)')
                    /\ MaxPinRetries - retries'[d] <= Cardinality(Spent(d)')
  BY DEF RetriesKept
<1>1. hotplugs \in Nat
  BY DEF LoopInv, BindInv, TypeInv, TypeOK
<1>2. CASE /\ UNCHANGED << hotplugs, pc, exit, inv, log, retries >>
           /\ \A q \in Proc : device'[q].id = device[q].id
  <2>1. Spent(d)' = Spent(d)
    BY <1>2 DEF Spent, ToldOfPin, Exited, Enrols
  <2> QED BY <1>2, <2>1 DEF RetriesKept
<1>3. CASE UNCHANGED vars
  BY <1>2, <1>3
  DEF vars, machineVars, authenticatorVars, generateVars
<1>4. CASE World
  <2>1. /\ UNCHANGED << pc, exit, inv, log, retries >>
        /\ \A q \in Proc : device'[q].id = device[q].id
    BY <1>4, WorldLocal DEF LoopInv, BindInv, generateVars
  <2>2. hotplugs' = hotplugs \/ hotplugs' = hotplugs + 1
    BY <1>4 DEF World, Plug, Unplug, authenticatorVars
  <2> QED BY <1>1, <1>2, <2>1, <2>2
<1>5. ASSUME NEW p \in Proc, Step(p) \/ Fate(p)
      PROVE  /\ IsFiniteSet(Spent(d)')
             /\ MaxPinRetries - retries'[d] <= Cardinality(Spent(d)')
  <2>1. hotplugs = 0
    BY <1>5, LoopLocal DEF LoopInv
  <2>2. /\ IsFiniteSet(Spent(d))
        /\ MaxPinRetries - retries[d] <= Cardinality(Spent(d))
    BY <2>1 DEF RetriesKept
  <2>3. Spent(d) \subseteq Spent(d)' /\ Spent(d)' \subseteq Spent(d) \union {p}
    BY <1>5, SpentGrows
  <2>4. /\ retries[d] \in Nat /\ retries'[d] \in Nat
        /\ \/ retries'[d] >= retries[d]
           \/ /\ retries'[d] = retries[d] - 1
              /\ p \in Spent(d)'
              /\ p \notin Spent(d)
    BY <1>5, <2>1, NowSpent, FirstRequest
  <2>5. MaxPinRetries \in Nat
    BY AuthenticatorAssumption DEF AuthenticatorAssumption
  <2> QED BY <2>2, <2>3, <2>4, <2>5, BalanceKept
<1> QED BY <1>3, <1>4, <1>5 DEF Next, Idle

\* As long as nothing is plugged or unplugged, each retry a device has lost
\* is the wrong PIN of a process of its own: no invocation, however many
\* devices it goes through with one PIN, costs a device two.
THEOREM RetriesAccounted == Spec => []PinRetriesAccounted
<1>1. RetriesKept => PinRetriesAccounted
  BY DEF RetriesKept, PinRetriesAccounted, Spent
<1> QED BY <1>1, LoopInit, LoopNext, RetriesInit, RetriesNext, PTL DEF Spec

=============================================================================
