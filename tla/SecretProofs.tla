---------------------------- MODULE SecretProofs ----------------------------
(***************************************************************************)
(* Types, and the secret that generate prints, whatever happens to the     *)
(* keyfile and whoever else runs.  First, Khefin is typed, for any number  *)
(* of processes, keyfiles, devices and command lines, and any bounds on    *)
(* damages, hotplugs and PIN retries; the lemmas about what a step can     *)
(* touch serve the other proofs, too.  Then, the secret belongs to an      *)
(* enrolment under the passphrase that generate was given: SecretIsBound   *)
(* and UnlockedFirst.                                                      *)
(*                                                                         *)
(* The argument follows the sealed box.  Every intact box on the disk, in  *)
(* a buffer or in a deserialized cleartext was sealed by an enrolment;     *)
(* a box that opens under the key of a passphrase was sealed under it; so  *)
(* what comes out of it is the credential and the salt of an enrolment     *)
(* under that passphrase.                                                  *)
(*                                                                         *)
(* Last, khefin implements the oracle for secrets: every step of a         *)
(* process, of the disk or of the user is a step of SecretOracle, or none  *)
(* that it can see.  The fairness of the oracle is left to TLC.            *)
(*                                                                         *)
(* Three facts that no other proof needs make the steps match.  A process  *)
(* makes one credential at most, and makes it once; so that the oracle's   *)
(* enrolment of a process is one authenticator.  A handle that is live is  *)
(* one to a device that is plugged in; so that a credential is made, and a *)
(* secret given, by an authenticator that the oracle sees attached.  And   *)
(* a process that has printed has ended.                                   *)
(***************************************************************************)
EXTENDS Khefin, FiniteSetTheorems, TLAPS

-----------------------------------------------------------------------------
(* What a step can touch *)

\* The state of the processes is indexed by the processes.
Shape ==
    /\ DOMAIN pc = Proc        /\ DOMAIN exit = Proc
    /\ DOMAIN inv = Proc       /\ DOMAIN cleartext = Proc
    /\ DOMAIN device = Proc    /\ DOMAIN params = Proc
    /\ DOMAIN data = Proc      /\ DOMAIN out = Proc
    /\ DOMAIN log = Proc       /\ DOMAIN disk = File

\* The rest of the state of a process stays as it is.
Untouched(q) ==
    /\ pc'[q] = pc[q]            /\ exit'[q] = exit[q]
    /\ inv'[q] = inv[q]          /\ cleartext'[q] = cleartext[q]
    /\ device'[q] = device[q]    /\ params'[q] = params[q]
    /\ data'[q] = data[q]        /\ out'[q] = out[q]
    /\ log'[q] = log[q]

\* A process changes only its own state, and what all of them share.
LEMMA StepLocal ==
    ASSUME Shape, NEW p \in Proc, Step(p) \/ Fate(p)
    PROVE  Shape' /\ \A q \in Proc \ {p} : Untouched(q)
<1> USE DEF Shape, Untouched, Goto, Exit, Proceed, Continue,
            machineVars, worldVars, authenticatorVars, enrolVars, generateVars
<1>1. CASE EnrolGetDevice(p) /\ UNCHANGED generateVars
  BY <1>1 DEF EnrolGetDevice
<1>2. CASE EnrolGetDeviceInfo(p) /\ UNCHANGED generateVars
  BY <1>2 DEF EnrolGetDeviceInfo
<1>3. CASE EnrolReadPin(p) /\ UNCHANGED generateVars
  BY <1>3 DEF EnrolReadPin
<1>4. CASE EnrolCreateCredential(p) /\ UNCHANGED generateVars
  BY <1>4 DEF EnrolCreateCredential
<1>5. CASE EnrolBuildCleartext(p) /\ UNCHANGED generateVars
  BY <1>5 DEF EnrolBuildCleartext
<1>6. CASE EnrolOpenFile(p) /\ UNCHANGED generateVars
  BY <1>6 DEF EnrolOpenFile
<1>7. CASE EnrolCloseFile(p) /\ UNCHANGED generateVars
  BY <1>7 DEF EnrolCloseFile
<1>8. CASE GenerateListDevices(p) /\ UNCHANGED enrolVars
  BY <1>8 DEF GenerateListDevices
<1>9. CASE GenerateOpenFile(p) /\ UNCHANGED enrolVars
  BY <1>9 DEF GenerateOpenFile
<1>10. CASE GenerateReadFile(p) /\ UNCHANGED enrolVars
  BY <1>10 DEF GenerateReadFile
<1>11. CASE GenerateLoadCleartext(p) /\ UNCHANGED enrolVars
  BY <1>11 DEF GenerateLoadCleartext
<1>12. CASE GenerateUnlock(p) /\ UNCHANGED enrolVars
  BY <1>12 DEF GenerateUnlock
<1>13. CASE GenerateGetDevice(p) /\ UNCHANGED enrolVars
  BY <1>13 DEF GenerateGetDevice
<1>14. CASE GenerateGetDeviceInfo(p) /\ UNCHANGED enrolVars
  BY <1>14 DEF GenerateGetDeviceInfo
<1>15. CASE GenerateReadPin(p) /\ UNCHANGED enrolVars
  BY <1>15 DEF GenerateReadPin
<1>16. CASE GenerateGetSecret(p) /\ UNCHANGED enrolVars
  BY <1>16 DEF GenerateGetSecret
<1>17. CASE GenerateFinish(p) /\ UNCHANGED enrolVars
  BY <1>17 DEF GenerateFinish
<1>18. CASE Fate(p)
  BY <1>18 DEF Fate, Start, Kill, OutOfMemory
<1> QED BY <1>1, <1>2, <1>3, <1>4, <1>5, <1>6, <1>7, <1>8, <1>9, <1>10, <1>11,
           <1>12, <1>13, <1>14, <1>15, <1>16, <1>17, <1>18
  DEF Step, EnrolStep, GenerateStep

-----------------------------------------------------------------------------
(* Types *)

\* A record of authenticator parameters has the fields of the C structure.
IsParams(r) ==
    r = [ relying_party_id  |-> r.relying_party_id,
          credential_id     |-> r.credential_id,
          salt              |-> r.salt,
          authenticator_pin |-> r.authenticator_pin ]

\* Between these two labels an enrolment has a device and, after it looked at
\* the device, a salt and a relying party of its own.
DeviceLabels ==
    { "enrol: get_device_info", "enrol: prompt_for_secret",
      "enrol: create_credential", "enrol: build_deserialized_cleartext" }

EnrolmentFresh(p) ==
    /\ pc[p] \in DeviceLabels => device[p].id \in Device
    /\ pc[p] \in DeviceLabels \ {"enrol: get_device_info"} =>
          /\ params[p].relying_party_id = p
          /\ params[p].salt = FreshSalt(p)

\* Type correctness, strengthened so that it is inductive: an enrolment asks
\* a device that is one for a credential of a relying party of its own.
TypeInv ==
    /\ TypeOK
    /\ Shape
    /\ \A p \in Proc : IsParams(params[p])
    /\ \A p \in Proc : EnrolmentFresh(p)

\* Every status a function of the program exits with is one of include/exit.h.
LEMMA ExitCodesType ==
    /\ EXIT_SUCCESS \in ExitCodes
    /\ EXIT_BAD_PASSPHRASE \in ExitCodes
    /\ EXIT_NO_DEVICES \in ExitCodes
    /\ EXIT_NO_VALID_AUTHENTICATOR \in ExitCodes
    /\ EXIT_DESERIALIZATION_ERROR \in ExitCodes
    /\ EXIT_BAD_PIN \in ExitCodes
    /\ EXIT_OUT_OF_MEMORY \in ExitCodes
    /\ EXIT_AUTHENTICATOR_ERROR \in ExitCodes
    /\ EXIT_CRYPTOGRAPHY_ERROR \in ExitCodes
    /\ EXIT_UNABLE_TO_GET_USER_SECRET \in ExitCodes
    /\ EXIT_PROGRAMMER_ERROR \in ExitCodes
  BY DEF ExitCodes

\* What fido_dev_info_manifest can return is a list of ports.
LEMMA ManifestsType == ASSUME port \in [Port -> Device \union {NULL}]
                       PROVE  Manifests \subseteq Seq(Port)
<1> DEFINE Occupied == { x \in Port : port[x] # NULL }
           n == IF Cardinality(Occupied) > MAX_DEVICES_TO_LIST
                THEN MAX_DEVICES_TO_LIST ELSE Cardinality(Occupied)
<1>1. IsFiniteSet(Occupied)
  BY FS_Subset, AuthenticatorAssumption DEF AuthenticatorAssumption
<1>2. Cardinality(Occupied) \in Nat
  BY <1>1, FS_CardinalityType
<1>3. n \in Nat
  BY <1>2, AuthenticatorAssumption DEF AuthenticatorAssumption
<1>4. ASSUME NEW s \in [1 .. n -> Occupied] PROVE s \in Seq(Port)
  <2>1. s \in [1 .. n -> Port]
    OBVIOUS
  <2> HIDE DEF n
  <2> QED BY <1>3, <2>1
<1> QED BY <1>4 DEF Manifests

\* A process that moves on, exits or dies keeps the control state typed.
LEMMA ControlType ==
    ASSUME TypeOK, NEW p \in Proc, NEW l \in Labels, NEW s \in ExitCodes,
           Goto(p, l) \/ Exit(p, s) \/ Proceed(p, s, l)
    PROVE  pc' \in [Proc -> Labels] /\ exit' \in [Proc -> ExitCodes]
<1>1. "exited" \in Labels
  BY DEF Labels
<1>2. pc \in [Proc -> Labels] /\ exit \in [Proc -> ExitCodes]
  BY DEF TypeOK
<1> QED BY <1>1, <1>2 DEF Goto, Exit, Proceed

\* The initial states are typed.
LEMMA TypeInit == Init => TypeInv
<1> SUFFICES ASSUME Init PROVE TypeInv
  OBVIOUS
<1>1. TypeOK
  <2>1. /\ pc \in [Proc -> Labels]
        /\ exit \in [Proc -> ExitCodes]
    BY ExitCodesType DEF Init, Labels
  <2>2. /\ port \in [Port -> Device \union {NULL}]
        /\ retries \in [Device -> 0 .. MaxPinRetries]
        /\ device \in [Proc -> [id : Device \union {NULL}, live : BOOLEAN]]
        /\ devices_list \in [Proc -> Seq(Port)]
        /\ hotplugs \in 0 .. MaxHotplugs
        /\ damages \in [File -> 0 .. MaxDamages]
    BY AuthenticatorAssumption, MachineAssumption
    DEF Init, AuthenticatorAssumption, MachineAssumption, NoHandle
  <2> QED BY <2>1, <2>2 DEF Init, TypeOK
<1>2. \A p \in Proc : IsParams(params[p])
  BY DEF Init, IsParams, NoParams
<1>3. \A p \in Proc : EnrolmentFresh(p)
  BY DEF Init, EnrolmentFresh, DeviceLabels
<1> QED BY <1>1, <1>2, <1>3 DEF TypeInv, Shape, Init

\* Setting the PIN or the credential of the parameters leaves the rest.
LEMMA ParamsExcept ==
    ASSUME NEW r, IsParams(r), NEW v, NEW s
    PROVE  /\ s = [r EXCEPT !.authenticator_pin = v] =>
                 /\ IsParams(s)
                 /\ s.authenticator_pin = v
                 /\ s.relying_party_id = r.relying_party_id
                 /\ s.credential_id = r.credential_id
                 /\ s.salt = r.salt
           /\ s = [r EXCEPT !.credential_id = v] =>
                 /\ IsParams(s)
                 /\ s.credential_id = v
                 /\ s.relying_party_id = r.relying_party_id
                 /\ s.salt = r.salt
  BY DEF IsParams

\* No PIN leaves a device more retries than it came with, or less than none.
LEMMA RetriesType ==
    ASSUME TypeOK, NEW p \in Proc, NEW answer, CountPin(p, answer)
    PROVE  retries' \in [Device -> 0 .. MaxPinRetries]
<1> DEFINE d == device[p].id
           r == RetriesAfter(d, params[p].authenticator_pin)
<1>1. d \in Device => r \in 0 .. MaxPinRetries
  <2>1. MaxPinRetries \in Nat /\ (d \in Device => retries[d] \in 0 .. MaxPinRetries)
    BY AuthenticatorAssumption DEF AuthenticatorAssumption, TypeOK
  <2> QED BY <2>1 DEF RetriesAfter
<1>2. \/ retries' = retries
      \/ retries' = [retries EXCEPT ![d] = r]
  BY DEF CountPin
<1> HIDE DEF r, d
<1> QED BY <1>1, <1>2 DEF TypeOK

\* A process whose label, device and parameters stay as they are stays fresh.
LEMMA OthersType ==
    ASSUME TypeInv, NEW q \in Proc,
           pc'[q] = pc[q], device'[q].id = device[q].id, params'[q] = params[q]
    PROVE  EnrolmentFresh(q)' /\ IsParams(params'[q])
  BY DEF TypeInv, EnrolmentFresh, IsParams

\* A process outside DeviceLabels is fresh.
LEMMA OutsideType ==
    ASSUME NEW q \in Proc, pc'[q] \notin DeviceLabels
    PROVE  EnrolmentFresh(q)'
  BY DEF EnrolmentFresh

\* No device.
LEMMA NoHandleType == NoHandle \in [id : Device \union {NULL}, live : BOOLEAN]
  BY DEF NoHandle

\* get_device returns only when there is a device at that port.
LEMMA GetDeviceType ==
    ASSUME NEW x, NEW status \in get_device_statuses(x)
    PROVE  /\ status \in ExitCodes
           /\ status = EXIT_SUCCESS => port[x] \in Device
  BY AuthenticatorAssumption, ExitCodesType
  DEF get_device_statuses, Glitch, AuthenticatorAssumption, EXIT_SUCCESS,
      EXIT_AUTHENTICATOR_ERROR, EXIT_H_RUNTIME_ERROR_BITS

\* What a step of a process has to show: the shared state and its own.
TypeStep(p) == TypeOK' /\ EnrolmentFresh(p)' /\ IsParams(params'[p])

\* ... for then nobody else is disturbed.
LEMMA TypeStepEnough ==
    ASSUME TypeInv, NEW p \in Proc, Step(p) \/ Fate(p), TypeStep(p)
    PROVE  TypeInv'
<1>1. Shape' /\ \A q \in Proc \ {p} : Untouched(q)
  BY StepLocal DEF TypeInv
<1>2. ASSUME NEW q \in Proc PROVE EnrolmentFresh(q)' /\ IsParams(params'[q])
  BY <1>1, OthersType DEF TypeStep, Untouched
<1> QED BY <1>1, <1>2 DEF TypeInv, TypeStep, IsParams

\* The steps of enrol preserve the types.
LEMMA EnrolType ==
    ASSUME TypeInv, NEW p \in Proc, EnrolStep(p), UNCHANGED generateVars
    PROVE  TypeStep(p)
<1>0. /\ TypeOK
      /\ Shape
      /\ IsParams(params[p])
      /\ EnrolmentFresh(p)
  BY DEF TypeInv
<1> USE DEF TypeStep
<1>1. CASE EnrolGetDevice(p)
  <2>1. PICK status \in get_device_statuses(inv[p].device) :
           /\ Proceed(p, status, "enrol: get_device_info")
           /\ device' = [device EXCEPT ![p] =
                             HandleAfter(p, inv[p].device, status)]
    BY <1>1 DEF EnrolGetDevice
  <2>2. /\ status \in ExitCodes
        /\ status = EXIT_SUCCESS => port[inv[p].device] \in Device
    BY <2>1, GetDeviceType
  <2>3. TypeOK'
    BY <1>0, <1>1, <2>1, <2>2, ControlType
    DEF EnrolGetDevice, TypeOK, HandleAfter, Handle, Labels, EnrolLabels,
        enrolVars, generateVars, worldVars
  <2>4. \/ pc'[p] = "exited"
        \/ pc'[p] = "enrol: get_device_info" /\ device'[p].id \in Device
    BY <1>0, <2>1, <2>2 DEF Shape, HandleAfter, Handle, Proceed, Goto, Exit
  <2>5. EnrolmentFresh(p)'
    BY <2>4 DEF EnrolmentFresh, DeviceLabels
  <2> QED BY <1>0, <1>1, <2>3, <2>5 DEF EnrolGetDevice
<1>2. CASE EnrolGetDeviceInfo(p)
  <2>1. PICK answer \in get_device_info_statuses(p) :
          LET status == IF device_supports_hmac_secret(p)
                        THEN answer ELSE EXIT_AUTHENTICATOR_ERROR
          IN  /\ Proceed(p, status, IF fido_dev_has_pin(p)
                                    THEN "enrol: prompt_for_secret"
                                    ELSE "enrol: create_credential")
              /\ params' =
                    IF status # EXIT_SUCCESS THEN params
                    ELSE [params EXCEPT ![p] =
                            [NoParams EXCEPT !.relying_party_id = p,
                                             !.salt = FreshSalt(p)]]
    BY <1>2 DEF EnrolGetDeviceInfo
  <2>2. answer \in ExitCodes
    BY ExitCodesType DEF get_device_info_statuses, Glitch
  <2>3. TypeOK'
    BY <1>0, <1>2, <2>1, <2>2, ControlType, ExitCodesType
    DEF EnrolGetDeviceInfo, TypeOK, Labels, EnrolLabels,
        enrolVars, generateVars, worldVars
  <2>4. EnrolmentFresh(p)' /\ IsParams(params'[p])
    BY <1>0, <1>2, <2>1, <2>2
    DEF EnrolGetDeviceInfo, TypeOK, Shape, EnrolmentFresh,
        DeviceLabels, Proceed, Goto, Exit, NoParams, IsParams
  <2> QED BY <2>3, <2>4
<1>3. CASE EnrolReadPin(p)
  <2>1. PICK pin \in PinAnswers(p) :
          /\ Proceed(p, CASE pin = NULL -> EXIT_UNABLE_TO_GET_USER_SECRET
                          [] pin = EmptyPin -> EXIT_BAD_PIN
                          [] OTHER -> EXIT_SUCCESS,
                     "enrol: create_credential")
          /\ params' = CASE pin = NULL -> params
                         [] pin = EmptyPin -> [params EXCEPT ![p] = NoParams]
                         [] OTHER ->
                              [params EXCEPT ![p].authenticator_pin = pin]
    BY <1>3 DEF EnrolReadPin
  <2>2. TypeOK'
    BY <1>0, <1>3, <2>1, ControlType, ExitCodesType
    DEF EnrolReadPin, TypeOK, Labels, EnrolLabels,
        enrolVars, generateVars, worldVars
  <2>3. CASE pin \in {NULL, EmptyPin}
    <3>1. params'[p] = params[p] \/ params'[p] = NoParams
      BY <1>0, <2>1, <2>3, AuthenticatorAssumption
      DEF Shape, AuthenticatorAssumption
    <3>2. IsParams(params'[p])
      BY <1>0, <3>1 DEF IsParams, NoParams
    <3>3. PICK status \in {EXIT_UNABLE_TO_GET_USER_SECRET, EXIT_BAD_PIN} :
             Proceed(p, status, "enrol: create_credential")
      BY <2>1, <2>3, AuthenticatorAssumption DEF AuthenticatorAssumption
    <3>4. /\ EXIT_UNABLE_TO_GET_USER_SECRET # EXIT_SUCCESS
          /\ EXIT_BAD_PIN # EXIT_SUCCESS
      BY DEF EXIT_SUCCESS, EXIT_UNABLE_TO_GET_USER_SECRET, EXIT_BAD_PIN,
             EXIT_H_USER_ERROR_BITS, EXIT_H_RUNTIME_ERROR_BITS
    <3>5. pc'[p] = "exited"
      BY <1>0, <3>3, <3>4 DEF Shape, Proceed, Exit
    <3>6. pc'[p] \notin DeviceLabels
      BY <3>5 DEF DeviceLabels
    <3> QED BY <2>2, <3>2, <3>6, OutsideType
  <2>4. CASE pin \notin {NULL, EmptyPin}
    <3>1. params'[p] = [params[p] EXCEPT !.authenticator_pin = pin]
      BY <1>0, <2>1, <2>4 DEF Shape
    <3>2. /\ IsParams(params'[p])
          /\ params'[p].relying_party_id = params[p].relying_party_id
          /\ params'[p].salt = params[p].salt
      BY <1>0, <3>1, ParamsExcept
    <3>3. EnrolmentFresh(p)'
      BY <1>0, <1>3, <2>1, <3>2
      DEF EnrolReadPin, TypeOK, EnrolmentFresh, DeviceLabels, Proceed, Goto,
          Exit
    <3> QED BY <2>2, <3>2, <3>3
  <2> QED BY <2>3, <2>4
<1>4. CASE EnrolCreateCredential(p)
  <2>1. PICK answer \in CreateAnswers(p) :
          LET status == create_credential_status(answer) IN
          /\ Proceed(p, status, "enrol: build_deserialized_cleartext")
          /\ CountPin(p, answer)
          /\ credentials' = IF status = EXIT_SUCCESS
                            THEN credentials \union {NewCredential(p).val}
                            ELSE credentials
          /\ params' = IF status = EXIT_SUCCESS
                       THEN [params EXCEPT ![p].credential_id =
                                NewCredential(p)]
                       ELSE params
          /\ device' = [device EXCEPT ![p].live = FALSE]
    BY <1>4 DEF EnrolCreateCredential
  <2>2. device[p].id \in Device /\ params[p].relying_party_id = p
    BY <1>0, <1>4 DEF EnrolCreateCredential, EnrolmentFresh, DeviceLabels
  <2>3. NewCredential(p).val \in [device : Device, rp : Proc]
    BY <2>2 DEF NewCredential, Bytes
  <2>4. create_credential_status(answer) \in ExitCodes
    BY ExitCodesType DEF create_credential_status
  <2>5. retries' \in [Device -> 0 .. MaxPinRetries]
    BY <1>0, <2>1, RetriesType
  <2>6. TypeOK'
    <3>1. pc' \in [Proc -> Labels] /\ exit' \in [Proc -> ExitCodes]
      BY <1>0, <2>1, <2>4, ControlType DEF Labels, EnrolLabels
    <3>2. device' \in [Proc -> [id : Device \union {NULL}, live : BOOLEAN]]
      BY <1>0, <2>1 DEF TypeOK
    <3> QED
      BY <1>0, <1>4, <2>1, <2>3, <2>5, <3>1, <3>2
      DEF EnrolCreateCredential, TypeOK, generateVars
  <2>7. \/ params'[p] = params[p]
        \/ params'[p] = [params[p] EXCEPT !.credential_id = NewCredential(p)]
    BY <1>0, <2>1 DEF Shape
  <2>8. /\ IsParams(params'[p])
        /\ params'[p].relying_party_id = params[p].relying_party_id
        /\ params'[p].salt = params[p].salt
    BY <1>0, <2>7, ParamsExcept
  <2>9. device'[p].id = device[p].id
    BY <1>0, <2>1 DEF TypeOK
  <2>10. EnrolmentFresh(p)'
    BY <1>0, <1>4, <2>2, <2>8, <2>9
    DEF EnrolCreateCredential, EnrolmentFresh, DeviceLabels
  <2> QED BY <2>6, <2>8, <2>10
<1>5. CASE EnrolBuildCleartext(p)
  <2>1. /\ pc[p] = "enrol: build_deserialized_cleartext"
        /\ params' \in {params, [params EXCEPT ![p] = NoParams]}
        /\ device' \in {device, [device EXCEPT ![p] = NoHandle]}
        /\ held' \in {held, [held EXCEPT ![p] = {}]}
        /\ UNCHANGED << inv, disk, damages, worldVars, enrolVars >>
    BY <1>5 DEF EnrolBuildCleartext
  <2>2. PICK status \in ExitCodes : Proceed(p, status, "enrol: fopen")
    BY <1>5, ExitCodesType DEF EnrolBuildCleartext, derive_key_status, Proceed
  <2>3. TypeOK'
    <3>1. held' \in [Proc -> SUBSET {"passphrase", "pin"}]
      BY <1>0, <2>1 DEF TypeOK
    <3>2. device' \in [Proc -> [id : Device \union {NULL}, live : BOOLEAN]]
      BY <1>0, <2>1, NoHandleType DEF TypeOK
    <3> QED
      BY <1>0, <2>1, <2>2, <3>1, <3>2, ControlType
      DEF TypeOK, Labels, EnrolLabels, enrolVars, generateVars, worldVars
  <2>4. pc'[p] \notin DeviceLabels
    BY <1>0, <2>2 DEF Shape, DeviceLabels, Proceed, Goto, Exit
  <2>5. IsParams(params'[p])
    <3>1. params'[p] \in {params[p], NoParams}
      BY <1>0, <2>1 DEF Shape
    <3> QED BY <1>0, <3>1 DEF IsParams, NoParams
  <2> QED BY <2>3, <2>4, <2>5, OutsideType
<1>6. CASE EnrolOpenFile(p)
  <2>1. PICK status \in ExitCodes : Proceed(p, status, "enrol: fclose")
    BY <1>6, ExitCodesType DEF EnrolOpenFile
  <2>2. TypeOK'
    BY <1>0, <1>6, <2>1, ControlType
    DEF EnrolOpenFile, TypeOK, Labels, EnrolLabels,
        enrolVars, generateVars, authenticatorVars
  <2>3. pc'[p] \notin DeviceLabels
    BY <1>0, <2>1 DEF Shape, DeviceLabels, Proceed, Goto, Exit
  <2> QED
    BY <1>0, <1>6, <2>2, <2>3, OutsideType
    DEF EnrolOpenFile, authenticatorVars
<1>7. CASE EnrolCloseFile(p)
  <2>1. Exit(p, EXIT_SUCCESS) /\ EXIT_SUCCESS \in ExitCodes
    BY <1>7, ExitCodesType DEF EnrolCloseFile
  <2>2. TypeOK'
    BY <1>0, <1>7, <2>1, ControlType
    DEF EnrolCloseFile, TypeOK, Labels, enrolVars, generateVars,
        authenticatorVars
  <2>3. pc'[p] \notin DeviceLabels
    BY <1>0, <2>1 DEF Shape, DeviceLabels, Exit
  <2> QED
    BY <1>0, <1>7, <2>2, <2>3, OutsideType
    DEF EnrolCloseFile, authenticatorVars
<1> QED BY <1>1, <1>2, <1>3, <1>4, <1>5, <1>6, <1>7 DEF EnrolStep

\* What the functions that generate calls exit with.
LEMMA StatusTypes ==
    /\ \A spec : derive_key_status(spec) \in ExitCodes
    /\ \A clear, key, mixin :
          build_authenticator_parameters_status(clear, key, mixin) \in ExitCodes
    /\ \A f : open_status(f) \in ExitCodes
    /\ \A f, n : fread_status(f, n) \in ExitCodes
    /\ \A file : load_cleartext_status(file) \in ExitCodes
    /\ \A p : request_status(p) \in ExitCodes
    /\ \A x : get_device_statuses(x) \subseteq ExitCodes
    /\ \A p : get_device_info_statuses(p) \subseteq ExitCodes
  BY ExitCodesType
  DEF derive_key_status, build_authenticator_parameters_status, open_status,
      fread_status, load_cleartext_status, request_status,
      get_device_statuses, get_device_info_statuses, Glitch

\* A step that keeps the devices' state, the parameters' shape and the
\* command lines, and leaves the process outside of enrol, preserves the types.
LEMMA OutsideTypeStep ==
    ASSUME TypeInv, NEW p \in Proc,
           UNCHANGED << inv, held, disk, damages, port, hotplugs, credentials >>,
           retries' \in [Device -> 0 .. MaxPinRetries],
           device' \in [Proc -> [id : Device \union {NULL}, live : BOOLEAN]],
           devices_list' \in [Proc -> Seq(Port)],
           i' \in [Proc -> Nat \ {0}],
           IsParams(params'[p]),
           NEW l \in Labels \ DeviceLabels, NEW s \in ExitCodes,
           Goto(p, l) \/ Exit(p, s) \/ Proceed(p, s, l)
    PROVE  TypeStep(p)
<1>1. pc' \in [Proc -> Labels] /\ exit' \in [Proc -> ExitCodes]
  BY ControlType DEF TypeInv
<1>2. TypeOK'
  BY <1>1 DEF TypeInv, TypeOK
<1>3. pc'[p] \notin DeviceLabels
  BY DEF TypeInv, TypeOK, Goto, Exit, Proceed, DeviceLabels
<1> QED BY <1>2, <1>3, OutsideType DEF TypeStep

\* The steps of generate preserve the types.
LEMMA GenerateType ==
    ASSUME TypeInv, NEW p \in Proc, GenerateStep(p), UNCHANGED enrolVars
    PROVE  TypeStep(p)
<1>0. /\ TypeOK
      /\ Shape
      /\ IsParams(params[p])
      /\ UNCHANGED credentials
  BY DEF TypeInv, enrolVars
<1>a. /\ retries \in [Device -> 0 .. MaxPinRetries]
      /\ device \in [Proc -> [id : Device \union {NULL}, live : BOOLEAN]]
      /\ devices_list \in [Proc -> Seq(Port)]
      /\ i \in [Proc -> Nat \ {0}]
  BY <1>0 DEF TypeOK
<1>d. device \in [Proc -> [id : Device \union {NULL}, live : BOOLEAN]]
  BY <1>a
<1>i. i \in [Proc -> Nat \ {0}]
  BY <1>a
<1>b. /\ LockedLabels \union UnlockedLabels \union {"exited", "killed"}
            \subseteq Labels \ DeviceLabels
      /\ EXIT_SUCCESS \in ExitCodes
  BY ExitCodesType DEF Labels, LockedLabels, UnlockedLabels, DeviceLabels
<1>1. CASE GenerateListDevices(p)
  <2>1. PICK result \in list_devices_results :
          /\ Proceed(p, result.status, "generate: fopen")
          /\ devices_list' = [devices_list EXCEPT ![p] = result.list]
    BY <1>1 DEF GenerateListDevices
  <2>2. result.status \in ExitCodes /\ result.list \in Seq(Port)
    <3>1. Manifests \subseteq Seq(Port) /\ << >> \in Seq(Port)
      BY <1>0, ManifestsType DEF TypeOK
    <3>2. \/ result.status = EXIT_SUCCESS /\ result.list \in Manifests
          \/ result.status = EXIT_SUCCESS /\ result.list = << >>
          \/ result.status = EXIT_AUTHENTICATOR_ERROR /\ result.list = << >>
      <4>1. CASE result \in { [status |-> EXIT_SUCCESS, list |-> s] :
                                 s \in Manifests }
        BY <4>1
      <4>2. CASE result \in { [status |-> EXIT_SUCCESS, list |-> s] :
                                 s \in Glitch(<< >>) }
        BY <4>2 DEF Glitch
      <4>3. CASE result \in { [status |-> s, list |-> << >>] :
                                 s \in Glitch(EXIT_AUTHENTICATOR_ERROR) }
        BY <4>3 DEF Glitch
      <4> QED BY <2>1, <4>1, <4>2, <4>3 DEF list_devices_results
    <3> QED BY <3>1, <3>2, ExitCodesType
  <2>3. devices_list' \in [Proc -> Seq(Port)]
    BY <1>a, <2>1, <2>2
  <2>4. "generate: fopen" \in Labels \ DeviceLabels
    BY <1>b DEF LockedLabels
  <2> QED
    BY <1>0, <1>a, <1>1, <2>1, <2>2, <2>3, <2>4, OutsideTypeStep
    DEF GenerateListDevices, authenticatorVars
<1>2. CASE GenerateOpenFile(p)
  <2>1. Proceed(p, open_status(inv[p].file), "generate: fread")
    BY <1>2 DEF GenerateOpenFile
  <2>2. "generate: fread" \in Labels \ DeviceLabels
    BY <1>b DEF LockedLabels
  <2> QED
    BY <1>0, <1>a, <1>2, <2>1, <2>2, StatusTypes, OutsideTypeStep
    DEF GenerateOpenFile, authenticatorVars
<1>3. CASE GenerateReadFile(p)
  <2>1. Proceed(p, fread_status(inv[p].file, length[p]), "generate: load_cleartext")
    BY <1>3 DEF GenerateReadFile
  <2>2. "generate: load_cleartext" \in Labels \ DeviceLabels
    BY <1>b DEF LockedLabels
  <2> QED
    BY <1>0, <1>a, <1>3, <2>1, <2>2, StatusTypes, OutsideTypeStep
    DEF GenerateReadFile, authenticatorVars
<1>4. CASE GenerateLoadCleartext(p)
  <2>1. \/ Proceed(p, load_cleartext_status(data[p]), "generate: derive_key")
        \/ Goto(p, "killed")
    BY <1>4 DEF GenerateLoadCleartext
  <2>2. {"generate: derive_key", "killed"} \subseteq Labels \ DeviceLabels
    BY <1>b DEF LockedLabels
  <2>3. load_cleartext_status(data[p]) \in ExitCodes
    BY StatusTypes
  <2> QED
    BY <1>0, <1>a, <1>b, <1>4, <2>1, <2>2, <2>3, OutsideTypeStep
    DEF GenerateLoadCleartext, authenticatorVars
<1>5. CASE GenerateUnlock(p)
  <2>1. PICK status \in ExitCodes :
          /\ Proceed(p, status, "generate: get_device")
          /\ params' = IF status = EXIT_SUCCESS
                       THEN [params EXCEPT ![p] =
                build_authenticator_parameters_from_deserialized_cleartext_and_key_and_mixin(
                    cleartext[p], inv[p].mixin)]
                       ELSE params
    BY <1>5, StatusTypes DEF GenerateUnlock
  <2>2. IsParams(params'[p])
    BY <1>0, <2>1
    DEF Shape, IsParams,
        build_authenticator_parameters_from_deserialized_cleartext_and_key_and_mixin
  <2>3. "generate: get_device" \in Labels \ DeviceLabels
    BY <1>b DEF UnlockedLabels
  <2> QED
    BY <1>0, <1>a, <1>5, <2>1, <2>2, <2>3, OutsideTypeStep
    DEF GenerateUnlock, generateVars, worldVars
<1>6. CASE GenerateGetDevice(p)
  <2> DEFINE x == devices_list[p][i[p]]
  <2>1. PICK status \in get_device_statuses(x) :
          /\ Proceed(p, status, "generate: get_device_info")
          /\ device' = [device EXCEPT ![p] = HandleAfter(p, x, status)]
    BY <1>6 DEF GenerateGetDevice
  <2>2. /\ status \in ExitCodes
        /\ HandleAfter(p, x, status) \in [id : Device \union {NULL}, live : BOOLEAN]
    <3> QED BY <1>a, <2>1, GetDeviceType DEF HandleAfter, Handle
  <2>3. device' \in [Proc -> [id : Device \union {NULL}, live : BOOLEAN]]
    BY <1>a, <2>1, <2>2
  <2>4. "generate: get_device_info" \in Labels \ DeviceLabels
    BY <1>b DEF UnlockedLabels
  <2> QED
    BY <1>0, <1>a, <1>6, <2>1, <2>2, <2>3, <2>4, OutsideTypeStep
    DEF GenerateGetDevice, generateVars, worldVars
<1>7. CASE GenerateGetDeviceInfo(p)
  <2>1. PICK status \in ExitCodes, l \in UnlockedLabels :
           Exit(p, status) \/ Goto(p, l)
    BY <1>7, <1>b, StatusTypes
    DEF GenerateGetDeviceInfo, Continue, UnlockedLabels
  <2>2. device' = device \/ device' = [device EXCEPT ![p] = NoHandle]
    BY <1>7 DEF GenerateGetDeviceInfo
  <2>3. device' \in [Proc -> [id : Device \union {NULL}, live : BOOLEAN]]
    BY <1>d, <2>2, NoHandleType
  <2>4. i' = i \/ i' = [i EXCEPT ![p] = @ + 1]
    BY <1>7 DEF GenerateGetDeviceInfo, Continue
  <2>5. i' \in [Proc -> Nat \ {0}]
    BY <1>i, <2>4
  <2> QED
    BY <1>0, <1>a, <1>b, <1>7, <2>1, <2>3, <2>5, OutsideTypeStep
    DEF GenerateGetDeviceInfo, worldVars
<1>8. CASE GenerateReadPin(p)
  <2>1. PICK status \in ExitCodes, l \in UnlockedLabels :
           Exit(p, status) \/ Goto(p, l)
    BY <1>8, <1>b, ExitCodesType
    DEF GenerateReadPin, Continue, UnlockedLabels
  <2>2. device' = device \/ device' = [device EXCEPT ![p] = NoHandle]
    BY <1>8 DEF GenerateReadPin
  <2>3. device' \in [Proc -> [id : Device \union {NULL}, live : BOOLEAN]]
    BY <1>d, <2>2, NoHandleType
  <2>4. i' = i \/ i' = [i EXCEPT ![p] = @ + 1]
    BY <1>8 DEF GenerateReadPin, Continue
  <2>5. i' \in [Proc -> Nat \ {0}]
    BY <1>i, <2>4
  <2>6. PICK pin : \/ params' = params
                   \/ params' = [params EXCEPT ![p].authenticator_pin = pin]
    BY <1>8 DEF GenerateReadPin
  <2>7. \/ params'[p] = params[p]
        \/ params'[p] = [params[p] EXCEPT !.authenticator_pin = pin]
    BY <1>0, <2>6 DEF Shape
  <2>8. IsParams(params'[p])
    BY <1>0, <2>7, ParamsExcept
  <2> QED
    BY <1>0, <1>a, <1>b, <1>8, <2>1, <2>3, <2>5, <2>8, OutsideTypeStep
    DEF GenerateReadPin, worldVars
<1>9. CASE GenerateGetSecret(p)
  <2>1. PICK answer : CountPin(p, answer)
    BY <1>9 DEF GenerateGetSecret
  <2>2. retries' \in [Device -> 0 .. MaxPinRetries]
    BY <1>0, <2>1, RetriesType
  <2>3. PICK status \in ExitCodes, l \in UnlockedLabels :
           Exit(p, status) \/ Goto(p, l)
    BY <1>9, <1>b, ExitCodesType, StatusTypes
    DEF GenerateGetSecret, Continue, UnlockedLabels
  <2>4. device' \in [Proc -> [id : Device \union {NULL}, live : BOOLEAN]]
    BY <1>a, <1>9 DEF GenerateGetSecret, NoHandle
  <2>5. i' = i \/ i' = [i EXCEPT ![p] = @ + 1]
    BY <1>9 DEF GenerateGetSecret, Continue
  <2>6. i' \in [Proc -> Nat \ {0}]
    BY <1>i, <2>5
  <2>7. params' = params \/ params' = [params EXCEPT ![p] = NoParams]
    BY <1>9 DEF GenerateGetSecret
  <2>8. IsParams(params'[p])
    BY <1>0, <2>7 DEF Shape, IsParams, NoParams
  <2> QED
    BY <1>0, <1>a, <1>b, <1>9, <2>2, <2>3, <2>4, <2>6, <2>8, OutsideTypeStep
    DEF GenerateGetSecret
<1>10. CASE GenerateFinish(p)
  <2>1. PICK status \in ExitCodes : Exit(p, status)
    BY <1>10, ExitCodesType DEF GenerateFinish
  <2>2. held' = [held EXCEPT ![p] = @ \ {"passphrase"}]
    BY <1>10 DEF GenerateFinish
  <2>3. TypeOK'
    BY <1>0, <1>10, <2>1, <2>2, ControlType
    DEF GenerateFinish, TypeOK, Labels, worldVars, generateVars
  <2>4. IsParams(params'[p])
    BY <1>0, <1>10 DEF GenerateFinish, Shape, IsParams, NoParams
  <2>5. pc'[p] \notin DeviceLabels
    BY <1>0, <2>1 DEF Shape, DeviceLabels, Exit
  <2> QED BY <2>3, <2>4, <2>5, OutsideType DEF TypeStep
<1> QED
  BY <1>1, <1>2, <1>3, <1>4, <1>5, <1>6, <1>7, <1>8, <1>9, <1>10
  DEF GenerateStep

\* Starting, dying and running out of memory preserve the types.
LEMMA FateType ==
    ASSUME TypeInv, NEW p \in Proc, Fate(p)
    PROVE  TypeStep(p)
<1>0. TypeOK /\ Shape /\ IsParams(params[p])
  BY DEF TypeInv
<1>1. /\ UNCHANGED << authenticatorVars, enrolVars, generateVars >>
      /\ UNCHANGED << disk, damages >>
  BY DEF Fate, Start, Kill, OutOfMemory
<1>2. /\ IsParams(params'[p])
      /\ EnrolmentFresh(p) => (pc'[p] \notin DeviceLabels => EnrolmentFresh(p)')
  BY <1>0, <1>1, OutsideType DEF authenticatorVars
<1>3. CASE Start(p)
  <2>1. PICK c \in CommandLine[p] :
          /\ inv' = [inv EXCEPT ![p] = c]
          /\ held' = [held EXCEPT ![p] =
                         {"passphrase"} \union
                         (IF c.authenticator_pin = NULL THEN {} ELSE {"pin"})]
          /\ Goto(p, IF c.subcommand = "enrol" THEN "enrol: get_device"
                                               ELSE "generate: list_devices")
    BY <1>3 DEF Start
  <2>2. TypeOK'
    BY <1>0, <1>1, <2>1, ControlType, ExitCodesType
    DEF TypeOK, Labels, EnrolLabels, LockedLabels,
        authenticatorVars, enrolVars, generateVars
  <2>3. pc'[p] \notin DeviceLabels
    BY <1>0, <2>1 DEF Shape, DeviceLabels, Goto
  <2> QED BY <1>2, <2>2, <2>3, OutsideType DEF TypeStep
<1>4. CASE Kill(p) \/ OutOfMemory(p)
  <2>1. UNCHANGED << inv, held >>
    BY <1>4 DEF Kill, OutOfMemory
  <2>2. Goto(p, "killed") \/ Exit(p, EXIT_OUT_OF_MEMORY)
    BY <1>4 DEF Kill, OutOfMemory
  <2>3. TypeOK'
    BY <1>0, <1>1, <2>1, <2>2, ControlType, ExitCodesType
    DEF TypeOK, Labels, authenticatorVars, enrolVars, generateVars
  <2>4. pc'[p] \notin DeviceLabels
    BY <1>0, <2>2 DEF Shape, DeviceLabels, Goto, Exit
  <2> QED BY <1>2, <2>3, <2>4, OutsideType DEF TypeStep
<1> QED BY <1>3, <1>4 DEF Fate

\* What happens around the processes leaves them where they are.
LEMMA WorldLocal ==
    ASSUME TypeInv, World
    PROVE  /\ UNCHANGED << pc, exit, inv, held, cleartext, params, retries,
                           enrolVars, generateVars >>
           /\ device' \in [Proc -> [id : Device \union {NULL}, live : BOOLEAN]]
           /\ \A q \in Proc : device'[q].id = device[q].id
           /\ Shape'
<1>1. CASE \E f \in File : Damage(f) /\ UNCHANGED << authenticatorVars,
                                                     enrolVars, generateVars >>
  BY <1>1 DEF Damage, TypeInv, TypeOK, Shape, authenticatorVars, enrolVars,
              generateVars
<1>2. CASE \E x \in Port : /\ \/ Unplug(x)
                              \/ \E d \in Device : Plug(x, d)
                           /\ UNCHANGED << enrolVars, generateVars >>
  <2>1. PICK x \in Port : Unplug(x) \/ \E d \in Device : Plug(x, d)
    BY <1>2
  <2>2. /\ UNCHANGED << machineVars, params, retries >>
        /\ \/ UNCHANGED device
           \/ device' = [p \in Proc |-> IF device[p].id = port[x]
                                        THEN [device[p] EXCEPT !.live = FALSE]
                                        ELSE device[p]]
    BY <2>1 DEF Unplug, Plug
  <2>3. device \in [Proc -> [id : Device \union {NULL}, live : BOOLEAN]]
    BY DEF TypeInv, TypeOK
  <2>4. /\ device' \in [Proc -> [id : Device \union {NULL}, live : BOOLEAN]]
        /\ \A q \in Proc : device'[q].id = device[q].id
    BY <2>2, <2>3
  <2> QED
    BY <1>2, <2>2, <2>4
    DEF TypeInv, Shape, machineVars, enrolVars, generateVars
<1> QED BY <1>1, <1>2 DEF World

\* Damage, plugging and unplugging preserve the types.
LEMMA WorldType == ASSUME TypeInv, World PROVE TypeInv'
<1>0. TypeOK /\ Shape
  BY DEF TypeInv
<1>1. /\ damages' \in [File -> 0 .. MaxDamages]
      /\ DOMAIN disk' = File
      /\ port' \in [Port -> Device \union {NULL}]
      /\ hotplugs' \in 0 .. MaxHotplugs
  <2>1. CASE \E f \in File : Damage(f) /\ UNCHANGED authenticatorVars
    <3>1. PICK f \in File : Damage(f)
      BY <2>1
    <3>2. damages[f] \in 0 .. MaxDamages /\ damages[f] < MaxDamages
      BY <1>0, <3>1 DEF Damage, TypeOK
    <3>3. damages[f] + 1 \in 0 .. MaxDamages
      BY <3>2, MachineAssumption DEF MachineAssumption
    <3> QED
      BY <1>0, <2>1, <3>1, <3>3 DEF Damage, TypeOK, authenticatorVars
  <2>2. CASE \E x \in Port : Unplug(x) \/ \E d \in Device : Plug(x, d)
    <3>1. UNCHANGED << disk, damages >>
      BY <2>2 DEF Unplug, Plug, machineVars
    <3>2. /\ hotplugs < MaxHotplugs
          /\ hotplugs' = hotplugs + 1
          /\ hotplugs \in 0 .. MaxHotplugs
      BY <1>0, <2>2 DEF Unplug, Plug, TypeOK
    <3>3. hotplugs' \in 0 .. MaxHotplugs
      BY <3>2, AuthenticatorAssumption DEF AuthenticatorAssumption
    <3>4. port' \in [Port -> Device \union {NULL}]
      BY <1>0, <2>2 DEF Unplug, Plug, TypeOK
    <3> QED BY <1>0, <3>1, <3>3, <3>4 DEF TypeOK
  <2> QED BY <2>1, <2>2 DEF World
<1>2. TypeOK'
  BY <1>0, <1>1, WorldLocal DEF TypeOK, enrolVars, generateVars
<1>3. ASSUME NEW q \in Proc PROVE EnrolmentFresh(q)' /\ IsParams(params'[q])
  BY WorldLocal, OthersType
<1> QED BY <1>2, <1>3, WorldLocal DEF TypeInv, IsParams

\* The invariant is inductive.
LEMMA TypeNext == TypeInv /\ [Next]_vars => TypeInv'
<1> SUFFICES ASSUME TypeInv, [Next]_vars PROVE TypeInv'
  OBVIOUS
<1>1. CASE UNCHANGED vars
  BY <1>1 DEF TypeInv, TypeOK, Shape, IsParams, EnrolmentFresh, vars,
              machineVars, authenticatorVars, enrolVars, generateVars
<1>2. CASE World
  BY <1>2, WorldType
<1>3. ASSUME NEW p \in Proc, Step(p) \/ Fate(p) PROVE TypeInv'
  BY <1>3, EnrolType, GenerateType, FateType, TypeStepEnough DEF Step
<1> QED BY <1>1, <1>2, <1>3 DEF Next, Idle

\* Type correctness: every reachable state of any instance is typed.
THEOREM TypeCorrect == Spec => []TypeOK
<1>1. TypeInv => TypeOK
  BY DEF TypeInv
<1> QED BY <1>1, TypeInit, TypeNext, PTL DEF Spec


-----------------------------------------------------------------------------
(* Where sealed boxes come from.  These operators take the command lines I *)
(* and the credentials C, so that they can be used of two states.          *)

\* The enrolment q has the passphrase, and made the credential.
EnrolledAs(q, passphrase, credential, I, C) ==
    /\ q \in Proc
    /\ I[q].subcommand = "enrol"
    /\ I[q].passphrase = passphrase
    /\ credential \in C
    /\ credential.rp = q

\* An intact box was sealed by an enrolment, around a credential of its own
\* and under its own passphrase.
BoundBox(b, I, C) ==
    /\ b = Bytes(b.size, [ plain  |-> b.val.plain, nonce  |-> b.val.nonce,
                           key    |-> b.val.key,   intact |-> b.val.intact ])
    /\ b.val.intact = TRUE =>
          \E q \in Proc : \E credential \in C :
             /\ EnrolledAs(q, b.val.key.passphrase, credential, I, C)
             /\ b.val.plain = SecretsSealedBy(q, credential)

\* The box of a keyfile that decodes, and its eight fields.
BoundItem(item, I, C) ==
    IsCleartextV1(item) =>
        /\ item = Array(<< item.items[1], item.items[2], item.items[3],
                           item.items[4], item.items[5], item.items[6],
                           item.items[7], item.items[8] >>)
        /\ BoundBox(item.items[8].bytes, I, C)

BoundFile(file, I, C) ==
    /\ file = EncodedFile(file.length, file.size, file.item)
    /\ BoundItem(file.item, I, C)

\* More credentials and more command lines leave bound what was bound.
LEMMA BoundGrows ==
    ASSUME NEW I, NEW C, NEW I2, NEW C2,
           \A q \in Proc : I[q].subcommand = "enrol" => I2[q] = I[q],
           C \subseteq C2
    PROVE  /\ \A q, s, credential : EnrolledAs(q, s, credential, I, C) =>
                                    EnrolledAs(q, s, credential, I2, C2)
           /\ \A b : BoundBox(b, I, C) => BoundBox(b, I2, C2)
           /\ \A file : BoundFile(file, I, C) => BoundFile(file, I2, C2)
<1>1. \A q, s, credential : EnrolledAs(q, s, credential, I, C) =>
                            EnrolledAs(q, s, credential, I2, C2)
  BY DEF EnrolledAs
<1>2. \A b : BoundBox(b, I, C) => BoundBox(b, I2, C2)
  BY <1>1 DEF BoundBox
<1>3. \A file : BoundFile(file, I, C) => BoundFile(file, I2, C2)
  BY <1>2 DEF BoundFile, BoundItem
<1> QED BY <1>1, <1>2, <1>3

\* What is not an array of eight fields does not pass the checks.
LEMMA BrokenRejected ==
    ASSUME NEW I, NEW C, NEW root, BoundItem(root, I, C),
           NEW broken \in BrokenRoots(root)
    PROVE  ~IsCleartextV1(broken)
<1>1. CASE broken \in { Malformed, UintItem(8, SERIALIZATION_VERSION), Array(<< >>) }
  BY <1>1 DEF IsCleartextV1, HasVersion, IsArray, Malformed, UintItem, Array
<1>2. CASE IsCleartextV1(root)
  <2> DEFINE s == << root.items[1], root.items[2], root.items[3],
                     root.items[4], root.items[5], root.items[6],
                     root.items[7], root.items[8] >>
  <2>1. root.items = s
    BY <1>2 DEF BoundItem, Array
  <2>2. CASE broken = Array(SubSeq(root.items, 1, CLEAR_COUNT_OF_FIELDS - 1))
    BY <2>1, <2>2 DEF IsCleartextV1, IsArray, Array, CLEAR_COUNT_OF_FIELDS
  <2>3. CASE broken = Array([root.items EXCEPT ![4] = UintItem(32, @.value)])
    BY <2>1, <2>3 DEF IsCleartextV1, IsUint, UintItem, Array
  <2> QED BY <1>1, <1>2, <2>2, <2>3 DEF BrokenRoots
<1> QED BY <1>1, <1>2 DEF BrokenRoots

\* It is bound, for nothing is in it.
LEMMA BrokenBound ==
    ASSUME NEW I, NEW C, NEW root, BoundItem(root, I, C),
           NEW broken \in BrokenRoots(root)
    PROVE  BoundItem(broken, I, C)
  BY BrokenRejected DEF BoundItem

\* A keyfile is as bound as the box it is written with.
LEMMA WrittenBound ==
    ASSUME NEW I, NEW C, NEW clear, BoundBox(clear.encrypted_data, I, C)
    PROVE  /\ BoundFile(cbor_serialize_alloc(clear), I, C)
           /\ \A old : BoundFile(Overwrite(old, cbor_serialize_alloc(clear)), I, C)
<1>1. BoundItem(serialize_cleartext_to_cbor_v1(clear), I, C)
  BY DEF BoundItem, serialize_cleartext_to_cbor_v1, Array, ByteItem, UintItem
<1> QED BY <1>1 DEF BoundFile, cbor_serialize_alloc, Overwrite, EncodedFile

\* The box that is deserialized is the box of the file.
LEMMA LoadedBound ==
    ASSUME NEW I, NEW C, NEW file, BoundFile(file, I, C),
           IsCleartextV1(cbor_load(file))
    PROVE  BoundBox(deserialize_cleartext_from_cbor_v1(cbor_load(file)).encrypted_data,
                    I, C)
<1>1. ~IsCleartextV1(Malformed)
  BY DEF IsCleartextV1, HasVersion, Malformed
<1>2. cbor_load(file) = file.item
  BY <1>1 DEF cbor_load
<1> QED BY <1>2 DEF BoundFile, BoundItem, deserialize_cleartext_from_cbor_v1

\* Changing one field of a box leaves the others.
LEMMA BoxExcept ==
    ASSUME NEW v, NEW x,
           v = [ plain |-> v.plain, nonce  |-> v.nonce,
                 key   |-> v.key,   intact |-> v.intact ]
    PROVE  [v EXCEPT !.intact = x] = [ plain |-> v.plain, nonce  |-> v.nonce,
                                       key   |-> v.key,   intact |-> x ]
  OBVIOUS

\* A field that changes outside the program leaves the box as it is, or
\* spoils it.
LEMMA ChangedBound ==
    ASSUME NEW I, NEW C, NEW root, BoundItem(root, I, C), IsCleartextV1(root),
           NEW c \in ChangedFields(deserialize_cleartext_from_cbor_v1(root))
    PROVE  BoundBox(c.encrypted_data, I, C)
<1> DEFINE clear == deserialize_cleartext_from_cbor_v1(root)
<1>1. BoundBox(clear.encrypted_data, I, C)
  BY DEF BoundItem, deserialize_cleartext_from_cbor_v1
<1>2. clear = [ version |-> clear.version, device_aaguid |-> clear.device_aaguid,
                kdf_salt |-> clear.kdf_salt, opslimit |-> clear.opslimit,
                memlimit |-> clear.memlimit, algorithm |-> clear.algorithm,
                nonce |-> clear.nonce, encrypted_data |-> clear.encrypted_data ]
  BY DEF deserialize_cleartext_from_cbor_v1
<1> HIDE DEF clear
<1>3. CASE c.encrypted_data = clear.encrypted_data
  BY <1>1, <1>3
<1> DEFINE b == clear.encrypted_data
           Spoiled(n) == Bytes(n, [ plain  |-> b.val.plain, nonce  |-> b.val.nonce,
                                    key    |-> b.val.key,   intact |-> FALSE ])
<1>s. \A n : BoundBox(Spoiled(n), I, C)
  BY DEF BoundBox, Bytes
<1>b. b = Bytes(b.size, [ plain  |-> b.val.plain, nonce  |-> b.val.nonce,
                          key    |-> b.val.key,   intact |-> b.val.intact ])
  BY <1>1 DEF BoundBox
<1>v. b.val = [ plain  |-> b.val.plain, nonce  |-> b.val.nonce,
                key    |-> b.val.key,   intact |-> b.val.intact ]
  BY <1>b DEF Bytes
<1>4. CASE c = [clear EXCEPT !.encrypted_data.val.intact = FALSE]
  <2>1. c.encrypted_data = [b EXCEPT !.val = [b.val EXCEPT !.intact = FALSE]]
    BY <1>2, <1>4
  <2>2. [b.val EXCEPT !.intact = FALSE] =
            [ plain  |-> b.val.plain, nonce  |-> b.val.nonce,
              key    |-> b.val.key,   intact |-> FALSE ]
    BY <1>v, BoxExcept
  <2>3. c.encrypted_data = Spoiled(b.size)
    BY <1>b, <2>1, <2>2 DEF Bytes
  <2> QED BY <1>s, <2>3
<1>5. CASE c = [clear EXCEPT !.encrypted_data.size = crypto_secretbox_MACBYTES - 1,
                             !.encrypted_data.val.intact = FALSE]
  <2> DEFINE n == crypto_secretbox_MACBYTES - 1
  <2>1. c.encrypted_data = [b EXCEPT !.size = n,
                                     !.val = [b.val EXCEPT !.intact = FALSE]]
    BY <1>2, <1>5, <1>b DEF Bytes
  <2>2. [b.val EXCEPT !.intact = FALSE] =
            [ plain  |-> b.val.plain, nonce  |-> b.val.nonce,
              key    |-> b.val.key,   intact |-> FALSE ]
    BY <1>v, BoxExcept
  <2>3. c.encrypted_data = Spoiled(n)
    BY <1>b, <2>1, <2>2 DEF Bytes
  <2> QED BY <1>s, <2>3
<1>6. c \in ChangedFields(clear)
  BY DEF clear
<1>7. \/ c.encrypted_data = clear.encrypted_data
      \/ c = [clear EXCEPT !.encrypted_data.val.intact = FALSE]
      \/ c = [clear EXCEPT !.encrypted_data.size = crypto_secretbox_MACBYTES - 1,
                           !.encrypted_data.val.intact = FALSE]
  BY <1>2, <1>6 DEF ChangedFields
<1> QED BY <1>3, <1>4, <1>5, <1>7

\* Whatever happens to a keyfile outside the program, it stays bound.
LEMMA DamagedBound ==
    ASSUME NEW I, NEW C, NEW file, BoundFile(file, I, C),
           NEW damaged \in Damaged(file)
    PROVE  BoundFile(damaged, I, C)
<1>1. CASE damaged \in { EncodedFile(n, file.size, file.item) :
                            n \in {0, file.size - 1} }
  BY <1>1 DEF BoundFile, EncodedFile
<1>2. CASE damaged \in { EncodedFile(file.length, file.length, root) :
                            root \in BrokenRoots(file.item) }
  BY <1>2, BrokenBound DEF BoundFile, EncodedFile
<1>3. ASSUME IsCleartextV1(file.item),
             NEW c \in ChangedFields(deserialize_cleartext_from_cbor_v1(file.item)),
             damaged = cbor_serialize_alloc(c)
      PROVE  BoundFile(damaged, I, C)
  BY <1>3, ChangedBound, WrittenBound DEF BoundFile
<1> QED BY <1>1, <1>2, <1>3 DEF Damaged

\* The box an enrolment makes is bound to it.
LEMMA SealedBound ==
    ASSUME NEW I, NEW C, NEW q \in Proc, NEW credential \in C, NEW params_,
           NEW spec, NEW aaguid,
           I[q].subcommand = "enrol",
           spec.passphrase = I[q].passphrase,
           credential.rp = q,
           params_.relying_party_id = q,
           params_.salt = FreshSalt(q),
           params_.credential_id =
               Bytes(CredentialSize[credential.device], credential)
    PROVE  BoundBox(
             build_deserialized_cleartext_from_authenticator_parameters_and_key_spec(
                 params_, spec, aaguid, q).encrypted_data, I, C)
<1> DEFINE secrets == SecretsOf(params_)
           box == SealedBox(secrets, q, PasswordHash(spec))
<1>1. secrets = SecretsOf([NoParams EXCEPT
                   !.relying_party_id = q,
                   !.credential_id =
                       Bytes(CredentialSize[credential.device], credential),
                   !.salt = FreshSalt(q)])
  BY DEF SecretsOf, NoParams
<1>2. serialize_secrets_to_cbor_v1(secrets) = SecretsSealedBy(q, credential)
  BY <1>1 DEF SecretsSealedBy
<1>3. PasswordHash(spec).passphrase = I[q].passphrase
  BY DEF PasswordHash
<1>4. box = Bytes(box.size, [ plain  |-> SecretsSealedBy(q, credential),
                              nonce  |-> q,
                              key    |-> PasswordHash(spec),
                              intact |-> TRUE ])
  BY <1>2 DEF SealedBox, Bytes
<1>5. BoundBox(box, I, C)
  <2> HIDE DEF box, secrets
  <2>1. EnrolledAs(q, box.val.key.passphrase, credential, I, C)
    BY <1>3, <1>4 DEF EnrolledAs, Bytes
  <2> QED BY <1>4, <2>1 DEF BoundBox, Bytes
<1> QED
  BY <1>5
  DEF build_deserialized_cleartext_from_authenticator_parameters_and_key_spec

\* The secrets of a serialized array are the ones that went into it.
LEMMA SecretsRoundTrip ==
    ASSUME NEW secrets,
           secrets = [ version          |-> SERIALIZATION_MAX_VERSION,
                       relying_party_id |-> secrets.relying_party_id,
                       credential_id    |-> secrets.credential_id,
                       salt             |-> secrets.salt ]
    PROVE  /\ IsSecretsV1(serialize_secrets_to_cbor_v1(secrets))
           /\ deserialize_secrets_from_cbor_v1(
                  serialize_secrets_to_cbor_v1(secrets)) = secrets
  BY DEF IsSecretsV1, HasVersion, IsUint, IsArray, IsText, IsBytes,
         serialize_secrets_to_cbor_v1, deserialize_secrets_from_cbor_v1,
         UintItem, TextItem, ByteItem, Array, ENCRYPTED_COUNT_OF_FIELDS,
         SERIALIZATION_VERSION, SERIALIZATION_MAX_VERSION

\* The parameters name the credential and the salt of an enrolment under that
\* passphrase, the salt combined with the mixin.
ParamsFrom(new, passphrase, mixin, I, C) ==
    \E q \in Proc : \E credential \in C :
       /\ EnrolledAs(q, passphrase, credential, I, C)
       /\ new.credential_id.val = credential
       /\ new.salt.val = [base |-> q, mixin |-> mixin]

\* A box that opens with a passphrase gives the credential and the salt of an
\* enrolment under that passphrase, the salt combined with the mixin.
LEMMA UnlockedBound ==
    ASSUME NEW I, NEW C, NEW clear, NEW passphrase, NEW mixin,
           BoundBox(clear.encrypted_data, I, C),
           build_authenticator_parameters_status(clear,
               PasswordHash(make_key_spec_from_passphrase_and_cleartext(
                                passphrase, clear)),
               mixin) = EXIT_SUCCESS,
           NEW new,
           new =
build_authenticator_parameters_from_deserialized_cleartext_and_key_and_mixin(
               clear, mixin)
    PROVE  ParamsFrom(new, passphrase, mixin, I, C)
<1> DEFINE box == clear.encrypted_data.val
           key == PasswordHash(make_key_spec_from_passphrase_and_cleartext(
                                   passphrase, clear))
<1>1. SecretBoxOpens(clear, key)
  BY DEF build_authenticator_parameters_status, EXIT_SUCCESS,
         EXIT_OUT_OF_MEMORY, EXIT_BAD_PASSPHRASE,
         EXIT_H_RUNTIME_ERROR_BITS, EXIT_H_USER_ERROR_BITS
<1>2. box.intact = TRUE /\ box.key.passphrase = passphrase
  BY <1>1
  DEF SecretBoxOpens, PasswordHash, make_key_spec_from_passphrase_and_cleartext
<1>3. PICK q \in Proc, credential \in C :
         /\ EnrolledAs(q, passphrase, credential, I, C)
         /\ box.plain = SecretsSealedBy(q, credential)
  BY <1>2 DEF BoundBox
<1> DEFINE secrets == SecretsOf([NoParams EXCEPT
                         !.relying_party_id = q,
                         !.credential_id =
                             Bytes(CredentialSize[credential.device], credential),
                         !.salt = FreshSalt(q)])
<1>4. /\ secrets = [ version          |-> SERIALIZATION_MAX_VERSION,
                     relying_party_id |-> secrets.relying_party_id,
                     credential_id    |-> secrets.credential_id,
                     salt             |-> secrets.salt ]
      /\ secrets.credential_id =
             Bytes(CredentialSize[credential.device], credential)
      /\ secrets.salt = FreshSalt(q)
  BY DEF SecretsOf, NoParams
<1>5. box.plain = serialize_secrets_to_cbor_v1(secrets)
  BY <1>3 DEF SecretsSealedBy
<1> HIDE DEF secrets
<1>6. deserialize_secrets_from_cbor_v1(box.plain) = secrets
  BY <1>4, <1>5, SecretsRoundTrip
<1>7. MixIn(secrets.salt, mixin).val = [base |-> q, mixin |-> mixin]
  BY <1>4 DEF MixIn, FreshSalt, Bytes
<1> QED
  BY <1>3, <1>4, <1>6, <1>7
  DEF ParamsFrom, Bytes,
build_authenticator_parameters_from_deserialized_cleartext_and_key_and_mixin

-----------------------------------------------------------------------------
(* The invariant *)

\* The credential that an enrolment has just been given is its own.
OwnCredential(p) ==
    \E credential \in credentials :
       /\ credential.rp = p
       /\ params[p].credential_id =
              Bytes(CredentialSize[credential.device], credential)

\* The parameters generate asks with come from an enrolment under the
\* passphrase it was given.
ParamsBound(p) ==
    ParamsFrom(params[p], inv[p].passphrase, inv[p].mixin, inv, credentials)

OutBound(p) ==
    \E q \in Proc : \E credential \in credentials :
       /\ EnrolledAs(q, inv[p].passphrase, credential, inv, credentials)
       /\ out[p] = Hmac(credential, [base |-> q, mixin |-> inv[p].mixin])

\* An enrolment under the passphrase of a process has made a credential.
Enrolled(p) ==
    \E q \in Proc : \E credential \in credentials :
       EnrolledAs(q, inv[p].passphrase, credential, inv, credentials)

\* What generate says about devices.
DeviceVerdict(p) ==
    Exited(p, EXIT_NO_DEVICES) \/ Exited(p, EXIT_NO_VALID_AUTHENTICATOR)

\* What a process holds, by the place where it is.
BoundProc(p) ==
    /\ pc[p] = "ready" => inv[p] = NoInvocation /\ out[p] = NULL
    /\ pc[p] # "ready" => inv[p] \in CommandLine[p]
    /\ pc[p] \in EnrolLabels => Enrols(p)
    /\ pc[p] \in EnrolLabels \union LockedLabels \union {"ready"} =>
          log[p] = << >>
    /\ pc[p] = "enrol: build_deserialized_cleartext" => OwnCredential(p)
    /\ pc[p] \in {"enrol: fopen", "enrol: fclose", "generate: derive_key"} =>
          BoundBox(cleartext[p].encrypted_data, inv, credentials)
    /\ pc[p] = "generate: fread" =>
          BoundFile(disk[inv[p].file], inv, credentials)
    /\ pc[p] = "generate: load_cleartext" =>
          BoundFile(data[p], inv, credentials)
    /\ pc[p] \in UnlockedLabels => ParamsBound(p)
    /\ out[p] # NULL => OutBound(p)
    /\ log[p] # << >> \/ DeviceVerdict(p) => Enrolled(p)

BoundDisk ==
    \A f \in File : disk[f] # NULL => BoundFile(disk[f], inv, credentials)

BindInv ==
    /\ TypeInv
    /\ BoundDisk
    /\ \A p \in Proc : BoundProc(p)

\* The initial states are bound, for nothing is there.
LEMMA BindInit == Init => BindInv
<1> SUFFICES ASSUME Init PROVE BindInv
  OBVIOUS
<1>1. TypeInv
  BY TypeInit
<1>2. BoundDisk
  BY DEF Init, BoundDisk
<1>3. ASSUME NEW p \in Proc PROVE BoundProc(p)
  BY <1>3
  DEF Init, BoundProc, EnrolLabels, LockedLabels, UnlockedLabels,
      DeviceVerdict, Exited
<1> QED BY <1>1, <1>2, <1>3 DEF BindInv

-----------------------------------------------------------------------------
(* What steps leave bound *)

\* Command lines are given once and credentials are kept.
Grows ==
    /\ \A q \in Proc : inv[q].subcommand = "enrol" => inv'[q] = inv[q]
    /\ credentials \subseteq credentials'

\* No step of a process takes a command line or a credential back.
LEMMA StepGrows ==
    ASSUME BindInv, NEW p \in Proc, Step(p) \/ Fate(p)
    PROVE  Grows
<1>1. \A q \in Proc \ {p} : Untouched(q)
  BY StepLocal DEF BindInv, TypeInv
<1>2. inv'[p] = inv[p] \/ inv[p] = NoInvocation
  <2>1. CASE Step(p)
    BY <2>1
    DEF Step, EnrolStep, GenerateStep, EnrolGetDevice, EnrolGetDeviceInfo,
        EnrolReadPin, EnrolCreateCredential, EnrolBuildCleartext,
        EnrolOpenFile, EnrolCloseFile, GenerateListDevices, GenerateOpenFile,
        GenerateReadFile, GenerateLoadCleartext, GenerateUnlock,
        GenerateGetDevice, GenerateGetDeviceInfo, GenerateReadPin,
        GenerateGetSecret, GenerateFinish
  <2>2. CASE Start(p)
    BY <2>2 DEF Start, BindInv, BoundProc
  <2>3. CASE Kill(p) \/ OutOfMemory(p)
    BY <2>3 DEF Kill, OutOfMemory
  <2> QED BY <2>1, <2>2, <2>3 DEF Fate
<1>3. NoInvocation.subcommand # "enrol"
  BY MachineAssumption DEF NoInvocation, MachineAssumption
<1>4. credentials \subseteq credentials'
  <2>1. CASE EnrolStep(p)
    BY <2>1
    DEF EnrolStep, EnrolGetDevice, EnrolGetDeviceInfo, EnrolReadPin,
        EnrolCreateCredential, EnrolBuildCleartext, EnrolOpenFile,
        EnrolCloseFile, enrolVars
  <2> QED BY <2>1 DEF Step, Fate, enrolVars
<1> QED BY <1>1, <1>2, <1>3, <1>4 DEF Grows, Untouched

\* What is bound stays bound.
LEMMA BoundStays ==
    ASSUME Grows
    PROVE  /\ \A q, s, credential :
                 EnrolledAs(q, s, credential, inv, credentials) =>
                 EnrolledAs(q, s, credential, inv', credentials')
           /\ \A b : BoundBox(b, inv, credentials) =>
                     BoundBox(b, inv', credentials')
           /\ \A file : BoundFile(file, inv, credentials) =>
                        BoundFile(file, inv', credentials')
  BY BoundGrows DEF Grows

\* A keyfile on the disk, written or read, damaged or not, stays bound.
DiskStep ==
    \A f \in File : \/ disk'[f] = disk[f]
                    \/ BoundFile(disk'[f], inv', credentials')

\* A disk that changes only to bound keyfiles stays bound.
LEMMA BoundDiskStep == ASSUME BoundDisk, Grows, DiskStep PROVE BoundDisk'
  BY BoundStays DEF BoundDisk, DiskStep

\* A process that is not disturbed stays bound.
LEMMA BoundOthers ==
    ASSUME TypeInv, Grows, DiskStep, NEW q \in Proc, BoundProc(q),
           pc'[q] = pc[q], exit'[q] = exit[q], inv'[q] = inv[q],
           cleartext'[q] = cleartext[q], params'[q] = params[q],
           data'[q] = data[q], out'[q] = out[q], log'[q] = log[q]
    PROVE  BoundProc(q)'
<1>1. /\ pc[q] = "ready" => inv'[q] = NoInvocation /\ out'[q] = NULL
      /\ pc[q] # "ready" => inv'[q] \in CommandLine[q]
      /\ pc[q] \in EnrolLabels => Enrols(q)'
      /\ pc[q] \in EnrolLabels \union LockedLabels \union {"ready"} =>
            log'[q] = << >>
  BY DEF BoundProc, Enrols
<1>2. pc[q] = "enrol: build_deserialized_cleartext" => OwnCredential(q)'
  BY DEF BoundProc, OwnCredential, Grows
<1>3. pc[q] \in {"enrol: fopen", "enrol: fclose", "generate: derive_key"} =>
          BoundBox(cleartext'[q].encrypted_data, inv', credentials')
  BY BoundStays DEF BoundProc
<1>4. pc[q] = "generate: load_cleartext" =>
          BoundFile(data'[q], inv', credentials')
  BY BoundStays DEF BoundProc
<1>5. pc[q] = "generate: fread" =>
          BoundFile(disk'[inv'[q].file], inv', credentials')
  <2>1. pc[q] = "generate: fread" => inv[q].file \in File
    BY MachineAssumption DEF MachineAssumption, BoundProc
  <2> QED BY <2>1, BoundStays DEF BoundProc, DiskStep
<1>6. /\ pc[q] \in UnlockedLabels => ParamsBound(q)'
      /\ out'[q] # NULL => OutBound(q)'
  BY BoundStays DEF BoundProc, ParamsBound, ParamsFrom, OutBound, Grows
<1>7. log'[q] # << >> \/ DeviceVerdict(q)' => Enrolled(q)'
  BY BoundStays DEF BoundProc, Enrolled, DeviceVerdict, Exited, Grows
<1> QED BY <1>1, <1>2, <1>3, <1>4, <1>5, <1>6, <1>7 DEF BoundProc

\* What a step of a process has to show, for then nobody else is disturbed.
LEMMA BoundStepEnough ==
    ASSUME BindInv, TypeInv', NEW p \in Proc, Step(p) \/ Fate(p),
           DiskStep, BoundProc(p)'
    PROVE  BindInv'
<1>1. Grows
  BY StepGrows
<1>2. BoundDisk'
  BY <1>1, BoundDiskStep DEF BindInv
<1>3. ASSUME NEW q \in Proc, q # p PROVE BoundProc(q)'
  <2>1. Untouched(q)
    BY <1>3, StepLocal DEF BindInv, TypeInv
  <2> QED BY <1>1, <2>1, BoundOthers DEF BindInv, Untouched
<1>4. \A q \in Proc : BoundProc(q)'
  BY <1>3
<1> QED BY <1>2, <1>4 DEF BindInv

\* The statuses that are a verdict about devices come from nowhere else.
NoVerdict(status) == status \notin {EXIT_NO_DEVICES, EXIT_NO_VALID_AUTHENTICATOR}

\* No function that the programs call exits with a verdict about devices.
LEMMA StatusNoVerdict ==
    /\ \A spec : NoVerdict(derive_key_status(spec))
    /\ \A clear, key, mixin :
          NoVerdict(build_authenticator_parameters_status(clear, key, mixin))
    /\ \A f : NoVerdict(open_status(f))
    /\ \A f, n : NoVerdict(fread_status(f, n))
    /\ \A file : NoVerdict(load_cleartext_status(file))
    /\ \A answer : NoVerdict(create_credential_status(answer))
    /\ \A x : \A s \in get_device_statuses(x) : NoVerdict(s)
    /\ \A p : \A s \in get_device_info_statuses(p) : NoVerdict(s)
    /\ \A result \in list_devices_results : NoVerdict(result.status)
    /\ NoVerdict(EXIT_SUCCESS)
    /\ NoVerdict(EXIT_BAD_PIN)
    /\ NoVerdict(EXIT_OUT_OF_MEMORY)
    /\ NoVerdict(EXIT_AUTHENTICATOR_ERROR)
    /\ NoVerdict(EXIT_DESERIALIZATION_ERROR)
    /\ NoVerdict(EXIT_UNABLE_TO_GET_USER_SECRET)
<1>1. /\ NoVerdict(EXIT_SUCCESS)
      /\ NoVerdict(EXIT_BAD_PASSPHRASE)
      /\ NoVerdict(EXIT_BAD_PIN)
      /\ NoVerdict(EXIT_OUT_OF_MEMORY)
      /\ NoVerdict(EXIT_AUTHENTICATOR_ERROR)
      /\ NoVerdict(EXIT_DESERIALIZATION_ERROR)
      /\ NoVerdict(EXIT_CRYPTOGRAPHY_ERROR)
      /\ NoVerdict(EXIT_PROGRAMMER_ERROR)
      /\ NoVerdict(EXIT_UNABLE_TO_GET_USER_SECRET)
  BY DEF NoVerdict, EXIT_NO_DEVICES, EXIT_NO_VALID_AUTHENTICATOR, EXIT_SUCCESS,
         EXIT_BAD_PASSPHRASE, EXIT_BAD_PIN, EXIT_OUT_OF_MEMORY,
         EXIT_AUTHENTICATOR_ERROR, EXIT_DESERIALIZATION_ERROR,
         EXIT_CRYPTOGRAPHY_ERROR, EXIT_PROGRAMMER_ERROR,
         EXIT_UNABLE_TO_GET_USER_SECRET, EXIT_H_USER_ERROR_BITS,
         EXIT_H_RUNTIME_ERROR_BITS, EXIT_H_PROGRAMMER_ERROR_BITS
<1>2. ASSUME NEW result \in list_devices_results PROVE NoVerdict(result.status)
  <2>1. result.status \in {EXIT_SUCCESS, EXIT_AUTHENTICATOR_ERROR}
    BY DEF list_devices_results, Glitch
  <2> QED BY <1>1, <2>1
<1>3. /\ \A spec : NoVerdict(derive_key_status(spec))
      /\ \A clear, key, mixin :
            NoVerdict(build_authenticator_parameters_status(clear, key, mixin))
  BY <1>1 DEF derive_key_status, build_authenticator_parameters_status
<1>4. /\ \A f : NoVerdict(open_status(f))
      /\ \A f, n : NoVerdict(fread_status(f, n))
      /\ \A file : NoVerdict(load_cleartext_status(file))
      /\ \A answer : NoVerdict(create_credential_status(answer))
  BY <1>1 DEF open_status, fread_status, load_cleartext_status,
              create_credential_status
<1>5. /\ \A x : \A s \in get_device_statuses(x) : NoVerdict(s)
      /\ \A p : \A s \in get_device_info_statuses(p) : NoVerdict(s)
  BY <1>1 DEF get_device_statuses, get_device_info_statuses, Glitch
<1> QED BY <1>1, <1>2, <1>3, <1>4, <1>5

\* Where a process is after a function that exits or returns.
LEMMA Moved ==
    ASSUME Shape, NEW p \in Proc, NEW status, NEW l,
           Proceed(p, status, l), NoVerdict(status)
    PROVE  \/ pc'[p] = l /\ status = EXIT_SUCCESS
           \/ pc'[p] = "exited" /\ NoVerdict(exit'[p]) /\ status # EXIT_SUCCESS
  BY DEF Shape, Proceed, Goto, Exit

\* How an enrolment may move on.
LEMMA EnrolMoves ==
    ASSUME BindInv, Grows, NEW p \in Proc, pc[p] \in EnrolLabels,
           UNCHANGED << inv, out, log >>,
           pc'[p] \in EnrolLabels \/ (pc'[p] = "exited" /\ NoVerdict(exit'[p])),
           pc'[p] = "enrol: build_deserialized_cleartext" => OwnCredential(p)',
           pc'[p] \in {"enrol: fopen", "enrol: fclose"} =>
               BoundBox(cleartext'[p].encrypted_data, inv', credentials')
    PROVE  BoundProc(p)'
<1>1. BoundProc(p)
  BY DEF BindInv
<1>2. /\ inv[p] \in CommandLine[p] /\ Enrols(p) /\ log[p] = << >>
      /\ out[p] # NULL => OutBound(p)
  BY <1>1 DEF BoundProc, EnrolLabels
<1>3. out'[p] # NULL => OutBound(p)'
  BY <1>2, BoundStays DEF OutBound, Grows
<1>4. ~DeviceVerdict(p)'
  BY DEF DeviceVerdict, Exited, NoVerdict, EnrolLabels
<1> QED
  BY <1>2, <1>3, <1>4
  DEF BoundProc, Enrols, EnrolLabels, LockedLabels, UnlockedLabels

\* How a generate whose passphrase is not yet known to be right may move on.
LEMMA LockedMoves ==
    ASSUME BindInv, Grows, NEW p \in Proc, pc[p] \in LockedLabels,
           UNCHANGED << inv, out, log >>,
           \/ pc'[p] \in LockedLabels \union {"generate: get_device", "killed"}
           \/ pc'[p] = "exited" /\ NoVerdict(exit'[p]),
           pc'[p] = "generate: fread" =>
               BoundFile(disk'[inv'[p].file], inv', credentials'),
           pc'[p] = "generate: load_cleartext" =>
               BoundFile(data'[p], inv', credentials'),
           pc'[p] = "generate: derive_key" =>
               BoundBox(cleartext'[p].encrypted_data, inv', credentials'),
           pc'[p] = "generate: get_device" => ParamsBound(p)'
    PROVE  BoundProc(p)'
<1>1. BoundProc(p)
  BY DEF BindInv
<1>2. /\ inv[p] \in CommandLine[p] /\ log[p] = << >>
      /\ out[p] # NULL => OutBound(p)
  BY <1>1 DEF BoundProc, LockedLabels
<1>3. out'[p] # NULL => OutBound(p)'
  BY <1>2, BoundStays DEF OutBound, Grows
<1>4. ~DeviceVerdict(p)'
  BY DEF DeviceVerdict, Exited, NoVerdict, LockedLabels
<1> QED
  BY <1>2, <1>3, <1>4
  DEF BoundProc, EnrolLabels, LockedLabels, UnlockedLabels

\* How a generate whose passphrase is right may move on.
LEMMA UnlockedMoves ==
    ASSUME BindInv, NEW p \in Proc, pc[p] \in UnlockedLabels,
           UNCHANGED << inv, credentials >>,
           \/ pc'[p] = "exited"
           \/ /\ pc'[p] \in UnlockedLabels
              /\ params'[p].credential_id = params[p].credential_id
              /\ params'[p].salt = params[p].salt,
           out'[p] = out[p] \/ OutBound(p)'
    PROVE  BoundProc(p)'
<1>1. BoundProc(p)
  BY DEF BindInv
<1>2. /\ inv[p] \in CommandLine[p] /\ ParamsBound(p)
      /\ out[p] # NULL => OutBound(p)
  BY <1>1 DEF BoundProc, UnlockedLabels
<1>3. Enrolled(p)'
  BY <1>2 DEF ParamsBound, ParamsFrom, Enrolled
<1>4. out'[p] # NULL => OutBound(p)'
  BY <1>2 DEF OutBound
<1>5. pc'[p] \in UnlockedLabels => ParamsBound(p)'
  BY <1>2 DEF ParamsBound, ParamsFrom, UnlockedLabels
<1> QED
  BY <1>2, <1>3, <1>4, <1>5
  DEF BoundProc, EnrolLabels, LockedLabels, UnlockedLabels

-----------------------------------------------------------------------------
(* The steps *)

\* The steps of enrol.
LEMMA EnrolBound ==
    ASSUME BindInv, NEW p \in Proc, EnrolStep(p), UNCHANGED generateVars
    PROVE  DiskStep /\ BoundProc(p)'
<1>0. /\ Shape /\ Grows /\ BoundProc(p) /\ UNCHANGED << out, log >>
      /\ EnrolmentFresh(p)
  BY StepGrows DEF BindInv, TypeInv, Step, generateVars
<1>1. CASE EnrolGetDevice(p)
  <2>1. PICK status \in get_device_statuses(inv[p].device) :
           Proceed(p, status, "enrol: get_device_info")
    BY <1>1 DEF EnrolGetDevice
  <2>2. pc[p] \in EnrolLabels /\ UNCHANGED << inv, disk >>
    BY <1>1 DEF EnrolGetDevice, EnrolLabels
  <2>3. \/ pc'[p] = "enrol: get_device_info"
        \/ pc'[p] = "exited" /\ NoVerdict(exit'[p])
    <3>1. NoVerdict(status)
      BY <2>1, StatusNoVerdict
    <3> QED BY <1>0, <2>1, <3>1, Moved
  <2> QED BY <1>0, <2>2, <2>3, EnrolMoves DEF EnrolLabels, DiskStep
<1>2. CASE EnrolGetDeviceInfo(p)
  <2>1. PICK l \in {"enrol: prompt_for_secret", "enrol: create_credential"},
             status \in get_device_info_statuses(p)
                           \union {EXIT_AUTHENTICATOR_ERROR} :
           Proceed(p, status, l) /\ NoVerdict(status)
    BY <1>2, StatusNoVerdict DEF EnrolGetDeviceInfo
  <2>2. /\ pc[p] \in EnrolLabels /\ UNCHANGED << inv, disk >>
        /\ \/ pc'[p] \in {"enrol: prompt_for_secret", "enrol: create_credential"}
           \/ pc'[p] = "exited" /\ NoVerdict(exit'[p])
    BY <1>0, <1>2, <2>1
    DEF EnrolGetDeviceInfo, EnrolLabels, Shape, Proceed, Goto, Exit
  <2> QED BY <1>0, <2>2, EnrolMoves DEF EnrolLabels, DiskStep
<1>3. CASE EnrolReadPin(p)
  <2>1. PICK status : /\ Proceed(p, status, "enrol: create_credential")
                      /\ NoVerdict(status)
    BY <1>3, StatusNoVerdict DEF EnrolReadPin
  <2>2. /\ pc[p] \in EnrolLabels /\ UNCHANGED << inv, disk >>
        /\ \/ pc'[p] = "enrol: create_credential"
           \/ pc'[p] = "exited" /\ NoVerdict(exit'[p])
    BY <1>0, <1>3, <2>1
    DEF EnrolReadPin, EnrolLabels, Shape, Proceed, Goto, Exit
  <2> QED BY <1>0, <2>2, EnrolMoves DEF EnrolLabels, DiskStep
<1>4. CASE EnrolCreateCredential(p)
  <2>1. PICK answer :
          LET status == create_credential_status(answer) IN
          /\ Proceed(p, status, "enrol: build_deserialized_cleartext")
          /\ credentials' = IF status = EXIT_SUCCESS
                            THEN credentials \union {NewCredential(p).val}
                            ELSE credentials
          /\ params' = IF status = EXIT_SUCCESS
                       THEN [params EXCEPT ![p].credential_id =
                                NewCredential(p)]
                       ELSE params
    BY <1>4 DEF EnrolCreateCredential
  <2>2. pc[p] \in EnrolLabels /\ UNCHANGED << inv, disk >>
    BY <1>4 DEF EnrolCreateCredential, EnrolLabels
  <2>4. \/ /\ pc'[p] = "enrol: build_deserialized_cleartext"
           /\ create_credential_status(answer) = EXIT_SUCCESS
        \/ pc'[p] = "exited" /\ NoVerdict(exit'[p])
    <3>1. NoVerdict(create_credential_status(answer))
      BY StatusNoVerdict
    <3>2. Proceed(p, create_credential_status(answer),
                  "enrol: build_deserialized_cleartext")
      BY <2>1
    <3> QED BY <1>0, <3>1, <3>2, Moved
  <2>3. ASSUME create_credential_status(answer) = EXIT_SUCCESS
        PROVE  OwnCredential(p)'
    <3> DEFINE new == NewCredential(p)
    <3>1. /\ new.val \in credentials'
          /\ new.val.rp = p
          /\ new = Bytes(CredentialSize[new.val.device], new.val)
      BY <1>0, <1>4, <2>1, <2>3
      DEF NewCredential, Bytes, EnrolCreateCredential, EnrolmentFresh,
          DeviceLabels
    <3> HIDE DEF new
    <3>2. IsParams(params[p])
      BY DEF BindInv, TypeInv
    <3>3. params'[p] = [params[p] EXCEPT !.credential_id = new]
      BY <1>0, <2>1, <2>3 DEF Shape, new
    <3>4. params'[p].credential_id = new
      BY <3>2, <3>3, ParamsExcept
    <3> QED BY <3>1, <3>4 DEF OwnCredential
  <2> QED BY <1>0, <2>2, <2>3, <2>4, EnrolMoves DEF EnrolLabels, DiskStep
<1>5. CASE EnrolBuildCleartext(p)
  <2> DEFINE spec == make_new_key_spec_from_invocation(
                         inv[p].passphrase, inv[p].kdf_hardness, p)
             aaguid == Bytes(AAGUID_SIZE_BYTES, Aaguid[device[p].id])
             sealed ==
build_deserialized_cleartext_from_authenticator_parameters_and_key_spec(
                 params[p], spec, aaguid, p)
  <2>1. /\ Proceed(p, derive_key_status(spec), "enrol: fopen")
        /\ \/ Exit(p, derive_key_status(spec))
           \/ cleartext' = [cleartext EXCEPT ![p] = sealed]
        /\ pc[p] = "enrol: build_deserialized_cleartext"
        /\ UNCHANGED << inv, disk, credentials >>
    BY <1>5 DEF EnrolBuildCleartext, enrolVars, Proceed
  <2>2. spec.passphrase = inv[p].passphrase
    BY DEF make_new_key_spec_from_invocation
  <2> HIDE DEF spec, aaguid
  <2>3. PICK credential \in credentials :
           /\ credential.rp = p
           /\ params[p].credential_id =
                  Bytes(CredentialSize[credential.device], credential)
    BY <1>0, <2>1 DEF BoundProc, OwnCredential
  <2>4. /\ inv[p].subcommand = "enrol"
        /\ params[p].relying_party_id = p
        /\ params[p].salt = FreshSalt(p)
    BY <1>0, <2>1
    DEF BoundProc, Enrols, EnrolLabels, EnrolmentFresh, DeviceLabels
  <2>5. BoundBox(sealed.encrypted_data, inv, credentials)
    BY <2>2, <2>3, <2>4, SealedBound
  <2>6. pc'[p] = "enrol: fopen" =>
           BoundBox(cleartext'[p].encrypted_data, inv', credentials')
    <3> HIDE DEF sealed
    <3> QED BY <1>0, <2>1, <2>5 DEF Shape, Exit
  <2>7. /\ pc[p] \in EnrolLabels
        /\ \/ pc'[p] = "enrol: fopen"
           \/ pc'[p] = "exited" /\ NoVerdict(exit'[p])
    <3>1. NoVerdict(derive_key_status(spec))
      BY StatusNoVerdict
    <3> HIDE DEF spec, sealed
    <3> QED BY <1>0, <2>1, <3>1, Moved DEF EnrolLabels
  <2> QED BY <1>0, <2>1, <2>6, <2>7, EnrolMoves DEF EnrolLabels, DiskStep
<1>6. CASE EnrolOpenFile(p)
  <2>1. PICK status : Proceed(p, status, "enrol: fclose") /\ NoVerdict(status)
    BY <1>6, StatusNoVerdict DEF EnrolOpenFile
  <2>2. /\ pc[p] = "enrol: fopen"
        /\ UNCHANGED << inv, credentials, cleartext >>
        /\ \/ pc'[p] = "enrol: fclose"
           \/ pc'[p] = "exited" /\ NoVerdict(exit'[p])
    BY <1>0, <1>6, <2>1
    DEF EnrolOpenFile, enrolVars, Shape, Proceed, Goto, Exit
  <2>3. BoundFile(EmptyFile, inv', credentials')
    BY DEF BoundFile, BoundItem, EmptyFile, EncodedFile, Malformed,
           IsCleartextV1, HasVersion
  <2>4. DiskStep
    BY <1>0, <1>6, <2>3 DEF EnrolOpenFile, DiskStep, Shape
  <2>5. BoundBox(cleartext'[p].encrypted_data, inv', credentials')
    BY <1>0, <2>2 DEF BoundProc
  <2> QED BY <1>0, <2>2, <2>4, <2>5, EnrolMoves DEF EnrolLabels
<1>7. CASE EnrolCloseFile(p)
  <2>1. /\ pc[p] = "enrol: fclose"
        /\ UNCHANGED << inv, credentials >>
        /\ pc'[p] = "exited" /\ NoVerdict(exit'[p])
    BY <1>0, <1>7, StatusNoVerdict DEF EnrolCloseFile, enrolVars, Shape, Exit
  <2>2. BoundBox(cleartext[p].encrypted_data, inv', credentials')
    BY <1>0, <2>1 DEF BoundProc
  <2>3. \A old :
           BoundFile(Overwrite(old, cbor_serialize_alloc(cleartext[p])),
                     inv', credentials')
    BY <2>2, WrittenBound
  <2>4. DiskStep
    BY <1>0, <1>7, <2>3 DEF EnrolCloseFile, DiskStep, Shape
  <2> QED BY <1>0, <2>1, <2>4, EnrolMoves DEF EnrolLabels
<1> QED BY <1>1, <1>2, <1>3, <1>4, <1>5, <1>6, <1>7 DEF EnrolStep

\* The steps of generate.
LEMMA GenerateBound ==
    ASSUME BindInv, NEW p \in Proc, GenerateStep(p), UNCHANGED enrolVars
    PROVE  DiskStep /\ BoundProc(p)'
<1>0. /\ Shape /\ Grows /\ BoundProc(p) /\ BoundDisk
      /\ UNCHANGED << inv, disk, credentials >>
  <2>1. UNCHANGED << inv, disk >>
    BY DEF GenerateStep, GenerateListDevices, GenerateOpenFile,
           GenerateReadFile, GenerateLoadCleartext, GenerateUnlock,
           GenerateGetDevice, GenerateGetDeviceInfo, GenerateReadPin,
           GenerateGetSecret, GenerateFinish
  <2> QED BY <2>1, StepGrows DEF BindInv, TypeInv, Step, enrolVars
<1>d. DiskStep
  BY <1>0 DEF DiskStep
<1>1. CASE GenerateListDevices(p)
  <2>1. PICK result \in list_devices_results :
           Proceed(p, result.status, "generate: fopen")
    BY <1>1 DEF GenerateListDevices
  <2>2. /\ pc[p] \in LockedLabels
        /\ UNCHANGED << inv, out, log >>
    BY <1>1 DEF GenerateListDevices, LockedLabels
  <2>3. \/ pc'[p] = "generate: fopen"
        \/ pc'[p] = "exited" /\ NoVerdict(exit'[p])
    <3>1. NoVerdict(result.status)
      BY <2>1, StatusNoVerdict
    <3> QED BY <1>0, <2>1, <3>1, Moved
  <2> QED BY <1>0, <1>d, <2>2, <2>3, LockedMoves DEF LockedLabels
<1>2. CASE GenerateOpenFile(p)
  <2>1. /\ pc[p] = "generate: fopen"
        /\ UNCHANGED << inv, out, log >>
        /\ Proceed(p, open_status(inv[p].file), "generate: fread")
    BY <1>2 DEF GenerateOpenFile
  <2>2. \/ pc'[p] = "generate: fread" /\ open_status(inv[p].file) = EXIT_SUCCESS
        \/ pc'[p] = "exited" /\ NoVerdict(exit'[p])
    <3>1. NoVerdict(open_status(inv[p].file))
      BY StatusNoVerdict
    <3> QED BY <1>0, <2>1, <3>1, Moved
  <2>3. inv[p].file \in File
    BY <1>0, <2>1, MachineAssumption DEF MachineAssumption, BoundProc
  <2>4. open_status(inv[p].file) = EXIT_SUCCESS => disk[inv[p].file] # NULL
    BY DEF open_status, EXIT_SUCCESS, EXIT_DESERIALIZATION_ERROR,
           EXIT_H_USER_ERROR_BITS
  <2>5. pc'[p] = "generate: fread" =>
            BoundFile(disk'[inv'[p].file], inv', credentials')
    BY <1>0, <2>2, <2>3, <2>4 DEF BoundDisk
  <2> QED BY <1>0, <1>d, <2>1, <2>2, <2>5, LockedMoves DEF LockedLabels
<1>3. CASE GenerateReadFile(p)
  <2> DEFINE f == inv[p].file
             status == fread_status(f, length[p])
  <2>1. /\ pc[p] = "generate: fread"
        /\ UNCHANGED << inv, out, log >>
        /\ Proceed(p, status, "generate: load_cleartext")
        /\ status = EXIT_SUCCESS =>
              data' = [data EXCEPT ![p] = FirstBytes(f, length[p])]
    BY <1>3 DEF GenerateReadFile
  <2>2. \/ pc'[p] = "generate: load_cleartext" /\ status = EXIT_SUCCESS
        \/ pc'[p] = "exited" /\ NoVerdict(exit'[p])
    <3>1. NoVerdict(status)
      BY StatusNoVerdict
    <3> QED BY <1>0, <2>1, <3>1, Moved
  <2>3. BoundFile(disk[f], inv, credentials)
    BY <1>0, <2>1 DEF BoundProc
  <2>4. BoundFile(FirstBytes(f, length[p]), inv, credentials)
    BY <2>3 DEF FirstBytes, BoundFile, EncodedFile
  <2> HIDE DEF status, f
  <2>5. pc'[p] = "generate: load_cleartext" =>
            BoundFile(data'[p], inv', credentials')
    BY <1>0, <2>1, <2>2, <2>4 DEF Shape
  <2> QED BY <1>0, <1>d, <2>1, <2>2, <2>5, LockedMoves DEF LockedLabels
<1>4. CASE GenerateLoadCleartext(p)
  <2> DEFINE status == load_cleartext_status(data[p])
             new == deserialize_cleartext_from_cbor_v1(cbor_load(data[p]))
  <2>1. /\ pc[p] = "generate: load_cleartext"
        /\ UNCHANGED << inv, out, log >>
        /\ \/ Proceed(p, status, "generate: derive_key")
           \/ Goto(p, "killed")
        /\ status = EXIT_SUCCESS => cleartext' = [cleartext EXCEPT ![p] = new]
    BY <1>4 DEF GenerateLoadCleartext
  <2>2. \/ pc'[p] = "generate: derive_key" /\ status = EXIT_SUCCESS
        \/ pc'[p] = "exited" /\ NoVerdict(exit'[p])
        \/ pc'[p] = "killed"
    <3>1. NoVerdict(status)
      BY StatusNoVerdict
    <3>2. CASE Proceed(p, status, "generate: derive_key")
      BY <1>0, <3>1, <3>2, Moved
    <3>3. CASE Goto(p, "killed")
      BY <1>0, <3>3 DEF Shape, Goto
    <3> QED BY <2>1, <3>2, <3>3
  <2>3. BoundFile(data[p], inv, credentials)
    BY <1>0, <2>1 DEF BoundProc
  <2>4. status = EXIT_SUCCESS => IsCleartextV1(cbor_load(data[p]))
    BY DEF load_cleartext_status, EXIT_SUCCESS, EXIT_DESERIALIZATION_ERROR,
           EXIT_H_USER_ERROR_BITS
  <2>5. status = EXIT_SUCCESS => BoundBox(new.encrypted_data, inv, credentials)
    BY <2>3, <2>4, LoadedBound
  <2> HIDE DEF status, new
  <2>6. pc'[p] = "generate: derive_key" =>
            BoundBox(cleartext'[p].encrypted_data, inv', credentials')
    BY <1>0, <2>1, <2>2, <2>5 DEF Shape
  <2> QED BY <1>0, <1>d, <2>1, <2>2, <2>6, LockedMoves DEF LockedLabels
<1>5. CASE GenerateUnlock(p)
  <2> DEFINE passphrase == inv[p].passphrase
             mixin == inv[p].mixin
             clear == cleartext[p]
             spec == make_key_spec_from_passphrase_and_cleartext(passphrase, clear)
             opened == build_authenticator_parameters_status(
                           clear, PasswordHash(spec), mixin)
             status == IF derive_key_status(spec) # EXIT_SUCCESS
                       THEN derive_key_status(spec) ELSE opened
             new ==
build_authenticator_parameters_from_deserialized_cleartext_and_key_and_mixin(
                 clear, mixin)
  <2>1. /\ pc[p] = "generate: derive_key"
        /\ UNCHANGED << inv, out, log >>
        /\ Proceed(p, status, "generate: get_device")
        /\ status = EXIT_SUCCESS => params' = [params EXCEPT ![p] = new]
    BY <1>5 DEF GenerateUnlock, generateVars
  <2>2. \/ pc'[p] = "generate: get_device" /\ status = EXIT_SUCCESS
        \/ pc'[p] = "exited" /\ NoVerdict(exit'[p])
    <3>1. NoVerdict(status)
      BY StatusNoVerdict
    <3> QED BY <1>0, <2>1, <3>1, Moved
  <2>3. BoundBox(clear.encrypted_data, inv, credentials)
    BY <1>0, <2>1 DEF BoundProc
  <2>4. status = EXIT_SUCCESS =>
            ParamsFrom(new, passphrase, mixin, inv, credentials)
    <3>1. status = EXIT_SUCCESS => opened = EXIT_SUCCESS
      OBVIOUS
    <3>2. ASSUME opened = EXIT_SUCCESS
          PROVE  ParamsFrom(new, passphrase, mixin, inv, credentials)
      BY <2>3, <3>2, UnlockedBound
    <3> QED BY <3>1, <3>2
  <2> HIDE DEF status, new
  <2>5. pc'[p] = "generate: get_device" => ParamsBound(p)'
    <3> SUFFICES ASSUME pc'[p] = "generate: get_device" PROVE ParamsBound(p)'
      OBVIOUS
    <3>1. params'[p] = new
      BY <1>0, <2>1, <2>2 DEF Shape
    <3> QED BY <1>0, <2>2, <2>4, <3>1 DEF ParamsBound, ParamsFrom
  <2> QED BY <1>0, <1>d, <2>1, <2>2, <2>5, LockedMoves DEF LockedLabels
<1>6. CASE GenerateGetDevice(p)
  <2>1. /\ pc[p] \in UnlockedLabels
        /\ params'[p] = params[p] /\ out'[p] = out[p]
        /\ pc'[p] \in {"generate: get_device_info", "exited"}
    BY <1>0, <1>6
    DEF GenerateGetDevice, UnlockedLabels, generateVars, Shape, Proceed, Goto,
        Exit
  <2> QED BY <1>0, <1>d, <2>1, UnlockedMoves DEF UnlockedLabels
<1>7. CASE GenerateGetDeviceInfo(p)
  <2>1. /\ pc[p] \in UnlockedLabels
        /\ params'[p] = params[p] /\ out'[p] = out[p]
        /\ pc'[p] \in UnlockedLabels \union {"exited"}
    BY <1>0, <1>7
    DEF GenerateGetDeviceInfo, UnlockedLabels, Shape, Continue, Goto, Exit
  <2> QED BY <1>0, <1>d, <2>1, UnlockedMoves
<1>8. CASE GenerateReadPin(p)
  <2>1. PICK pin : \/ params' = params
                   \/ params' = [params EXCEPT ![p].authenticator_pin = pin]
    BY <1>8 DEF GenerateReadPin
  <2>2. \/ params'[p] = params[p]
        \/ params'[p] = [params[p] EXCEPT !.authenticator_pin = pin]
    BY <1>0, <2>1 DEF Shape
  <2>3. IsParams(params[p])
    BY DEF BindInv, TypeInv
  <2>4. /\ params'[p].credential_id = params[p].credential_id
        /\ params'[p].salt = params[p].salt
    BY <2>2, <2>3, ParamsExcept
  <2>5. /\ pc[p] \in UnlockedLabels /\ out'[p] = out[p]
        /\ pc'[p] \in UnlockedLabels \union {"exited"}
    BY <1>0, <1>8
    DEF GenerateReadPin, UnlockedLabels, Shape, Continue, Goto, Exit
  <2> QED BY <1>0, <1>d, <2>4, <2>5, UnlockedMoves
<1>9. CASE GenerateGetSecret(p)
  <2>1. pc[p] \in UnlockedLabels
    BY <1>9 DEF GenerateGetSecret, UnlockedLabels
  <2>2. \/ /\ out' = [out EXCEPT ![p] = Hmac(params[p].credential_id.val,
                                             params[p].salt.val)]
           /\ Exit(p, EXIT_SUCCESS)
        \/ UNCHANGED out /\ Continue(p) /\ UNCHANGED params
        \/ UNCHANGED out /\ \E status : Exit(p, status)
    BY <1>9 DEF GenerateGetSecret
  <2>3. CASE /\ out' = [out EXCEPT ![p] = Hmac(params[p].credential_id.val,
                                               params[p].salt.val)]
             /\ Exit(p, EXIT_SUCCESS)
    <3>1. ParamsBound(p)
      BY <1>0, <2>1 DEF BoundProc
    <3>2. out'[p] = Hmac(params[p].credential_id.val, params[p].salt.val)
      BY <1>0, <2>3 DEF Shape
    <3>3. OutBound(p)'
      BY <1>0, <3>1, <3>2 DEF ParamsBound, ParamsFrom, OutBound
    <3>4. pc'[p] = "exited"
      BY <1>0, <2>3 DEF Shape, Exit
    <3> QED BY <1>0, <1>d, <2>1, <3>3, <3>4, UnlockedMoves
  <2>4. CASE UNCHANGED out /\ Continue(p) /\ UNCHANGED params
    <3>1. pc'[p] \in UnlockedLabels
      BY <1>0, <2>4 DEF Shape, Continue, Goto, UnlockedLabels
    <3> QED BY <1>0, <1>d, <2>1, <2>4, <3>1, UnlockedMoves
  <2>5. CASE UNCHANGED out /\ \E status : Exit(p, status)
    <3>1. pc'[p] = "exited"
      BY <1>0, <2>5 DEF Shape, Exit
    <3> QED BY <1>0, <1>d, <2>1, <2>5, <3>1, UnlockedMoves
  <2> QED BY <2>2, <2>3, <2>4, <2>5
<1>10. CASE GenerateFinish(p)
  <2>1. /\ pc[p] \in UnlockedLabels
        /\ out'[p] = out[p]
        /\ pc'[p] = "exited"
    BY <1>0, <1>10 DEF GenerateFinish, UnlockedLabels, generateVars, Shape, Exit
  <2> QED BY <1>0, <1>d, <2>1, UnlockedMoves
<1> QED
  BY <1>1, <1>2, <1>3, <1>4, <1>5, <1>6, <1>7, <1>8, <1>9, <1>10
  DEF GenerateStep

\* A process that starts has bound nothing yet, one that dies has said
\* nothing about devices.
LEMMA FateBound ==
    ASSUME BindInv, NEW p \in Proc, Fate(p)
    PROVE  DiskStep /\ BoundProc(p)'
<1>0. /\ Shape /\ Grows /\ BoundProc(p)
      /\ UNCHANGED << disk, credentials, out, log >>
  BY StepGrows
  DEF BindInv, TypeInv, Fate, Start, Kill, OutOfMemory, enrolVars, generateVars
<1>d. DiskStep
  BY <1>0 DEF DiskStep
<1>1. CASE Start(p)
  <2>1. PICK c \in CommandLine[p] :
          /\ inv' = [inv EXCEPT ![p] = c]
          /\ Goto(p, IF c.subcommand = "enrol" THEN "enrol: get_device"
                                               ELSE "generate: list_devices")
    BY <1>1 DEF Start
  <2>2. /\ pc[p] = "ready" /\ inv[p] = NoInvocation
        /\ inv'[p] = c
        /\ log'[p] = << >>
    BY <1>0, <1>1, <2>1 DEF Start, BoundProc, Shape
  <2>3. \/ pc'[p] = "enrol: get_device" /\ c.subcommand = "enrol"
        \/ pc'[p] = "generate: list_devices"
    BY <1>0, <2>1 DEF Shape, Goto
  <2>4. out'[p] = NULL
    BY <1>0, <2>2 DEF BoundProc
  <2> QED
    BY <1>d, <2>1, <2>2, <2>3, <2>4
    DEF BoundProc, Enrols, EnrolLabels, LockedLabels, UnlockedLabels,
        DeviceVerdict, Exited
<1>2. CASE Kill(p) \/ OutOfMemory(p)
  <2>1. UNCHANGED inv /\ pc[p] # "ready"
    BY <1>2 DEF Kill, OutOfMemory, Running
  <2>2. \/ pc'[p] = "killed"
        \/ pc'[p] = "exited" /\ NoVerdict(exit'[p])
    BY <1>0, <1>2, StatusNoVerdict DEF Kill, OutOfMemory, Shape, Goto, Exit
  <2>3. out'[p] # NULL => OutBound(p)'
    BY <1>0, <2>1 DEF BoundProc, OutBound
  <2>4. log'[p] # << >> => Enrolled(p)'
    BY <1>0, <2>1 DEF BoundProc, Enrolled
  <2>5. ~DeviceVerdict(p)'
    BY <2>2 DEF DeviceVerdict, Exited, NoVerdict
  <2> QED
    BY <1>0, <1>d, <2>1, <2>2, <2>3, <2>4, <2>5
    DEF BoundProc, EnrolLabels, LockedLabels, UnlockedLabels
<1> QED BY <1>1, <1>2 DEF Fate

\* Damage, plugging and unplugging bind nothing and free nothing.
LEMMA WorldBound == ASSUME BindInv, World PROVE BindInv'
<1>1. TypeInv'
  BY WorldType DEF BindInv
<1>2. UNCHANGED << pc, exit, inv, cleartext, params, credentials, data, out, log >>
  BY WorldLocal DEF BindInv, enrolVars, generateVars
<1>3. Grows
  BY <1>2 DEF Grows
<1>4. DiskStep
  <2>1. CASE UNCHANGED disk
    BY <2>1 DEF DiskStep
  <2>2. ASSUME NEW f \in File, Damage(f) PROVE DiskStep
    <3>1. PICK file \in Damaged(disk[f]) : disk' = [disk EXCEPT ![f] = file]
      BY <2>2 DEF Damage
    <3>2. BoundFile(disk[f], inv, credentials)
      BY <2>2 DEF Damage, BindInv, BoundDisk
    <3>3. BoundFile(file, inv', credentials')
      BY <1>2, <3>2, DamagedBound
    <3>4. DOMAIN disk = File
      BY DEF BindInv, TypeInv, Shape
    <3> QED BY <3>1, <3>3, <3>4 DEF DiskStep
  <2> QED BY <2>1, <2>2 DEF World, Plug, Unplug, machineVars
<1>5. BoundDisk'
  BY <1>3, <1>4, BoundDiskStep DEF BindInv
<1>6. ASSUME NEW q \in Proc PROVE BoundProc(q)'
  BY <1>2, <1>3, <1>4, BoundOthers DEF BindInv
<1> QED BY <1>1, <1>5, <1>6 DEF BindInv

\* The invariant is inductive.
LEMMA BindNext == BindInv /\ [Next]_vars => BindInv'
<1> SUFFICES ASSUME BindInv, [Next]_vars PROVE BindInv'
  OBVIOUS
<1>1. CASE UNCHANGED vars
  <2>1. TypeInv'
    BY <1>1, TypeNext DEF BindInv
  <2>2. UNCHANGED << pc, exit, inv, cleartext, params, credentials, data, out,
                     log, disk >>
    BY <1>1 DEF vars, machineVars, authenticatorVars, enrolVars, generateVars
  <2>3. Grows /\ DiskStep
    BY <2>2 DEF Grows, DiskStep
  <2>4. BoundDisk'
    BY <2>3, BoundDiskStep DEF BindInv
  <2>5. ASSUME NEW q \in Proc PROVE BoundProc(q)'
    BY <2>2, <2>3, BoundOthers DEF BindInv
  <2> QED BY <2>1, <2>4, <2>5 DEF BindInv
<1>2. CASE World
  BY <1>2, WorldBound
<1>3. ASSUME NEW p \in Proc, Step(p) \/ Fate(p) PROVE BindInv'
  <2>1. TypeInv'
    <3>1. Next
      BY <1>3 DEF Next
    <3> QED BY <3>1, TypeNext DEF BindInv
  <2>2. DiskStep /\ BoundProc(p)'
    BY <1>3, EnrolBound, GenerateBound, FateBound DEF Step
  <2> QED BY <1>3, <2>1, <2>2, BoundStepEnough
<1> QED BY <1>1, <1>2, <1>3 DEF Next, Idle

-----------------------------------------------------------------------------
(* The theorems *)

\* What generate prints is the hmac-secret of the credential and the salt of
\* one enrolment, under the passphrase that generate was given, with the
\* mixin it was given: in every instance, under any damage and interleaving.
THEOREM SecretBound == Spec => []SecretIsBound
<1>1. BindInv => SecretIsBound
  BY DEF BindInv, BoundProc, OutBound, EnrolledAs, SecretIsBound, Enrols
<1> QED BY <1>1, BindInit, BindNext, PTL DEF Spec

\* No device is asked for anything, and nothing is said about devices, before
\* the passphrase has opened a keyfile that was enrolled with it.
THEOREM DevicesAfterPassphrase == Spec => []UnlockedFirst
<1>1. BindInv => UnlockedFirst
  <2> SUFFICES ASSUME BindInv, NEW p \in Proc,
                      \/ pc[p] \in UnlockedLabels
                      \/ log[p] # << >>
                      \/ DeviceVerdict(p)
               PROVE  PassphraseWasEnrolled(p)
    BY DEF UnlockedFirst, DeviceVerdict
  <2>1. Enrolled(p)
    BY DEF BindInv, BoundProc, ParamsBound, ParamsFrom, Enrolled
  <2> QED BY <2>1 DEF Enrolled, EnrolledAs, PassphraseWasEnrolled, Enrols
<1> QED BY <1>1, BindInit, BindNext, PTL DEF Spec

-----------------------------------------------------------------------------
(* The oracle: the invariant *)

\* An enrolment that has asked for no credential yet, or was not started.
BeforeCredential ==
    { "ready", "enrol: get_device", "enrol: get_device_info",
      "enrol: prompt_for_secret", "enrol: create_credential" }

GenerateLabels == LockedLabels \union UnlockedLabels

\* A live handle is one to a device that is plugged in.
LiveIsPresent(handle) ==
    handle.live => handle.id \in Device /\ Present(handle.id)

OracleProc(p) ==
    /\ pc[p] \in GenerateLabels => Generates(p)
    /\ pc[p] \in BeforeCredential => \A c \in credentials : c.rp # p
    /\ LiveIsPresent(device[p])
    /\ out[p] # NULL => Ended(p)

\* One credential for each enrolment.
OneEach == \A c, d \in credentials : c.rp = d.rp => c = d

OracleInv ==
    /\ BindInv
    /\ OneEach
    /\ \A p \in Proc : OracleProc(p)

-----------------------------------------------------------------------------
(* What a step of a process does that the oracle can see *)

\* A process moves on; it neither turns into the other subcommand nor goes
\* back to where it has no credential, and its handle is one to a device that
\* is there.
Moves(p) ==
    /\ Running(p)
    /\ pc'[p] # "ready"
    /\ pc'[p] \in BeforeCredential => pc[p] \in BeforeCredential
    /\ pc'[p] \in GenerateLabels => pc[p] \in GenerateLabels
    /\ LiveIsPresent(device'[p])
    /\ UNCHANGED << inv, port >>

\* It does nothing else.
Quiet(p) == Moves(p) /\ UNCHANGED << credentials, out >>

\* Its device, which is there, makes a credential for it.
Makes(p) ==
    /\ Moves(p)
    /\ pc[p] = "enrol: create_credential"
    /\ pc'[p] = "enrol: build_deserialized_cleartext"
    /\ device[p].live
    /\ credentials' = credentials
                         \union {[device |-> device[p].id, rp |-> p]}
    /\ UNCHANGED out

\* Its device, which is there and made the credential, tells it the secret.
Tells(p) ==
    /\ Moves(p)
    /\ pc[p] \in UnlockedLabels
    /\ pc'[p] = "exited"
    /\ device[p].live
    /\ params[p].credential_id.val.device = device[p].id
    /\ out' = [out EXCEPT ![p] = Hmac(params[p].credential_id.val,
                                      params[p].salt.val)]
    /\ UNCHANGED credentials

\* A port is somewhere a device may be.
LEMMA OpenedIsPresent ==
    ASSUME NEW p \in Proc, DOMAIN device = Proc, NEW x \in Port,
           NEW status \in get_device_statuses(x),
           device' = [device EXCEPT ![p] = HandleAfter(p, x, status)],
           LiveIsPresent(device[p])
    PROVE  LiveIsPresent(device'[p])
<1>1. device'[p] = HandleAfter(p, x, status)
  OBVIOUS
<1>2. CASE device'[p] = device[p]
  BY <1>2
<1>3. CASE device'[p] = Handle(port[x]) /\ status = EXIT_SUCCESS
  <2>1. port[x] \in Device
    BY <1>3, GetDeviceType
  <2> QED BY <1>3, <2>1 DEF Handle, Present, LiveIsPresent
<1> QED BY <1>1, <1>2, <1>3 DEF HandleAfter

\* A device that is closed, or forgotten, leaves no live handle.
LEMMA ClosedIsNotLive ==
    ASSUME NEW p \in Proc, DOMAIN device = Proc,
           device[p] \in [id : Device \union {NULL}, live : BOOLEAN],
           \/ device' = [device EXCEPT ![p] = NoHandle]
           \/ device' = [device EXCEPT ![p].live = FALSE]
    PROVE  LiveIsPresent(device'[p])
  BY DEF NoHandle, LiveIsPresent

\* The steps of enrol.
LEMMA EnrolSeen ==
    ASSUME OracleInv, NEW p \in Proc, EnrolStep(p), UNCHANGED generateVars
    PROVE  Quiet(p) \/ Makes(p)
<1>0. /\ Shape
      /\ OracleProc(p) /\ BoundProc(p)
      /\ EnrolmentFresh(p)
      /\ device[p] \in [id : Device \union {NULL}, live : BOOLEAN]
      /\ UNCHANGED out
  BY DEF OracleInv, BindInv, TypeInv, TypeOK, generateVars
<1>1. CASE EnrolGetDevice(p)
  <2>1. PICK status \in get_device_statuses(inv[p].device) :
          /\ Proceed(p, status, "enrol: get_device_info")
          /\ device' = [device EXCEPT ![p] =
                            HandleAfter(p, inv[p].device, status)]
    BY <1>1 DEF EnrolGetDevice
  <2>2. inv[p].device \in Port
    BY <1>0, <1>1, AuthenticatorAssumption
    DEF EnrolGetDevice, BoundProc, EnrolLabels, Enrols, AuthenticatorAssumption
  <2>3. LiveIsPresent(device'[p])
    BY <1>0, <2>1, <2>2, OpenedIsPresent DEF Shape, OracleProc
  <2>4. /\ pc[p] = "enrol: get_device"
        /\ pc'[p] \in {"enrol: get_device_info", "exited"}
        /\ UNCHANGED << inv, port, credentials >>
    BY <1>0, <1>1, <2>1
    DEF EnrolGetDevice, Shape, Proceed, Goto, Exit, worldVars, enrolVars
  <2> QED
    BY <1>0, <2>3, <2>4
    DEF Quiet, Moves, Running, Ended, BeforeCredential, GenerateLabels,
        LockedLabels, UnlockedLabels
<1>2. CASE EnrolGetDeviceInfo(p)
  <2>1. PICK l \in {"enrol: prompt_for_secret", "enrol: create_credential"} :
           \E status : Proceed(p, status, l)
    BY <1>2 DEF EnrolGetDeviceInfo
  <2>2. /\ pc[p] = "enrol: get_device_info"
        /\ pc'[p] \in {"enrol: prompt_for_secret", "enrol: create_credential",
                       "exited"}
        /\ UNCHANGED << inv, port, device, credentials >>
    BY <1>0, <1>2, <2>1
    DEF EnrolGetDeviceInfo, Shape, Proceed, Goto, Exit, worldVars, enrolVars
  <2> QED
    BY <1>0, <2>2
    DEF Quiet, Moves, Running, Ended, BeforeCredential, GenerateLabels,
        LockedLabels, UnlockedLabels, OracleProc
<1>3. CASE EnrolReadPin(p)
  <2>1. PICK status : Proceed(p, status, "enrol: create_credential")
    BY <1>3 DEF EnrolReadPin
  <2> QED
    BY <1>0, <1>3, <2>1
    DEF EnrolReadPin, Quiet, Moves, Running, Ended, Shape, Proceed, Goto,
        Exit, BeforeCredential, GenerateLabels, LockedLabels, UnlockedLabels,
        worldVars, enrolVars, OracleProc
<1>4. CASE EnrolCreateCredential(p)
  <2>1. PICK answer \in CreateAnswers(p) :
          LET status == create_credential_status(answer) IN
          /\ Proceed(p, status, "enrol: build_deserialized_cleartext")
          /\ credentials' = IF status = EXIT_SUCCESS
                            THEN credentials \union {NewCredential(p).val}
                            ELSE credentials
    BY <1>4 DEF EnrolCreateCredential
  <2> DEFINE status == create_credential_status(answer)
  <2>2. /\ pc[p] = "enrol: create_credential"
        /\ device' = [device EXCEPT ![p].live = FALSE]
        /\ UNCHANGED << inv, port >>
    BY <1>4 DEF EnrolCreateCredential
  <2>3. LiveIsPresent(device'[p])
    BY <1>0, <2>2, ClosedIsNotLive DEF Shape
  <2>4. pc'[p] = IF status = EXIT_SUCCESS
                 THEN "enrol: build_deserialized_cleartext" ELSE "exited"
    BY <1>0, <2>1 DEF Shape, Proceed, Goto, Exit
  <2>5. Moves(p)
    <3> HIDE DEF status
    <3> QED
      BY <2>2, <2>3, <2>4
      DEF Moves, Running, Ended, BeforeCredential, GenerateLabels,
          LockedLabels, UnlockedLabels
  <2>6. CASE status = EXIT_SUCCESS
    <3>1. answer # "FIDO_ERR_RX"
      BY <2>6
      DEF create_credential_status, EXIT_SUCCESS, EXIT_AUTHENTICATOR_ERROR,
          EXIT_H_RUNTIME_ERROR_BITS
    <3>2. device[p].live
      BY <2>1, <3>1 DEF CreateAnswers, Answers
    <3>3. NewCredential(p).val = [device |-> device[p].id, rp |-> p]
      BY <1>0, <2>2 DEF NewCredential, Bytes, EnrolmentFresh, DeviceLabels
    <3> HIDE DEF status
    <3> QED BY <1>0, <2>1, <2>2, <2>4, <2>5, <2>6, <3>2, <3>3 DEF Makes, status
  <2>7. CASE status # EXIT_SUCCESS
    BY <1>0, <2>1, <2>5, <2>7 DEF Quiet
  <2> QED BY <2>6, <2>7
<1>5. CASE EnrolBuildCleartext(p)
  <2>1. /\ pc[p] = "enrol: build_deserialized_cleartext"
        /\ pc'[p] \in {"enrol: fopen", "exited"}
        /\ device' = device \/ device' = [device EXCEPT ![p] = NoHandle]
        /\ UNCHANGED << inv, port, credentials >>
    BY <1>0, <1>5
    DEF EnrolBuildCleartext, Shape, Goto, Exit, worldVars, enrolVars
  <2>2. LiveIsPresent(device'[p])
    BY <1>0, <2>1, ClosedIsNotLive DEF Shape, OracleProc
  <2> QED
    BY <1>0, <2>1, <2>2
    DEF Quiet, Moves, Running, Ended, BeforeCredential, GenerateLabels,
        LockedLabels, UnlockedLabels
<1>6. CASE EnrolOpenFile(p)
  <2>1. /\ pc[p] = "enrol: fopen"
        /\ pc'[p] \in {"enrol: fclose", "exited"}
        /\ UNCHANGED << inv, port, device, credentials >>
    BY <1>0, <1>6
    DEF EnrolOpenFile, Shape, Proceed, Goto, Exit, authenticatorVars, enrolVars
  <2> QED
    BY <1>0, <2>1
    DEF Quiet, Moves, Running, Ended, BeforeCredential, GenerateLabels,
        LockedLabels, UnlockedLabels, OracleProc
<1>7. CASE EnrolCloseFile(p)
  <2>1. /\ pc[p] = "enrol: fclose"
        /\ pc'[p] = "exited"
        /\ UNCHANGED << inv, port, device, credentials >>
    BY <1>0, <1>7
    DEF EnrolCloseFile, Shape, Exit, authenticatorVars, enrolVars
  <2> QED
    BY <1>0, <2>1
    DEF Quiet, Moves, Running, Ended, BeforeCredential, GenerateLabels,
        LockedLabels, UnlockedLabels, OracleProc
<1> QED BY <1>1, <1>2, <1>3, <1>4, <1>5, <1>6, <1>7 DEF EnrolStep

\* A request that the device answered with the secret was made on a live
\* handle, to the device that made the credential.
LEMMA AnsweredByItsOwn ==
    ASSUME NEW p \in Proc, "FIDO_OK" \in AssertAnswers(p)
    PROVE  /\ device[p].live
           /\ params[p].credential_id.val.device = device[p].id
<1> DEFINE credential == params[p].credential_id.val
           own == credential = [device |-> device[p].id,
                                rp |-> params[p].relying_party_id]
           accepted == IF own
                       THEN { "FIDO_OK", "FIDO_ERR_ACTION_TIMEOUT",
                              "FIDO_ERR_USER_ACTION_TIMEOUT" }
                            \union Glitch("no hmac-secret")
                       ELSE { "FIDO_ERR_NO_CREDENTIALS" }
<1>1. "FIDO_OK" \in Answers(p, accepted)
  BY DEF AssertAnswers
<1> HIDE DEF accepted
<1>2. device[p].live /\ "FIDO_OK" \in accepted
  BY <1>1 DEF Answers, Glitch
<1>3. own
  BY <1>2 DEF accepted
<1> QED BY <1>2, <1>3

\* The steps of generate.
LEMMA GenerateSeen ==
    ASSUME OracleInv, NEW p \in Proc, GenerateStep(p), UNCHANGED enrolVars
    PROVE  Quiet(p) \/ Tells(p)
<1>0. /\ Shape
      /\ OracleProc(p)
      /\ TypeOK
      /\ device[p] \in [id : Device \union {NULL}, live : BOOLEAN]
      /\ UNCHANGED credentials
  BY DEF OracleInv, BindInv, TypeInv, TypeOK, enrolVars
<1>1. ASSUME pc[p] \in LockedLabels,
             pc'[p] \in GenerateLabels \union {"exited", "killed"},
             UNCHANGED << inv, port, device, out >>
      PROVE  Quiet(p)
  BY <1>0, <1>1
  DEF Quiet, Moves, Running, Ended, BeforeCredential, GenerateLabels,
      LockedLabels, UnlockedLabels, OracleProc
<1>2. ASSUME pc[p] \in UnlockedLabels,
             pc'[p] \in UnlockedLabels \union {"exited"},
             UNCHANGED << inv, port, out >>,
             LiveIsPresent(device'[p])
      PROVE  Quiet(p)
  BY <1>0, <1>2
  DEF Quiet, Moves, Running, Ended, BeforeCredential, GenerateLabels,
      LockedLabels, UnlockedLabels
<1>3. CASE GenerateListDevices(p)
  <2>1. PICK status : Proceed(p, status, "generate: fopen")
    BY <1>3 DEF GenerateListDevices
  <2> QED
    BY <1>0, <1>1, <1>3, <2>1
    DEF GenerateListDevices, Shape, Proceed, Goto, Exit, GenerateLabels,
        LockedLabels, authenticatorVars
<1>4. CASE GenerateOpenFile(p)
  BY <1>0, <1>1, <1>4
  DEF GenerateOpenFile, Shape, Proceed, Goto, Exit, GenerateLabels,
      LockedLabels, authenticatorVars
<1>5. CASE GenerateReadFile(p)
  BY <1>0, <1>1, <1>5
  DEF GenerateReadFile, Shape, Proceed, Goto, Exit, GenerateLabels,
      LockedLabels, authenticatorVars
<1>6. CASE GenerateLoadCleartext(p)
  BY <1>0, <1>1, <1>6
  DEF GenerateLoadCleartext, Shape, Proceed, Goto, Exit, GenerateLabels,
      LockedLabels, authenticatorVars
<1>7. CASE GenerateUnlock(p)
  <2>1. PICK status : Proceed(p, status, "generate: get_device")
    BY <1>7 DEF GenerateUnlock
  <2> QED
    BY <1>0, <1>1, <1>7, <2>1
    DEF GenerateUnlock, Shape, Proceed, Goto, Exit, GenerateLabels,
        LockedLabels, UnlockedLabels, worldVars, generateVars
<1>8. CASE GenerateGetDevice(p)
  <2> DEFINE x == devices_list[p][i[p]]
  <2>1. PICK status \in get_device_statuses(x) :
          /\ Proceed(p, status, "generate: get_device_info")
          /\ device' = [device EXCEPT ![p] = HandleAfter(p, x, status)]
    BY <1>8 DEF GenerateGetDevice
  <2>2. x \in Port
    <3>1. devices_list[p] \in Seq(Port) /\ i[p] \in Nat \ {0}
      BY <1>0 DEF TypeOK
    <3>2. i[p] <= Len(devices_list[p])
      BY <1>8 DEF GenerateGetDevice, MoreDevices
    <3> QED BY <3>1, <3>2
  <2> HIDE DEF x
  <2>3. LiveIsPresent(device'[p])
    BY <1>0, <2>1, <2>2, OpenedIsPresent DEF Shape, OracleProc
  <2>4. /\ pc[p] \in UnlockedLabels
        /\ UNCHANGED << inv, port, out >>
    BY <1>8 DEF GenerateGetDevice, UnlockedLabels, worldVars, generateVars
  <2>5. pc'[p] \in UnlockedLabels \union {"exited"}
    BY <1>0, <2>1 DEF Shape, Proceed, Goto, Exit, UnlockedLabels
  <2> QED BY <1>2, <2>3, <2>4, <2>5
<1>9. CASE GenerateGetDeviceInfo(p)
  <2>1. /\ pc[p] \in UnlockedLabels
        /\ pc'[p] \in UnlockedLabels \union {"exited"}
        /\ device' = device \/ device' = [device EXCEPT ![p] = NoHandle]
        /\ UNCHANGED << inv, port, out >>
    BY <1>0, <1>9
    DEF GenerateGetDeviceInfo, UnlockedLabels, Shape, Continue, Goto, Exit,
        worldVars
  <2>2. LiveIsPresent(device'[p])
    BY <1>0, <2>1, ClosedIsNotLive DEF Shape, OracleProc
  <2> QED BY <1>2, <2>1, <2>2
<1>10. CASE GenerateReadPin(p)
  <2>1. /\ pc[p] \in UnlockedLabels
        /\ pc'[p] \in UnlockedLabels \union {"exited"}
        /\ device' = device \/ device' = [device EXCEPT ![p] = NoHandle]
        /\ UNCHANGED << inv, port, out >>
    BY <1>0, <1>10
    DEF GenerateReadPin, UnlockedLabels, Shape, Continue, Goto, Exit, worldVars
  <2>2. LiveIsPresent(device'[p])
    BY <1>0, <2>1, ClosedIsNotLive DEF Shape, OracleProc
  <2> QED BY <1>2, <2>1, <2>2
<1>11. CASE GenerateGetSecret(p)
  <2>1. /\ pc[p] \in UnlockedLabels
        /\ device' = [device EXCEPT ![p] = NoHandle]
        /\ UNCHANGED << inv, port >>
    BY <1>11 DEF GenerateGetSecret, UnlockedLabels
  <2>2. LiveIsPresent(device'[p])
    BY <1>0, <2>1, ClosedIsNotLive DEF Shape
  <2>3. \/ /\ out' = [out EXCEPT ![p] = Hmac(params[p].credential_id.val,
                                             params[p].salt.val)]
           /\ Exit(p, EXIT_SUCCESS)
           /\ "FIDO_OK" \in AssertAnswers(p)
        \/ UNCHANGED out /\ Continue(p)
        \/ UNCHANGED out /\ \E status : Exit(p, status)
    BY <1>11 DEF GenerateGetSecret
  <2>4. CASE /\ out' = [out EXCEPT ![p] = Hmac(params[p].credential_id.val,
                                               params[p].salt.val)]
             /\ Exit(p, EXIT_SUCCESS)
             /\ "FIDO_OK" \in AssertAnswers(p)
    <3>1. pc'[p] = "exited"
      BY <1>0, <2>4 DEF Shape, Exit
    <3>2. Moves(p)
      BY <2>1, <2>2, <3>1
      DEF Moves, Running, Ended, BeforeCredential, GenerateLabels,
          LockedLabels, UnlockedLabels
    <3> QED BY <1>0, <2>1, <2>4, <3>1, <3>2, AnsweredByItsOwn DEF Tells
  <2>5. CASE UNCHANGED out /\ Continue(p)
    <3>1. pc'[p] \in UnlockedLabels
      BY <1>0, <2>5 DEF Shape, Continue, Goto, UnlockedLabels
    <3> QED BY <1>2, <2>1, <2>2, <2>5, <3>1
  <2>6. CASE UNCHANGED out /\ \E status : Exit(p, status)
    <3>1. pc'[p] = "exited"
      BY <1>0, <2>6 DEF Shape, Exit
    <3> QED BY <1>2, <2>1, <2>2, <2>6, <3>1
  <2> QED BY <2>3, <2>4, <2>5, <2>6
<1>12. CASE GenerateFinish(p)
  <2>1. /\ pc[p] \in UnlockedLabels
        /\ pc'[p] = "exited"
        /\ UNCHANGED << inv, port, out, device >>
    BY <1>0, <1>12
    DEF GenerateFinish, UnlockedLabels, Shape, Exit, worldVars, generateVars
  <2> QED BY <1>0, <1>2, <2>1 DEF OracleProc
<1> QED
  BY <1>3, <1>4, <1>5, <1>6, <1>7, <1>8, <1>9, <1>10, <1>11, <1>12
  DEF GenerateStep

\* What happens to a process that runs.
LEMMA FateSeen ==
    ASSUME OracleInv, NEW p \in Proc, Fate(p)
    PROVE  Quiet(p) \/ Start(p)
<1>0. Shape /\ OracleProc(p) /\ UNCHANGED << port, device, credentials, out >>
  BY DEF OracleInv, BindInv, TypeInv, Fate, authenticatorVars, enrolVars,
         generateVars
<1>1. CASE Kill(p) \/ OutOfMemory(p)
  <2>1. /\ Running(p)
        /\ pc'[p] \in {"exited", "killed"}
        /\ UNCHANGED inv
    BY <1>0, <1>1 DEF Kill, OutOfMemory, Shape, Goto, Exit
  <2> QED
    BY <1>0, <2>1
    DEF Quiet, Moves, BeforeCredential, GenerateLabels, LockedLabels,
        UnlockedLabels, OracleProc
<1> QED BY <1>1 DEF Fate

\* A process starts on one of its command lines.
Begins(p) ==
    /\ pc[p] = "ready"
    /\ \E c \in CommandLine[p] :
          /\ inv' = [inv EXCEPT ![p] = c]
          /\ pc'[p] = IF c.subcommand = "enrol" THEN "enrol: get_device"
                                                ELSE "generate: list_devices"
    /\ UNCHANGED << port, device, credentials, out >>

Seen(p) == Begins(p) \/ Quiet(p) \/ Makes(p) \/ Tells(p)

\* Every step of a process is one of the four, and disturbs no other process.
LEMMA StepSeen ==
    ASSUME OracleInv, NEW p \in Proc, Step(p) \/ Fate(p)
    PROVE  /\ Seen(p)
           /\ Shape'
           /\ \A q \in Proc \ {p} : Untouched(q)
<1>1. ASSUME Step(p) PROVE Seen(p)
  BY <1>1, EnrolSeen, GenerateSeen DEF Step, Seen
<1>2. ASSUME Start(p), Fate(p) PROVE Seen(p)
  <2>1. Shape
    BY DEF OracleInv, BindInv, TypeInv
  <2> QED
    BY <1>2, <2>1
    DEF Start, Fate, Seen, Begins, Shape, Goto, authenticatorVars, enrolVars,
        generateVars
<1>3. ASSUME Fate(p) PROVE Seen(p)
  BY <1>2, <1>3, FateSeen DEF Seen
<1>4. Shape' /\ \A q \in Proc \ {p} : Untouched(q)
  BY StepLocal DEF OracleInv, BindInv, TypeInv
<1> QED BY <1>1, <1>3, <1>4

\* What is asked is a question, and NULL before a process starts.
LEMMA AskedIsQuestion ==
    ASSUME OracleInv, NEW p \in Proc
    PROVE  /\ pc[p] = "ready" => inv[p] = NoInvocation
           /\ pc[p] # "ready" => inv[p] \in CommandLine[p]
           /\ \A c \in CommandLine[p] : c # NoInvocation /\ QuestionOf(c) # NULL
<1>1. BoundProc(p)
  BY DEF OracleInv, BindInv
<1>2. \A c \in CommandLine[p] : c.subcommand # NULL
  BY MachineAssumption DEF MachineAssumption
<1>3. NoInvocation.subcommand = NULL
  BY DEF NoInvocation
<1>4. \A c \in CommandLine[p] : c # NoInvocation
  BY <1>2, <1>3
<1>5. \A c \in CommandLine[p] : QuestionOf(c) # NULL
  BY KhefinAssumption DEF KhefinAssumption
<1> QED BY <1>1, <1>4, <1>5 DEF BoundProc

-----------------------------------------------------------------------------
(* The invariant is inductive *)

\* It holds at the start, where nothing is there.
LEMMA OracleInit == Init => OracleInv
  BY BindInit
  DEF Init, OracleInv, OracleProc, OneEach, NoHandle, LiveIsPresent,
      GenerateLabels, LockedLabels, UnlockedLabels

\* The steps of the processes.
LEMMA OracleStep ==
    ASSUME OracleInv, NEW p \in Proc, Step(p) \/ Fate(p)
    PROVE  OneEach' /\ \A q \in Proc : OracleProc(q)'
<1>0. /\ Seen(p)
      /\ Shape'
      /\ Shape
      /\ OracleProc(p)
      /\ \A q \in Proc \ {p} : Untouched(q)
      /\ UNCHANGED port
  BY StepSeen
  DEF OracleInv, BindInv, TypeInv, Seen, Begins, Quiet, Makes, Tells, Moves
<1>1. \/ UNCHANGED credentials
      \/ /\ pc[p] \in BeforeCredential
         /\ \E new : new.rp = p /\ credentials' = credentials \union {new}
  BY <1>0 DEF Seen, Begins, Quiet, Makes, Tells, BeforeCredential
<1>2. OneEach'
  BY <1>0, <1>1 DEF OneEach, OracleInv, OracleProc
<1>3. ASSUME NEW q \in Proc, q # p PROVE OracleProc(q)'
  <2>1. Untouched(q) /\ OracleProc(q)
    BY <1>0, <1>3 DEF OracleInv
  <2>2. pc[q] \in BeforeCredential => \A c \in credentials' : c.rp # q
    BY <1>1, <1>3, <2>1 DEF OracleProc
  <2>3. LiveIsPresent(device[q])'
    BY <1>0, <2>1 DEF OracleProc, Untouched, LiveIsPresent, Present
  <2> QED
    BY <2>1, <2>2, <2>3 DEF OracleProc, Untouched, Generates, Ended
<1>4. OracleProc(p)'
  <2>1. CASE Begins(p)
    <3>1. PICK c \in CommandLine[p] :
            /\ inv'[p] = c
            /\ pc'[p] = IF c.subcommand = "enrol" THEN "enrol: get_device"
                                                  ELSE "generate: list_devices"
      BY <1>0, <2>1 DEF Begins, Shape
    <3>2. pc'[p] \in GenerateLabels => Generates(p)'
      BY <3>1, MachineAssumption
      DEF MachineAssumption, Generates, GenerateLabels, LockedLabels,
          UnlockedLabels
    <3>3. \A c2 \in credentials' : c2.rp # p
      BY <1>0, <2>1 DEF Begins, OracleProc, BeforeCredential
    <3>4. LiveIsPresent(device[p])'
      BY <1>0, <2>1 DEF Begins, OracleProc, LiveIsPresent, Present
    <3>5. out'[p] = NULL
      BY <1>0, <2>1 DEF Begins, OracleProc, Ended
    <3> QED BY <3>2, <3>3, <3>4, <3>5 DEF OracleProc
  <2>2. ASSUME Moves(p)
        PROVE  /\ pc'[p] \in GenerateLabels => Generates(p)'
               /\ LiveIsPresent(device[p])'
               /\ UNCHANGED credentials /\ pc'[p] \in BeforeCredential =>
                     \A c \in credentials' : c.rp # p
               /\ out'[p] = out[p] => out'[p] = NULL
    BY <1>0, <2>2
    DEF Moves, OracleProc, Generates, LiveIsPresent, Present, Running
  <2>3. CASE Quiet(p)
    BY <2>2, <2>3 DEF Quiet, OracleProc
  <2>4. CASE Makes(p)
    BY <2>2, <2>4 DEF Makes, OracleProc, BeforeCredential
  <2>5. CASE Tells(p)
    BY <2>2, <2>5 DEF Tells, OracleProc, Ended
  <2> QED BY <1>0, <2>1, <2>3, <2>4, <2>5 DEF Seen
<1> QED BY <1>2, <1>3, <1>4

\* The steps of the world: no handle to a device that leaves stays live.
LEMMA OracleWorld ==
    ASSUME OracleInv, World
    PROVE  OneEach' /\ \A q \in Proc : OracleProc(q)'
<1>1. UNCHANGED << pc, inv, credentials, out >>
  BY WorldLocal DEF OracleInv, BindInv, enrolVars, generateVars
<1>2. ASSUME NEW q \in Proc
      PROVE  LiveIsPresent(device[q])'
  <2>0. /\ LiveIsPresent(device[q])
        /\ device[q] \in [id : Device \union {NULL}, live : BOOLEAN]
        /\ port \in [Port -> Device \union {NULL}]
    BY DEF OracleInv, OracleProc, BindInv, TypeInv, TypeOK
  <2>1. CASE UNCHANGED << port, device >>
    BY <2>0, <2>1 DEF LiveIsPresent, Present
  <2>2. ASSUME NEW x \in Port, NEW d \in Device, Plug(x, d)
        PROVE  LiveIsPresent(device[q])'
    <3>1. /\ port[x] = NULL
          /\ port' = [port EXCEPT ![x] = d]
          /\ UNCHANGED device
      BY <2>2 DEF Plug
    <3>2. NULL \notin Device
      BY AuthenticatorAssumption DEF AuthenticatorAssumption
    <3> QED BY <2>0, <3>1, <3>2 DEF LiveIsPresent, Present
  <2>3. ASSUME NEW x \in Port, Unplug(x)
        PROVE  LiveIsPresent(device[q])'
    <3>1. /\ port' = [port EXCEPT ![x] = NULL]
          /\ device'[q] = IF device[q].id = port[x]
                          THEN [device[q] EXCEPT !.live = FALSE]
                          ELSE device[q]
      BY <2>3 DEF Unplug
    <3> QED BY <2>0, <3>1 DEF LiveIsPresent, Present
  <2> QED
    BY <2>1, <2>2, <2>3 DEF World, Damage, authenticatorVars
<1> QED
  BY <1>1, <1>2 DEF OracleInv, OneEach, OracleProc, Generates, Ended

\* Every step keeps it.
LEMMA OracleNext == OracleInv /\ [Next]_vars => OracleInv'
<1> SUFFICES ASSUME OracleInv, [Next]_vars PROVE OracleInv'
  OBVIOUS
<1>1. BindInv'
  BY BindNext DEF OracleInv
<1>2. CASE UNCHANGED vars
  BY <1>1, <1>2
  DEF vars, machineVars, authenticatorVars, enrolVars, generateVars,
      OracleInv, OracleProc, OneEach, Generates, Ended, LiveIsPresent, Present
<1>3. CASE World
  BY <1>1, <1>3, OracleWorld DEF OracleInv
<1>4. ASSUME NEW p \in Proc, Step(p) \/ Fate(p) PROVE OracleInv'
  BY <1>1, <1>4, OracleStep DEF OracleInv
<1> QED BY <1>2, <1>3, <1>4 DEF Next, Idle

-----------------------------------------------------------------------------
(* What the oracle sees: the variables of SecretOracle, as Khefin maps     *)
(* them, and what they do in each action of the oracle.                    *)

Asked    == [p \in Proc |-> IF inv[p] = NoInvocation THEN NULL
                            ELSE QuestionOf(inv[p])]
EndedSet == { p \in Proc : Ended(p) }
Attached == { d \in Device : Present(d) }
Made     == [q \in Proc |-> EnrolledOn(q)]
Told     == [p \in Proc |-> Printed(p)]

IsOpen(p) == Asked[p] # NULL /\ p \notin EndedSet

\* A step that changes none of them is a stutter of the oracle.
LEMMA AsStutter ==
    ASSUME UNCHANGED << Asked, EndedSet, Attached, Made, Told >>
    PROVE  UNCHANGED Oracle!vars
  BY DEF Asked, EndedSet, Attached, Made, Told, Oracle!vars

\* Asking.
LEMMA AsAsk ==
    ASSUME NEW p \in Proc, NEW c \in CommandLine[p],
           Asked[p] = NULL, p \notin EndedSet,
           Asked' = [Asked EXCEPT ![p] = QuestionOf(c)],
           UNCHANGED << EndedSet, Attached, Made, Told >>
    PROVE  Oracle!Ask(p)
<1>1. QuestionOf(c) \in
          [q \in Proc |-> { QuestionOf(l) : l \in CommandLine[q] }][p]
  OBVIOUS
<1> QED BY <1>1 DEF Asked, EndedSet, Attached, Made, Told, Oracle!Ask

\* Ending without an answer.
LEMMA AsEnd ==
    ASSUME NEW p \in Proc, IsOpen(p),
           EndedSet' = EndedSet \union {p},
           UNCHANGED << Asked, Attached, Made, Told >>
    PROVE  Oracle!End(p)
  BY DEF IsOpen, Asked, EndedSet, Attached, Made, Told, Oracle!End, Oracle!Open

\* Enrolling an authenticator that is attached.
LEMMA AsEnrol ==
    ASSUME NEW p \in Proc, IsOpen(p), NEW d \in Attached,
           Asked[p].wants = "enrol",
           Made[p] = NULL, Made' = [Made EXCEPT ![p] = d],
           UNCHANGED << Asked, EndedSet, Attached, Told >>
    PROVE  Oracle!Enrol(p)
  BY DEF IsOpen, Asked, EndedSet, Attached, Made, Told, Oracle!Enrol,
         Oracle!Open

\* Answering, with the passphrase and the authenticator of an enrolment.
LEMMA AsAnswer ==
    ASSUME NEW p \in Proc, IsOpen(p), NEW q \in Proc,
           Asked[p].wants = "generate",
           Made[q] \in Attached,
           Asked[q].passphrase = Asked[p].passphrase,
           Told' = [Told EXCEPT ![p] =
                       [ credential |-> q, salt |-> q, device |-> Made[q],
                         mixin |-> Asked[p].mixin ]],
           EndedSet' = EndedSet \union {p},
           UNCHANGED << Asked, Attached, Made >>
    PROVE  Oracle!Answer(p)
  BY DEF IsOpen, Asked, EndedSet, Attached, Made, Told, Oracle!Answer,
         Oracle!Open, Oracle!Secret

\* Attaching and detaching.
LEMMA AsPlugging ==
    ASSUME NEW d \in Device,
           Attached' \in { Attached \union {d}, Attached \ {d} },
           UNCHANGED << Asked, EndedSet, Made, Told >>
    PROVE  Oracle!Attach(d) \/ Oracle!Detach(d)
  BY DEF Asked, EndedSet, Attached, Made, Told, Oracle!Attach, Oracle!Detach

-----------------------------------------------------------------------------
(* What each step does to them *)

\* With one credential for each enrolment, choosing one finds it.
LEMMA ChosenIsIt ==
    ASSUME NEW C, NEW c \in C, \A x, y \in C : x.rp = y.rp => x = y
    PROVE  (CHOOSE x \in C : x.rp = c.rp) = c
  OBVIOUS

\* The oracle sees nothing of what khefin leaves alone.
LEMMA NotSeen ==
    /\ UNCHANGED inv => UNCHANGED Asked
    /\ (\A q \in Proc : Ended(q)' = Ended(q)) => UNCHANGED EndedSet
    /\ UNCHANGED port => UNCHANGED Attached
    /\ UNCHANGED credentials => UNCHANGED Made
    /\ UNCHANGED out => UNCHANGED Told
<1>1. UNCHANGED inv => UNCHANGED Asked
  BY DEF Asked
<1>2. (\A q \in Proc : Ended(q)' = Ended(q)) => UNCHANGED EndedSet
  BY DEF EndedSet
<1>3. UNCHANGED port => UNCHANGED Attached
  BY DEF Attached, Present
<1>4. UNCHANGED credentials => UNCHANGED Made
  BY DEF Made, EnrolledOn
<1>5. UNCHANGED out => UNCHANGED Told
  BY DEF Told, Printed
<1> QED BY <1>1, <1>2, <1>3, <1>4, <1>5

\* A process that runs has an open question.
LEMMA RunningIsOpen ==
    ASSUME OracleInv, NEW p \in Proc, Running(p)
    PROVE  IsOpen(p) /\ Asked[p] = QuestionOf(inv[p])
<1>1. inv[p] \in CommandLine[p]
  BY AskedIsQuestion DEF Running
<1>2. inv[p] # NoInvocation /\ QuestionOf(inv[p]) # NULL
  BY <1>1, AskedIsQuestion
<1> QED BY <1>2 DEF IsOpen, Asked, EndedSet, Running

\* A process that moves on has ended, or none has ended that had not.
LEMMA EndedAfter ==
    ASSUME NEW p \in Proc, Running(p) \/ pc[p] = "ready",
           \A q \in Proc \ {p} : Untouched(q)
    PROVE  IF Ended(p)' THEN EndedSet' = EndedSet \union {p}
                        ELSE UNCHANGED EndedSet
<1>1. \A q \in Proc \ {p} : Ended(q)' = Ended(q)
  BY DEF Untouched, Ended
<1>2. ~Ended(p)
  BY DEF Running, Ended
<1> QED BY <1>1, <1>2 DEF EndedSet

\* A process that starts asks.
LEMMA BeginsAsks ==
    ASSUME OracleInv, Shape, NEW p \in Proc, Begins(p),
           \A q \in Proc \ {p} : Untouched(q)
    PROVE  Oracle!Ask(p)
<1>1. PICK c \in CommandLine[p] :
         /\ inv' = [inv EXCEPT ![p] = c]
         /\ pc'[p] = IF c.subcommand = "enrol" THEN "enrol: get_device"
                                               ELSE "generate: list_devices"
  BY DEF Begins
<1>2. Asked[p] = NULL /\ p \notin EndedSet
  BY AskedIsQuestion DEF Begins, Asked, EndedSet, Ended
<1>3. UNCHANGED << EndedSet, Attached, Made, Told >>
  <2>1. ~Ended(p)'
    BY <1>1 DEF Ended
  <2> QED BY <2>1, EndedAfter, NotSeen DEF Begins
<1>4. Asked' = [Asked EXCEPT ![p] = QuestionOf(c)]
  <2>1. c # NoInvocation
    BY AskedIsQuestion
  <2> QED BY <1>1, <2>1 DEF Asked, Shape
<1> QED BY <1>2, <1>3, <1>4, AsAsk

\* A process that goes on quietly does nothing the oracle sees, or ends.
LEMMA QuietEnds ==
    ASSUME OracleInv, NEW p \in Proc, Quiet(p),
           \A q \in Proc \ {p} : Untouched(q)
    PROVE  Oracle!End(p) \/ UNCHANGED Oracle!vars
<1>1. UNCHANGED << Asked, Attached, Made, Told >>
  BY NotSeen DEF Quiet, Moves
<1>2. IsOpen(p)
  BY RunningIsOpen DEF Quiet, Moves
<1>3. \/ EndedSet' = EndedSet \union {p}
      \/ UNCHANGED EndedSet
  BY EndedAfter DEF Quiet, Moves
<1> QED BY <1>1, <1>2, <1>3, AsEnd, AsStutter

\* A credential is an enrolment, on an authenticator that is attached.
LEMMA MakesEnrols ==
    ASSUME OracleInv, OneEach', NEW p \in Proc, Makes(p),
           \A q \in Proc \ {p} : Untouched(q)
    PROVE  Oracle!Enrol(p)
<1> DEFINE d == device[p].id
           new == [device |-> d, rp |-> p]
<1>1. /\ Running(p)
      /\ UNCHANGED << Asked, Attached, Told >>
  BY NotSeen DEF Makes, Moves
<1>2. UNCHANGED EndedSet
  <2>1. ~Ended(p)'
    BY DEF Makes, Ended
  <2> QED BY <1>1, <2>1, EndedAfter
<1>3. IsOpen(p) /\ Asked[p].wants = "enrol"
  <2>1. inv[p].subcommand = "enrol"
    BY DEF OracleInv, BindInv, BoundProc, Makes, EnrolLabels, Enrols
  <2>2. IsOpen(p) /\ Asked[p] = QuestionOf(inv[p])
    BY <1>1, RunningIsOpen
  <2>3. Asked[p].wants = "enrol"
    BY <2>1, <2>2 DEF QuestionOf
  <2> QED BY <2>2, <2>3
<1>4. d \in Attached
  BY DEF OracleInv, OracleProc, LiveIsPresent, Makes, Attached
<1>5. Made[p] = NULL
  <2>1. \A c \in credentials : c.rp # p
    BY DEF OracleInv, OracleProc, Makes, BeforeCredential
  <2> QED BY <2>1 DEF Made, EnrolledOn
<1>6. Made' = [Made EXCEPT ![p] = d]
  <2>1. EnrolledOn(p)' = d
    <3>1. new \in credentials' /\ new.rp = p /\ new.device = d
      BY DEF Makes
    <3> HIDE DEF new
    <3>2. (CHOOSE c \in credentials' : c.rp = p) = new
      BY <3>1, ChosenIsIt DEF OneEach
    <3> QED BY <3>1, <3>2 DEF EnrolledOn
  <2>2. ASSUME NEW q \in Proc, q # p PROVE EnrolledOn(q)' = EnrolledOn(q)
    <3>1. \A c : (c \in credentials' /\ c.rp = q) <=>
                 (c \in credentials /\ c.rp = q)
      <4>1. new.rp = p /\ credentials' = credentials \union {new}
        BY DEF Makes
      <4> HIDE DEF new
      <4> QED BY <2>2, <4>1
    <3>2. CASE \A c \in credentials : c.rp # q
      BY <3>1, <3>2 DEF EnrolledOn
    <3>3. ASSUME NEW c \in credentials, c.rp = q
          PROVE  EnrolledOn(q)' = EnrolledOn(q)
      <4>1. (CHOOSE x \in credentials : x.rp = q) = c
        BY <3>3, ChosenIsIt DEF OracleInv, OneEach
      <4>2. c \in credentials' /\ (CHOOSE x \in credentials' : x.rp = q) = c
        BY <3>1, <3>3, ChosenIsIt DEF OneEach
      <4> QED BY <3>3, <4>1, <4>2 DEF EnrolledOn
    <3> QED BY <3>2, <3>3
  <2> HIDE DEF d
  <2> QED BY <2>1, <2>2 DEF Made
<1> HIDE DEF d
<1> QED BY <1>1, <1>2, <1>3, <1>4, <1>5, <1>6, AsEnrol

\* A secret is an answer, with both factors; when printing it fails, it is
\* none.
LEMMA TellsAnswers ==
    ASSUME OracleInv, NEW p \in Proc, Tells(p),
           \A q \in Proc \ {p} : Untouched(q)
    PROVE  Oracle!Answer(p) \/ Oracle!End(p)
<1>0. /\ Shape /\ OneEach
      /\ BoundProc(p)
      /\ credentials \subseteq [device : Device, rp : Proc]
  BY DEF OracleInv, BindInv, TypeInv, TypeOK
<1>1. /\ Running(p)
      /\ UNCHANGED << Asked, Attached, Made >>
  BY NotSeen DEF Tells, Moves
<1>2. EndedSet' = EndedSet \union {p}
  <2>1. Ended(p)'
    BY DEF Tells, Ended
  <2> QED BY <1>1, <2>1, EndedAfter
<1>3. /\ IsOpen(p) /\ Asked[p].wants = "generate"
      /\ Asked[p].passphrase = inv[p].passphrase
      /\ Asked[p].mixin = inv[p].mixin
  <2>1. inv[p].subcommand = "generate"
    BY DEF OracleInv, OracleProc, Tells, GenerateLabels, Generates
  <2>2. IsOpen(p) /\ Asked[p] = QuestionOf(inv[p])
    BY <1>1, RunningIsOpen
  <2>3. /\ Asked[p].wants = "generate"
        /\ Asked[p].passphrase = inv[p].passphrase
        /\ Asked[p].mixin = inv[p].mixin
    BY <2>1, <2>2 DEF QuestionOf
  <2> QED BY <2>2, <2>3
<1>4. PICK q \in Proc, credential \in credentials :
         /\ EnrolledAs(q, inv[p].passphrase, credential, inv, credentials)
         /\ params[p].credential_id.val = credential
         /\ params[p].salt.val = [base |-> q, mixin |-> inv[p].mixin]
  BY <1>0 DEF Tells, BoundProc, ParamsBound, ParamsFrom
<1>5. Asked[q].passphrase = inv[p].passphrase
  <2>1. inv[q] # NoInvocation
    BY <1>4, MachineAssumption
    DEF EnrolledAs, NoInvocation, MachineAssumption
  <2> QED BY <1>4, <2>1 DEF Asked, QuestionOf, EnrolledAs
<1>6. Made[q] = credential.device
  <2>1. credential.rp = q
    BY <1>4 DEF EnrolledAs
  <2>2. (CHOOSE x \in credentials : x.rp = q) = credential
    BY <1>0, <2>1, ChosenIsIt DEF OneEach
  <2> QED BY <2>1, <2>2 DEF Made, EnrolledOn
<1>7. Made[q] \in Attached
  <2>1. credential.device = device[p].id /\ credential.device \in Device
    BY <1>0, <1>4 DEF Tells
  <2> QED
    BY <1>6, <2>1 DEF OracleInv, OracleProc, LiveIsPresent, Tells, Attached
<1> DEFINE secret == Hmac(credential, [base |-> q, mixin |-> inv[p].mixin])
<1>8. out' = [out EXCEPT ![p] = secret]
  BY <1>4 DEF Tells
<1>9. CASE secret = NULL
  <2>1. out[p] = NULL
    BY <1>1 DEF OracleInv, OracleProc, Running
  <2>2. UNCHANGED Told
    BY <1>0, <1>8, <1>9, <2>1 DEF Shape, Told, Printed
  <2> QED BY <1>1, <1>2, <1>3, <2>2, AsEnd
<1>10. CASE secret # NULL
  <2>1. /\ secret.credential = credential
        /\ secret.salt.base = q
        /\ secret.salt.mixin = inv[p].mixin
    BY DEF Hmac
  <2>2. credential.rp = q
    BY <1>4 DEF EnrolledAs
  <2> HIDE DEF secret
  <2>3. Printed(p)' = [ credential |-> q, salt |-> q, device |-> Made[q],
                        mixin |-> Asked[p].mixin ]
    BY <1>0, <1>3, <1>6, <1>8, <1>10, <2>1, <2>2 DEF Shape, Printed
  <2>4. \A r \in Proc \ {p} : Printed(r)' = Printed(r)
    BY <1>0, <1>8 DEF Shape, Printed
  <2>5. Told' = [Told EXCEPT ![p] =
                   [ credential |-> q, salt |-> q, device |-> Made[q],
                     mixin |-> Asked[p].mixin ]]
    BY <2>3, <2>4 DEF Told
  <2> QED BY <1>1, <1>2, <1>3, <1>5, <1>7, <2>5, AsAnswer
<1> QED BY <1>9, <1>10

\* The world attaches and detaches one authenticator, or damages a keyfile,
\* which the oracle does not see.
LEMMA WorldPlugs ==
    ASSUME OracleInv, World
    PROVE  \/ \E d \in Device : Oracle!Attach(d) \/ Oracle!Detach(d)
           \/ UNCHANGED Oracle!vars
<1>0. /\ port \in [Port -> Device \union {NULL}]
      /\ NULL \notin Device
  BY AuthenticatorAssumption
  DEF AuthenticatorAssumption, OracleInv, BindInv, TypeInv, TypeOK
<1>1. UNCHANGED << Asked, EndedSet, Made, Told >>
  BY WorldLocal, NotSeen
  DEF OracleInv, BindInv, enrolVars, generateVars, World, Damage, Plug, Unplug,
      machineVars, Ended
<1>2. CASE UNCHANGED port
  BY <1>1, <1>2, NotSeen, AsStutter
<1>3. ASSUME NEW x \in Port, NEW d \in Device, Plug(x, d)
      PROVE  Oracle!Attach(d) \/ Oracle!Detach(d)
  <2>1. Attached' = Attached \union {d}
    BY <1>0, <1>3 DEF Plug, Attached, Present
  <2> QED BY <1>1, <2>1, AsPlugging
<1>4. ASSUME NEW x \in Port, Unplug(x)
      PROVE  \/ \E d \in Device : Oracle!Attach(d) \/ Oracle!Detach(d)
             \/ UNCHANGED Oracle!vars
  <2> DEFINE d == port[x]
  <2>1. d \in Device /\ port' = [port EXCEPT ![x] = NULL]
    BY <1>0, <1>4 DEF Unplug
  <2>2. Attached' \in { Attached \union {d}, Attached \ {d} }
    <3>1. ASSUME NEW y \in Port, y # x, port[y] = d PROVE UNCHANGED Attached
      BY <1>0, <2>1, <3>1 DEF Attached, Present
    <3>2. ASSUME \A y \in Port : port[y] = d => y = x
          PROVE  Attached' = Attached \ {d}
      BY <1>0, <2>1, <3>2 DEF Attached, Present
    <3>3. d \in Attached
      BY <2>1 DEF Attached, Present
    <3> QED BY <3>1, <3>2, <3>3
  <2> HIDE DEF d
  <2> QED BY <1>1, <2>1, <2>2, AsPlugging
<1> QED BY <1>2, <1>3, <1>4 DEF World, Damage, authenticatorVars

-----------------------------------------------------------------------------
(* The theorem *)

\* The oracle starts where khefin does.
LEMMA OracleStarts == Init => Oracle!Init
<1> SUFFICES ASSUME Init PROVE Oracle!Init
  OBVIOUS
<1>1. \A p \in Proc : Printed(p) = NULL /\ EnrolledOn(p) = NULL /\ ~Ended(p)
  BY DEF Init, Printed, EnrolledOn, Ended
<1> QED BY <1>1 DEF Init, Oracle!Init

\* Every step of khefin is a step of the oracle, or none.
LEMMA OracleSteps == OracleInv /\ [Next]_vars => [Oracle!Next]_(Oracle!vars)
<1> SUFFICES ASSUME OracleInv, [Next]_vars
             PROVE  Oracle!Next \/ UNCHANGED Oracle!vars
  OBVIOUS
<1>1. CASE UNCHANGED vars
  BY <1>1, NotSeen, AsStutter
  DEF vars, machineVars, authenticatorVars, enrolVars, generateVars, Ended
<1>2. CASE World
  BY <1>2, WorldPlugs DEF Oracle!Next
<1>3. ASSUME NEW p \in Proc, Step(p) \/ Fate(p)
      PROVE  Oracle!Next \/ UNCHANGED Oracle!vars
  <2>1. /\ Seen(p)
        /\ \A q \in Proc \ {p} : Untouched(q)
        /\ OneEach'
        /\ Shape
    BY <1>3, StepSeen, OracleStep DEF OracleInv, BindInv, TypeInv
  <2>2. \/ Oracle!Ask(p) \/ Oracle!Enrol(p) \/ Oracle!Answer(p) \/ Oracle!End(p)
        \/ UNCHANGED Oracle!vars
    BY <2>1, BeginsAsks, QuietEnds, MakesEnrols, TellsAnswers DEF Seen
  <2> QED BY <2>2 DEF Oracle!Next
<1> QED BY <1>1, <1>2, <1>3 DEF Next, Idle

\* khefin implements the oracle for secrets: whatever processes, keyfiles and
\* devices there are, and whatever happens to them, a secret is told only to
\* who asks with the passphrase of an enrolment while the authenticator of
\* that enrolment is attached, and it is the secret of that enrolment for the
\* mixin asked with.
THEOREM KhefinImplementsOracle == Spec => Oracle!Spec
<1>1. Init => Oracle!Init
  BY OracleStarts
<1>2. OracleInv /\ [Next]_vars => [Oracle!Next]_(Oracle!vars)
  BY OracleSteps
<1> QED BY <1>1, <1>2, OracleInit, OracleNext, PTL DEF Spec, Oracle!Spec

=============================================================================
