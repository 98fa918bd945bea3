----------------------------- MODULE Enumerate -----------------------------
(***************************************************************************)
(* khefin enumerate (src/enumerate.c, and what main and                    *)
(* src/authenticator.c do for it): list the devices, then open one after   *)
(* the other to print a line about each.  The names in a line are those of *)
(* the list, the mark and the AAGUID those of the device that answered.    *)
(***************************************************************************)
EXTENDS Authenticator

VARIABLES
    listed,   \* the devices_list_t of each process: a path and a device
    i,        \* the position of each process in it, from 1
    lines     \* what each process has printed

enumerateVars == << listed, i, lines >>

vars == << machineVars, authenticatorVars, enumerateVars >>

Init ==
    /\ pc = [p \in Proc |-> "ready"]
    /\ exit = [p \in Proc |-> EXIT_SUCCESS]
    /\ inv = [p \in Proc |-> NULL]
    /\ held = [p \in Proc |-> {}]
    /\ cleartext = [p \in Proc |-> NULL]
    /\ disk = [f \in File |-> NULL]
    /\ damages = [f \in File |-> 0]
    /\ port \in Plugged
    /\ hotplugs = 0
    /\ retries = [d \in Device |-> MaxPinRetries]
    /\ device = [p \in Proc |-> NoHandle]
    /\ params = [p \in Proc |-> NoParams]
    /\ listed = [p \in Proc |-> << >>]
    /\ i = [p \in Proc |-> 1]
    /\ lines = [p \in Proc |-> << >>]

unchangedVars == << inv, held, cleartext, disk, damages, params, worldVars >>

-----------------------------------------------------------------------------
(* The program *)

EnumerateStart(p) ==
    /\ pc[p] = "ready"
    /\ Goto(p, "enumerate: list_devices")
    /\ UNCHANGED << unchangedVars, device, enumerateVars >>

EnumerateListDevices(p) ==
    /\ pc[p] = "enumerate: list_devices"
    /\ \E result \in list_devices_results :
          /\ Proceed(p, result.status, "enumerate: get_device")
          /\ listed' = [listed EXCEPT ![p] =
                           [k \in DOMAIN result.list |->
                               [ path   |-> result.list[k],
                                 device |-> port[result.list[k]] ]]]
    /\ UNCHANGED << unchangedVars, device, i, lines >>

\* Mutant: only the devices that generate could use are opened.
get_device_even_if_not_fido2_statuses_strict(x) ==
    IF port[x] \in HmacSecret THEN {EXIT_SUCCESS} ELSE {EXIT_NO_DEVICES}

\* A device that is not FIDO2 opens too.
get_device_even_if_not_fido2_statuses(x) ==
    IF port[x] # NULL
    THEN {EXIT_SUCCESS} \union Glitch(EXIT_AUTHENTICATOR_ERROR)
    ELSE {EXIT_AUTHENTICATOR_ERROR}

\* Mutant: a device that does not open is opened again.
EnumerateGetDevice_again(p) ==
    /\ pc[p] = "enumerate: get_device"
    /\ i[p] <= Len(listed[p])
    /\ LET x == listed[p][i[p]].path IN
       \E status \in get_device_even_if_not_fido2_statuses(x) :
          /\ Goto(p, IF status = EXIT_SUCCESS THEN "enumerate: get_device_info"
                                              ELSE "enumerate: get_device")
          /\ device' = [device EXCEPT ![p] = HandleAfter(p, x, status)]
    /\ UNCHANGED << unchangedVars, enumerateVars >>

EnumerateGetDevice(p) ==
    /\ pc[p] = "enumerate: get_device"
    /\ i[p] <= Len(listed[p])
    /\ LET x == listed[p][i[p]].path IN
       \E status \in get_device_even_if_not_fido2_statuses(x) :
          /\ Proceed(p, status, "enumerate: get_device_info")
          /\ device' = [device EXCEPT ![p] = HandleAfter(p, x, status)]
    /\ UNCHANGED << unchangedVars, enumerateVars >>

\* A device that is not FIDO2 need not know the request for its info.
InfoStatuses(p) ==
    get_device_info_statuses(p)
    \union IF device[p].id \in Fido2 THEN {} ELSE {EXIT_AUTHENTICATOR_ERROR}

\* Mutant: the mark says whether the device is FIDO2.
device_supported_fido2(p) == device[p].id \in Fido2

device_supported(p) ==
    device[p].id \in Fido2 /\ device_supports_hmac_secret(p)

LineOf(p) ==
    [ mark   |-> IF device_supported(p) THEN " " ELSE "!",
      path   |-> listed[p][i[p]].path,
      name   |-> listed[p][i[p]].device,
      aaguid |-> Aaguid[device[p].id] ]

EnumerateGetDeviceInfo(p) ==
    /\ pc[p] = "enumerate: get_device_info"
    /\ \E status \in InfoStatuses(p) :
          IF status = EXIT_SUCCESS
          THEN /\ Goto(p, "enumerate: get_device")
               /\ lines' = [lines EXCEPT ![p] = Append(@, LineOf(p))]
               /\ i' = [i EXCEPT ![p] = @ + 1]
               /\ device' = [device EXCEPT ![p] = NoHandle]
          ELSE Exit(p, status) /\ UNCHANGED << lines, i, device >>
    /\ UNCHANGED << unchangedVars, listed >>

EnumerateFinish(p) ==
    /\ pc[p] = "enumerate: get_device"
    /\ i[p] > Len(listed[p])
    /\ Exit(p, IF listed[p] = << >> THEN EXIT_NO_DEVICES ELSE EXIT_SUCCESS)
    /\ UNCHANGED << unchangedVars, device, enumerateVars >>

EnumerateStep(p) ==
    \/ EnumerateListDevices(p)
    \/ EnumerateGetDevice(p)
    \/ EnumerateGetDeviceInfo(p)
    \/ EnumerateFinish(p)

Next ==
    \/ \E p \in Proc :
          \/ EnumerateStart(p)
          \/ EnumerateStep(p)
          \/ (Kill(p) \/ OutOfMemory(p)) /\ UNCHANGED << authenticatorVars,
                                                          enumerateVars >>
    \/ \E x \in Port : /\ Unplug(x) \/ \E d \in Device : Plug(x, d)
                       /\ UNCHANGED enumerateVars
    \/ (\A p \in Proc : Ended(p)) /\ UNCHANGED vars

Spec == Init /\ [][Next]_vars

\* As for enrol and generate: what can go on goes on.
FairSpec == Spec /\ \A p \in Proc : WF_vars(EnumerateStep(p))

-----------------------------------------------------------------------------
(* What makes enumerate correct *)

\* The status 0 comes after one line for every device of the list, in its
\* order, and 34, which the scripts look for, only when the list was empty:
\* no device that failed, moved or is not supported makes it look so.
OneLineEach ==
    \A p \in Proc :
        /\ Exited(p, EXIT_SUCCESS) =>
              /\ listed[p] # << >>
              /\ [k \in DOMAIN lines[p] |-> lines[p][k].path]
                    = [k \in DOMAIN listed[p] |-> listed[p][k].path]
        /\ Exited(p, EXIT_NO_DEVICES) => listed[p] = << >>

\* A line says of the device it names what is true of it: the mark, and the
\* AAGUID, while the devices stay where they are.
LinesAreTrue ==
    hotplugs = 0 =>
        \A p \in Proc : \A k \in DOMAIN lines[p] :
            LET line == lines[p][k] IN
            /\ line.mark = " " <=> line.name \in HmacSecret
            /\ line.aaguid = Aaguid[line.name]

\* An enumerate that has started ends.
EnumerateEnds == \A p \in Proc : Running(p) ~> Ended(p)

\* CHANGELOG.md:25: enumerate prints devices even if they are not FIDO2.
NotFido2Printed ==
    \A p \in Proc :
        Exited(p, EXIT_AUTHENTICATOR_ERROR) => Len(lines[p]) = Len(listed[p])

=============================================================================
