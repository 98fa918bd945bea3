-------------------------- MODULE EnumerateProofs --------------------------
(***************************************************************************)
(* What enumerate prints, for any devices at any ports that fail, come and *)
(* go in any way: one line for each device of the list before it succeeds, *)
(* and true ones while the devices stay where they are.                    *)
(*                                                                         *)
(* The argument is the invariant of the loop: the lines so far are those   *)
(* of the entries before the one at hand.                                  *)
(***************************************************************************)
EXTENDS Enumerate, FiniteSetTheorems, TLAPS

-----------------------------------------------------------------------------
(* The invariant *)

IsSeq(s) == s \in Seq({ s[n] : n \in DOMAIN s })

\* Nothing is printed until the list is there.
Before == { "ready", "enumerate: list_devices" }

\* The lines are those of the entries already passed.
InOrder(p) ==
    /\ IsSeq(listed[p])
    /\ IsSeq(lines[p])
    /\ i[p] = Len(lines[p]) + 1
    /\ Len(lines[p]) <= Len(listed[p])
    /\ \A k \in DOMAIN lines[p] : lines[p][k].path = listed[p][k].path

\* A device is open only within the list, and the status tells how far the
\* list went.
Placed(p) ==
    /\ pc[p] \in Before => lines[p] = << >>
    /\ pc[p] = "enumerate: get_device_info" => i[p] <= Len(listed[p])
    /\ Exited(p, EXIT_SUCCESS) => i[p] > Len(listed[p]) /\ listed[p] # << >>
    /\ Exited(p, EXIT_NO_DEVICES) => listed[p] = << >>

TrueLine(line) ==
    /\ line.mark = " " <=> line.name \in HmacSecret
    /\ line.aaguid = Aaguid[line.name]

\* As long as nothing was plugged or unplugged, the list is right, and the
\* device that is open is the one whose entry is at hand.
AsListed(p) ==
    /\ \A k \in DOMAIN listed[p] :
          listed[p][k].device = port[listed[p][k].path]
    /\ pc[p] = "enumerate: get_device_info" =>
          device[p].id = listed[p][i[p]].device
    /\ \A k \in DOMAIN lines[p] : TrueLine(lines[p][k])

ProcInv(p) ==
    /\ InOrder(p)
    /\ Placed(p)
    /\ hotplugs = 0 => AsListed(p)

Inv ==
    /\ DOMAIN pc = Proc     /\ DOMAIN exit = Proc    /\ DOMAIN device = Proc
    /\ DOMAIN listed = Proc /\ DOMAIN i = Proc       /\ DOMAIN lines = Proc
    /\ hotplugs \in Nat
    /\ \A p \in Proc : ProcInv(p)

-----------------------------------------------------------------------------
(* Sequences *)

LEMMA NoEntries == IsSeq(<< >>) /\ Len(<< >>) = 0 /\ DOMAIN << >> = {}
BY DEF IsSeq

LEMMA SeqFacts ==
    ASSUME NEW s, IsSeq(s)
    PROVE  Len(s) \in Nat /\ DOMAIN s = 1 .. Len(s)
BY DEF IsSeq

\* What was in a sequence stays where it is when one more is appended.
LEMMA Appended ==
    ASSUME NEW s, IsSeq(s), NEW e
    PROVE  /\ IsSeq(Append(s, e))
           /\ Len(Append(s, e)) = Len(s) + 1
           /\ \A k \in DOMAIN s : Append(s, e)[k] = s[k]
           /\ Append(s, e)[Len(s) + 1] = e
<1> DEFINE S == { s[n] : n \in DOMAIN s }
           t == Append(s, e)
<1>1. /\ s \in Seq(S \union {e})
      /\ DOMAIN s = 1 .. Len(s)
      /\ Len(s) \in Nat
  BY DEF IsSeq
<1>2. /\ t \in Seq(S \union {e})
      /\ DOMAIN t = 1 .. Len(s) + 1
      /\ Len(t) = Len(s) + 1
      /\ \A n \in 1 .. Len(s) : t[n] = s[n]
      /\ t[Len(s) + 1] = e
  BY <1>1
<1> HIDE DEF t
<1>3. S \union {e} = { t[n] : n \in DOMAIN t }
  BY <1>1, <1>2
<1>4. IsSeq(t)
  BY <1>2, <1>3 DEF IsSeq
<1> QED BY <1>1, <1>2, <1>4 DEF t

\* The entries of a list of devices are a sequence.
LEMMA ListIsSeq ==
    ASSUME NEW result \in list_devices_results,
           NEW s, s = [k \in DOMAIN result.list |->
                          [ path   |-> result.list[k],
                            device |-> port[result.list[k]] ]]
    PROVE  IsSeq(s)
<1> DEFINE Occupied == { x \in Port : port[x] # NULL }
<1>1. Cardinality(Occupied) \in Nat
  BY AuthenticatorAssumption, FS_Subset, FS_CardinalityType
<1>2. \E n \in Nat : DOMAIN result.list = 1 .. n
  <2>1. CASE result.list \in Manifests
    BY <1>1, <2>1, AuthenticatorAssumption DEF Manifests
  <2>2. CASE result.list = << >>
    BY <2>2
  <2> QED BY <2>1, <2>2 DEF list_devices_results, Glitch
<1>3. \E n \in Nat : DOMAIN s = 1 .. n /\ s = [k \in 1 .. n |-> s[k]]
  BY <1>2
<1> QED BY <1>3 DEF IsSeq

-----------------------------------------------------------------------------
(* A process that does not take the step *)

\* What is its own stays.
LEMMA OthersInv ==
    ASSUME Inv, NEW q \in Proc, hotplugs' \in Nat,
           hotplugs' = 0 => hotplugs = 0 /\ port' = port,
           pc'[q] = pc[q], exit'[q] = exit[q], listed'[q] = listed[q],
           i'[q] = i[q], lines'[q] = lines[q],
           device'[q].id = device[q].id
    PROVE  ProcInv(q)'
<1>1. ProcInv(q)
  BY DEF Inv
<1>2. InOrder(q)'
  BY <1>1 DEF ProcInv, InOrder
<1>3. Placed(q)'
  BY <1>1 DEF ProcInv, Placed, Exited
<1>4. (hotplugs = 0 => AsListed(q))'
  BY <1>1 DEF ProcInv, AsListed
<1> QED BY <1>2, <1>3, <1>4 DEF ProcInv

\* A step of one process keeps Inv if it keeps what Inv says of that one.
LEMMA StepEnough ==
    ASSUME Inv, NEW p \in Proc, EnumerateStart(p) \/ EnumerateStep(p)
                                \/ (/\ Kill(p) \/ OutOfMemory(p)
                                    /\ UNCHANGED << authenticatorVars,
                                                    enumerateVars >>),
           ProcInv(p)'
    PROVE  Inv'
<1> USE DEF Inv, Goto, Exit, Proceed, unchangedVars, enumerateVars,
            machineVars, worldVars, authenticatorVars
<1>1. /\ DOMAIN pc' = Proc      /\ DOMAIN exit' = Proc
      /\ DOMAIN device' = Proc  /\ DOMAIN listed' = Proc
      /\ DOMAIN i' = Proc       /\ DOMAIN lines' = Proc
      /\ UNCHANGED << port, hotplugs >>
      /\ \A q \in Proc \ {p} :
            /\ pc'[q] = pc[q]         /\ exit'[q] = exit[q]
            /\ listed'[q] = listed[q] /\ i'[q] = i[q]
            /\ lines'[q] = lines[q]   /\ device'[q].id = device[q].id
  <2>1. CASE EnumerateStart(p)
    BY <2>1 DEF EnumerateStart
  <2>2. CASE EnumerateListDevices(p)
    BY <2>2 DEF EnumerateListDevices
  <2>3. CASE EnumerateGetDevice(p)
    BY <2>3 DEF EnumerateGetDevice
  <2>4. CASE EnumerateGetDeviceInfo(p)
    BY <2>4 DEF EnumerateGetDeviceInfo
  <2>5. CASE EnumerateFinish(p)
    BY <2>5 DEF EnumerateFinish
  <2>6. CASE /\ Kill(p) \/ OutOfMemory(p)
             /\ UNCHANGED << authenticatorVars, enumerateVars >>
    BY <2>6 DEF Kill, OutOfMemory
  <2> QED BY <2>1, <2>2, <2>3, <2>4, <2>5, <2>6 DEF EnumerateStep
<1>2. ASSUME NEW q \in Proc PROVE ProcInv(q)'
  <2>1. CASE q = p
    BY <2>1
  <2>2. CASE q # p
    BY <1>1, <2>2, OthersInv
  <2> QED BY <2>1, <2>2
<1> QED BY <1>1, <1>2

-----------------------------------------------------------------------------
(* The steps of a process *)

LEMMA Statuses ==
    /\ EXIT_AUTHENTICATOR_ERROR \notin {EXIT_SUCCESS, EXIT_NO_DEVICES}
    /\ EXIT_OUT_OF_MEMORY \notin {EXIT_SUCCESS, EXIT_NO_DEVICES}
    /\ EXIT_NO_DEVICES # EXIT_SUCCESS
BY DEF EXIT_AUTHENTICATOR_ERROR, EXIT_OUT_OF_MEMORY, EXIT_SUCCESS,
       EXIT_NO_DEVICES, EXIT_H_RUNTIME_ERROR_BITS, EXIT_H_USER_ERROR_BITS

\* Steps that neither list nor print.
LEMMA NothingPrinted ==
    ASSUME Inv, NEW p \in Proc, UNCHANGED << enumerateVars, port, hotplugs >>,
           pc'[p] \in Before => pc[p] \in Before,
           pc'[p] = "enumerate: get_device_info" =>
              /\ i[p] <= Len(listed[p])
              /\ hotplugs = 0 => device'[p].id = listed[p][i[p]].device,
           Exited(p, EXIT_SUCCESS)' =>
              i[p] > Len(listed[p]) /\ listed[p] # << >>,
           Exited(p, EXIT_NO_DEVICES)' => listed[p] = << >>
    PROVE  ProcInv(p)'
<1>1. ProcInv(p)
  BY DEF Inv
<1>2. InOrder(p)'
  BY <1>1 DEF ProcInv, InOrder, enumerateVars
<1>3. Placed(p)'
  BY <1>1 DEF ProcInv, Placed, enumerateVars
<1>4. (hotplugs = 0 => AsListed(p))'
  BY <1>1 DEF ProcInv, AsListed, enumerateVars
<1> QED BY <1>2, <1>3, <1>4 DEF ProcInv

LEMMA ListsInv ==
    ASSUME Inv, NEW p \in Proc, EnumerateListDevices(p)
    PROVE  ProcInv(p)'
<1>1. PICK result \in list_devices_results :
         /\ Proceed(p, result.status, "enumerate: get_device")
         /\ listed' = [listed EXCEPT ![p] =
                          [k \in DOMAIN result.list |->
                              [ path   |-> result.list[k],
                                device |-> port[result.list[k]] ]]]
  BY DEF EnumerateListDevices
<1>2. /\ lines[p] = << >>
      /\ i[p] = 1
      /\ UNCHANGED << port, i, lines >>
  <2>1. lines[p] = << >>
    BY DEF EnumerateListDevices, Inv, ProcInv, Placed, Before
  <2>2. i[p] = Len(lines[p]) + 1
    BY DEF Inv, ProcInv, InOrder
  <2>3. i[p] = 1
    BY <2>1, <2>2, NoEntries
  <2> QED BY <2>1, <2>3 DEF EnumerateListDevices, unchangedVars, worldVars
<1>3. listed'[p] = [k \in DOMAIN result.list |->
                       [ path   |-> result.list[k],
                         device |-> port[result.list[k]] ]]
  BY <1>1 DEF Inv
<1>4. IsSeq(listed'[p])
  BY <1>3, ListIsSeq
<1>5. InOrder(p)'
  <2>1. Len(listed'[p]) \in Nat
    BY <1>4, SeqFacts
  <2>2. IsSeq(lines'[p]) /\ Len(lines'[p]) = 0 /\ DOMAIN lines'[p] = {}
    BY <1>2, NoEntries
  <2> QED BY <1>2, <1>4, <2>1, <2>2 DEF InOrder
<1>6. /\ result.status \in {EXIT_SUCCESS, EXIT_AUTHENTICATOR_ERROR}
      /\ result.status = EXIT_SUCCESS => pc'[p] = "enumerate: get_device"
      /\ result.status # EXIT_SUCCESS =>
            pc'[p] = "exited" /\ exit'[p] = result.status
  <2>1. result.status \in {EXIT_SUCCESS, EXIT_AUTHENTICATOR_ERROR}
    BY DEF list_devices_results, Glitch
  <2> QED BY <1>1, <2>1 DEF Inv, Proceed, Goto, Exit
<1>7. Placed(p)'
  BY <1>6, Statuses DEF Placed, Exited, Before
<1>8. AsListed(p)'
  <2>1. \A k \in DOMAIN listed'[p] :
           listed'[p][k].device = port'[listed'[p][k].path]
    BY <1>2, <1>3
  <2>2. DOMAIN lines'[p] = {}
    BY <1>2, NoEntries
  <2>3. pc'[p] # "enumerate: get_device_info"
    BY <1>6
  <2> QED BY <2>1, <2>2, <2>3 DEF AsListed
<1> QED BY <1>5, <1>7, <1>8 DEF ProcInv

LEMMA OpensInv ==
    ASSUME Inv, NEW p \in Proc, EnumerateGetDevice(p)
    PROVE  ProcInv(p)'
<1> DEFINE x == listed[p][i[p]].path
<1>1. PICK status \in get_device_even_if_not_fido2_statuses(x) :
         /\ Proceed(p, status, "enumerate: get_device_info")
         /\ device' = [device EXCEPT ![p] = HandleAfter(p, x, status)]
  BY DEF EnumerateGetDevice
<1>2. /\ status \in {EXIT_SUCCESS, EXIT_AUTHENTICATOR_ERROR}
      /\ i[p] <= Len(listed[p])
      /\ UNCHANGED << enumerateVars, port, hotplugs >>
  BY DEF EnumerateGetDevice, get_device_even_if_not_fido2_statuses, Glitch,
         unchangedVars, worldVars
<1>3. CASE status = EXIT_SUCCESS
  <2>1. pc'[p] = "enumerate: get_device_info"
    BY <1>1, <1>3 DEF Inv, Proceed, Goto
  <2>2. device'[p].id = port[x]
    BY <1>1, <1>3 DEF Inv, HandleAfter, Handle
  <2>3. i[p] \in DOMAIN listed[p]
    <3>1. IsSeq(listed[p]) /\ IsSeq(lines[p]) /\ i[p] = Len(lines[p]) + 1
      BY DEF Inv, ProcInv, InOrder
    <3> QED BY <1>2, <3>1, SeqFacts
  <2>4. hotplugs = 0 => listed[p][i[p]].device = port[x]
    BY <2>3 DEF Inv, ProcInv, AsListed
  <2> QED BY <1>2, <2>1, <2>2, <2>4, NothingPrinted DEF Exited, Before
<1>4. CASE status # EXIT_SUCCESS
  <2>1. pc'[p] = "exited" /\ exit'[p] = EXIT_AUTHENTICATOR_ERROR
    BY <1>1, <1>2, <1>4 DEF Inv, Proceed, Exit
  <2> QED BY <1>2, <2>1, NothingPrinted, Statuses DEF Exited, Before
<1> QED BY <1>3, <1>4

\* The line that is printed is the next one, and a true one.
LEMMA PrintsInv ==
    ASSUME Inv, NEW p \in Proc, EnumerateGetDeviceInfo(p)
    PROVE  ProcInv(p)'
<1>1. /\ pc[p] = "enumerate: get_device_info"
      /\ i[p] <= Len(listed[p])
      /\ UNCHANGED << listed, port, hotplugs >>
      /\ ProcInv(p)
  <2>1. pc[p] = "enumerate: get_device_info"
    BY DEF EnumerateGetDeviceInfo
  <2> QED BY <2>1 DEF EnumerateGetDeviceInfo, Inv, ProcInv, Placed,
                      unchangedVars, worldVars
<1>2. PICK status \in InfoStatuses(p) :
         IF status = EXIT_SUCCESS
         THEN /\ Goto(p, "enumerate: get_device")
              /\ lines' = [lines EXCEPT ![p] = Append(@, LineOf(p))]
              /\ i' = [i EXCEPT ![p] = @ + 1]
              /\ device' = [device EXCEPT ![p] = NoHandle]
         ELSE Exit(p, status) /\ UNCHANGED << lines, i, device >>
  BY DEF EnumerateGetDeviceInfo
<1>3. CASE status # EXIT_SUCCESS
  <2>1. status = EXIT_AUTHENTICATOR_ERROR
    BY <1>3 DEF InfoStatuses, get_device_info_statuses, Glitch
  <2>2. pc'[p] = "exited" /\ exit'[p] = EXIT_AUTHENTICATOR_ERROR
    BY <1>2, <1>3, <2>1 DEF Inv, Exit
  <2>3. UNCHANGED enumerateVars
    BY <1>1, <1>2, <1>3 DEF enumerateVars
  <2> QED BY <1>1, <2>2, <2>3, NothingPrinted, Statuses DEF Exited, Before
<1>4. CASE status = EXIT_SUCCESS
  <2> DEFINE line == LineOf(p)
  <2>1. /\ lines'[p] = Append(lines[p], line)
        /\ i'[p] = i[p] + 1
        /\ pc'[p] = "enumerate: get_device"
    BY <1>2, <1>4 DEF Inv, Goto
  <2>2. /\ IsSeq(listed[p])
        /\ IsSeq(lines[p])
        /\ i[p] = Len(lines[p]) + 1
        /\ \A k \in DOMAIN lines[p] : lines[p][k].path = listed[p][k].path
    BY <1>1 DEF ProcInv, InOrder
  <2>3. /\ line.path = listed[p][i[p]].path
        /\ line.name = listed[p][i[p]].device
        /\ line.aaguid = Aaguid[device[p].id]
        /\ line.mark = " " <=> device[p].id \in HmacSecret
    BY AuthenticatorAssumption
    DEF LineOf, device_supported, device_supports_hmac_secret
  <2> HIDE DEF line
  <2>4. /\ IsSeq(lines'[p])
        /\ Len(lines'[p]) = i[p]
        /\ \A k \in DOMAIN lines'[p] :
              \/ k \in DOMAIN lines[p] /\ lines'[p][k] = lines[p][k]
              \/ k = i[p] /\ lines'[p][k] = line
    <3>1. /\ IsSeq(lines'[p])
          /\ Len(lines'[p]) = Len(lines[p]) + 1
          /\ \A k \in DOMAIN lines[p] : lines'[p][k] = lines[p][k]
          /\ lines'[p][Len(lines[p]) + 1] = line
      <4> DEFINE printed == Append(lines[p], line)
      <4>1. /\ IsSeq(printed)
            /\ Len(printed) = Len(lines[p]) + 1
            /\ \A k \in DOMAIN lines[p] : printed[k] = lines[p][k]
            /\ printed[Len(lines[p]) + 1] = line
        BY <2>2, Appended
      <4>2. lines'[p] = printed
        BY <2>1
      <4> HIDE DEF printed
      <4> QED BY <4>1, <4>2
    <3>2. /\ Len(lines[p]) \in Nat
          /\ DOMAIN lines[p] = 1 .. Len(lines[p])
          /\ DOMAIN lines'[p] = 1 .. Len(lines'[p])
      BY <2>2, <3>1, SeqFacts
    <3> QED BY <2>2, <3>1, <3>2
  <2>5. InOrder(p)'
    <3>1. \A k \in DOMAIN lines'[p] : lines'[p][k].path = listed'[p][k].path
      BY <1>1, <2>2, <2>3, <2>4
    <3> QED BY <1>1, <2>1, <2>2, <2>4, <3>1 DEF InOrder
  <2>6. Placed(p)'
    BY <2>1 DEF Placed, Exited, Before
  <2>7. (hotplugs = 0 => AsListed(p))'
    <3> SUFFICES ASSUME hotplugs' = 0 PROVE AsListed(p)'
      OBVIOUS
    <3>1. AsListed(p)
      BY <1>1 DEF ProcInv
    <3>2. TrueLine(line)
      BY <1>1, <2>3, <3>1 DEF AsListed, TrueLine
    <3>3. \A k \in DOMAIN lines'[p] : TrueLine(lines'[p][k])
      BY <2>4, <3>1, <3>2 DEF AsListed
    <3> QED BY <1>1, <2>1, <3>1, <3>3 DEF AsListed, TrueLine
  <2> QED BY <2>5, <2>6, <2>7 DEF ProcInv
<1> QED BY <1>3, <1>4

LEMMA FinishesInv ==
    ASSUME Inv, NEW p \in Proc, EnumerateFinish(p)
    PROVE  ProcInv(p)'
<1>1. /\ i[p] > Len(listed[p])
      /\ pc'[p] = "exited"
      /\ exit'[p] = IF listed[p] = << >> THEN EXIT_NO_DEVICES
                                         ELSE EXIT_SUCCESS
      /\ UNCHANGED << enumerateVars, port, hotplugs >>
  BY DEF EnumerateFinish, Inv, Exit, unchangedVars, worldVars
<1> QED BY <1>1, NothingPrinted, Statuses DEF Exited, Before

\* Starting, and what may end a process at any time.
LEMMA FateInv ==
    ASSUME Inv, NEW p \in Proc,
           \/ EnumerateStart(p)
           \/ (Kill(p) \/ OutOfMemory(p)) /\ UNCHANGED << authenticatorVars,
                                                          enumerateVars >>
    PROVE  ProcInv(p)'
<1>1. CASE EnumerateStart(p)
  BY <1>1, NothingPrinted
  DEF EnumerateStart, Goto, Inv, Exited, Before, unchangedVars, worldVars
<1>2. CASE Kill(p) /\ UNCHANGED << authenticatorVars, enumerateVars >>
  BY <1>2, NothingPrinted
  DEF Kill, Goto, Inv, Exited, Before, authenticatorVars
<1>3. CASE OutOfMemory(p) /\ UNCHANGED << authenticatorVars, enumerateVars >>
  BY <1>3, NothingPrinted, Statuses
  DEF OutOfMemory, Exit, Inv, Exited, Before, authenticatorVars
<1> QED BY <1>1, <1>2, <1>3

-----------------------------------------------------------------------------
(* The invariant is inductive *)

LEMMA InvInit == Init => Inv
<1> SUFFICES ASSUME Init PROVE Inv
  OBVIOUS
<1>1. ASSUME NEW p \in Proc PROVE ProcInv(p)
  <2>1. listed[p] = << >> /\ lines[p] = << >> /\ i[p] = 1 /\ pc[p] = "ready"
    BY DEF Init
  <2>2. InOrder(p)
    BY <2>1, NoEntries DEF InOrder
  <2>3. Placed(p)
    BY <2>1 DEF Placed, Exited
  <2>4. AsListed(p)
    BY <2>1, NoEntries DEF AsListed
  <2> QED BY <2>2, <2>3, <2>4 DEF ProcInv
<1> QED BY <1>1 DEF Init, Inv

\* A device that comes or goes ends what is said of where the devices are.
LEMMA HotplugInv ==
    ASSUME Inv, UNCHANGED enumerateVars, NEW x \in Port,
           Unplug(x) \/ \E d \in Device : Plug(x, d)
    PROVE  Inv'
<1>1. /\ UNCHANGED << pc, exit, listed, i, lines >>
      /\ hotplugs' = hotplugs + 1
      /\ DOMAIN device' = Proc
      /\ \A q \in Proc : device'[q].id = device[q].id
  <2>1. CASE Unplug(x)
    BY <2>1 DEF Unplug, machineVars, enumerateVars, Inv
  <2>2. ASSUME NEW d \in Device, Plug(x, d)
        PROVE  /\ UNCHANGED << pc, exit, listed, i, lines >>
               /\ hotplugs' = hotplugs + 1
               /\ UNCHANGED device
    BY <2>2 DEF Plug, machineVars, enumerateVars
  <2> QED BY <2>1, <2>2 DEF Inv
<1>2. hotplugs' \in Nat /\ hotplugs' # 0
  BY <1>1 DEF Inv
<1>3. ASSUME NEW q \in Proc PROVE ProcInv(q)'
  BY <1>1, <1>2, OthersInv
<1> QED BY <1>1, <1>2, <1>3 DEF Inv

LEMMA InvNext == Inv /\ [Next]_vars => Inv'
<1> SUFFICES ASSUME Inv, [Next]_vars PROVE Inv'
  OBVIOUS
<1>1. ASSUME NEW p \in Proc,
             EnumerateStart(p) \/ EnumerateStep(p)
             \/ (/\ Kill(p) \/ OutOfMemory(p)
                 /\ UNCHANGED << authenticatorVars, enumerateVars >>)
      PROVE  Inv'
  <2>1. ProcInv(p)'
    BY <1>1, ListsInv, OpensInv, PrintsInv, FinishesInv, FateInv
    DEF EnumerateStep
  <2> QED BY <1>1, <2>1, StepEnough
<1>2. ASSUME UNCHANGED enumerateVars, NEW x \in Port,
             Unplug(x) \/ \E d \in Device : Plug(x, d)
      PROVE  Inv'
  BY <1>2, HotplugInv
<1>3. CASE UNCHANGED vars
  <2>1. UNCHANGED << pc, exit, port, hotplugs, device, listed, i, lines >>
    BY <1>3 DEF vars, machineVars, authenticatorVars, enumerateVars
  <2>2. ASSUME NEW q \in Proc PROVE ProcInv(q)'
    BY <2>1, OthersInv DEF Inv
  <2> QED BY <2>1, <2>2 DEF Inv
<1> QED BY <1>1, <1>2, <1>3 DEF Next

LEMMA Invariant == Spec => []Inv
BY InvInit, InvNext, PTL DEF Spec

-----------------------------------------------------------------------------
(* The theorems *)

\* enumerate succeeds only after a line for each device of the list, in its
\* order, and says that there are none only when the list was empty.
THEOREM EachHasItsLine == Spec => []OneLineEach
<1>1. Inv => OneLineEach
  <2> SUFFICES ASSUME Inv, NEW p \in Proc
               PROVE  /\ Exited(p, EXIT_SUCCESS) =>
                            /\ listed[p] # << >>
                            /\ [k \in DOMAIN lines[p] |-> lines[p][k].path]
                                 = [k \in DOMAIN listed[p] |->
                                       listed[p][k].path]
                      /\ Exited(p, EXIT_NO_DEVICES) => listed[p] = << >>
    BY DEF OneLineEach
  <2>1. InOrder(p) /\ Placed(p)
    BY DEF Inv, ProcInv
  <2>2. ASSUME Exited(p, EXIT_SUCCESS)
        PROVE  DOMAIN lines[p] = DOMAIN listed[p] /\ listed[p] # << >>
    <3>1. i[p] > Len(listed[p]) /\ listed[p] # << >>
      BY <2>1, <2>2 DEF Placed
    <3>2. /\ Len(listed[p]) \in Nat /\ DOMAIN listed[p] = 1 .. Len(listed[p])
          /\ Len(lines[p]) \in Nat  /\ DOMAIN lines[p] = 1 .. Len(lines[p])
      BY <2>1, SeqFacts DEF InOrder
    <3>3. i[p] = Len(lines[p]) + 1 /\ Len(lines[p]) <= Len(listed[p])
      BY <2>1 DEF InOrder
    <3> QED BY <3>1, <3>2, <3>3
  <2> QED BY <2>1, <2>2 DEF InOrder, Placed
<1> QED BY <1>1, Invariant, PTL

\* What a line says of the device it names is true of it, as long as no
\* device was plugged or unplugged.
THEOREM EachLineIsTrue == Spec => []LinesAreTrue
<1>1. Inv => LinesAreTrue
  BY DEF Inv, ProcInv, AsListed, TrueLine, LinesAreTrue
<1> QED BY <1>1, Invariant, PTL

=============================================================================
