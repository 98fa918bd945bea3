------------------------------ MODULE MCKhefin ------------------------------
(***************************************************************************)
(* Small instances of Khefin for TLC.  Each configuration picks processes, *)
(* devices and a table of command lines from those below.                  *)
(***************************************************************************)
EXTENDS Khefin

CONSTANTS
    e1, e2, g1, g2,      \* processes
    k1, k2,              \* keyfiles
    a, b, c,             \* ports
    pinned,              \* an authenticator with a PIN
    pinless,             \* one without, of the same make and model
    other,               \* one of another make, without hmac-secret
    u2f,                 \* a device that is not FIDO2
    s1, s2,              \* passphrases
    right, wrong,        \* PINs
    m1,                  \* a mixin
    make1, make2         \* AAGUIDs

MCAaguid == [d \in Device |-> IF d = other THEN make2 ELSE make1]
MCDevicePin == [d \in Device |-> IF d = pinned THEN right ELSE NULL]
MCCredentialSize == [d \in Device |-> IF d = pinned THEN 64 ELSE 48]

EnrolLine(x, f, passphrase, pin, hardness) ==
    [ subcommand |-> "enrol", device |-> x, file |-> f,
      passphrase |-> passphrase, authenticator_pin |-> pin,
      mixin |-> NULL, obfuscate_device_info |-> FALSE,
      kdf_hardness |-> hardness ]

GenerateLine(passphrase, pin, mixin) ==
    [ subcommand |-> "generate", device |-> NULL, file |-> k1,
      passphrase |-> passphrase, authenticator_pin |-> pin,
      mixin |-> mixin, obfuscate_device_info |-> FALSE,
      kdf_hardness |-> NULL ]

-----------------------------------------------------------------------------
(* race: two enrolments of one keyfile, on authenticators whose credential *)
(* ids differ in size, and a generate.  The second enrolment may also name *)
(* a path that cannot be written.                                          *)

RacePlugged == {[x \in Port |-> IF x = a THEN pinned ELSE pinless]}

RaceCommandLine ==
    [p \in Proc |->
        CASE p = e1 -> {EnrolLine(a, k1, s1, right, "low")}
          [] p = e2 -> {EnrolLine(b, f, s2, NULL, "high") : f \in File}
          [] OTHER  -> {GenerateLine(s, right, m) : s \in {s1, s2},
                                                    m \in {NULL, m1}}]

-----------------------------------------------------------------------------
(* devices: any of the authenticators enrolled, any of them plugged in, in *)
(* any order, PINs typed right, wrong or not at all.                       *)

DevicesPlugged ==
    { f \in [Port -> Device \union {NULL}] :
        \A x, y \in Port : x # y /\ f[x] = f[y] => f[x] = NULL }

DevicesCommandLine ==
    [p \in Proc |->
        CASE p = e1 -> {EnrolLine(a, k1, s1, pin, "medium") : pin \in {NULL, right}}
          [] OTHER  -> {GenerateLine(s1, pin, NULL) : pin \in {NULL, wrong}}]

-----------------------------------------------------------------------------
(* Where the code and its documentation differ: one enrolment and one      *)
(* generate, with the authenticators plugged in that show the difference.  *)

DivergeCommandLine ==
    [p \in Proc |->
        CASE p = e1 -> {[EnrolLine(a, k1, s1, pin, "low")
                            EXCEPT !.obfuscate_device_info = TRUE] :
                            pin \in {right, wrong}}
          [] OTHER  -> {GenerateLine(s1, right, NULL)}]

\* The enrolled authenticator and a device that is not FIDO2.
BesideU2f == {[x \in Port |-> IF x = a THEN pinned ELSE u2f]}

\* The enrolled authenticator has no PIN, the other one has.
BesidePinned == {[x \in Port |-> IF x = a THEN pinless ELSE pinned]}

=============================================================================
