---------------------------- MODULE MCEnumerate ----------------------------
(***************************************************************************)
(* A small instance of Enumerate for TLC: one process, and any of the      *)
(* kinds of devices at any of the ports.                                   *)
(***************************************************************************)
EXTENDS Enumerate

CONSTANTS
    full,            \* an authenticator with hmac-secret
    bare,            \* one of another make, without
    u2f,             \* a device that is not FIDO2
    make1, make2, none

MCAaguid ==
    [d \in Device |-> CASE d = full -> make1 [] d = bare -> make2
                        [] OTHER -> none]
MCDevicePin == [d \in Device |-> NULL]
MCCredentialSize == [d \in Device |-> 1]

\* Nobody is given a command line of enrol or generate.
MCCommandLine == [p \in Proc |-> {}]

\* Each device at one port at most.
MCPlugged ==
    { f \in [Port -> Device \union {NULL}] :
        \A x, y \in Port : x # y /\ f[x] = f[y] => f[x] = NULL }

=============================================================================
