------------------------------ MODULE Machine ------------------------------
(***************************************************************************)
(* The machine khefin runs on: processes, each one invocation of the       *)
(* program, and the keyfiles they share on disk.  A process runs until it  *)
(* exits with a status, or dies of a signal.  This module has the state,   *)
(* the steps every process may take (start, run out of memory, die), the   *)
(* damage a keyfile may suffer, and the operations of src/files.c.         *)
(***************************************************************************)
EXTENDS Keyfile

CONSTANTS
    Proc,          \* processes: invocations of the program
    File,          \* paths of keyfiles
    Unwritable,    \* the paths that fopen(path, "w") refuses
    CommandLine,   \* for each process, the command lines it may be given
    DiskMayFill,   \* whether writing to a keyfile or to standard output may fail
    MaxDamages,    \* bound: how often a keyfile is damaged
    LARGEST_VALID_PAYLOAD_SIZE_BYTES

ASSUME MachineAssumption ==
    /\ NULL \notin {"enrol", "generate"}
    /\ Unwritable \subseteq File
    /\ DiskMayFill \in BOOLEAN
    /\ MaxDamages \in Nat
    /\ LARGEST_VALID_PAYLOAD_SIZE_BYTES \in Nat
    /\ \A p \in Proc : \A c \in CommandLine[p] :
          /\ c.subcommand \in {"enrol", "generate"}
          /\ c.file \in File
          /\ c.subcommand = "enrol" => c.kdf_hardness \in DOMAIN KdfLimits

VARIABLES
    pc,         \* where each process is
    exit,       \* the status of each process that exited
    inv,        \* the command line of each process
    held,       \* the secrets of its command line still in its memory
    cleartext,  \* the deserialized_cleartext of each process
    disk,       \* the content of each keyfile; NULL when there is no file
    damages     \* how often each keyfile was damaged

machineVars == << pc, exit, inv, held, cleartext, disk, damages >>

-----------------------------------------------------------------------------
(* Control *)

Ended(p)   == pc[p] \in {"exited", "killed"}
Running(p) == pc[p] # "ready" /\ ~Ended(p)

Exited(p, status) == pc[p] = "exited" /\ exit[p] = status

Goto(p, label) ==
    /\ pc' = [pc EXCEPT ![p] = label]
    /\ UNCHANGED exit

Exit(p, status) ==
    /\ pc' = [pc EXCEPT ![p] = "exited"]
    /\ exit' = [exit EXCEPT ![p] = status]

\* errx(status, ...) unless status is EXIT_SUCCESS.
Proceed(p, status, label) ==
    IF status = EXIT_SUCCESS THEN Goto(p, label) ELSE Exit(p, status)

\* A command line that parse_arguments_and_get_passphrase accepted, with the
\* passphrase it names or the user typed.
Start(p) ==
    /\ pc[p] = "ready"
    /\ \E c \in CommandLine[p] :
          /\ inv' = [inv EXCEPT ![p] = c]
          /\ held' = [held EXCEPT ![p] =
                         {"passphrase"} \union
                         (IF c.authenticator_pin = NULL THEN {} ELSE {"pin"})]
          /\ Goto(p, IF c.subcommand = "enrol" THEN "enrol: get_device"
                                               ELSE "generate: list_devices")
    /\ UNCHANGED << cleartext, disk, damages >>

\* A fatal signal, at any time.
Kill(p) ==
    /\ Running(p)
    /\ Goto(p, "killed")
    /\ UNCHANGED << inv, held, cleartext, disk, damages >>

\* malloc_or_exit, strdup_or_exit and the checks of what libfido2, libcbor
\* and crypto_pwhash allocate all exit with the same status.  Nothing is
\* allocated that way once the keyfile is open for writing.
OutOfMemory(p) ==
    /\ Running(p)
    /\ pc[p] # "enrol: fclose"
    /\ Exit(p, EXIT_OUT_OF_MEMORY)
    /\ UNCHANGED << inv, held, cleartext, disk, damages >>

-----------------------------------------------------------------------------
(* Keyfiles *)

\* Somebody, or a failing disk, changes a keyfile.
Damage(f) ==
    /\ disk[f] # NULL
    /\ damages[f] < MaxDamages
    /\ \E file \in Damaged(disk[f]) : disk' = [disk EXCEPT ![f] = file]
    /\ damages' = [damages EXCEPT ![f] = @ + 1]
    /\ UNCHANGED << pc, exit, inv, held, cleartext >>

\* read_file up to the allocation of the buffer: the status it exits with.
open_status(f) ==
    IF disk[f] = NULL THEN EXIT_DESERIALIZATION_ERROR
    ELSE IF disk[f].length > LARGEST_VALID_PAYLOAD_SIZE_BYTES
    THEN EXIT_DESERIALIZATION_ERROR
    ELSE EXIT_SUCCESS

\* fread(buffer, length, 1, fp) # 1: nothing to read, or fewer bytes than
\* the file had when its size was taken.
fread_status(f, length) ==
    IF length = 0 \/ disk[f].length < length
    THEN EXIT_DESERIALIZATION_ERROR
    ELSE EXIT_SUCCESS

\* The buffer of that many bytes from the start of the file.
FirstBytes(f, length) == [disk[f] EXCEPT !.length = length]

\* The file after its first bytes were written over: what was longer stays.
Overwrite(old, new) ==
    [new EXCEPT !.length = IF old.length > new.length THEN old.length
                                                      ELSE new.length]

=============================================================================
