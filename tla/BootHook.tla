------------------------------ MODULE BootHook ------------------------------
(***************************************************************************)
(* The mkinitcpio hook (scripts/mkinitcpio/run.m4): at boot, with nobody   *)
(* but init running, it takes every keyfile of the initramfs in turn, asks *)
(* for its passphrase, and runs khefin generate until one of them gives a  *)
(* secret, which the encrypt hook then finds in a file on a ramfs.  Its    *)
(* cleanup hook runs when the root is mounted.                             *)
(*                                                                         *)
(* khefin is known to the hook by its exit status and standard output.     *)
(* Both hooks run in the shell that is process 1.                          *)
(***************************************************************************)
EXTENDS ExitCodes, Sequences

CONSTANTS
    NULL,           \* a variable that is not set, a file that is not there
    Empty,          \* the empty string, an empty file
    Entries,        \* what the two globs give, in order
    Keyfile,        \* those of them that are regular files
    PassphraseOf,   \* what each was enrolled with; NULL for a corrupt one
    Line,           \* what the user may type
    Stripped,       \* each line without the blanks at its ends
    KernelParameters,   \* what the kernel command line may say
    MountPoint,     \* what may be at the mount point: nothing, "absent", a
                    \* directory, "empty" or "full", or a "file"
    MaxHotplugs     \* bound: how often the authenticator is changed

m4_INITCPIO_DEFAULT_MAX_PASSPHRASE_ATTEMPTS == 3

\* What may have been the passphrase of an attempt, and what is logged of it.
Passphrase ==
    { c.encrypted_keyfile_passphrase : c \in KernelParameters }
        \union { Stripped[typed] : typed \in Line }

Attempt == [ tries : Nat, line : Line \union {NULL},
             passphrase : Passphrase, result : ExitCodes ]

\* `*` and `.*` have no name in common.
ASSUME BootHookAssumption ==
    /\ Keyfile # {}
    /\ Entries \in Seq({ Entries[n] : n \in DOMAIN Entries })
    /\ \A m, n \in DOMAIN Entries : Entries[m] = Entries[n] => m = n
    /\ Keyfile \subseteq { Entries[n] : n \in DOMAIN Entries }
    /\ NULL # Empty
    /\ NULL \notin { Stripped[typed] : typed \in Line }
    /\ NULL \notin Attempt
    /\ MountPoint \subseteq {"absent", "empty", "full", "file"}
    /\ MaxHotplugs \in Nat
    /\ \A c \in KernelParameters :
          /\ c.same_passphrase_every_keyfile \in BOOLEAN
          /\ c.do_not_prompt_for_authenticator \in BOOLEAN
          /\ c.attempts \in Nat \union {NULL}

VARIABLES
    pc,                 \* the statement the hook is at
    parameters,         \* the kernel parameters of this boot
    authenticator,      \* what is plugged in: "none", "enrolled", "other"
    hotplugs,           \* how often that has changed
    mount_point,        \* what is at the mount point, under the ramfs
    mounted,            \* whether the hook's ramfs is mounted there
    skipping,           \* whether the hook has said that it skips
    option,             \* passphrase_prompt_option
    attempts,           \* encrypted_keyfile_passphrase_attempts
    index,              \* the position of the for loop in Entries
    passphrase_tries,
    passphrase,         \* encrypted_keyfile_passphrase
    line,               \* what the user typed last
    result,             \* the last exit status of khefin generate
    passphrase_file,    \* encrypted_keyfile_passphrase_file
    key_file,           \* disk_encryption_key_file
    cryptkey,           \* whether the variable for the encrypt hook is set
    log                 \* the last attempt at each keyfile, or NULL

loopVars == << index, passphrase_tries, passphrase, line, result, log >>
fileVars == << passphrase_file, key_file, cryptkey >>
mountVars == << mount_point, mounted >>
optionVars == << parameters, skipping, option, attempts >>
worldVars == << authenticator, hotplugs >>

vars == << pc, loopVars, fileVars, mountVars, optionVars, worldVars >>

Init ==
    /\ pc = "enumerate"
    /\ parameters \in KernelParameters
    /\ authenticator \in {"none", "enrolled", "other"}
    /\ hotplugs = 0
    /\ mount_point \in MountPoint
    /\ mounted = FALSE
    /\ skipping = FALSE
    /\ option = NULL
    /\ attempts = 0
    /\ index = 1
    /\ passphrase_tries = 0
    /\ passphrase = parameters.encrypted_keyfile_passphrase
    /\ line = NULL
    /\ result = NULL
    /\ passphrase_file = NULL
    /\ key_file = NULL
    /\ cryptkey = FALSE
    /\ log = [k \in Keyfile |-> NULL]

-----------------------------------------------------------------------------
(* Before the loop *)

\* khefin enumerate has status 34 when nothing is plugged in.
NoDevices == authenticator = "none"

Skip ==
    /\ pc' = "ran"
    /\ skipping' = TRUE

Enumerate ==
    /\ pc = "enumerate"
    /\ IF NoDevices /\ parameters.do_not_prompt_for_authenticator
       THEN Skip
       ELSE /\ pc' = IF NoDevices THEN "press any key" ELSE "mount"
            /\ UNCHANGED skipping
    /\ UNCHANGED << parameters, option, attempts, loopVars, fileVars,
                    mountVars, worldVars >>

PressAnyKey ==
    /\ pc = "press any key"
    /\ IF NoDevices THEN Skip ELSE pc' = "mount" /\ UNCHANGED skipping
    /\ UNCHANGED << parameters, option, attempts, loopVars, fileVars,
                    mountVars, worldVars >>

\* Mutant: the limit is taken as it comes.
EffectiveAttempts_unchecked == parameters.attempts

\* A limit that is not a positive number is replaced by the default.
EffectiveAttempts ==
    IF parameters.attempts \in {NULL, 0}
    THEN m4_INITCPIO_DEFAULT_MAX_PASSPHRASE_ATTEMPTS
    ELSE parameters.attempts

\* Whether the files of the hook have a directory to be in.
HasDirectory == mount_point \in {"empty", "full"}

\* Whatever is at the mount point only changes what the hook says, and nobody
\* looks at whether mkdir and mount succeeded.
Mount ==
    /\ pc = "mount"
    /\ pc' = "for"
    /\ skipping' = (mount_point # "absent")
    /\ mount_point' \in IF mount_point = "absent" THEN {"absent", "empty"}
                        ELSE {mount_point}
    /\ mounted' \in IF HasDirectory' THEN BOOLEAN ELSE {FALSE}
    /\ option' = IF passphrase # NULL THEN "NEVER"
                 ELSE IF parameters.same_passphrase_every_keyfile THEN "ONCE"
                 ELSE "ALWAYS"
    /\ attempts' = EffectiveAttempts
    /\ UNCHANGED << parameters, loopVars, fileVars, worldVars >>

-----------------------------------------------------------------------------
(* The loop over the keyfiles, and inside it the loop over the attempts *)

\* Mutant: the attempts at the keyfile before count for this one.
TriesAtStart_kept == passphrase_tries

TriesAtStart == 0

For ==
    /\ pc = "for"
    /\ IF index > Len(Entries)
       THEN /\ pc' = "ran"
            /\ passphrase' = NULL
            /\ UNCHANGED << index, passphrase_tries >>
       ELSE IF Entries[index] \notin Keyfile
       THEN /\ index' = index + 1
            /\ UNCHANGED << pc, passphrase_tries, passphrase >>
       ELSE /\ pc' = "while"
            /\ passphrase_tries' = TriesAtStart
            /\ passphrase' = IF option = "ALWAYS" THEN NULL ELSE passphrase
            /\ UNCHANGED index
    /\ UNCHANGED << line, result, log, fileVars, mountVars, optionVars,
                    worldVars >>

\* Mutant: attempts are not counted.
CountTry_never == passphrase_tries

CountTry == passphrase_tries + 1

While ==
    /\ pc = "while"
    /\ passphrase_tries' = CountTry
    /\ pc' = IF passphrase = NULL THEN "read" ELSE "write passphrase"
    /\ UNCHANGED << index, passphrase, line, result, log, fileVars,
                    mountVars, optionVars, worldVars >>

\* read -r: without the blanks at the ends of the line.
Read ==
    /\ pc = "read"
    /\ pc' = "write passphrase"
    /\ line' \in Line
    /\ passphrase' = Stripped[line']
    /\ UNCHANGED << index, passphrase_tries, result, log, fileVars,
                    mountVars, optionVars, worldVars >>

\* Without a directory the printf fails, and the hook goes on.
WritePassphrase ==
    /\ pc = "write passphrase"
    /\ pc' = "generate"
    /\ passphrase_file' = IF HasDirectory THEN passphrase ELSE passphrase_file
    /\ UNCHANGED << loopVars, key_file, cryptkey, mountVars, optionVars,
                    worldVars >>

\* The statuses of khefin generate -r: an empty file has nothing to read;
\* listing the devices may fail (as may an allocation: the hook does not tell
\* the statuses of other failures apart); the keyfile is opened before the
\* devices are looked at; the user may not touch the authenticator in time.
generate_results(k) ==
    IF passphrase_file = Empty THEN {EXIT_DESERIALIZATION_ERROR}
    ELSE {EXIT_AUTHENTICATOR_ERROR} \union
         IF PassphraseOf[k] = NULL THEN {EXIT_DESERIALIZATION_ERROR}
         ELSE IF PassphraseOf[k] # passphrase_file THEN {EXIT_BAD_PASSPHRASE}
         ELSE CASE authenticator = "none"  -> {EXIT_NO_DEVICES}
                [] authenticator = "other" -> {EXIT_NO_VALID_AUTHENTICATOR}
                [] OTHER -> {EXIT_SUCCESS, EXIT_NO_VALID_AUTHENTICATOR}

SecretOf(k) == << "secret", k >>

\* Without a directory khefin is not run, and neither is the command after
\* it: that is the special built-in `:` with a redirection that fails, and a
\* shell that does not talk to a user exits.
Generate ==
    /\ pc = "generate"
    /\ \/ /\ HasDirectory
          /\ pc' = "decide"
          /\ \E status \in generate_results(Entries[index]) :
                /\ result' = status
                /\ key_file' = IF status = EXIT_SUCCESS
                               THEN SecretOf(Entries[index]) ELSE Empty
       \/ /\ ~HasDirectory
          /\ pc' = "shell exited"
          /\ UNCHANGED << result, key_file >>
    /\ UNCHANGED << index, passphrase_tries, passphrase, line, log,
                    passphrase_file, cryptkey, mountVars, optionVars,
                    worldVars >>

\* Mutant: the status is taken after the passphrase file was emptied.
Succeeded_late == TRUE

Succeeded == result = EXIT_SUCCESS

\* Only a bad passphrase that was typed is forgotten.
BadPassphraseTyped == result = EXIT_BAD_PASSPHRASE /\ option # "NEVER"

\* Mutant: the passphrase is forgotten after any failure.
PassphraseAfterFailure_forgotten == NULL

PassphraseAfterFailure == IF BadPassphraseTyped THEN NULL ELSE passphrase

\* Mutant: a failure ends the loop over the keyfiles too.
NextEntry_last == Len(Entries) + 1

NextEntry == index + 1

\* Mutant: the passphrase stays in its file.
EmptiedPassphraseFile_kept == passphrase_file

EmptiedPassphraseFile == Empty

Decide ==
    /\ pc = "decide"
    /\ passphrase_file' = EmptiedPassphraseFile
    /\ log' = [log EXCEPT ![Entries[index]] =
                 [ tries |-> passphrase_tries, line |-> line,
                   passphrase |-> passphrase, result |-> result ]]
    /\ IF Succeeded
       THEN /\ pc' = "ran"
            /\ cryptkey' = TRUE
            /\ UNCHANGED << index, passphrase >>
       ELSE /\ passphrase' = PassphraseAfterFailure
            /\ IF BadPassphraseTyped /\ passphrase_tries < attempts
               THEN pc' = "while" /\ UNCHANGED index
               ELSE pc' = "for" /\ index' = NextEntry
            /\ UNCHANGED cryptkey
    /\ UNCHANGED << passphrase_tries, line, result, key_file, mountVars,
                    optionVars, worldVars >>

-----------------------------------------------------------------------------
(* Afterwards *)

\* run_cleanuphook.  The first command is `:` with a redirection, too.
Cleanup ==
    /\ pc = "ran"
    /\ IF ~HasDirectory
       THEN pc' = "shell exited" /\ UNCHANGED << fileVars, mountVars >>
       ELSE /\ pc' = "done"
            /\ key_file' = NULL
            /\ passphrase_file' = NULL
            /\ mounted' = FALSE
            /\ mount_point' = "absent"
            /\ UNCHANGED cryptkey
    /\ UNCHANGED << loopVars, optionVars, worldVars >>

Ended == pc \in {"done", "shell exited"}

Hook ==
    \/ Enumerate \/ PressAnyKey \/ Mount
    \/ For \/ While \/ Read \/ WritePassphrase \/ Generate \/ Decide
    \/ Cleanup

\* The user plugs an authenticator in, pulls it or takes another one.
Hotplug ==
    /\ ~Ended
    /\ hotplugs < MaxHotplugs
    /\ hotplugs' = hotplugs + 1
    /\ authenticator' \in {"none", "enrolled", "other"} \ {authenticator}
    /\ UNCHANGED << pc, loopVars, fileVars, mountVars, optionVars >>

Booted == Ended /\ UNCHANGED vars

Next == Hook \/ Hotplug \/ Booted

Spec == Init /\ [][Next]_vars

\* The hook goes on, and the user answers: presses a key, ends a line, and
\* touches the authenticator or lets it time out.
FairSpec == Spec /\ WF_vars(Hook)

-----------------------------------------------------------------------------
(* Safety *)

LoopTypeOK ==
    /\ attempts \in Nat
    /\ index \in 1 .. Len(Entries) + 1
    /\ passphrase_tries \in 0 .. attempts
    /\ line \in Line \union {NULL}
    /\ result \in ExitCodes \union {NULL}
    /\ DOMAIN log = Keyfile

MountTypeOK ==
    /\ mount_point \in {"absent", "empty", "full", "file"}
    /\ mounted \in BOOLEAN
    /\ skipping \in BOOLEAN
    /\ cryptkey \in BOOLEAN
    /\ key_file \in {NULL, Empty} \union { SecretOf(k) : k \in Keyfile }

TypeOK ==
    /\ pc \in {"enumerate", "press any key", "mount", "for", "while", "read",
               "write passphrase", "generate", "decide", "ran", "done",
               "shell exited"}
    /\ parameters \in KernelParameters
    /\ authenticator \in {"none", "enrolled", "other"}
    /\ hotplugs \in 0 .. MaxHotplugs
    /\ option \in {NULL, "NEVER", "ONCE", "ALWAYS"}
    /\ LoopTypeOK
    /\ MountTypeOK

\* When the encrypt hook runs, cryptkey is set exactly when the key file has
\* the secret of a keyfile that was opened with its own passphrase, and
\* otherwise no part of a secret is there.
CryptkeyNamesASecret ==
    pc = "ran" =>
        IF cryptkey
        THEN \E k \in Keyfile :
                /\ key_file = SecretOf(k)
                /\ log[k] # NULL
                /\ log[k].passphrase = PassphraseOf[k]
        ELSE key_file \in {NULL, Empty}

\* No passphrase lies in a file while the hook waits for the user, goes on to
\* another keyfile or is over.
NoPassphraseAtRest ==
    pc \notin {"generate", "decide"} => passphrase_file \in {NULL, Empty}

\* The keyfiles that the loop has left behind without a secret.
LeftBehind == { Entries[n] : n \in 1 .. index - 1 } \intersect Keyfile

\* install.m4:30: every regular file is tried, whatever happened to the
\* others, before the hook gives up.
EveryKeyfileTried ==
    /\ \A k \in LeftBehind : log[k] # NULL
    /\ pc = "ran" /\ ~cryptkey /\ option # NULL => LeftBehind = Keyfile

\* A user who types wrong passphrases gets all the attempts for each keyfile,
\* and not one more: none is lost to another keyfile or to another failure.
AllAttemptsGranted ==
    \A k \in LeftBehind :
        log[k].result = EXIT_BAD_PASSPHRASE /\ option # "NEVER" =>
            log[k].tries = attempts

\* The user is asked for the first passphrase, for the one of another keyfile,
\* or after a bad one; a passphrase for every keyfile that was good is not
\* asked for again, and a hardcoded one never.
AskedOnlyWhenNeeded ==
    [][ pc' = "read" /\ pc # "read" =>
          /\ option # "NEVER"
          /\ \/ result \in {NULL, EXIT_BAD_PASSPHRASE}
             \/ option = "ALWAYS" /\ passphrase_tries = 0 ]_vars

-----------------------------------------------------------------------------
(* Liveness *)

\* The boot goes on: the hook ends, however often the user is wrong.
HookEnds == <>(pc \in {"ran", "done", "shell exited"})

-----------------------------------------------------------------------------
(* What the documentation says and the code does not do *)

\* run.m4:107: the next keyfile is taken early only for a failure that is not
\* due to a bad passphrase.
MovesOnForOtherFailures ==
    \A k \in LeftBehind :
        /\ PassphraseOf[k] # NULL
        /\ log[k].result = EXIT_DESERIALIZATION_ERROR
        => log[k].passphrase = PassphraseOf[k]

\* run.m4:104: status 33 is for a bad passphrase; what the user typed was the
\* passphrase of the keyfile.
RightPassphraseIsNotBad ==
    \A k \in Keyfile :
        log[k] # NULL /\ log[k].result = EXIT_BAD_PASSPHRASE =>
            log[k].line # PassphraseOf[k]

\* run.m4:39, 41: the hook is skipped when its mount point is not empty.
SkippedMeansSkipped ==
    skipping => ~mounted /\ \A k \in Keyfile : log[k] = NULL

\* install.m4:42, 44: without an authenticator the hook is skipped, and the
\* boot goes on.
BootGoesOn == pc # "shell exited"

=============================================================================
