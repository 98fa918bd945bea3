----------------------------- MODULE AddLuksKey -----------------------------
(***************************************************************************)
(* scripts/add-luks-key: generates a secret into a file on a ramfs of its  *)
(* own, has cryptsetup add it to a LUKS header, and cleans up.             *)
(*                                                                         *)
(* The script is a bash script under set -e that traps SIGINT, SIGTERM and *)
(* its own end, all with the function cleanup.  bash runs the trap for a   *)
(* signal when the command it waits for is over; cleanup turns set -e off  *)
(* and does not exit, so the script then goes on where it was.  SIGHUP is  *)
(* not trapped and ends the script at once, through the trap for its end,  *)
(* while the command may still run.                                        *)
(*                                                                         *)
(* Each command of the script and of cleanup runs as a process of its own, *)
(* and signals come while it does.  A signal that is trapped while cleanup *)
(* runs has bash run cleanup again, inside the one that it came in, as     *)
(* soon as the command is over; so bash 5.2 does it.  A shell that does    *)
(* nothing about a signal whose trap it is in is followed, too.            *)
(***************************************************************************)
EXTENDS Naturals, Sequences

CONSTANTS
    NULL,
    UmountFails,    \* whether umount may find the ramfs busy
    MaxSignals      \* bound: signals the script gets

ScriptCommands  == {"mount", "generate", "luksAddKey"}
CleanupCommands == {"rmKeyfile", "umount", "rmDirectory"}
Commands        == ScriptCommands \union CleanupCommands

ASSUME AddLuksKeyAssumption ==
    /\ NULL \notin {"empty", "secret"} \union Commands
    /\ UmountFails \in BOOLEAN
    /\ MaxSignals \in Nat

VARIABLES
    reenters,       \* whether this bash runs a trap inside a trap
    pc,             \* where the script is
    traps,          \* where each cleanup is that was begun, the last one first
    child,          \* the command that bash waits for, or NULL
    orphans,        \* the commands that outlive a bash that did not wait
    errexit,        \* set -e
    pending,        \* the trapped signals not seen to yet
    dropped,        \* whether a SIGINT in a cleanup was not seen to
    signals,        \* how many signals came
    directory,      \* whether ramfs_mount_point is there
    mounted,        \* whether the ramfs is mounted on it
    keyfile,        \* disk_encryption_key_file: NULL, "empty" or "secret"
    stuck,          \* whether a cleanup went past a ramfs still mounted
    luks,           \* the key that was added to the header, or NULL
    status          \* the exit status of the script

shellVars == << errexit, pending, dropped >>
fileVars  == << directory, mounted, keyfile, stuck >>

vars == << reenters, pc, traps, child, orphans, shellVars, signals, fileVars,
           luks, status >>

Init ==
    /\ reenters \in BOOLEAN
    /\ pc = "mktemp"
    /\ traps = << >>
    /\ child = NULL
    /\ orphans = {}
    /\ errexit = TRUE
    /\ pending = {}
    /\ dropped = FALSE
    /\ signals = 0
    /\ directory = FALSE
    /\ mounted = FALSE
    /\ keyfile = NULL
    /\ stuck = FALSE
    /\ luks = NULL
    /\ status = 0

Ended == pc \in {"ended", "killed"}

\* bash goes on with the script, or with the cleanup it is in.
Waits == child = NULL /\ pending = {}
InScript == Waits /\ traps = << >>
InTrap   == Waits /\ traps # << >>

-----------------------------------------------------------------------------
(* What the commands do *)

\* A command that succeeds has done its work.  One that does not may fail for
\* a reason of its own, or because it was hit: it got a SIGINT too.  Only what
\* can be done in part, or without a word, may then be done all the same.
Mount(ok) ==
    /\ ok => directory
    /\ mounted' = (mounted \/ ok)
    /\ UNCHANGED << directory, keyfile, stuck, luks >>

\* The file was opened before; it may have been removed.
Generate(ok) ==
    /\ keyfile' = IF ok /\ keyfile # NULL THEN "secret" ELSE keyfile
    /\ UNCHANGED << directory, mounted, stuck, luks >>

LuksAddKey(ok, hit) ==
    /\ ok => keyfile # NULL
    /\ luks' \in (IF ok THEN {} ELSE {luks})
                     \union (IF keyfile # NULL /\ (ok \/ hit)
                             THEN {keyfile} ELSE {})
    /\ UNCHANGED fileVars

RmKeyfile(ok) ==
    /\ keyfile' = IF ok THEN NULL ELSE keyfile
    /\ UNCHANGED << directory, mounted, stuck, luks >>

\* Where nothing is mounted, there is nothing to do and umount says so.
Umount(ok) ==
    /\ ok => mounted
    /\ mounted' = (mounted /\ ~ok)
    /\ keyfile' = IF ok THEN NULL ELSE keyfile
    /\ UNCHANGED << directory, stuck, luks >>

\* Mutant: the mount point is left for the next command to use.
DirectoryAfter_kept == directory

\* Mutant: the directory goes, whatever is mounted on it.
DirectoryAfter_gone == FALSE

\* rm -rf cannot remove a directory that is mounted on.
DirectoryAfter == mounted

\* What is in the directory goes first.
RmDirectory(done) ==
    /\ IF done
       THEN /\ keyfile' = NULL
            /\ directory' = DirectoryAfter
            /\ stuck' = (stuck \/ mounted)
       ELSE /\ keyfile' \in {keyfile, NULL}
            /\ UNCHANGED << directory, stuck >>
    /\ UNCHANGED << mounted, luks >>

\* The commands that remove files do not fail, as the script is run by root.
MayFail(command) ==
    \/ command \in ScriptCommands
    \/ command = "umount" /\ (~mounted \/ UmountFails \/ orphans # {})

Effect(command, ok, hit) ==
    /\ ok \/ hit \/ MayFail(command)
    /\ \/ command = "mount"       /\ Mount(ok)
       \/ command = "generate"    /\ Generate(ok)
       \/ command = "luksAddKey"  /\ LuksAddKey(ok, hit)
       \/ command = "rmKeyfile"   /\ RmKeyfile(ok)
       \/ command = "umount"      /\ Umount(ok)
       \/ command = "rmDirectory" /\ RmDirectory(ok)

-----------------------------------------------------------------------------
(* The script *)

CommandAfter(label) ==
    CASE label = "mount"      -> "generate"
      [] label = "generate"   -> "luksAddKey"
      [] label = "luksAddKey" -> "truncate"
      [] label = "truncate"   -> "exit"

\* Mutant: the script does without set -e.
AfterFailure_goes_on(label) == CommandAfter(label)

\* Mutant: a command that failed is run again.
AfterFailure_again(label) == label

AfterFailure(label) ==
    IF errexit \/ label = "truncate" THEN "exit" ELSE CommandAfter(label)

Mktemp ==
    /\ pc = "mktemp"
    /\ \/ directory' = TRUE /\ pc' = "trap" /\ UNCHANGED status
       \/ directory' = FALSE /\ pc' = "ended" /\ status' = 1
    /\ UNCHANGED << reenters, traps, child, orphans, shellVars, signals,
                    mounted, keyfile, stuck, luks >>

\* From here on signals are trapped.
Trap ==
    /\ pc = "trap"
    /\ pc' = "arguments"
    /\ UNCHANGED << reenters, traps, child, orphans, shellVars, signals,
                    fileVars, luks, status >>

\* Too few arguments, or not root: help and exit 1.
Arguments ==
    /\ pc = "arguments"
    /\ InScript
    /\ \/ pc' = "mount" /\ UNCHANGED status
       \/ pc' = "exit" /\ status' = 1
    /\ UNCHANGED << reenters, traps, child, orphans, shellVars, signals,
                    fileVars, luks >>

\* A command starts.  The redirection of khefin generate makes the file; where
\* the directory is gone it fails and the command does not run.
Begin ==
    /\ pc \in ScriptCommands
    /\ InScript
    /\ IF pc = "generate" /\ ~directory
       THEN /\ pc' = AfterFailure(pc)
            /\ status' = 1
            /\ UNCHANGED << child, keyfile >>
       ELSE /\ child' = pc
            /\ keyfile' = IF pc = "generate" THEN "empty" ELSE keyfile
            /\ UNCHANGED << pc, status >>
    /\ UNCHANGED << reenters, traps, orphans, shellVars, signals, directory,
                    mounted, stuck, luks >>

Hit == "INT" \in pending

\* A command is over.  After a SIGINT the trap is run before set -e is looked
\* at.
End ==
    /\ child # NULL
    /\ traps = << >>
    /\ child' = NULL
    /\ \E ok \in BOOLEAN :
          /\ Effect(child, ok, Hit)
          /\ IF ok \/ Hit
             THEN pc' = CommandAfter(pc) /\ UNCHANGED status
             ELSE pc' = AfterFailure(pc) /\ status' = 1
    /\ UNCHANGED << reenters, traps, orphans, shellVars, signals >>

Truncate ==
    /\ pc = "truncate"
    /\ InScript
    /\ pc' = "exit"
    /\ IF directory THEN keyfile' = "empty" /\ status' = 0
                    ELSE UNCHANGED keyfile /\ status' = 1
    /\ UNCHANGED << reenters, traps, child, orphans, shellVars, signals,
                    directory, mounted, stuck, luks >>

-----------------------------------------------------------------------------
(* The function cleanup, and the traps that call it *)

\* Mutant: without set +e a command of cleanup that fails ends it.
CleanupAfter_under_errexit(command, ok) ==
    CASE ~ok                   -> "return"
      [] command = "rmKeyfile" -> "umount"
      [] command = "umount"    -> "rmDirectory"
      [] OTHER                 -> "return"

\* set +e: what fails does not keep the rest from being done.
CleanupAfter(command, ok) ==
    CASE command = "rmKeyfile" -> "umount"
      [] command = "umount"    -> "rmDirectory"
      [] OTHER                 -> "return"

Cleanup(outer) ==
    /\ traps' = << "rmKeyfile" >> \o outer
    /\ errexit' = FALSE

\* The trap for SIGINT and SIGTERM, once no command runs: inside whatever the
\* script does, be it a cleanup.
SignalTrap ==
    /\ ~Ended
    /\ child = NULL
    /\ pending # {}
    /\ pending' = {}
    /\ Cleanup(traps)
    /\ UNCHANGED << reenters, pc, child, orphans, dropped, signals, fileVars,
                    luks, status >>

\* Another bash, which does not run a trap inside a trap.
DropSignal ==
    /\ ~reenters
    /\ ~Ended
    /\ child = NULL
    /\ traps # << >>
    /\ pending # {}
    /\ pending' = {}
    /\ dropped' = (dropped \/ Hit)
    /\ UNCHANGED << reenters, pc, traps, child, orphans, errexit, signals,
                    fileVars, luks, status >>

\* The trap for the end of the script.
ExitTrap ==
    /\ pc = "exit"
    /\ InScript
    /\ pc' = "exiting"
    /\ Cleanup(<< >>)
    /\ UNCHANGED << reenters, child, orphans, pending, dropped, signals,
                    fileVars, luks, status >>

BeginCleanup ==
    /\ ~Ended
    /\ InTrap
    /\ Head(traps) # "return"
    /\ child' = Head(traps)
    /\ UNCHANGED << reenters, pc, traps, orphans, shellVars, signals, fileVars,
                    luks, status >>

EndCleanup ==
    /\ child # NULL
    /\ traps # << >>
    /\ child' = NULL
    /\ \E ok \in BOOLEAN :
          /\ Effect(child, ok, Hit)
          /\ traps' = << CleanupAfter(child, ok) >> \o Tail(traps)
    /\ UNCHANGED << reenters, pc, orphans, shellVars, signals, status >>

\* cleanup returns to what it was called in; the script ends with the cleanup
\* for its end.
Return ==
    /\ ~Ended
    /\ InTrap
    /\ Head(traps) = "return"
    /\ traps' = Tail(traps)
    /\ pc' = IF pc = "exiting" /\ Tail(traps) = << >> THEN "ended" ELSE pc
    /\ UNCHANGED << reenters, child, orphans, shellVars, signals, fileVars,
                    luks, status >>

Script ==
    \/ Mktemp \/ Trap \/ Arguments \/ Begin \/ End \/ Truncate
    \/ SignalTrap \/ DropSignal \/ ExitTrap
    \/ BeginCleanup \/ EndCleanup \/ Return

-----------------------------------------------------------------------------
(* Signals *)

Signalled ==
    /\ ~Ended
    /\ signals < MaxSignals
    /\ signals' = signals + 1

\* bash goes without waiting for its command, which goes on.
Abandon ==
    /\ orphans' = orphans \union ({child} \ {NULL})
    /\ child' = NULL

\* SIGINT goes to the command too, SIGTERM to the script alone.  Before the
\* trap is set they kill it.
Signal(s) ==
    /\ Signalled
    /\ IF pc \in {"mktemp", "trap"}
       THEN pc' = "killed" /\ UNCHANGED pending
       ELSE pending' = pending \union {s} /\ UNCHANGED pc
    /\ UNCHANGED << reenters, traps, child, orphans, errexit, dropped,
                    fileVars, luks, status >>

\* SIGHUP: the trap for the end is run with the command still there.  Where it
\* runs already, or is not set yet, bash dies.
HangUp ==
    /\ Signalled
    /\ Abandon
    /\ IF pc \in {"mktemp", "trap", "exiting"}
       THEN pc' = "killed" /\ UNCHANGED << traps, errexit, status >>
       ELSE pc' = "exiting" /\ Cleanup(<< >>) /\ status' = 129
    /\ UNCHANGED << reenters, pending, dropped, fileVars, luks >>

Kill ==
    /\ ~Ended
    /\ Abandon
    /\ pc' = "killed"
    /\ UNCHANGED << reenters, traps, shellVars, signals, fileVars, luks,
                    status >>

\* A command that nobody waits for is over.
OrphanEnds ==
    /\ \E command \in orphans, ok \in BOOLEAN :
          /\ orphans' = orphans \ {command}
          /\ Effect(command, ok, TRUE)
    /\ UNCHANGED << reenters, pc, traps, child, shellVars, signals, status >>

Over == Ended /\ orphans = {} /\ UNCHANGED vars

Next ==
    \/ Script \/ (\E s \in {"INT", "TERM"} : Signal(s))
    \/ HangUp \/ Kill \/ OrphanEnds \/ Over

Spec == Init /\ [][Next]_vars

\* The commands the script runs end, and the script goes on.
FairSpec == Spec /\ WF_vars(Script)

-----------------------------------------------------------------------------
(* What makes the script correct *)

ShellTypeOK ==
    /\ reenters \in BOOLEAN
    /\ pc \in {"mktemp", "trap", "arguments", "truncate", "exit", "exiting",
               "ended", "killed"} \union ScriptCommands
    /\ traps \in Seq(CleanupCommands \union {"return"})
    /\ child \in Commands \union {NULL}
    /\ orphans \subseteq Commands
    /\ errexit \in BOOLEAN
    /\ pending \subseteq {"INT", "TERM"}
    /\ dropped \in BOOLEAN

FileTypeOK ==
    /\ directory \in BOOLEAN
    /\ mounted \in BOOLEAN
    /\ stuck \in BOOLEAN
    /\ keyfile \in {NULL, "empty", "secret"}
    /\ luks \in {NULL, "empty", "secret"}
    /\ mounted \/ keyfile # NULL => directory

\* Types, and that files are only where their directory is.
TypeOK ==
    /\ ShellTypeOK
    /\ FileTypeOK
    /\ signals \in 0 .. MaxSignals
    /\ status \in {0, 1, 129}

\* A SIGINT killed a command of a cleanup, and no other cleanup was run for
\* it: only where bash does not run a trap inside a trap.
CutShort == dropped /\ ~reenters

\* The secret is in no file but one on the ramfs: never on a disk, though a
\* signal removes the mount and the script goes on after it, and though others
\* come while it is removed.
SecretOnlyOnRamfs == keyfile = "secret" => mounted \/ CutShort

\* However the script ends, but for a signal that kills it, it leaves no key
\* behind, and no mount or directory unless umount could not remove it.
NothingLeft ==
    pc = "ended" =>
        \/ keyfile = NULL /\ (stuck \/ ~(mounted \/ directory))
        \/ CutShort

\* What is added to the header is the secret that khefin printed, never the
\* empty file of a khefin that failed or was interrupted.
OnlySecretsAdded == luks \in {NULL, "secret"} \/ stuck \/ CutShort

\* The exit status 0 means that the key was added, whatever signals came.
SuccessMeansAdded ==
    pc = "ended" /\ status = 0 => luks # NULL \/ stuck \/ CutShort

\* The script ends.
ScriptEnds == <>Ended

-----------------------------------------------------------------------------
(* What a bash that does not run a trap inside a trap makes of it *)

\* cleanup tries "really hard to clean up, even if part of cleanup fails"
\* (add-luks-key.m4:25), so that no secret gets to a disk.  It does where a
\* SIGINT in the trap for SIGINT is not seen to: rm -rf is killed, and the
\* script goes on in a directory without a mount.
SecretNeverOnDisk == keyfile = "secret" => mounted

=============================================================================
