-------------------------- MODULE AddLuksKeyProofs --------------------------
(***************************************************************************)
(* The safety of add-luks-key, for any number of signals, whether or not   *)
(* umount may fail, and for a bash that runs a trap inside a trap as well  *)
(* as for one that does not.                                               *)
(***************************************************************************)
EXTENDS AddLuksKey, TLAPS

-----------------------------------------------------------------------------
(* The inductive invariant *)

\* Signals are not trapped yet, and nothing is there before mktemp.
NothingYet ==
    /\ pc = "mktemp" => ~directory
    /\ pc \in {"mktemp", "trap"} =>
          traps = << >> /\ child = NULL /\ pending = {} /\ errexit

\* bash waits for the command that the script or the cleanup is at.  Only one
\* that got a SIGHUP, or was killed, leaves a command behind.
Processes ==
    /\ child # NULL /\ traps = << >> => child = pc /\ pc \in ScriptCommands
    /\ child # NULL /\ traps # << >> => child \in CleanupCommands
    /\ orphans # {} => pc \in {"exiting", "ended", "killed"}

\* The script goes on under set -e until a cleanup is run.
UnderErrexit == traps # << >> => ~errexit

\* Where a cleanup is at its end there is no key, and a directory only where
\* umount failed, unless a SIGINT came: then another cleanup is run before
\* this one returns.
AtReturn ==
    traps # << >> /\ Head(traps) = "return" /\ ~Hit =>
        \/ /\ keyfile = NULL
           /\ directory => stuck
           /\ directory /\ pc \notin {"exiting", "ended", "killed"} => mounted
        \/ CutShort

\* So it is for a script that goes on after its cleanups, and at its end.
CleanedUp ==
    /\ ~errexit /\ traps = << >> /\ pc \notin {"exiting", "ended", "killed"} =>
          (directory => mounted /\ stuck) \/ CutShort
    /\ pc = "ended" => (keyfile = NULL /\ (directory => stuck)) \/ CutShort

\* The script comes to the commands after the mount with the ramfs mounted, or
\* else with a SIGINT for which cleanup is run before the command.
OnRamfs ==
    /\ pc \in {"generate", "luksAddKey", "truncate"} /\ errexit /\ ~Hit =>
          mounted
    /\ keyfile # NULL => mounted \/ CutShort

\* cryptsetup is run on what khefin printed and not on an empty file, again
\* unless cleanup is run first or has been run and umount failed.
SecretReady ==
    (\/ child = "luksAddKey"
     \/ "luksAddKey" \in orphans
     \/ pc = "luksAddKey" /\ errexit /\ ~Hit)
    => keyfile \in {NULL, "secret"} \/ stuck \/ CutShort

\* The status 0 is given, and the last command come to, with the key added.
StatusIsTrue ==
    /\ pc = "truncate" /\ errexit /\ ~Hit => luks # NULL
    /\ pc \in {"exit", "exiting", "ended"} /\ status = 0 =>
          luks # NULL \/ stuck \/ CutShort

Numbers == signals \in 0 .. MaxSignals /\ status \in {0, 1, 129}

Types == ShellTypeOK /\ FileTypeOK /\ Numbers

Progress == NothingYet /\ Processes /\ UnderErrexit

Safe ==
    AtReturn /\ CleanedUp /\ OnRamfs /\ SecretReady /\ StatusIsTrue
    /\ OnlySecretsAdded

Inv == Types /\ Progress /\ Safe

-----------------------------------------------------------------------------
(* What the commands do *)

USE AddLuksKeyAssumption

\* No command, done, failed or hit, makes a key where there was none, leaves
\* one where it removed the ramfs, or leaves a directory where there was none
\* but where umount failed.
LEMMA Effects ==
    ASSUME FileTypeOK, NEW command \in Commands, NEW ok \in BOOLEAN,
           NEW hit \in BOOLEAN, Effect(command, ok, hit)
    PROVE  /\ FileTypeOK'
           /\ keyfile' \in {keyfile, NULL, "secret"}
           /\ keyfile' # NULL => keyfile # NULL /\ (mounted => mounted')
           /\ stuck => stuck'
           /\ (directory => stuck) => (directory' => stuck')
  <1> USE DEF FileTypeOK
  <1>1. CASE command = "mount"
    BY <1>1 DEF Effect, Mount
  <1>2. CASE command = "generate"
    BY <1>2 DEF Effect, Generate
  <1>3. CASE command = "luksAddKey"
    BY <1>3 DEF Effect, LuksAddKey, fileVars
  <1>4. CASE command = "rmKeyfile"
    BY <1>4 DEF Effect, RmKeyfile
  <1>5. CASE command = "umount"
    BY <1>5 DEF Effect, Umount
  <1>6. CASE command = "rmDirectory"
    BY <1>6 DEF Effect, RmDirectory, DirectoryAfter
  <1> QED
    BY <1>1, <1>2, <1>3, <1>4, <1>5, <1>6
    DEF Commands, ScriptCommands, CleanupCommands

\* Only cryptsetup adds a key, and it adds the one that is in the file.
LEMMA EffectsOnLuks ==
    ASSUME FileTypeOK, NEW command \in Commands, NEW ok \in BOOLEAN,
           NEW hit \in BOOLEAN, Effect(command, ok, hit)
    PROVE  \/ luks' = luks
           \/ command = "luksAddKey" /\ luks' = keyfile /\ keyfile # NULL
  <1> USE DEF FileTypeOK
  <1>1. CASE command = "luksAddKey"
    BY <1>1 DEF Effect, LuksAddKey
  <1>2. CASE command # "luksAddKey"
    BY <1>2 DEF Effect, Mount, Generate, RmKeyfile, Umount, RmDirectory
  <1> QED
    BY <1>1, <1>2

\* The commands of the script leave the directory and its mount alone, and one
\* that succeeds has done what it is for.
LEMMA ScriptEffects ==
    ASSUME FileTypeOK, NEW command \in ScriptCommands, NEW ok \in BOOLEAN,
           NEW hit \in BOOLEAN, Effect(command, ok, hit)
    PROVE  /\ UNCHANGED << directory, stuck >>
           /\ mounted => mounted'
           /\ mounted' => directory
           /\ keyfile' # keyfile => command = "generate" /\ keyfile' = "secret"
           /\ ok /\ command = "mount" => mounted'
           /\ ok /\ command = "generate" => keyfile' \in {NULL, "secret"}
           /\ ok /\ command = "luksAddKey" => luks' # NULL
  <1> USE DEF FileTypeOK
  <1>1. CASE command = "mount"
    BY <1>1 DEF Effect, Mount
  <1>2. CASE command = "generate"
    BY <1>2 DEF Effect, Generate
  <1>3. CASE command = "luksAddKey"
    BY <1>3 DEF Effect, LuksAddKey, fileVars
  <1> QED
    BY <1>1, <1>2, <1>3 DEF ScriptCommands

\* The last command of cleanup does its work, unless it is hit.
LEMMA RmDirectoryEffects ==
    ASSUME FileTypeOK, NEW ok \in BOOLEAN, NEW hit \in BOOLEAN,
           Effect("rmDirectory", ok, hit)
    PROVE  \/ hit
           \/ keyfile' = NULL /\ (directory' => mounted' /\ stuck')
  BY DEF Effect, RmDirectory, DirectoryAfter, MayFail, ScriptCommands,
         FileTypeOK

-----------------------------------------------------------------------------
(* Init and every action *)

\* A cleanup that is begun is put before the others.
LEMMA InnerCleanup ==
    ASSUME NEW S, NEW label \in S, NEW outer \in Seq(S)
    PROVE  /\ << label >> \o outer \in Seq(S)
           /\ << label >> \o outer # << >>
           /\ Head(<< label >> \o outer) = label
  OBVIOUS

\* There are no files, no key and no signal at the start.
LEMMA InitInv == Init => Inv
  <1> SUFFICES ASSUME Init PROVE Inv
    OBVIOUS
  <1> USE DEF Init
  <1>1. Types
    <2> << >> \in Seq(CleanupCommands \union {"return"})
      OBVIOUS
    <2>1. ShellTypeOK
      BY DEF ShellTypeOK
    <2>2. FileTypeOK
      BY DEF FileTypeOK
    <2>3. Numbers
      BY DEF Numbers
    <2> QED
      BY <2>1, <2>2, <2>3 DEF Types
  <1>2. Progress
    BY DEF Progress, NothingYet, Processes, UnderErrexit
  <1>3. Safe
    BY DEF Safe, AtReturn, CleanedUp, OnRamfs, SecretReady, StatusIsTrue,
           OnlySecretsAdded
  <1> QED
    BY <1>1, <1>2, <1>3 DEF Inv

\* The lemmas on the single actions all need the parts of the invariant.
USE DEF Inv, Types, Progress, Safe, shellVars, fileVars, Hit, CutShort, Ended,
        ShellTypeOK, FileTypeOK, Numbers, NothingYet, Processes, UnderErrexit,
        AtReturn, CleanedUp, OnRamfs, SecretReady, StatusIsTrue,
        OnlySecretsAdded

\* mktemp -d makes the directory, or fails and the script ends with nothing
\* made.
LEMMA MktempInv ==
    ASSUME Inv, Mktemp
    PROVE  Inv'
  <1>1. ShellTypeOK'
    BY DEF Mktemp
  <1>2. FileTypeOK'
    BY DEF Mktemp
  <1>3. Numbers'
    BY DEF Mktemp
  <1>4. Progress'
    BY DEF Mktemp
  <1>5. Safe'
    BY DEF Mktemp, Commands, CleanupCommands, ScriptCommands
  <1> QED
    BY <1>1, <1>2, <1>3, <1>4, <1>5

\* From here on signals are trapped.
LEMMA TrapInv ==
    ASSUME Inv, Trap
    PROVE  Inv'
  <1>1. Types'
    BY DEF Trap
  <1>2. Progress'
    BY DEF Trap
  <1>3. Safe'
    BY DEF Trap, Commands, CleanupCommands, ScriptCommands
  <1> QED
    BY <1>1, <1>2, <1>3

\* The script goes on to its first command, or to its end with status 1.
LEMMA ArgumentsInv ==
    ASSUME Inv, Arguments
    PROVE  Inv'
  <1>1. Types'
    BY DEF Arguments, ScriptCommands, InScript, Waits
  <1>2. Progress'
    BY DEF Arguments, ScriptCommands, InScript, Waits
  <1>3. Safe'
    BY DEF Arguments, ScriptCommands, InScript, Waits, Commands,
        CleanupCommands
  <1> QED
    BY <1>1, <1>2, <1>3

\* The key file is made only where there is a directory, and the script comes
\* to that only with the ramfs on it or, after a cleanup, where umount failed.
LEMMA BeginInv ==
    ASSUME Inv, Begin
    PROVE  Inv'
  <1>1. Types'
    BY DEF Begin, InScript, Waits, AfterFailure, CommandAfter, ScriptCommands,
           Commands, CleanupCommands
  <1>2. Progress'
    BY DEF Begin, InScript, Waits, AfterFailure, CommandAfter, ScriptCommands,
           Commands, CleanupCommands
  <1>3. Safe'
    BY DEF Begin, InScript, Waits, AfterFailure, CommandAfter, ScriptCommands,
           Commands, CleanupCommands
  <1> QED
    BY <1>1, <1>2, <1>3

\* The key file is emptied on the ramfs, and the status 0 given with the key
\* added.
LEMMA TruncateInv ==
    ASSUME Inv, Truncate
    PROVE  Inv'
  <1>1. Types'
    BY DEF Truncate, InScript, Waits, ScriptCommands
  <1>2. Progress'
    BY DEF Truncate, InScript, Waits, ScriptCommands
  <1>3. Safe'
    BY DEF Truncate, InScript, Waits, ScriptCommands, Commands, CleanupCommands
  <1> QED
    BY <1>1, <1>2, <1>3

\* The cleanup for a signal is begun inside whatever was going on.
LEMMA SignalTrapInv ==
    ASSUME Inv, SignalTrap
    PROVE  Inv'
  <1>1. traps' \in Seq(CleanupCommands \union {"return"}) /\ traps' # << >>
       /\ Head(traps') = "rmKeyfile"
    BY InnerCleanup DEF SignalTrap, Cleanup, CleanupCommands
  <1>2. ShellTypeOK'
    BY <1>1 DEF SignalTrap, Cleanup
  <1>3. FileTypeOK'
    BY <1>1 DEF SignalTrap, Cleanup
  <1>4. Numbers'
    BY <1>1 DEF SignalTrap, Cleanup
  <1>5. Progress'
    BY <1>1 DEF SignalTrap, Cleanup
  <1>6. Safe'
    BY <1>1 DEF SignalTrap, Cleanup, Commands, CleanupCommands, ScriptCommands
  <1> QED
    BY <1>2, <1>3, <1>4, <1>5, <1>6

\* A bash that does not run a trap inside a trap goes on with the cleanup: if
\* the signal was a SIGINT, the one that CutShort excuses.
LEMMA DropSignalInv ==
    ASSUME Inv, DropSignal
    PROVE  Inv'
  <1>1. Types'
    BY DEF DropSignal
  <1>2. Progress'
    BY DEF DropSignal
  <1>3. Safe'
    BY DEF DropSignal, Commands, CleanupCommands, ScriptCommands
  <1> QED
    BY <1>1, <1>2, <1>3

\* The cleanup for the end of the script is begun.
LEMMA ExitTrapInv ==
    ASSUME Inv, ExitTrap
    PROVE  Inv'
  <1>1. traps' \in Seq(CleanupCommands \union {"return"}) /\ traps' # << >>
       /\ Head(traps') = "rmKeyfile"
    BY InnerCleanup DEF ExitTrap, Cleanup, CleanupCommands
  <1>2. ShellTypeOK'
    BY <1>1 DEF ExitTrap, Cleanup, InScript, Waits
  <1>3. FileTypeOK'
    BY <1>1 DEF ExitTrap, Cleanup, InScript, Waits
  <1>4. Numbers'
    BY <1>1 DEF ExitTrap, Cleanup, InScript, Waits
  <1>5. Progress'
    BY <1>1 DEF ExitTrap, Cleanup, InScript, Waits
  <1>6. Safe'
    BY <1>1
    DEF ExitTrap, Cleanup, InScript, Waits, Commands, CleanupCommands,
        ScriptCommands
  <1> QED
    BY <1>2, <1>3, <1>4, <1>5, <1>6

\* A command of cleanup starts; it is none of the script.
LEMMA BeginCleanupInv ==
    ASSUME Inv, BeginCleanup
    PROVE  Inv'
  <1>1. Head(traps) \in CleanupCommands
    BY DEF BeginCleanup, InTrap
  <1>2. Types'
    BY <1>1 DEF BeginCleanup, InTrap, Waits, Commands, CleanupCommands
  <1>3. Progress'
    BY <1>1 DEF BeginCleanup, InTrap, Waits, Commands, CleanupCommands
  <1>4. Safe'
    BY <1>1
    DEF BeginCleanup, InTrap, Waits, Commands, CleanupCommands, ScriptCommands
  <1> QED
    BY <1>2, <1>3, <1>4

\* A cleanup returns with its work done, since no signal waits, and what it
\* returns to, a cleanup or the script, finds it so.
LEMMA ReturnInv ==
    ASSUME Inv, Return
    PROVE  Inv'
  <1>1. Types'
    BY DEF Return, InTrap, Waits
  <1>2. Progress'
    BY DEF Return, InTrap, Waits
  <1>3. Safe'
    BY DEF Return, InTrap, Waits, Commands, CleanupCommands, ScriptCommands
  <1> QED
    BY <1>1, <1>2, <1>3

\* A signal changes nothing but what is done next.
LEMMA SignalInv ==
    ASSUME Inv, NEW s \in {"INT", "TERM"}, Signal(s)
    PROVE  Inv'
  <1>1. ShellTypeOK'
    BY DEF Signal, Signalled
  <1>2. FileTypeOK'
    BY DEF Signal, Signalled
  <1>3. Numbers'
    BY DEF Signal, Signalled
  <1>4. Progress'
    BY DEF Signal, Signalled
  <1>5. Safe'
    BY DEF Signal, Signalled, Commands, CleanupCommands, ScriptCommands
  <1> QED
    BY <1>1, <1>2, <1>3, <1>4, <1>5

\* After a SIGHUP the script goes on to no command but those of its cleanup,
\* and what it waited for goes on alone.
LEMMA HangUpInv ==
    ASSUME Inv, HangUp
    PROVE  Inv'
  <1>1. "luksAddKey" \in orphans' =>
          child = "luksAddKey" \/ "luksAddKey" \in orphans
    BY DEF HangUp, Abandon
  <1>2. child' = NULL /\ orphans' \subseteq Commands
    BY DEF HangUp, Abandon, Commands
  <1>3. traps' = traps \/ traps' = << "rmKeyfile" >>
    BY DEF HangUp, Cleanup
  <1>4. << "rmKeyfile" >> \in Seq(CleanupCommands \union {"return"})
    BY DEF CleanupCommands
  <1>5. traps' \in Seq(CleanupCommands \union {"return"})
    BY <1>3, <1>4
  <1>6. traps' = << "rmKeyfile" >> =>
          traps' # << >> /\ Head(traps') = "rmKeyfile"
    OBVIOUS
  <1>7. ShellTypeOK'
    BY <1>1, <1>2, <1>3, <1>4, <1>5, <1>6 DEF HangUp, Signalled, Cleanup
  <1>8. FileTypeOK'
    BY <1>1, <1>2, <1>3, <1>4, <1>5, <1>6 DEF HangUp, Signalled, Cleanup
  <1>9. Numbers'
    BY <1>1, <1>2, <1>3, <1>4, <1>5, <1>6 DEF HangUp, Signalled, Cleanup
  <1>10. Progress'
    BY <1>1, <1>2, <1>3, <1>4, <1>5, <1>6 DEF HangUp, Signalled, Cleanup
  <1>11. Safe'
    BY <1>1, <1>2, <1>3, <1>4, <1>5, <1>6
    DEF HangUp, Signalled, Cleanup, Commands, CleanupCommands, ScriptCommands
  <1> QED
    BY <1>7, <1>8, <1>9, <1>10, <1>11

\* The same goes for a script that is killed, which makes no cleanup either.
LEMMA KillInv ==
    ASSUME Inv, Kill
    PROVE  Inv'
  <1>1. "luksAddKey" \in orphans' =>
          child = "luksAddKey" \/ "luksAddKey" \in orphans
    BY DEF Kill, Abandon
  <1>2. child' = NULL /\ orphans' \subseteq Commands
    BY DEF Kill, Abandon, Commands
  <1>3. Types'
    BY <1>1, <1>2 DEF Kill
  <1>4. Progress'
    BY <1>1, <1>2 DEF Kill
  <1>5. Safe'
    BY <1>1, <1>2 DEF Kill, Commands, CleanupCommands, ScriptCommands
  <1> QED
    BY <1>3, <1>4, <1>5

\* A command of the script is over: it has done what it is for, or set -e ends
\* the script, or a cleanup is run before the next or was run before.
LEMMA EndInv ==
    ASSUME Inv, NEW ok \in BOOLEAN, End, Effect(child, ok, Hit),
           IF ok \/ Hit THEN pc' = CommandAfter(pc) /\ UNCHANGED status
                        ELSE pc' = AfterFailure(pc) /\ status' = 1
    PROVE  Inv'
  <1> HIDE DEF Hit, FileTypeOK
  <1>1. FileTypeOK /\ Hit \in BOOLEAN
    BY DEF Inv, Types, Hit
  <1>2. child = pc /\ pc \in ScriptCommands /\ orphans = {}
    BY DEF Inv, Progress, Processes, End, ScriptCommands
  <1>3. /\ FileTypeOK'
        /\ keyfile' \in {keyfile, NULL, "secret"}
        /\ keyfile' # NULL => keyfile # NULL /\ (mounted => mounted')
        /\ stuck => stuck'
        /\ (directory => stuck) => (directory' => stuck')
    BY <1>1, <1>2, Effects DEF Commands
  <1>4. /\ UNCHANGED << directory, stuck >>
        /\ mounted => mounted'
        /\ mounted' => directory
        /\ keyfile' # keyfile => pc = "generate" /\ keyfile' = "secret"
        /\ ok /\ pc = "mount" => mounted'
        /\ ok /\ pc = "generate" => keyfile' \in {NULL, "secret"}
        /\ ok /\ pc = "luksAddKey" => luks' # NULL
    BY <1>1, <1>2, ScriptEffects
  <1>5. luks' = luks
       \/ (pc = "luksAddKey" /\ luks' = keyfile /\ keyfile # NULL)
    BY <1>1, <1>2, EffectsOnLuks DEF Commands
  <1> USE DEF Hit, FileTypeOK
  <1>6. Types'
    BY <1>1, <1>2, <1>3, <1>4, <1>5
    DEF End, CommandAfter, AfterFailure, ScriptCommands
  <1>7. Progress'
    BY <1>1, <1>2, <1>3, <1>4, <1>5
    DEF End, CommandAfter, AfterFailure, ScriptCommands
  <1>8. Safe'
    BY <1>1, <1>2, <1>3, <1>4, <1>5
    DEF End, CommandAfter, AfterFailure, ScriptCommands, Commands,
        CleanupCommands
  <1> QED
    BY <1>6, <1>7, <1>8

\* A command of cleanup is over: rm -rf has left a directory only where umount
\* failed, unless a SIGINT hit it.
LEMMA EndCleanupInv ==
    ASSUME Inv, NEW ok \in BOOLEAN, EndCleanup, Effect(child, ok, Hit),
           traps' = << CleanupAfter(child, ok) >> \o Tail(traps)
    PROVE  Inv'
  <1> HIDE DEF Hit, FileTypeOK
  <1>1. FileTypeOK /\ Hit \in BOOLEAN
    BY DEF Inv, Types, Hit
  <1>2. child \in CleanupCommands
    BY DEF Inv, Progress, Processes, EndCleanup
  <1>3. /\ FileTypeOK'
        /\ keyfile' \in {keyfile, NULL, "secret"}
        /\ keyfile' # NULL => keyfile # NULL /\ (mounted => mounted')
        /\ stuck => stuck'
        /\ (directory => stuck) => (directory' => stuck')
    BY <1>1, <1>2, Effects DEF Commands
  <1>4. UNCHANGED luks
    BY <1>1, <1>2, EffectsOnLuks DEF Commands, CleanupCommands
  <1>5. /\ traps' \in Seq(CleanupCommands \union {"return"})
        /\ traps' # << >>
        /\ Head(traps') = CleanupAfter(child, ok)
    BY <1>1, <1>2, InnerCleanup
    DEF Inv, Types, ShellTypeOK, EndCleanup, CleanupAfter, CleanupCommands
  <1>6. Head(traps') = "return" /\ ~Hit =>
          keyfile' = NULL /\ (directory' => mounted' /\ stuck')
    BY <1>1, <1>2, <1>5, RmDirectoryEffects DEF CleanupAfter, CleanupCommands
  <1> USE DEF Hit, FileTypeOK
  <1>7. Types'
    BY <1>1, <1>2, <1>3, <1>4, <1>5, <1>6 DEF EndCleanup
  <1>8. Progress'
    BY <1>1, <1>2, <1>3, <1>4, <1>5, <1>6 DEF EndCleanup
  <1>9. Safe'
    BY <1>1, <1>2, <1>3, <1>4, <1>5, <1>6
    DEF EndCleanup, Commands, CleanupCommands, ScriptCommands
  <1> QED
    BY <1>7, <1>8, <1>9

\* A command that nobody waits for is over: the script has no command left that
\* its file or its mount could matter to.
LEMMA OrphanEndsInv ==
    ASSUME Inv, NEW command \in orphans, NEW ok \in BOOLEAN,
           OrphanEnds, orphans' = orphans \ {command},
           Effect(command, ok, TRUE)
    PROVE  Inv'
  <1>1. pc \in {"exiting", "ended", "killed"} /\ command \in Commands
    OBVIOUS
  <1>2. /\ FileTypeOK'
        /\ keyfile' \in {keyfile, NULL, "secret"}
        /\ keyfile' # NULL => keyfile # NULL /\ (mounted => mounted')
        /\ stuck => stuck'
        /\ (directory => stuck) => (directory' => stuck')
    BY <1>1, Effects
  <1>3. luks' = luks
       \/ (command = "luksAddKey" /\ luks' = keyfile /\ keyfile # NULL)
    BY <1>1, EffectsOnLuks
  <1>4. Types'
    BY <1>1, <1>2, <1>3 DEF OrphanEnds
  <1>5. Progress'
    BY <1>1, <1>2, <1>3 DEF OrphanEnds
  <1>6. Safe'
    BY <1>1, <1>2, <1>3
    DEF OrphanEnds, Commands, CleanupCommands, ScriptCommands
  <1> QED
    BY <1>4, <1>5, <1>6

HIDE DEF Inv, Types, Progress, Safe, shellVars, fileVars, Hit, CutShort, Ended,
         ShellTypeOK, FileTypeOK, Numbers, NothingYet, Processes, UnderErrexit,
         AtReturn, CleanedUp, OnRamfs, SecretReady, StatusIsTrue,
         OnlySecretsAdded

\* Every step of the script, of its cleanups and of the commands that outlive
\* it, and every signal, keeps the invariant.
LEMMA NextInv ==
    ASSUME Inv, [Next]_vars
    PROVE  Inv'
  <1>1. CASE Mktemp \/ Trap \/ Arguments \/ Begin \/ Truncate
    BY <1>1, MktempInv, TrapInv, ArgumentsInv, BeginInv, TruncateInv
  <1>2. CASE End
    BY <1>2, EndInv DEF End
  <1>3. CASE SignalTrap \/ DropSignal \/ ExitTrap \/ BeginCleanup \/ Return
    BY <1>3, SignalTrapInv, DropSignalInv, ExitTrapInv, BeginCleanupInv,
       ReturnInv
  <1>4. CASE EndCleanup
    BY <1>4, EndCleanupInv DEF EndCleanup
  <1>5. CASE (\E s \in {"INT", "TERM"} : Signal(s)) \/ HangUp \/ Kill
    BY <1>5, SignalInv, HangUpInv, KillInv
  <1>6. CASE OrphanEnds
    BY <1>6, OrphanEndsInv DEF OrphanEnds
  <1>7. CASE UNCHANGED vars
    BY <1>7
    DEF vars, Inv, Types, ShellTypeOK, FileTypeOK, Numbers, Progress,
        NothingYet, Processes, UnderErrexit, Safe, AtReturn, CleanedUp,
        OnRamfs, SecretReady, StatusIsTrue, OnlySecretsAdded, CutShort, Hit,
        shellVars, fileVars
  <1> QED
    BY <1>1, <1>2, <1>3, <1>4, <1>5, <1>6, <1>7 DEF Next, Script, Over

-----------------------------------------------------------------------------
(* The theorems *)

\* The invariant holds in every reachable state.
THEOREM Invariant == Spec => []Inv
  BY InitInv, NextInv, PTL DEF Spec

\* The state of the script is always typed, and there are files only where
\* there is a directory.
THEOREM ScriptTyped == Spec => []TypeOK
  <1>1. Inv => TypeOK
    BY DEF Inv, Types, TypeOK, Numbers
  <1> QED
    BY <1>1, Invariant, PTL

\* The secret that khefin printed is never in a file on a disk: not even when
\* a signal removes the ramfs in the middle and the script goes on, and others
\* hit the commands that remove it.  The one exception is a SIGINT in a cleanup
\* under a bash that runs no trap inside a trap.
THEOREM SecretStaysOnRamfs == Spec => []SecretOnlyOnRamfs
  <1>1. Inv => SecretOnlyOnRamfs
    BY DEF Inv, Types, FileTypeOK, Safe, OnRamfs, SecretOnlyOnRamfs
  <1> QED
    BY <1>1, Invariant, PTL

\* Whatever fails and whatever signals come, be it in its cleanups, a script
\* that was not killed has left no key, and no mount that umount could remove;
\* with the same exception.
THEOREM CleansUp == Spec => []NothingLeft
  <1>1. Inv => NothingLeft
    BY DEF Inv, Types, FileTypeOK, Safe, CleanedUp, NothingLeft
  <1> QED
    BY <1>1, Invariant, PTL

\* The header gets no key but the one that khefin printed, while umount works;
\* with the same exception.
THEOREM AddsOnlySecrets == Spec => []OnlySecretsAdded
  <1>1. Inv => OnlySecretsAdded
    BY DEF Inv, Safe
  <1> QED
    BY <1>1, Invariant, PTL

\* Status 0 means that the key was added, while umount works; with the same
\* exception.
THEOREM SuccessIsTrue == Spec => []SuccessMeansAdded
  <1>1. Inv => SuccessMeansAdded
    BY DEF Inv, Safe, StatusIsTrue, SuccessMeansAdded
  <1> QED
    BY <1>1, Invariant, PTL

=============================================================================
