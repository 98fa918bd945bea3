--------------------------- MODULE BootHookProofs ---------------------------
(***************************************************************************)
(* The safety of the mkinitcpio hook, for any list of keyfiles, kernel     *)
(* parameters, lines typed and changes of the authenticator.               *)
(***************************************************************************)
EXTENDS BootHook, TLAPS

-----------------------------------------------------------------------------
(* The inductive invariant *)

\* The statements of the loop over the attempts, after its first.
Attempting == {"read", "write passphrase", "generate", "decide"}

InLoop == {"for", "while"} \union Attempting

\* An attempt is logged with all its parts.
LogOK == log \in [Keyfile -> Attempt \union {NULL}]

\* The passphrase variable is what the kernel parameters or the user gave, and
\* it is in its file for khefin, where there is a directory for that.
PassphraseOK ==
    /\ passphrase \in Passphrase \union {NULL}
    /\ pc \in {"write passphrase", "generate", "decide"} => passphrase # NULL
    /\ pc = "generate" =>
          IF HasDirectory THEN passphrase_file = passphrase
          ELSE passphrase_file \in {NULL, Empty}
    /\ pc = "decide" => passphrase_file = passphrase

\* Until the ramfs is mounted no keyfile was looked at.
NotYet ==
    pc \in {"enumerate", "press any key", "mount"} =>
        /\ index = 1
        /\ passphrase_tries = 0
        /\ result = NULL
        /\ option = NULL
        /\ key_file = NULL

\* In the loops the parameters are settled, and an attempt is at a keyfile
\* and is counted.
LoopOK ==
    /\ pc \in InLoop =>
          /\ option \in {"NEVER", "ONCE", "ALWAYS"}
          /\ attempts > 0
    /\ pc \in {"while"} \union Attempting =>
          /\ index \in DOMAIN Entries
          /\ Entries[index] \in Keyfile
    /\ pc = "while" => passphrase_tries < attempts
    /\ pc = "decide" => result \in ExitCodes

\* Who has no passphrase has to be asked: never for a hardcoded one, and
\* otherwise before the first attempt, after a bad one, or for a new keyfile.
AskedOnly ==
    /\ pc \in InLoop /\ option = "NEVER" => passphrase # NULL
    /\ pc = "for" /\ option = "ONCE" /\ passphrase = NULL =>
          result \in {NULL, EXIT_BAD_PASSPHRASE}
    /\ pc = "while" /\ passphrase = NULL =>
          \/ result \in {NULL, EXIT_BAD_PASSPHRASE}
          \/ option = "ALWAYS" /\ passphrase_tries = 0

\* What khefin left in the key file agrees with the status it gave, and a
\* secret there is that of the keyfile at hand.
VerdictIsTrue ==
    /\ pc = "decide" =>
          IF result = EXIT_SUCCESS
          THEN /\ key_file = SecretOf(Entries[index])
               /\ passphrase = PassphraseOf[Entries[index]]
          ELSE key_file = Empty
    /\ pc \in InLoop \ {"decide"} => key_file \in {NULL, Empty}
    /\ pc # "ran" /\ ~Ended => ~cryptkey

\* The rest of the invariant is what the runs check.
Safe ==
    /\ CryptkeyNamesASecret
    /\ NoPassphraseAtRest
    /\ EveryKeyfileTried
    /\ AllAttemptsGranted

Inv ==
    /\ TypeOK
    /\ LogOK
    /\ PassphraseOK
    /\ NotYet
    /\ LoopOK
    /\ AskedOnly
    /\ VerdictIsTrue
    /\ Safe

-----------------------------------------------------------------------------
(* Init and every action *)

USE BootHookAssumption

\* The entries are a finite list, and its members are where they are.
LEMMA EntriesFacts ==
    /\ Len(Entries) \in Nat
    /\ DOMAIN Entries = 1 .. Len(Entries)
  OBVIOUS

\* The limit on the attempts is at least one, whatever the kernel parameter.
LEMMA AttemptsPositive ==
    ASSUME parameters \in KernelParameters
    PROVE  EffectiveAttempts \in Nat /\ EffectiveAttempts > 0
  BY DEF EffectiveAttempts, m4_INITCPIO_DEFAULT_MAX_PASSPHRASE_ATTEMPTS

\* There is an attempt left whenever one is begun.
LEMMA TriesLeft ==
    ASSUME Inv, pc = "while"
    PROVE  passphrase_tries + 1 \in 0 .. attempts
  <1>1. attempts \in Nat /\ passphrase_tries \in 0 .. attempts
    BY DEF Inv, TypeOK, LoopTypeOK
  <1>2. passphrase_tries < attempts
    BY DEF Inv, LoopOK
  <1> QED
    BY <1>1, <1>2

\* The hook starts with nothing tried, written or mounted.
LEMMA InvInit == Init => Inv
  <1> SUFFICES ASSUME Init PROVE Inv
    OBVIOUS
  <1> USE EntriesFacts DEF Init
  <1>1. TypeOK
    <2>1. LoopTypeOK
      BY DEF LoopTypeOK
    <2>2. MountTypeOK
      BY DEF MountTypeOK
    <2> QED
      BY <2>1, <2>2 DEF TypeOK
  <1>2. LogOK /\ PassphraseOK
    BY DEF LogOK, PassphraseOK, Passphrase
  <1>3. NotYet /\ LoopOK /\ AskedOnly /\ VerdictIsTrue
    BY DEF NotYet, LoopOK, AskedOnly, VerdictIsTrue, InLoop, Attempting, Ended
  <1>4. Safe
    BY DEF Safe, CryptkeyNamesASecret, NoPassphraseAtRest, EveryKeyfileTried,
           AllAttemptsGranted, LeftBehind
  <1> QED
    BY <1>1, <1>2, <1>3, <1>4 DEF Inv

\* No keyfile is looked at before the mount, nor when the hook skips.
LEMMA EnumerateInv == Inv /\ Enumerate => Inv'
  <1> SUFFICES ASSUME Inv, Enumerate PROVE Inv'
    OBVIOUS
  <1> USE EntriesFacts DEF Inv, Safe, Enumerate, Skip, InLoop, Attempting,
        loopVars, fileVars, mountVars, optionVars, worldVars
  <1>1. TypeOK'
    <2>1. LoopTypeOK'
      BY DEF TypeOK, LoopTypeOK, NotYet, LoopOK
    <2>2. MountTypeOK'
      BY DEF TypeOK, LoopOK, MountTypeOK
    <2> QED
      BY <2>1, <2>2 DEF TypeOK
  <1>2. LogOK' /\ PassphraseOK'
    BY DEF TypeOK, LoopTypeOK, MountTypeOK, LogOK, PassphraseOK, LoopOK
  <1>3. NotYet' /\ LoopOK'
    BY DEF TypeOK, LoopTypeOK, MountTypeOK, NotYet, LoopOK
  <1>4. AskedOnly'
    BY DEF TypeOK, LoopTypeOK, MountTypeOK, PassphraseOK, NotYet, LoopOK,
           AskedOnly
  <1>5. VerdictIsTrue'
    BY DEF TypeOK, LoopTypeOK, MountTypeOK, PassphraseOK, NotYet, LoopOK,
           VerdictIsTrue, Ended
  <1>6. CryptkeyNamesASecret' /\ NoPassphraseAtRest'
    BY DEF TypeOK, LoopTypeOK, MountTypeOK, LogOK, NotYet, LoopOK,
           VerdictIsTrue, Ended, CryptkeyNamesASecret, NoPassphraseAtRest
  <1>7. EveryKeyfileTried' /\ AllAttemptsGranted'
    BY DEF TypeOK, LoopTypeOK, MountTypeOK, LogOK, NotYet, LoopOK,
           VerdictIsTrue, Ended, EveryKeyfileTried, AllAttemptsGranted,
           LeftBehind
  <1> QED
    BY <1>1, <1>2, <1>3, <1>4, <1>5, <1>6, <1>7

\* The same after the key was pressed.
LEMMA PressAnyKeyInv == Inv /\ PressAnyKey => Inv'
  <1> SUFFICES ASSUME Inv, PressAnyKey PROVE Inv'
    OBVIOUS
  <1> USE EntriesFacts DEF Inv, Safe, PressAnyKey, Skip, InLoop, Attempting,
        loopVars, fileVars, mountVars, optionVars, worldVars
  <1>1. TypeOK'
    <2>1. LoopTypeOK'
      BY DEF TypeOK, LoopTypeOK, NotYet, LoopOK
    <2>2. MountTypeOK'
      BY DEF TypeOK, LoopOK, MountTypeOK
    <2> QED
      BY <2>1, <2>2 DEF TypeOK
  <1>2. LogOK' /\ PassphraseOK'
    BY DEF TypeOK, LoopTypeOK, MountTypeOK, LogOK, PassphraseOK, LoopOK
  <1>3. NotYet' /\ LoopOK'
    BY DEF TypeOK, LoopTypeOK, MountTypeOK, NotYet, LoopOK
  <1>4. AskedOnly'
    BY DEF TypeOK, LoopTypeOK, MountTypeOK, PassphraseOK, NotYet, LoopOK,
           AskedOnly
  <1>5. VerdictIsTrue'
    BY DEF TypeOK, LoopTypeOK, MountTypeOK, PassphraseOK, NotYet, LoopOK,
           VerdictIsTrue, Ended
  <1>6. CryptkeyNamesASecret' /\ NoPassphraseAtRest'
    BY DEF TypeOK, LoopTypeOK, MountTypeOK, LogOK, NotYet, LoopOK,
           VerdictIsTrue, Ended, CryptkeyNamesASecret, NoPassphraseAtRest
  <1>7. EveryKeyfileTried' /\ AllAttemptsGranted'
    BY DEF TypeOK, LoopTypeOK, MountTypeOK, LogOK, NotYet, LoopOK,
           VerdictIsTrue, Ended, EveryKeyfileTried, AllAttemptsGranted,
           LeftBehind
  <1> QED
    BY <1>1, <1>2, <1>3, <1>4, <1>5, <1>6, <1>7

\* The mount settles how the passphrase is asked for and how often.
LEMMA MountInv == Inv /\ Mount => Inv'
  <1> SUFFICES ASSUME Inv, Mount PROVE Inv'
    OBVIOUS
  <1> USE EntriesFacts, AttemptsPositive
    DEF Inv, Safe, Mount, HasDirectory, InLoop, Attempting, loopVars, fileVars, mountVars,
        optionVars, worldVars
  <1>1. TypeOK'
    <2>1. LoopTypeOK'
      BY DEF TypeOK, LoopTypeOK, NotYet, LoopOK
    <2>2. MountTypeOK'
      BY DEF TypeOK, LoopOK, MountTypeOK
    <2> QED
      BY <2>1, <2>2 DEF TypeOK
  <1>2. LogOK' /\ PassphraseOK'
    BY DEF TypeOK, LoopTypeOK, MountTypeOK, LogOK, PassphraseOK, LoopOK
  <1>3. NotYet' /\ LoopOK'
    BY DEF TypeOK, LoopTypeOK, MountTypeOK, NotYet, LoopOK
  <1>4. AskedOnly'
    BY DEF TypeOK, LoopTypeOK, MountTypeOK, PassphraseOK, NotYet, LoopOK,
           AskedOnly
  <1>5. VerdictIsTrue'
    BY DEF TypeOK, LoopTypeOK, MountTypeOK, PassphraseOK, NotYet, LoopOK,
           VerdictIsTrue, Ended
  <1>6. CryptkeyNamesASecret' /\ NoPassphraseAtRest'
    BY DEF TypeOK, LoopTypeOK, MountTypeOK, LogOK, NotYet, LoopOK,
           VerdictIsTrue, Ended, CryptkeyNamesASecret, NoPassphraseAtRest
  <1>7. EveryKeyfileTried' /\ AllAttemptsGranted'
    BY DEF TypeOK, LoopTypeOK, MountTypeOK, LogOK, NotYet, LoopOK,
           VerdictIsTrue, Ended, EveryKeyfileTried, AllAttemptsGranted,
           LeftBehind
  <1> QED
    BY <1>1, <1>2, <1>3, <1>4, <1>5, <1>6, <1>7

\* The next keyfile is taken up, or the loop is over and all were left behind.
LEMMA ForInv == Inv /\ For => Inv'
  <1> SUFFICES ASSUME Inv, For PROVE Inv'
    OBVIOUS
  <1> USE EntriesFacts DEF Inv, Safe, For, TriesAtStart, InLoop, Attempting,
        loopVars, fileVars, mountVars, optionVars, worldVars
  <1>1. TypeOK'
    <2>1. LoopTypeOK'
      BY DEF TypeOK, LoopTypeOK, NotYet, LoopOK
    <2>2. MountTypeOK'
      BY DEF TypeOK, LoopOK, MountTypeOK
    <2> QED
      BY <2>1, <2>2 DEF TypeOK
  <1>2. LogOK' /\ PassphraseOK'
    BY DEF TypeOK, LoopTypeOK, MountTypeOK, LogOK, PassphraseOK, LoopOK
  <1>3. NotYet' /\ LoopOK'
    <2>1. CASE pc' = "while"
      BY <2>1 DEF TypeOK, LoopTypeOK, NotYet, LoopOK
    <2>2. CASE pc' # "while"
      BY <2>2 DEF TypeOK, LoopTypeOK, NotYet, LoopOK
    <2> QED
      BY <2>1, <2>2
  <1>4. AskedOnly'
    BY DEF TypeOK, LoopTypeOK, MountTypeOK, PassphraseOK, NotYet, LoopOK,
           AskedOnly
  <1>5. VerdictIsTrue'
    BY DEF TypeOK, LoopTypeOK, MountTypeOK, PassphraseOK, NotYet, LoopOK,
           VerdictIsTrue, Ended
  <1>6. CryptkeyNamesASecret' /\ NoPassphraseAtRest'
    BY DEF TypeOK, LoopTypeOK, MountTypeOK, LogOK, NotYet, LoopOK,
           VerdictIsTrue, Ended, CryptkeyNamesASecret, NoPassphraseAtRest
  <1>7. EveryKeyfileTried' /\ AllAttemptsGranted'
    BY DEF TypeOK, LoopTypeOK, MountTypeOK, LogOK, NotYet, LoopOK,
           VerdictIsTrue, Ended, EveryKeyfileTried, AllAttemptsGranted,
           LeftBehind
  <1> QED
    BY <1>1, <1>2, <1>3, <1>4, <1>5, <1>6, <1>7

\* An attempt is counted while some are left.
LEMMA WhileInv == Inv /\ While => Inv'
  <1> SUFFICES ASSUME Inv, While PROVE Inv'
    OBVIOUS
  <1> USE EntriesFacts DEF Inv, Safe, While, CountTry, InLoop, Attempting,
        loopVars, fileVars, mountVars, optionVars, worldVars
  <1>1. TypeOK'
    <2>1. LoopTypeOK'
      <3>1. passphrase_tries' = passphrase_tries + 1 /\ attempts' = attempts
        OBVIOUS
      <3>2. passphrase_tries + 1 \in 0 .. attempts
        BY TriesLeft
      <3>3. passphrase_tries' \in 0 .. attempts'
        BY <3>1, <3>2
      <3> QED
        BY <3>3 DEF TypeOK, LoopTypeOK
    <2>2. MountTypeOK'
      BY DEF TypeOK, LoopOK, MountTypeOK
    <2> QED
      BY <2>1, <2>2 DEF TypeOK
  <1>2. LogOK' /\ PassphraseOK'
    BY DEF TypeOK, LoopTypeOK, MountTypeOK, LogOK, PassphraseOK, LoopOK
  <1>3. NotYet' /\ LoopOK'
    BY DEF TypeOK, LoopTypeOK, MountTypeOK, NotYet, LoopOK
  <1>4. AskedOnly'
    BY DEF TypeOK, LoopTypeOK, MountTypeOK, PassphraseOK, NotYet, LoopOK,
           AskedOnly
  <1>5. VerdictIsTrue'
    BY DEF TypeOK, LoopTypeOK, MountTypeOK, PassphraseOK, NotYet, LoopOK,
           VerdictIsTrue, Ended
  <1>6. CryptkeyNamesASecret' /\ NoPassphraseAtRest'
    BY DEF TypeOK, LoopTypeOK, MountTypeOK, LogOK, NotYet, LoopOK,
           VerdictIsTrue, Ended, CryptkeyNamesASecret, NoPassphraseAtRest
  <1>7. EveryKeyfileTried' /\ AllAttemptsGranted'
    BY DEF TypeOK, LoopTypeOK, MountTypeOK, LogOK, NotYet, LoopOK,
           VerdictIsTrue, Ended, EveryKeyfileTried, AllAttemptsGranted,
           LeftBehind
  <1> QED
    BY <1>1, <1>2, <1>3, <1>4, <1>5, <1>6, <1>7

\* What the user typed is a passphrase.
LEMMA ReadInv == Inv /\ Read => Inv'
  <1> SUFFICES ASSUME Inv, Read PROVE Inv'
    OBVIOUS
  <1> USE EntriesFacts DEF Inv, Safe, Read, Passphrase, InLoop, Attempting,
        loopVars, fileVars, mountVars, optionVars, worldVars
  <1>1. TypeOK'
    <2>1. LoopTypeOK'
      BY DEF TypeOK, LoopTypeOK, NotYet, LoopOK
    <2>2. MountTypeOK'
      BY DEF TypeOK, LoopOK, MountTypeOK
    <2> QED
      BY <2>1, <2>2 DEF TypeOK
  <1>2. LogOK' /\ PassphraseOK'
    BY DEF TypeOK, LoopTypeOK, MountTypeOK, LogOK, PassphraseOK, LoopOK
  <1>3. NotYet' /\ LoopOK'
    BY DEF TypeOK, LoopTypeOK, MountTypeOK, NotYet, LoopOK
  <1>4. AskedOnly'
    BY DEF TypeOK, LoopTypeOK, MountTypeOK, PassphraseOK, NotYet, LoopOK,
           AskedOnly
  <1>5. VerdictIsTrue'
    BY DEF TypeOK, LoopTypeOK, MountTypeOK, PassphraseOK, NotYet, LoopOK,
           VerdictIsTrue, Ended
  <1>6. CryptkeyNamesASecret' /\ NoPassphraseAtRest'
    BY DEF TypeOK, LoopTypeOK, MountTypeOK, LogOK, NotYet, LoopOK,
           VerdictIsTrue, Ended, CryptkeyNamesASecret, NoPassphraseAtRest
  <1>7. EveryKeyfileTried' /\ AllAttemptsGranted'
    BY DEF TypeOK, LoopTypeOK, MountTypeOK, LogOK, NotYet, LoopOK,
           VerdictIsTrue, Ended, EveryKeyfileTried, AllAttemptsGranted,
           LeftBehind
  <1> QED
    BY <1>1, <1>2, <1>3, <1>4, <1>5, <1>6, <1>7

\* The passphrase goes to its file.
LEMMA WritePassphraseInv == Inv /\ WritePassphrase => Inv'
  <1> SUFFICES ASSUME Inv, WritePassphrase PROVE Inv'
    OBVIOUS
  <1> USE EntriesFacts DEF Inv, Safe, WritePassphrase, HasDirectory, InLoop, Attempting,
        loopVars, fileVars, mountVars, optionVars, worldVars
  <1>1. TypeOK'
    <2>1. LoopTypeOK'
      BY DEF TypeOK, LoopTypeOK, NotYet, LoopOK
    <2>2. MountTypeOK'
      BY DEF TypeOK, LoopOK, MountTypeOK
    <2> QED
      BY <2>1, <2>2 DEF TypeOK
  <1>2. LogOK' /\ PassphraseOK'
    BY DEF TypeOK, LoopTypeOK, MountTypeOK, LogOK, PassphraseOK, LoopOK,
           NoPassphraseAtRest
  <1>3. NotYet' /\ LoopOK'
    BY DEF TypeOK, LoopTypeOK, MountTypeOK, NotYet, LoopOK
  <1>4. AskedOnly'
    BY DEF TypeOK, LoopTypeOK, MountTypeOK, PassphraseOK, NotYet, LoopOK,
           AskedOnly
  <1>5. VerdictIsTrue'
    BY DEF TypeOK, LoopTypeOK, MountTypeOK, PassphraseOK, NotYet, LoopOK,
           VerdictIsTrue, Ended
  <1>6. CryptkeyNamesASecret' /\ NoPassphraseAtRest'
    BY DEF TypeOK, LoopTypeOK, MountTypeOK, LogOK, NotYet, LoopOK,
           VerdictIsTrue, Ended, CryptkeyNamesASecret, NoPassphraseAtRest
  <1>7. EveryKeyfileTried' /\ AllAttemptsGranted'
    BY DEF TypeOK, LoopTypeOK, MountTypeOK, LogOK, NotYet, LoopOK,
           VerdictIsTrue, Ended, EveryKeyfileTried, AllAttemptsGranted,
           LeftBehind
  <1> QED
    BY <1>1, <1>2, <1>3, <1>4, <1>5, <1>6, <1>7

\* A keyfile gives its secret for the passphrase it was enrolled with.
LEMMA OwnPassphrase ==
    ASSUME NEW k, EXIT_SUCCESS \in generate_results(k)
    PROVE  PassphraseOf[k] = passphrase_file
  BY DEF generate_results, EXIT_SUCCESS, EXIT_DESERIALIZATION_ERROR,
         EXIT_AUTHENTICATOR_ERROR, EXIT_BAD_PASSPHRASE, EXIT_NO_DEVICES,
         EXIT_NO_VALID_AUTHENTICATOR, EXIT_H_USER_ERROR_BITS,
         EXIT_H_RUNTIME_ERROR_BITS

\* khefin gives a secret only for the passphrase of the keyfile.
LEMMA GenerateInv == Inv /\ Generate => Inv'
  <1> SUFFICES ASSUME Inv, Generate PROVE Inv'
    OBVIOUS
  <1> USE EntriesFacts DEF Inv, Safe, Generate, InLoop, Attempting,
        loopVars, fileVars, mountVars, optionVars, worldVars
  <1>1. TypeOK'
    <2>1. LoopTypeOK'
      <3>1. generate_results(Entries[index]) \subseteq ExitCodes
        BY DEF generate_results, ExitCodes
      <3> QED
        BY <3>1 DEF TypeOK, LoopTypeOK
    <2>2. MountTypeOK'
      BY DEF TypeOK, LoopOK, MountTypeOK
    <2> QED
      BY <2>1, <2>2 DEF TypeOK
  <1>2. LogOK' /\ PassphraseOK'
    BY DEF TypeOK, LoopTypeOK, MountTypeOK, LogOK, PassphraseOK, LoopOK
  <1>3. NotYet' /\ LoopOK'
    BY DEF TypeOK, LoopTypeOK, NotYet, LoopOK, generate_results, ExitCodes
  <1>4. AskedOnly'
    BY DEF TypeOK, LoopTypeOK, MountTypeOK, PassphraseOK, NotYet, LoopOK,
           AskedOnly
  <1>5. VerdictIsTrue'
    <2>1. CASE HasDirectory
      <3>1. PICK status \in generate_results(Entries[index]) :
               /\ result' = status
               /\ key_file' = IF status = EXIT_SUCCESS
                              THEN SecretOf(Entries[index]) ELSE Empty
        BY <2>1
      <3>2. status = EXIT_SUCCESS =>
               PassphraseOf[Entries[index]] = passphrase_file
        BY <3>1, OwnPassphrase
      <3> QED
        BY <2>1, <3>1, <3>2
        DEF TypeOK, LoopTypeOK, PassphraseOK, VerdictIsTrue, Ended
    <2>2. CASE ~HasDirectory
      BY <2>2 DEF TypeOK, VerdictIsTrue, Ended
    <2> QED
      BY <2>1, <2>2
  <1>6. CryptkeyNamesASecret' /\ NoPassphraseAtRest'
    BY DEF TypeOK, LoopTypeOK, MountTypeOK, LogOK, NotYet, LoopOK,
           PassphraseOK, VerdictIsTrue, Ended, CryptkeyNamesASecret,
           NoPassphraseAtRest
  <1>7. EveryKeyfileTried' /\ AllAttemptsGranted'
    BY DEF TypeOK, LoopTypeOK, MountTypeOK, LogOK, NotYet, LoopOK,
           VerdictIsTrue, Ended, EveryKeyfileTried, AllAttemptsGranted,
           LeftBehind
  <1> QED
    BY <1>1, <1>2, <1>3, <1>4, <1>5, <1>6, <1>7

\* The verdict ends the hook, or the keyfile is tried again or left behind.
LEMMA DecideInv == Inv /\ Decide => Inv'
  <1> SUFFICES ASSUME Inv, Decide PROVE Inv'
    OBVIOUS
  <1> USE EntriesFacts DEF Inv, Safe, Decide, Succeeded, BadPassphraseTyped,
        PassphraseAfterFailure, NextEntry, EmptiedPassphraseFile, InLoop, Attempting,
        loopVars, fileVars, mountVars, optionVars, worldVars
  <1> DEFINE Latest == [ tries |-> passphrase_tries, line |-> line,
                       passphrase |-> passphrase, result |-> result ]
  <1>0. /\ index \in DOMAIN Entries
        /\ Entries[index] \in Keyfile
        /\ log'[Entries[index]] = Latest
        /\ Latest # NULL
        /\ \A k \in Keyfile : k # Entries[index] => log'[k] = log[k]
    <2>1. Latest \in Attempt
      BY DEF TypeOK, LoopTypeOK, PassphraseOK, LoopOK, Attempt
    <2> QED
      BY <2>1 DEF LoopOK, TypeOK, LoopTypeOK
  <1>1. TypeOK'
    <2>1. LoopTypeOK'
      BY DEF TypeOK, LoopTypeOK, NotYet, LoopOK
    <2>2. MountTypeOK'
      BY DEF TypeOK, LoopOK, MountTypeOK
    <2> QED
      BY <2>1, <2>2 DEF TypeOK
  <1>2. LogOK' /\ PassphraseOK'
    <2>1. Latest \in Attempt
      BY DEF TypeOK, LoopTypeOK, PassphraseOK, LoopOK, Attempt
    <2> QED
      BY <2>1 DEF LogOK, PassphraseOK
  <1>3. NotYet' /\ LoopOK'
    BY DEF TypeOK, LoopTypeOK, MountTypeOK, NotYet, LoopOK
  <1>4. AskedOnly'
    BY DEF TypeOK, LoopTypeOK, MountTypeOK, PassphraseOK, NotYet, LoopOK,
           AskedOnly
  <1>5. VerdictIsTrue'
    BY DEF TypeOK, LoopTypeOK, MountTypeOK, PassphraseOK, NotYet, LoopOK,
           VerdictIsTrue, Ended
  <1>6. CryptkeyNamesASecret' /\ NoPassphraseAtRest'
    <2>1. NoPassphraseAtRest'
      BY DEF NoPassphraseAtRest
    <2>2. cryptkey' <=> Succeeded
      BY DEF VerdictIsTrue, Ended, TypeOK, MountTypeOK
    <2>3. CASE Succeeded
      <3>1. /\ key_file' = SecretOf(Entries[index])
            /\ log'[Entries[index]] # NULL
            /\ log'[Entries[index]].passphrase = PassphraseOf[Entries[index]]
        BY <1>0, <2>3 DEF VerdictIsTrue
      <3> QED
        BY <1>0, <2>1, <2>2, <2>3, <3>1 DEF CryptkeyNamesASecret
    <2> QED
      BY <2>1, <2>2, <2>3 DEF CryptkeyNamesASecret, VerdictIsTrue
  <1>7. EveryKeyfileTried' /\ AllAttemptsGranted'
    <2>1. LeftBehind' \subseteq LeftBehind \union {Entries[index]}
      BY <1>0 DEF LeftBehind
    <2>2. \A k \in LeftBehind : k # Entries[index] /\ k \in Keyfile
      BY <1>0 DEF LeftBehind, TypeOK, LoopTypeOK
    <2>3. Entries[index] \in LeftBehind' =>
             ~(BadPassphraseTyped /\ passphrase_tries < attempts)
      BY <2>2 DEF LeftBehind, TypeOK, LoopTypeOK
    <2>4. EveryKeyfileTried'
      BY <1>0, <2>1, <2>2 DEF EveryKeyfileTried, VerdictIsTrue, Ended
    <2>5. AllAttemptsGranted'
      BY <1>0, <2>1, <2>2, <2>3 DEF AllAttemptsGranted, TypeOK, LoopTypeOK
    <2> QED
      BY <2>4, <2>5
  <1> QED
    BY <1>1, <1>2, <1>3, <1>4, <1>5, <1>6, <1>7

\* Nothing is left in the files.
LEMMA CleanupInv == Inv /\ Cleanup => Inv'
  <1> SUFFICES ASSUME Inv, Cleanup PROVE Inv'
    OBVIOUS
  <1> USE EntriesFacts DEF Inv, Safe, Cleanup, InLoop, Attempting,
        loopVars, fileVars, mountVars, optionVars, worldVars
  <1>1. TypeOK'
    <2>1. LoopTypeOK'
      BY DEF TypeOK, LoopTypeOK, NotYet, LoopOK
    <2>2. MountTypeOK'
      BY DEF TypeOK, LoopOK, MountTypeOK
    <2> QED
      BY <2>1, <2>2 DEF TypeOK
  <1>2. LogOK' /\ PassphraseOK'
    BY DEF TypeOK, LoopTypeOK, MountTypeOK, LogOK, PassphraseOK, LoopOK
  <1>3. NotYet' /\ LoopOK'
    BY DEF TypeOK, LoopTypeOK, MountTypeOK, NotYet, LoopOK
  <1>4. AskedOnly'
    BY DEF TypeOK, LoopTypeOK, MountTypeOK, PassphraseOK, NotYet, LoopOK,
           AskedOnly
  <1>5. VerdictIsTrue'
    BY DEF TypeOK, LoopTypeOK, MountTypeOK, PassphraseOK, NotYet, LoopOK,
           VerdictIsTrue, Ended
  <1>6. CryptkeyNamesASecret' /\ NoPassphraseAtRest'
    BY DEF TypeOK, LoopTypeOK, MountTypeOK, LogOK, NotYet, LoopOK,
           VerdictIsTrue, Ended, CryptkeyNamesASecret, NoPassphraseAtRest
  <1>7. EveryKeyfileTried' /\ AllAttemptsGranted'
    BY DEF TypeOK, LoopTypeOK, MountTypeOK, LogOK, NotYet, LoopOK,
           VerdictIsTrue, Ended, EveryKeyfileTried, AllAttemptsGranted,
           LeftBehind
  <1> QED
    BY <1>1, <1>2, <1>3, <1>4, <1>5, <1>6, <1>7

\* A step that changes no more than what is plugged in keeps the invariant.
LEMMA PluggedInv ==
    ASSUME Inv, UNCHANGED << pc, loopVars, fileVars, mountVars, optionVars >>,
           authenticator' \in {"none", "enrolled", "other"},
           hotplugs' \in 0 .. MaxHotplugs
    PROVE  Inv'
  <1> USE DEF Inv, Safe, loopVars, fileVars, mountVars, optionVars
  <1>1. TypeOK'
    <2>1. LoopTypeOK' /\ MountTypeOK'
      BY DEF TypeOK, LoopTypeOK, MountTypeOK
    <2> QED
      BY <2>1 DEF TypeOK
  <1>2. /\ LogOK' /\ PassphraseOK' /\ NotYet'
        /\ LoopOK' /\ AskedOnly' /\ VerdictIsTrue'
    BY DEF LogOK, PassphraseOK, HasDirectory, NotYet, LoopOK, AskedOnly,
           VerdictIsTrue, Ended
  <1>3. Safe'
    BY DEF CryptkeyNamesASecret, NoPassphraseAtRest, EveryKeyfileTried,
           AllAttemptsGranted, LeftBehind
  <1> QED
    BY <1>1, <1>2, <1>3

\* No step breaks the invariant.
LEMMA InvNext == Inv /\ [Next]_vars => Inv'
  <1> SUFFICES ASSUME Inv, [Next]_vars PROVE Inv'
    OBVIOUS
  <1>1. CASE Hook
    BY <1>1, EnumerateInv, PressAnyKeyInv, MountInv, ForInv, WhileInv, ReadInv,
       WritePassphraseInv, GenerateInv, DecideInv, CleanupInv DEF Hook
  <1>2. CASE Hotplug
    <2>1. hotplugs' \in 0 .. MaxHotplugs
      <3>1. hotplugs \in 0 .. MaxHotplugs
        BY DEF Inv, TypeOK
      <3>2. hotplugs < MaxHotplugs /\ hotplugs' = hotplugs + 1
        BY <1>2 DEF Hotplug
      <3> QED
        BY <3>1, <3>2
    <2>2. UNCHANGED << pc, loopVars, fileVars, mountVars, optionVars >>
      BY <1>2 DEF Hotplug
    <2> QED
      BY <1>2, <2>1, <2>2, PluggedInv DEF Hotplug
  <1>3. CASE UNCHANGED vars
    BY <1>3, PluggedInv DEF vars, worldVars, Inv, TypeOK
  <1> QED
    BY <1>1, <1>2, <1>3 DEF Next, Booted

-----------------------------------------------------------------------------
(* The theorems *)

\* The invariant holds in every state of the hook.
LEMMA Invariant == Spec => []Inv
  BY InvInit, InvNext, PTL DEF Spec

\* The hook's variables have their types, whatever the keyfiles, the kernel
\* parameters and the lines typed: no attempt beyond the limit, no position
\* beyond the list, no status that khefin does not have.
THEOREM HookTyped == Spec => []TypeOK
  <1>1. Inv => TypeOK
    BY DEF Inv
  <1> QED
    BY <1>1, Invariant, PTL

\* The encrypt hook is told of a key file exactly when the file has the secret
\* of a keyfile that was opened with its own passphrase.
THEOREM CryptkeyIsASecret == Spec => []CryptkeyNamesASecret
  <1>1. Inv => CryptkeyNamesASecret
    BY DEF Inv, Safe
  <1> QED
    BY <1>1, Invariant, PTL

\* The passphrase is in its file only while khefin runs and its status is
\* looked at.
THEOREM PassphraseNotAtRest == Spec => []NoPassphraseAtRest
  <1>1. Inv => NoPassphraseAtRest
    BY DEF Inv, Safe
  <1> QED
    BY <1>1, Invariant, PTL

\* Every keyfile is tried before the hook gives up, for any list of entries.
THEOREM NoKeyfileMissed == Spec => []EveryKeyfileTried
  <1>1. Inv => EveryKeyfileTried
    BY DEF Inv, Safe
  <1> QED
    BY <1>1, Invariant, PTL

\* A keyfile whose passphrase was wrong each time had exactly the attempts that
\* the kernel parameter allows, however many keyfiles came before it.
THEOREM AttemptsAllGranted == Spec => []AllAttemptsGranted
  <1>1. Inv => AllAttemptsGranted
    BY DEF Inv, Safe
  <1> QED
    BY <1>1, Invariant, PTL

\* The user is asked for a passphrase only when there is none to try: at the
\* first keyfile, at another one when each has its own, or after a bad one.
THEOREM AskingIsNeeded == Spec => AskedOnlyWhenNeeded
  <1> DEFINE Needed ==
        pc' = "read" /\ pc # "read" =>
          /\ option # "NEVER"
          /\ \/ result \in {NULL, EXIT_BAD_PASSPHRASE}
             \/ option = "ALWAYS" /\ passphrase_tries = 0
  <1>1. Inv /\ [Next]_vars => [Needed]_vars
    <2> SUFFICES ASSUME Inv, [Next]_vars, pc' = "read", pc # "read"
                 PROVE  Needed
      OBVIOUS
    <2>1. While
      BY DEF Next, Hook, Enumerate, PressAnyKey, Skip, Mount, For, Read,
             WritePassphrase, Generate, Decide, Cleanup, Hotplug, Booted, vars
    <2> QED
      BY <2>1 DEF While, Inv, AskedOnly, InLoop
  <1> QED
    BY <1>1, Invariant, PTL DEF Spec, AskedOnlyWhenNeeded

=============================================================================
