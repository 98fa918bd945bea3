----------------------------- MODULE Invocation -----------------------------
(***************************************************************************)
(* The command line and the prompts of one process (src/invocation.c):     *)
(* getopt_long gives the options one at a time, the required arguments are *)
(* checked once they are over, and what is missing is read from standard   *)
(* input, the passphrase first and then a PIN for each device that needs   *)
(* one.  A secret is a sequence of bytes here, none of them null.          *)
(***************************************************************************)
EXTENDS ExitCodes, SequencesExt, FiniteSetsExt

CONSTANTS
    NULL,
    Byte,           \* the bytes that may be typed or given
    NL,             \* the byte NL_CHARACTER_TO_STRIP
    Word,           \* what argv[1] may be; NULL when there is none
    Option,         \* what getopt_long may meet: a name and an argument
    FirstLetter,    \* ... the first letter of each hardness, in lower case
    Input,          \* what standard input may hold: sequences of bytes
    Terminal,       \* what standard input may be: "tty", "pipe", "closed"
    TerminalFails,  \* whether tcgetattr and tcsetattr may fail
    Memory,         \* the memory the machine may have
    crypto_pwhash_MEMLIMIT_MODERATE,
    crypto_pwhash_MEMLIMIT_SENSITIVE,
    LONGEST_VALID_PASSPHRASE,
    LONGEST_VALID_PIN,
    MaxOptions,     \* bound: options on a command line
    MaxPins         \* bound: devices that need a PIN

Hardness == {"low", "medium", "high"}

ASSUME InvocationAssumption ==
    /\ NULL \notin Hardness \union {"help"} \union Seq(Byte)
    /\ NL \in Byte
    /\ Input \subseteq Seq(Byte)
    /\ Terminal \subseteq {"tty", "pipe", "closed"}
    /\ TerminalFails \in BOOLEAN
    /\ Memory \subseteq Nat
    /\ crypto_pwhash_MEMLIMIT_MODERATE \in Nat
    /\ crypto_pwhash_MEMLIMIT_SENSITIVE \in Nat
    /\ LONGEST_VALID_PASSPHRASE \in Nat \ {0, 1}
    /\ LONGEST_VALID_PIN \in Nat \ {0, 1}
    /\ MaxOptions \in Nat
    /\ MaxPins \in Nat

VARIABLES
    pc,                  \* where the process is
    status,              \* the status it exited with
    result,              \* the invocation_state_t
    invalid_invocation,
    word,                \* argv[1]
    given,               \* the options that getopt_long has met
    extra_args,          \* whether arguments were left that no option took
    terminal,            \* what standard input is
    echo,                \* whether the terminal shows what is typed
    previous_c_lflag,    \* ... as the prompt found it
    found,               \* ... as the process found it
    input,               \* what standard input held at the start
    stdin,               \* what is left of it
    secrets              \* what was read from it: the passphrase, the PINs

parseVars    == << result, invalid_invocation, word, given, extra_args >>
terminalVars == << terminal, echo, previous_c_lflag, found >>
inputVars    == << input, stdin, secrets >>

vars == << pc, status, parseVars, terminalVars, inputVars >>

Init ==
    /\ pc = "subcommand"
    /\ status = EXIT_SUCCESS
    /\ result = [ subcommand |-> NULL, device |-> NULL, file |-> NULL,
                  passphrase |-> NULL, authenticator_pin |-> NULL,
                  obfuscate_device_info |-> FALSE,
                  kdf_hardness |-> "unspecified", mixin |-> NULL ]
    /\ invalid_invocation = FALSE
    /\ word \in Word
    /\ given = << >>
    /\ extra_args = FALSE
    /\ terminal \in Terminal
    /\ found \in BOOLEAN
    /\ echo = found
    /\ previous_c_lflag = found
    /\ input = << >>
    /\ stdin = << >>
    /\ secrets = << >>

Ended == pc \in {"exited", "killed"}

Exit(code) ==
    /\ pc' = "exited"
    /\ status' = code

Goto(label) ==
    /\ pc' = label
    /\ UNCHANGED status

-----------------------------------------------------------------------------
(* The command line *)

Subcommands == {"help", "version", "enrol", "generate", "enumerate"}

Subcommand ==
    /\ pc = "subcommand"
    /\ IF word \in Subcommands
       THEN /\ result' = [result EXCEPT !.subcommand = word]
            /\ Goto("getopt")
       ELSE /\ Exit(EXIT_BAD_INVOCATION)
            /\ UNCHANGED result
    /\ UNCHANGED << invalid_invocation, word, given, extra_args,
                    terminalVars, inputVars >>

short_options == {"d", "f", "p", "r", "m", "k", "n", "o", "h"}

long_options ==
    { << "device", "d" >>, << "file", "f" >>, << "passphrase", "p" >>,
      << "passphrase-file", "r" >>, << "pin", "n" >>, << "mixin", "m" >>,
      << "kdf-hardness", "k" >>, << "obfuscate-device", "o" >>,
      << "help", "h" >> }

\* The option that a name stands for.
getopt_long(name) ==
    IF name \in short_options THEN name
    ELSE IF \E c \in short_options : << name, c >> \in long_options
    THEN CHOOSE c \in short_options : << name, c >> \in long_options
    ELSE "?"

\* getopt_long gives no option without the argument it takes; for a
\* passphrase file, "r", that is what the file holds, NULL where it is not
\* there.
ASSUME OptionAssumption ==
    \A o \in Option :
       /\ getopt_long(o.name) \in {"p", "n"} => o.arg \in Seq(Byte)
       /\ getopt_long(o.name) = "r" => o.arg \in Seq(Byte) \union {NULL}
       /\ getopt_long(o.name) \in {"d", "f", "m", "k"} => o.arg # NULL

ASSUME HardnessAssumption ==
    /\ FirstLetter["low"] = "l"
    /\ FirstLetter["medium"] = "m"
    /\ FirstLetter["high"] = "h"

FirstOf(s, n) == IF Len(s) > n THEN SubSeq(s, 1, n) ELSE s

\* Mutant: the hardness is taken as it comes.
HardnessNamed_any(arg) == arg

\* Only the first letter of the hardness is looked at.
HardnessNamed(arg) ==
    CASE FirstLetter[arg] = "l" -> "low"
      [] FirstLetter[arg] = "m" -> "medium"
      [] FirstLetter[arg] = "h" -> "high"
      [] OTHER -> "invalid"

\* The argument of -r is what the file holds, NULL where there is none.  A
\* file that cannot be opened or has no byte to read ends the process.
PassphraseFileReadable(o) ==
    getopt_long(o.name) = "r" => o.arg \notin {NULL, << >>}

ResultWith(o) ==
    CASE getopt_long(o.name) = "d" -> [result EXCEPT !.device = o.arg]
      [] getopt_long(o.name) = "f" -> [result EXCEPT !.file = o.arg]
      [] getopt_long(o.name) \in {"p", "r"} ->
            [result EXCEPT !.passphrase =
                               FirstOf(o.arg, LONGEST_VALID_PASSPHRASE)]
      [] getopt_long(o.name) = "n" ->
            [result EXCEPT !.authenticator_pin =
                               FirstOf(o.arg, LONGEST_VALID_PIN)]
      [] getopt_long(o.name) = "m" -> [result EXCEPT !.mixin = o.arg]
      [] getopt_long(o.name) = "k" ->
            [result EXCEPT !.kdf_hardness = HardnessNamed(o.arg)]
      [] getopt_long(o.name) = "o" ->
            [result EXCEPT !.obfuscate_device_info = TRUE]
      [] getopt_long(o.name) = "h" -> [result EXCEPT !.subcommand = "help"]
      [] OTHER -> result

GetOption ==
    /\ pc = "getopt"
    /\ Len(given) < MaxOptions
    /\ \E o \in Option :
          /\ given' = Append(given, o)
          /\ IF PassphraseFileReadable(o)
             THEN /\ result' = ResultWith(o)
                  /\ invalid_invocation' =
                        (invalid_invocation \/ getopt_long(o.name) = "?")
                  /\ UNCHANGED << pc, status >>
             ELSE /\ Exit(EXIT_DESERIALIZATION_ERROR)
                  /\ UNCHANGED << result, invalid_invocation >>
    /\ UNCHANGED << word, extra_args, terminalVars, inputVars >>

\* Mutant: enrol takes a mixin.
RequiredArguments_mixin(r) ==
    CASE r.subcommand = "enrol" ->
            /\ r.device # NULL
            /\ r.file # NULL
            /\ r.kdf_hardness # "invalid"
      [] r.subcommand = "generate" ->
            /\ r.device = NULL
            /\ r.file # NULL
            /\ ~r.obfuscate_device_info
            /\ r.kdf_hardness = "unspecified"
      [] OTHER -> TRUE

\* Mutant: generate needs a device, as enrol does.
RequiredArguments_device(r) ==
    r.subcommand \in {"enrol", "generate"} =>
        r.file # NULL /\ r.device # NULL

\* What must be there and what must not.
RequiredArguments(r) ==
    CASE r.subcommand = "enrol" ->
            /\ r.device # NULL
            /\ r.file # NULL
            /\ r.mixin = NULL
            /\ r.kdf_hardness # "invalid"
      [] r.subcommand = "generate" ->
            /\ r.device = NULL
            /\ r.file # NULL
            /\ ~r.obfuscate_device_info
            /\ r.kdf_hardness = "unspecified"
      [] OTHER ->
            /\ r.device = NULL
            /\ r.file = NULL
            /\ r.mixin = NULL
            /\ r.passphrase = NULL
            /\ ~r.obfuscate_device_info
            /\ r.kdf_hardness = "unspecified"

\* Mutant: the automatic choice stops below the most memory.
automatic_hardness_none(memory) ==
    IF memory > 2 * crypto_pwhash_MEMLIMIT_SENSITIVE THEN "high"
    ELSE IF memory > 2 * crypto_pwhash_MEMLIMIT_MODERATE THEN "medium"
    ELSE "unspecified"

automatic_hardness(memory) ==
    IF memory > 2 * crypto_pwhash_MEMLIMIT_SENSITIVE THEN "high"
    ELSE IF memory > 2 * crypto_pwhash_MEMLIMIT_MODERATE THEN "medium"
    ELSE "low"

NeedsPassphrase == result.subcommand \in {"enrol", "generate"}

\* The end of the options.
Options ==
    /\ pc = "getopt"
    /\ extra_args' \in BOOLEAN
    /\ \E memory \in Memory :
          /\ invalid_invocation' = (\/ invalid_invocation
                                    \/ extra_args'
                                    \/ ~RequiredArguments(result))
          /\ IF result.subcommand # "help" /\ invalid_invocation'
             THEN Exit(EXIT_BAD_INVOCATION) /\ UNCHANGED result
             ELSE /\ result' =
                        IF /\ result.subcommand = "enrol"
                           /\ result.kdf_hardness = "unspecified"
                        THEN [result EXCEPT !.kdf_hardness =
                                                automatic_hardness(memory)]
                        ELSE result
                  /\ Goto(IF NeedsPassphrase /\ result.passphrase = NULL
                          THEN "prompt" ELSE "run")
    /\ UNCHANGED << word, given, terminalVars, inputVars >>

-----------------------------------------------------------------------------
(* The prompts *)

\* What a secret may be at most: the first one is the passphrase.
maximum_size ==
    IF result.passphrase = NULL THEN LONGEST_VALID_PASSPHRASE
    ELSE LONGEST_VALID_PIN

\* Mutant: the settings are saved once the echo is off.
SavedEcho_late == FALSE

SavedEcho == echo

\* Standard input is what it is from the first read on.
Prompt ==
    /\ pc = "prompt"
    /\ IF secrets = << >>
       THEN input' \in Input /\ stdin' = input'
       ELSE UNCHANGED << input, stdin >>
    /\ CASE terminal = "tty" ->
              \/ /\ previous_c_lflag' = SavedEcho
                 /\ echo' = FALSE
                 /\ Goto("fgets")
              \/ /\ TerminalFails
                 /\ Exit(EXIT_UNABLE_TO_GET_USER_SECRET)
                 /\ UNCHANGED << echo, previous_c_lflag >>
         [] terminal = "pipe" ->
              Goto("fgets") /\ UNCHANGED << echo, previous_c_lflag >>
         [] OTHER ->
              /\ Exit(EXIT_UNABLE_TO_GET_USER_SECRET)
              /\ UNCHANGED << echo, previous_c_lflag >>
    /\ UNCHANGED << parseVars, secrets, terminal, found >>

\* How many bytes fgets takes: up to a newline, and room for the terminator.
fgets(size, s) ==
    Max({ n \in 0 .. Len(s) : /\ n < size
                              /\ \A k \in 1 .. n - 1 : s[k] # NL })

\* Mutant: the last byte goes whether it is a newline or not.
WithoutNewline_always(s) == IF s = << >> THEN s ELSE Front(s)

WithoutNewline(s) == IF s # << >> /\ Last(s) = NL THEN Front(s) ELSE s

\* A passphrase is kept for the whole run, a PIN for the device it is for.
Fgets ==
    /\ pc = "fgets"
    /\ LET n == fgets(maximum_size, stdin)
           secret == WithoutNewline(SubSeq(stdin, 1, n))
       IN IF n = 0
          THEN /\ Exit(EXIT_UNABLE_TO_GET_USER_SECRET)
               /\ UNCHANGED << result, stdin, secrets >>
          ELSE /\ stdin' = SubSeq(stdin, n + 1, Len(stdin))
               /\ secrets' = Append(secrets, secret)
               /\ result' = IF result.passphrase = NULL
                            THEN [result EXCEPT !.passphrase = secret]
                            ELSE result
               /\ Goto(IF terminal = "tty" THEN "reset" ELSE "run")
    /\ UNCHANGED << invalid_invocation, word, given, extra_args, terminalVars,
                    input >>

Reset ==
    /\ pc = "reset"
    /\ \/ Goto("run") /\ echo' = previous_c_lflag
       \/ /\ TerminalFails
          /\ Exit(EXIT_UNABLE_TO_GET_USER_SECRET)
          /\ UNCHANGED echo
    /\ UNCHANGED << parseVars, inputVars, terminal, previous_c_lflag, found >>

PassphraseGiven ==
    \E k \in DOMAIN given : getopt_long(given[k].name) \in {"p", "r"}

PinsRead == Len(secrets) - (IF PassphraseGiven THEN 0 ELSE 1)

\* enrol or generate meets a device that has a PIN.
NeedPin ==
    /\ pc = "run"
    /\ NeedsPassphrase
    /\ result.authenticator_pin = NULL
    /\ PinsRead < MaxPins
    /\ Goto("prompt")
    /\ UNCHANGED << parseVars, terminalVars, inputVars >>

-----------------------------------------------------------------------------
(* The specification *)

\* The rest of the subcommand, which the modules Enrol and Generate have.
Finish ==
    /\ pc = "run"
    /\ Exit(EXIT_SUCCESS)
    /\ UNCHANGED << parseVars, terminalVars, inputVars >>

OutOfMemory ==
    /\ pc \in {"getopt", "prompt"}
    /\ Exit(EXIT_OUT_OF_MEMORY)
    /\ UNCHANGED << parseVars, terminalVars, inputVars >>

\* A fatal signal, the key that interrupts among them.
Kill ==
    /\ ~Ended
    /\ Goto("killed")
    /\ UNCHANGED << parseVars, terminalVars, inputVars >>

Over == Ended /\ UNCHANGED vars

Next ==
    \/ Subcommand \/ GetOption \/ Options
    \/ Prompt \/ Fgets \/ Reset \/ NeedPin
    \/ Finish \/ OutOfMemory \/ Kill \/ Over

Spec == Init /\ [][Next]_vars

-----------------------------------------------------------------------------
(* Types *)

TypeOK ==
    /\ pc \in {"subcommand", "getopt", "prompt", "fgets", "reset", "run",
               "exited", "killed"}
    /\ status \in ExitCodes
    /\ result.subcommand \in Subcommands \union {NULL}
    /\ result.kdf_hardness \in Hardness \union {"unspecified", "invalid"}
    /\ result.obfuscate_device_info \in BOOLEAN
    /\ invalid_invocation \in BOOLEAN
    /\ given \in Seq(Option)
    /\ {echo, previous_c_lflag, found} \subseteq BOOLEAN
    /\ \A k \in DOMAIN secrets : \A n \in DOMAIN secrets[k] :
          secrets[k][n] # NL

-----------------------------------------------------------------------------
(* The manual's rules for a command line (man/1/khefin.m4:33-78) *)

ManualNames ==
    [ d |-> "device", f |-> "file", p |-> "passphrase",
      r |-> "passphrase-file", n |-> "pin", o |-> "obfuscate-device-info",
      k |-> "kdf-hardness", m |-> "mixin" ]

\* The option an entry of the manual names, short or long.
ManualOption(name) ==
    IF \E c \in DOMAIN ManualNames : name \in {c, ManualNames[c]}
    THEN CHOOSE c \in DOMAIN ManualNames : name \in {c, ManualNames[c]}
    ELSE "?"

Required ==
    [ s \in Subcommands |-> CASE s = "enrol"    -> {"d", "f"}
                              [] s = "generate" -> {"f"}
                              [] OTHER          -> {} ]
Optional ==
    [ s \in Subcommands |-> CASE s = "enrol"    -> {"p", "r", "n", "o", "k"}
                              [] s = "generate" -> {"p", "r", "n", "m"}
                              [] OTHER          -> {} ]

Letters(Name(_)) == { Name(given[k].name) : k \in DOMAIN given }

Accepted == pc \in {"prompt", "fgets", "reset", "run"}

-----------------------------------------------------------------------------
(* Safety *)

\* What the manual requires is there and what it prohibits is not, in every
\* command line that is accepted and does not ask for help; a PIN aside,
\* which is let through everywhere.
AcceptedIsDocumented ==
    Accepted /\ result.subcommand # "help" =>
        LET letters == Letters(getopt_long) IN
        /\ Required[word] \subseteq letters
        /\ letters \ {"n"} \subseteq Required[word] \union Optional[word]

\* The manual allows this command line, and no option is one of those names.
IsDocumented(Left) ==
    LET letters == Letters(ManualOption) IN
    /\ word \in Subcommands
    /\ ~extra_args
    /\ Required[word] \subseteq letters
    /\ letters \subseteq Required[word] \union Optional[word]
    /\ \A k \in DOMAIN given :
          /\ given[k].name \notin Left
          /\ ManualOption(given[k].name) = "k" => given[k].arg \in Hardness

Refused == pc = "exited" /\ status = EXIT_BAD_INVOCATION

\* An invocation is called bad only when the manual does not allow it, the
\* long name of one option aside.
RefusedForAReason == Refused => ~IsDocumented({"obfuscate-device-info"})

\* Enrol and Generate start with what MachineAssumption says: a file, for
\* enrol a hardness that make_new_key_spec_from_invocation knows and no
\* mixin, and a passphrase, wherever it came from.
ParsedIsRunnable ==
    pc = "run" /\ NeedsPassphrase =>
        /\ result.file # NULL
        /\ result.passphrase # NULL
        /\ (result.device # NULL) = (result.subcommand = "enrol")
        /\ result.subcommand = "enrol" =>
              result.kdf_hardness \in Hardness /\ result.mixin = NULL

WithoutNewlines(s) ==
    FlattenSeq([k \in DOMAIN s |-> IF s[k] = NL THEN << >> ELSE << s[k] >>])

\* The passphrase and the PINs are what was typed, in order: no byte of the
\* input is lost between two prompts or used by both, however long the lines
\* are.
InputAccountedFor ==
    WithoutNewlines(input) = FlattenSeq(secrets) \o WithoutNewlines(stdin)

\* The terminal shows again what it showed before, once a prompt is over,
\* unless the process ended inside the prompt.
EchoAsFound ==
    echo # found =>
        \/ pc \in {"fgets", "reset", "killed"}
        \/ pc = "exited" /\ status = EXIT_UNABLE_TO_GET_USER_SECRET

-----------------------------------------------------------------------------
(* What the documentation says and the code does not do *)

\* man/1/khefin.m4:63-66, 123: status 32 is for invalid options, and those of
\* the manual are valid.
DocumentedIsAccepted == Refused => ~IsDocumented({})

\* man/1/khefin.m4:59: the PIN is prohibited but for enrol and generate.
PinProhibitedElsewhere ==
    /\ Accepted
    /\ result.subcommand # "help"
    /\ "n" \in Letters(getopt_long)
    => NeedsPassphrase

\* man/1/khefin.m4:73: the valid values of -k are high, medium and low.
HardnessIsNamed ==
    Accepted /\ result.subcommand # "help" =>
        \A k \in DOMAIN given :
           getopt_long(given[k].name) = "k" => given[k].arg \in Hardness

\* man/1/khefin.m4:114: in every case, the first LONGEST_VALID_PASSPHRASE
\* bytes of a passphrase are used.
LineLength(s) ==
    Max({ n \in 0 .. Len(s) : \A k \in 1 .. n : s[k] # NL })

FirstBytesUsed ==
    secrets # << >> /\ ~PassphraseGiven =>
        result.passphrase =
            FirstOf(SubSeq(input, 1, LineLength(input)),
                    LONGEST_VALID_PASSPHRASE)

\* man/1/khefin.m4:106, 107: the passphrase is read until a newline, and then
\* the PIN: the PIN begins on a line of its own.
PinOnItsOwnLine ==
    Len(secrets) >= 2 /\ ~PassphraseGiven =>
        LET rest == SubSeq(input, LineLength(input) + 2, Len(input)) IN
        IsPrefix(secrets[2], rest)

=============================================================================
