-------------------------- MODULE InvocationProofs --------------------------
(***************************************************************************)
(* The command line and the prompts: what is accepted is what the manual   *)
(* allows, nothing is refused without a reason, enrol and generate start   *)
(* with what they need, the echo of the terminal comes back, and no byte   *)
(* that was typed is lost between two prompts.                             *)
(*                                                                         *)
(* The argument is about the options that getopt_long has met.  While they *)
(* come in, every field of the result tells whether its option was among   *)
(* them; when they are over, RequiredArguments judges the result, and so   *)
(* it judges the options.                                                  *)
(***************************************************************************)
EXTENDS Invocation, TLAPS, WellFoundedInduction

-----------------------------------------------------------------------------
(* The invariant *)

\* getopt_long has met the option c.
Met(c) == \E k \in DOMAIN given : getopt_long(given[k].name) = c

Parsing  == pc = "getopt"
Prompted == pc \in {"prompt", "fgets", "reset", "run"}

IsResult(r) ==
    r = [ subcommand            |-> r.subcommand,
          device                |-> r.device,
          file                  |-> r.file,
          passphrase            |-> r.passphrase,
          authenticator_pin     |-> r.authenticator_pin,
          obfuscate_device_info |-> r.obfuscate_device_info,
          kdf_hardness          |-> r.kdf_hardness,
          mixin                 |-> r.mixin ]

\* The types, and those of the variables that no property names.
Types ==
    /\ TypeOK
    /\ IsResult(result)
    /\ terminal \in Terminal
    /\ input \in Seq(Byte)
    /\ stdin \in Seq(Byte)
    /\ secrets \in Seq(Seq(Byte))

\* At first no option was met and no field is set.
Untouched ==
    pc = "subcommand" =>
        /\ given = << >>
        /\ ~invalid_invocation
        /\ result.device = NULL /\ result.file = NULL
        /\ result.passphrase = NULL /\ result.mixin = NULL
        /\ ~result.obfuscate_device_info
        /\ result.kdf_hardness = "unspecified"

\* Every field of the result tells whether its option was met.
Explained ==
    Parsing =>
        /\ word \in Subcommands
        /\ result.subcommand = IF Met("h") THEN "help" ELSE word
        /\ result.device # NULL <=> Met("d")
        /\ result.file # NULL <=> Met("f")
        /\ result.passphrase # NULL <=> Met("p") \/ Met("r")
        /\ result.mixin # NULL <=> Met("m")
        /\ result.obfuscate_device_info <=> Met("o")
        /\ result.kdf_hardness # "unspecified" <=> Met("k")
        /\ result.kdf_hardness = "invalid" =>
              \E k \in DOMAIN given : /\ getopt_long(given[k].name) = "k"
                                      /\ given[k].arg \notin Hardness
        /\ invalid_invocation <=> Met("?")

\* What enrol and generate have while they run.
Runnable ==
    Prompted /\ NeedsPassphrase =>
        /\ result.file # NULL
        /\ result.device # NULL <=> result.subcommand = "enrol"
        /\ result.subcommand = "enrol" =>
              result.kdf_hardness \in Hardness /\ result.mixin = NULL
        /\ pc \in {"reset", "run"} => result.passphrase # NULL

\* Only a prompt at a terminal turns the echo off, and it knows what it was.
EchoKept ==
    /\ terminal # "tty" => echo = found
    /\ pc \notin {"fgets", "reset", "exited", "killed"} => echo = found
    /\ pc = "reset" => terminal = "tty"
    /\ pc \in {"fgets", "reset"} /\ terminal = "tty" =>
          previous_c_lflag = found

Inv ==
    /\ Types
    /\ Untouched
    /\ Explained
    /\ AcceptedIsDocumented
    /\ RefusedForAReason
    /\ Runnable
    /\ EchoKept
    /\ EchoAsFound

-----------------------------------------------------------------------------
(* Operators *)

\* getopt_long knows nine options and has "?" for anything else.
LEMMA GetoptRange ==
    \A name : getopt_long(name) \in short_options \union {"?"}
BY DEF getopt_long

\* Every long name is that of one option.
LEMMA LongNames ==
    /\ getopt_long("device") = "d"          /\ getopt_long("file") = "f"
    /\ getopt_long("passphrase") = "p"      /\ getopt_long("pin") = "n"
    /\ getopt_long("passphrase-file") = "r" /\ getopt_long("mixin") = "m"
    /\ getopt_long("kdf-hardness") = "k"
BY DEF getopt_long, short_options, long_options

\* The names of the manual are those of getopt_long, but for one.
LEMMA NamesAgree ==
    ASSUME NEW name, name # "obfuscate-device-info", ManualOption(name) # "?"
    PROVE  getopt_long(name) = ManualOption(name)
<1>1. PICK c \in DOMAIN ManualNames :
         name \in {c, ManualNames[c]} /\ ManualOption(name) = c
  BY DEF ManualOption
<1>2. c \in {"d", "f", "p", "r", "n", "o", "k", "m"}
  BY DEF ManualNames
<1>3. name = c => getopt_long(name) = c
  BY <1>2 DEF getopt_long, short_options
<1>4. name = ManualNames[c] => getopt_long(name) = c
  BY <1>2, LongNames DEF ManualNames
<1> QED BY <1>1, <1>3, <1>4

\* A set of naturals that is bounded has a greatest element.
LEMMA MaxIsGreatest ==
    ASSUME NEW n \in Nat, NEW S \in SUBSET (0 .. n), S # {}
    PROVE  Max(S) \in S /\ \A y \in S : Max(S) >= y
<1> DEFINE T == { n - y : y \in S }
<1>1. T \subseteq Nat /\ T # {}
  <2>1. \A y \in S : n - y \in Nat
    OBVIOUS
  <2> QED BY <2>1
<1>2. PICK x \in T : \A y \in T : << y, x >> \notin OpToRel(<, Nat)
  BY <1>1, NatLessThanWellFounded, WFMin
<1>3. \A y \in T : ~(y < x)
  BY <1>1, <1>2 DEF OpToRel
<1>4. PICK m \in S : x = n - m
  BY <1>2
<1>5. \A y \in S : m >= y
  <2> TAKE y \in S
  <2>1. ~(n - y < n - m)
    BY <1>3, <1>4
  <2> QED BY <2>1
<1> QED BY <1>4, <1>5 DEF Max

\* What fgets takes ends with the first newline that it meets.
LEMMA FgetsTakes ==
    ASSUME NEW s \in Seq(Byte), NEW size \in Nat, size > 0
    PROVE  /\ fgets(size, s) \in 0 .. Len(s)
           /\ fgets(size, s) < size
           /\ \A k \in 1 .. fgets(size, s) - 1 : s[k] # NL
<1> DEFINE S == { n \in 0 .. Len(s) : /\ n < size
                                      /\ \A k \in 1 .. n - 1 : s[k] # NL }
<1>1. Len(s) \in Nat /\ S \in SUBSET (0 .. Len(s)) /\ 0 \in S
  OBVIOUS
<1>2. Max(S) \in S
  BY <1>1, MaxIsGreatest
<1> QED BY <1>2 DEF fgets

\* The first bytes of a sequence of them.
LEMMA FirstBytesOf ==
    ASSUME NEW s \in Seq(Byte), NEW m \in 0 .. Len(s)
    PROVE  /\ SubSeq(s, 1, m) \in Seq(Byte)
           /\ Len(SubSeq(s, 1, m)) = m
           /\ DOMAIN SubSeq(s, 1, m) = 1 .. m
           /\ \A k \in 1 .. m : SubSeq(s, 1, m)[k] = s[k]
OBVIOUS

\* A secret is a line, or the part of one that fits, without its newline.
LEMMA SecretIsALine ==
    ASSUME NEW s \in Seq(Byte), NEW size \in Nat, size > 0,
           NEW n, n = fgets(size, s), NEW secret,
           secret = WithoutNewline(SubSeq(s, 1, n))
    PROVE  /\ secret \in Seq(Byte)
           /\ \A k \in DOMAIN secret : secret[k] # NL
<1> DEFINE t == SubSeq(s, 1, n)
<1>1. /\ n \in 0 .. Len(s)
      /\ \A k \in 1 .. n - 1 : s[k] # NL
  BY FgetsTakes
<1>2. /\ t \in Seq(Byte) /\ Len(t) = n /\ DOMAIN t = 1 .. n
      /\ \A k \in 1 .. n : t[k] = s[k]
  BY <1>1, FirstBytesOf
<1>e. n \in Nat
  BY <1>1
<1> HIDE DEF t
<1>3. CASE t # << >> /\ Last(t) = NL
  <2>1. secret = SubSeq(t, 1, n - 1) /\ n >= 1
    BY <1>2, <1>3, <1>e DEF WithoutNewline, Front, t
  <2>2. n - 1 \in 0 .. Len(t)
    BY <1>1, <1>2, <2>1
  <2>3. /\ secret \in Seq(Byte) /\ DOMAIN secret = 1 .. n - 1
        /\ \A k \in 1 .. n - 1 : secret[k] = t[k]
    <3>1. PICK m \in 0 .. Len(t) : m = n - 1
      BY <2>2
    <3>2. secret = SubSeq(t, 1, m)
      BY <2>1, <3>1
    <3>3. /\ SubSeq(t, 1, m) \in Seq(Byte)
          /\ DOMAIN SubSeq(t, 1, m) = 1 .. m
          /\ \A k \in 1 .. m : SubSeq(t, 1, m)[k] = t[k]
      BY <1>2, FirstBytesOf
    <3> QED BY <3>1, <3>2, <3>3
  <2> QED BY <1>1, <1>2, <2>3
<1>4. CASE ~(t # << >> /\ Last(t) = NL)
  <2>1. secret = t
    BY <1>4 DEF WithoutNewline, t
  <2>2. n = 0 \/ t[n] # NL
    BY <1>1, <1>2, <1>4 DEF Last
  <2>3. \A k \in 1 .. n : s[k] # NL
    <3> TAKE k \in 1 .. n
    <3>1. k \in 1 .. n - 1 \/ k = n
      BY <1>1
    <3> QED BY <1>1, <1>2, <2>2, <3>1
  <2> QED BY <1>2, <2>1, <2>3
<1> QED BY <1>3, <1>4

\* The letters are the options that were met.
LEMMA LettersAreMet ==
    /\ \A c : c \in Letters(getopt_long) <=> Met(c)
    /\ Letters(getopt_long) \subseteq short_options \union {"?"}
BY GetoptRange DEF Letters, Met

\* One more option is one more that was met.
LEMMA MeetOne ==
    ASSUME given \in Seq(Option), NEW o \in Option,
           given' = Append(given, o)
    PROVE  /\ given' \in Seq(Option)
           /\ \A c : Met(c)' <=> Met(c) \/ getopt_long(o.name) = c
           /\ \A k \in DOMAIN given :
                 k \in DOMAIN given' /\ given'[k] = given[k]
           /\ \E k \in DOMAIN given' : given'[k] = o
<1>1. /\ given' \in Seq(Option)
      /\ Len(given) \in Nat
      /\ DOMAIN given = 1 .. Len(given)
      /\ DOMAIN given' = 1 .. Len(given) + 1
      /\ \A k \in 1 .. Len(given) : given'[k] = given[k]
      /\ given'[Len(given) + 1] = o
  OBVIOUS
<1>2. Len(given) + 1 \in DOMAIN given'
  BY <1>1
<1>3. \A k \in DOMAIN given' : k \in DOMAIN given \/ k = Len(given) + 1
  BY <1>1
<1>4. \A k \in DOMAIN given : k \in DOMAIN given' /\ given'[k] = given[k]
  BY <1>1
<1>5. ASSUME NEW c PROVE Met(c)' <=> Met(c) \/ getopt_long(o.name) = c
  BY <1>1, <1>2, <1>3, <1>4 DEF Met
<1> QED BY <1>1, <1>2, <1>4, <1>5

\* An option leaves its mark in its field and nowhere else.
LEMMA OptionMarks ==
    ASSUME IsResult(result), NEW o \in Option, NEW r, r = ResultWith(o),
           NEW l, l = getopt_long(o.name)
    PROVE  /\ IsResult(r)
           /\ r.subcommand = IF l = "h" THEN "help" ELSE result.subcommand
           /\ r.device = IF l = "d" THEN o.arg ELSE result.device
           /\ r.file = IF l = "f" THEN o.arg ELSE result.file
           /\ r.passphrase = IF l \in {"p", "r"}
                             THEN FirstOf(o.arg, LONGEST_VALID_PASSPHRASE)
                             ELSE result.passphrase
           /\ r.mixin = IF l = "m" THEN o.arg ELSE result.mixin
           /\ r.obfuscate_device_info =
                  IF l = "o" THEN TRUE ELSE result.obfuscate_device_info
           /\ r.kdf_hardness =
                  IF l = "k" THEN HardnessNamed(o.arg) ELSE result.kdf_hardness
<1>1. l \in {"d", "f", "p", "r", "m", "k", "n", "o", "h", "?"}
  BY GetoptRange DEF short_options
<1>2. CASE l = "d"
  BY <1>2 DEF ResultWith, IsResult
<1>3. CASE l = "f"
  BY <1>3 DEF ResultWith, IsResult
<1>4. CASE l \in {"p", "r"}
  BY <1>4 DEF ResultWith, IsResult
<1>5. CASE l = "n"
  BY <1>5 DEF ResultWith, IsResult
<1>6. CASE l = "m"
  BY <1>6 DEF ResultWith, IsResult
<1>7. CASE l = "k"
  BY <1>7 DEF ResultWith, IsResult
<1>8. CASE l = "o"
  BY <1>8 DEF ResultWith, IsResult
<1>9. CASE l = "h"
  BY <1>9 DEF ResultWith, IsResult
<1>10. CASE l = "?"
  BY <1>10 DEF ResultWith, IsResult
<1> QED
  BY <1>1, <1>2, <1>3, <1>4, <1>5, <1>6, <1>7, <1>8, <1>9, <1>10

\* What an option that can be read is given is something.
LEMMA ArgumentThere ==
    ASSUME NEW o \in Option, PassphraseFileReadable(o),
           NEW l, l = getopt_long(o.name)
    PROVE  /\ l \in {"d", "f", "m"} => o.arg # NULL
           /\ l \in {"p", "r"} =>
                 FirstOf(o.arg, LONGEST_VALID_PASSPHRASE) # NULL
<1>1. l \in {"d", "f", "m"} => o.arg # NULL
  BY OptionAssumption DEF OptionAssumption
<1>2. ASSUME l \in {"p", "r"}
      PROVE  FirstOf(o.arg, LONGEST_VALID_PASSPHRASE) # NULL
  <2>1. o.arg \in Seq(Byte)
    BY <1>2, OptionAssumption DEF OptionAssumption, PassphraseFileReadable
  <2>2. LONGEST_VALID_PASSPHRASE \in Nat /\ NULL \notin Seq(Byte)
    BY InvocationAssumption DEF InvocationAssumption
  <2>3. CASE Len(o.arg) > LONGEST_VALID_PASSPHRASE
    <3>1. LONGEST_VALID_PASSPHRASE \in 0 .. Len(o.arg)
      BY <2>1, <2>2, <2>3
    <3>2. SubSeq(o.arg, 1, LONGEST_VALID_PASSPHRASE) \in Seq(Byte)
      BY <2>1, <3>1, FirstBytesOf
    <3> QED BY <2>2, <2>3, <3>2 DEF FirstOf
  <2>4. CASE ~(Len(o.arg) > LONGEST_VALID_PASSPHRASE)
    BY <2>1, <2>2, <2>4 DEF FirstOf
  <2> QED BY <2>3, <2>4
<1> QED BY <1>1, <1>2

-----------------------------------------------------------------------------
(* The judgement at the end of the options *)

\* What the manual says of each subcommand.
LEMMA Manual ==
    /\ Required["enrol"] = {"d", "f"} /\ Required["generate"] = {"f"}
    /\ Optional["enrol"] = {"p", "r", "n", "o", "k"}
    /\ Optional["generate"] = {"p", "r", "n", "m"}
    /\ \A s \in {"help", "version", "enumerate"} :
          Required[s] = {} /\ Optional[s] = {}
BY DEF Required, Optional, Subcommands

\* What passes is in the manual, a PIN aside.
LEMMA PassedIsDocumented ==
    ASSUME Types, Explained, Parsing, result.subcommand # "help",
           ~invalid_invocation, RequiredArguments(result)
    PROVE  /\ Required[word] \subseteq Letters(getopt_long)
           /\ Letters(getopt_long) \ {"n"}
                  \subseteq Required[word] \union Optional[word]
<1>0. /\ word \in Subcommands
      /\ result.subcommand = IF Met("h") THEN "help" ELSE word
      /\ result.device # NULL <=> Met("d")
      /\ result.file # NULL <=> Met("f")
      /\ result.passphrase # NULL <=> Met("p") \/ Met("r")
      /\ result.mixin # NULL <=> Met("m")
      /\ result.obfuscate_device_info <=> Met("o")
      /\ result.kdf_hardness # "unspecified" <=> Met("k")
      /\ ~Met("?")
  BY DEF Explained
<1>1. /\ word = result.subcommand /\ word # "help"
      /\ ~Met("h")
  BY <1>0
<1>2. /\ \A c : c \in Letters(getopt_long) <=> Met(c)
      /\ Letters(getopt_long) \subseteq
            {"d", "f", "p", "r", "m", "k", "n", "o", "h", "?"}
  BY LettersAreMet DEF short_options
<1>3. CASE word = "enrol"
  <2>1. Met("d") /\ Met("f") /\ ~Met("m")
    BY <1>0, <1>1, <1>3 DEF RequiredArguments
  <2> QED BY <1>0, <1>1, <1>2, <1>3, <2>1, Manual
<1>4. CASE word = "generate"
  <2>1. ~Met("d") /\ Met("f") /\ ~Met("o") /\ ~Met("k")
    BY <1>0, <1>1, <1>4 DEF RequiredArguments
  <2> QED BY <1>0, <1>1, <1>2, <1>4, <2>1, Manual
<1>5. CASE word \notin {"enrol", "generate"}
  <2>1. /\ ~Met("d") /\ ~Met("f") /\ ~Met("m") /\ ~Met("o") /\ ~Met("k")
        /\ ~Met("p") /\ ~Met("r")
    BY <1>0, <1>1, <1>5 DEF RequiredArguments
  <2>2. Required[word] = {} /\ Optional[word] = {}
    BY <1>0, <1>1, <1>5, Manual DEF Subcommands
  <2> QED BY <1>0, <1>1, <1>2, <2>1, <2>2
<1> QED BY <1>3, <1>4, <1>5

\* What is in the manual passes, the long name of one option aside.
LEMMA DocumentedPasses ==
    ASSUME Types, Explained, Parsing, result.subcommand # "help",
           NEW letters, letters = Letters(ManualOption),
           Required[word] \subseteq letters,
           letters \subseteq Required[word] \union Optional[word],
           \A k \in DOMAIN given :
              /\ given[k].name \notin {"obfuscate-device-info"}
              /\ ManualOption(given[k].name) = "k" => given[k].arg \in Hardness
    PROVE  ~invalid_invocation /\ RequiredArguments(result)
<1>0. /\ word \in Subcommands
      /\ result.subcommand = IF Met("h") THEN "help" ELSE word
      /\ result.device # NULL <=> Met("d")
      /\ result.file # NULL <=> Met("f")
      /\ result.passphrase # NULL <=> Met("p") \/ Met("r")
      /\ result.mixin # NULL <=> Met("m")
      /\ result.obfuscate_device_info <=> Met("o")
      /\ result.kdf_hardness # "unspecified" <=> Met("k")
      /\ result.kdf_hardness = "invalid" =>
            \E k \in DOMAIN given : /\ getopt_long(given[k].name) = "k"
                                    /\ given[k].arg \notin Hardness
      /\ invalid_invocation <=> Met("?")
  BY DEF Explained
<1>1. \A c : c \in letters <=>
         \E k \in DOMAIN given : ManualOption(given[k].name) = c
  BY DEF Letters
<1>2. "?" \notin letters /\ "h" \notin letters
  BY <1>0, Manual DEF Subcommands
<1>3. \A k \in DOMAIN given :
         getopt_long(given[k].name) = ManualOption(given[k].name)
  BY <1>1, <1>2, NamesAgree
<1>4. \A c : Met(c) <=> c \in letters
  BY <1>1, <1>3 DEF Met
<1>5. ~invalid_invocation
  BY <1>0, <1>2, <1>4
<1>6. result.subcommand = word /\ word # "help"
  BY <1>0, <1>2, <1>4
<1>7. result.kdf_hardness # "invalid"
  BY <1>0, <1>3
<1>8. CASE word = "enrol"
  <2>1. Met("d") /\ Met("f") /\ ~Met("m")
    BY <1>4, <1>8, Manual
  <2> QED BY <1>0, <1>5, <1>6, <1>7, <1>8, <2>1 DEF RequiredArguments
<1>9. CASE word = "generate"
  <2>1. ~Met("d") /\ Met("f") /\ ~Met("o") /\ ~Met("k")
    BY <1>4, <1>9, Manual
  <2> QED BY <1>0, <1>5, <1>6, <1>9, <2>1 DEF RequiredArguments
<1>10. CASE word \notin {"enrol", "generate"}
  <2>1. letters = {}
    BY <1>0, <1>6, <1>10, Manual DEF Subcommands
  <2>2. \A c : ~Met(c)
    BY <1>4, <2>1
  <2> QED BY <1>0, <1>5, <1>6, <1>10, <2>2 DEF RequiredArguments
<1> QED BY <1>8, <1>9, <1>10

-----------------------------------------------------------------------------
(* The steps *)

\* The invariant holds at the start.
LEMMA InvInit == Init => Inv
<1> SUFFICES ASSUME Init PROVE Inv
  OBVIOUS
<1>1. Types
  <2>1. EXIT_SUCCESS \in ExitCodes /\ << >> \in Seq(Byte)
        /\ << >> \in Seq(Option) /\ << >> \in Seq(Seq(Byte))
        /\ DOMAIN << >> = {}
    BY DEF ExitCodes
  <2>2. IsResult(result)
    BY DEF Init, IsResult
  <2> QED
    BY <2>1, <2>2 DEF Init, Types, TypeOK
<1>2. pc = "subcommand" /\ echo = found
  BY DEF Init
<1>3. Explained /\ Runnable /\ EchoKept /\ EchoAsFound
  BY <1>2 DEF Explained, Parsing, Runnable, Prompted, EchoKept, EchoAsFound
<1>4. AcceptedIsDocumented /\ RefusedForAReason
  BY <1>2 DEF AcceptedIsDocumented, Accepted, RefusedForAReason, Refused
<1>5. Untouched
  BY DEF Init, Untouched
<1> QED BY <1>1, <1>3, <1>4, <1>5 DEF Inv

\* The judgement stays once the options are over.
LEMMA JudgementStays ==
    ASSUME AcceptedIsDocumented, ~Refused', Accepted' => Accepted,
           UNCHANGED << word, given >>,
           result'.subcommand = result.subcommand
    PROVE  AcceptedIsDocumented' /\ RefusedForAReason'
BY DEF AcceptedIsDocumented, Letters, RefusedForAReason

\* No other status is that of a bad invocation.
LEMMA StatusesApart ==
    /\ EXIT_SUCCESS # EXIT_BAD_INVOCATION
    /\ EXIT_DESERIALIZATION_ERROR # EXIT_BAD_INVOCATION
    /\ EXIT_OUT_OF_MEMORY # EXIT_BAD_INVOCATION
    /\ EXIT_UNABLE_TO_GET_USER_SECRET # EXIT_BAD_INVOCATION
    /\ { EXIT_SUCCESS, EXIT_BAD_INVOCATION, EXIT_DESERIALIZATION_ERROR,
         EXIT_OUT_OF_MEMORY, EXIT_UNABLE_TO_GET_USER_SECRET }
           \subseteq ExitCodes
BY DEF EXIT_SUCCESS, EXIT_BAD_INVOCATION, EXIT_DESERIALIZATION_ERROR,
       EXIT_OUT_OF_MEMORY, EXIT_UNABLE_TO_GET_USER_SECRET, ExitCodes,
       EXIT_H_USER_ERROR_BITS, EXIT_H_RUNTIME_ERROR_BITS

\* The subcommand: nothing was met yet.
LEMMA SubcommandStep == ASSUME Inv, Subcommand PROVE Inv'
<1>0. /\ Types
      /\ UNCHANGED << word, given, extra_args, terminalVars, inputVars,
                      invalid_invocation >>
  BY DEF Inv, Subcommand
<1>1. \/ /\ word \in Subcommands
         /\ result' = [result EXCEPT !.subcommand = word]
         /\ pc' = "getopt" /\ status' = status
      \/ /\ word \notin Subcommands
         /\ pc' = "exited" /\ status' = EXIT_BAD_INVOCATION
         /\ result' = result
  BY DEF Subcommand, Goto, Exit
<1>2. Types'
  <2>1. IsResult(result')
    BY <1>0, <1>1 DEF Types, IsResult
  <2>2. /\ result'.subcommand \in Subcommands \union {NULL}
        /\ result'.kdf_hardness = result.kdf_hardness
        /\ result'.obfuscate_device_info = result.obfuscate_device_info
    BY <1>0, <1>1 DEF Types, TypeOK, IsResult
  <2> QED
    BY <1>0, <1>1, <2>1, <2>2, StatusesApart
    DEF Types, TypeOK, terminalVars, inputVars
<1>3. Explained'
  <2>1. \A c : ~Met(c)'
    BY <1>0 DEF Inv, Subcommand, Untouched, Met
  <2>2. ASSUME pc' = "getopt", word \in Subcommands,
               result' = [result EXCEPT !.subcommand = word]
        PROVE  Explained'
    <3>1. /\ result'.subcommand = word
          /\ result'.device = NULL /\ result'.file = NULL
          /\ result'.passphrase = NULL /\ result'.mixin = NULL
          /\ result'.obfuscate_device_info = FALSE
          /\ result'.kdf_hardness = "unspecified"
          /\ invalid_invocation' = FALSE
      BY <1>0, <2>2 DEF Inv, Subcommand, Untouched, Types, IsResult
    <3> QED BY <1>0, <2>1, <2>2, <3>1 DEF Explained
  <2> QED BY <1>1, <2>2 DEF Explained, Parsing
<1>4. AcceptedIsDocumented' /\ RefusedForAReason'
  BY <1>0, <1>1
  DEF AcceptedIsDocumented, Accepted, RefusedForAReason, Refused,
      IsDocumented
<1>5. Untouched' /\ Runnable' /\ EchoKept' /\ EchoAsFound'
  BY <1>0, <1>1
  DEF Inv, Subcommand, Untouched, Runnable, Prompted, EchoKept, EchoAsFound,
      terminalVars
<1> QED BY <1>2, <1>3, <1>4, <1>5 DEF Inv

\* An option: its field tells that it was met.
LEMMA GetOptionStep == ASSUME Inv, GetOption PROVE Inv'
<1>0. /\ Types /\ Explained /\ Parsing
      /\ UNCHANGED << word, extra_args, terminalVars, inputVars >>
  BY DEF Inv, GetOption, Parsing
<1>1. PICK o \in Option :
         /\ given' = Append(given, o)
         /\ \/ /\ PassphraseFileReadable(o)
               /\ result' = ResultWith(o)
               /\ invalid_invocation' =
                     (invalid_invocation \/ getopt_long(o.name) = "?")
               /\ UNCHANGED << pc, status >>
            \/ /\ Exit(EXIT_DESERIALIZATION_ERROR)
               /\ UNCHANGED << result, invalid_invocation >>
  BY DEF GetOption
<1>2. /\ given' \in Seq(Option)
      /\ \A c : Met(c)' <=> Met(c) \/ getopt_long(o.name) = c
      /\ \A k \in DOMAIN given : k \in DOMAIN given' /\ given'[k] = given[k]
      /\ \E k \in DOMAIN given' : given'[k] = o
  BY <1>0, <1>1, MeetOne DEF Types, TypeOK
<1>3. CASE /\ Exit(EXIT_DESERIALIZATION_ERROR)
           /\ UNCHANGED << result, invalid_invocation >>
  <2>1. Types'
    BY <1>0, <1>2, <1>3, StatusesApart
    DEF Exit, Types, TypeOK, terminalVars, inputVars
  <2>2. /\ Untouched' /\ Explained'
        /\ AcceptedIsDocumented' /\ RefusedForAReason'
        /\ Runnable' /\ EchoKept' /\ EchoAsFound'
    BY <1>0, <1>3, StatusesApart
    DEF Exit, Explained, Parsing, AcceptedIsDocumented, Accepted,
        RefusedForAReason, Refused, Runnable, Prompted, EchoKept,
        EchoAsFound, terminalVars, Inv, Untouched
  <2> QED BY <2>1, <2>2 DEF Inv
<1>4. CASE /\ PassphraseFileReadable(o)
           /\ result' = ResultWith(o)
           /\ invalid_invocation' =
                 (invalid_invocation \/ getopt_long(o.name) = "?")
           /\ UNCHANGED << pc, status >>
  <2> DEFINE l == getopt_long(o.name)
  <2>1. /\ IsResult(result')
        /\ result'.subcommand = IF l = "h" THEN "help" ELSE result.subcommand
        /\ result'.device = IF l = "d" THEN o.arg ELSE result.device
        /\ result'.file = IF l = "f" THEN o.arg ELSE result.file
        /\ result'.passphrase = IF l \in {"p", "r"}
                                THEN FirstOf(o.arg, LONGEST_VALID_PASSPHRASE)
                                ELSE result.passphrase
        /\ result'.mixin = IF l = "m" THEN o.arg ELSE result.mixin
        /\ result'.obfuscate_device_info =
               IF l = "o" THEN TRUE ELSE result.obfuscate_device_info
        /\ result'.kdf_hardness =
               IF l = "k" THEN HardnessNamed(o.arg) ELSE result.kdf_hardness
    BY <1>0, <1>4, OptionMarks DEF Types
  <2>2. /\ l \in {"d", "f", "m"} => o.arg # NULL
        /\ l \in {"p", "r"} =>
              FirstOf(o.arg, LONGEST_VALID_PASSPHRASE) # NULL
    BY <1>4, ArgumentThere
  <2>3. /\ HardnessNamed(o.arg) \in Hardness \union {"invalid"}
        /\ HardnessNamed(o.arg) = "invalid" => o.arg \notin Hardness
        /\ HardnessNamed(o.arg) # "unspecified"
    BY HardnessAssumption DEF HardnessAssumption, HardnessNamed, Hardness
  <2> HIDE DEF l
  <2>4. Types'
    <3>1. result'.subcommand \in Subcommands \union {NULL}
      BY <1>0, <2>1 DEF Types, TypeOK, Subcommands
    <3>2. result'.kdf_hardness \in Hardness \union {"unspecified", "invalid"}
      BY <1>0, <2>1, <2>3 DEF Types, TypeOK
    <3>3. result'.obfuscate_device_info \in BOOLEAN
      BY <1>0, <2>1 DEF Types, TypeOK
    <3>4. invalid_invocation' \in BOOLEAN
      BY <1>4
    <3> QED
      BY <1>0, <1>2, <1>4, <2>1, <3>1, <3>2, <3>3, <3>4
      DEF Types, TypeOK, terminalVars, inputVars
  <2>5. Explained'
    <3>0. /\ word \in Subcommands
          /\ result.subcommand = IF Met("h") THEN "help" ELSE word
          /\ result.device # NULL <=> Met("d")
          /\ result.file # NULL <=> Met("f")
          /\ result.passphrase # NULL <=> Met("p") \/ Met("r")
          /\ result.mixin # NULL <=> Met("m")
          /\ result.obfuscate_device_info <=> Met("o")
          /\ result.kdf_hardness # "unspecified" <=> Met("k")
          /\ result.kdf_hardness = "invalid" =>
                \E k \in DOMAIN given : /\ getopt_long(given[k].name) = "k"
                                        /\ given[k].arg \notin Hardness
          /\ invalid_invocation <=> Met("?")
      BY <1>0 DEF Explained
    <3>m. \A c : Met(c)' <=> Met(c) \/ l = c
      BY <1>2 DEF l
    <3>1. result'.subcommand = IF Met("h")' THEN "help" ELSE word
      BY <2>1, <3>0, <3>m
    <3>2. result'.device # NULL <=> Met("d")'
      BY <2>1, <2>2, <3>0, <3>m
    <3>3. result'.file # NULL <=> Met("f")'
      BY <2>1, <2>2, <3>0, <3>m
    <3>4. result'.passphrase # NULL <=> Met("p")' \/ Met("r")'
      BY <2>1, <2>2, <3>0, <3>m
    <3>5. result'.mixin # NULL <=> Met("m")'
      BY <2>1, <2>2, <3>0, <3>m
    <3>6. result'.obfuscate_device_info <=> Met("o")'
      BY <2>1, <3>0, <3>m
    <3>7. result'.kdf_hardness # "unspecified" <=> Met("k")'
      BY <2>1, <2>3, <3>0, <3>m
    <3>8. result'.kdf_hardness = "invalid" =>
             \E k \in DOMAIN given' : /\ getopt_long(given'[k].name) = "k"
                                      /\ given'[k].arg \notin Hardness
      <4>1. CASE l = "k"
        BY <1>2, <2>1, <2>3, <4>1 DEF l
      <4>2. CASE l # "k"
        BY <1>2, <2>1, <3>0, <4>2
      <4> QED BY <4>1, <4>2
    <3>9. invalid_invocation' <=> Met("?")'
      BY <1>4, <3>0, <3>m DEF l
    <3>10. word' = word
      BY <1>0
    <3> QED
      BY <3>0, <3>1, <3>2, <3>3, <3>4, <3>5, <3>6, <3>7, <3>8, <3>9, <3>10
      DEF Explained
  <2>6. /\ AcceptedIsDocumented' /\ RefusedForAReason'
        /\ Untouched' /\ Runnable' /\ EchoKept' /\ EchoAsFound'
    BY <1>0, <1>4
    DEF Parsing, AcceptedIsDocumented, Accepted, RefusedForAReason, Refused,
        Untouched, Runnable, Prompted, EchoKept, EchoAsFound, terminalVars, Inv
  <2> QED BY <2>4, <2>5, <2>6 DEF Inv
<1> QED BY <1>1, <1>3, <1>4

\* The end of the options: the result is judged, and so are they.
LEMMA OptionsStep == ASSUME Inv, Options PROVE Inv'
<1>0. /\ Types /\ Explained /\ Parsing
      /\ UNCHANGED << word, given, terminalVars, inputVars >>
  BY DEF Inv, Options, Parsing
<1>1. PICK memory \in Memory :
         /\ invalid_invocation' = (\/ invalid_invocation
                                   \/ extra_args'
                                   \/ ~RequiredArguments(result))
         /\ \/ /\ result.subcommand # "help" /\ invalid_invocation'
               /\ Exit(EXIT_BAD_INVOCATION) /\ UNCHANGED result
            \/ /\ ~(result.subcommand # "help" /\ invalid_invocation')
               /\ result' =
                      IF /\ result.subcommand = "enrol"
                         /\ result.kdf_hardness = "unspecified"
                      THEN [result EXCEPT !.kdf_hardness =
                                              automatic_hardness(memory)]
                      ELSE result
               /\ Goto(IF NeedsPassphrase /\ result.passphrase = NULL
                       THEN "prompt" ELSE "run")
  BY DEF Options
<1>2. invalid_invocation' \in BOOLEAN /\ extra_args' \in BOOLEAN
  BY <1>1 DEF Options
<1>3. CASE /\ result.subcommand # "help" /\ invalid_invocation'
           /\ Exit(EXIT_BAD_INVOCATION) /\ UNCHANGED result
  <2>1. Types'
    BY <1>0, <1>2, <1>3, StatusesApart
    DEF Exit, Types, TypeOK, terminalVars, inputVars
  <2>2. RefusedForAReason'
    <3> SUFFICES ASSUME IsDocumented({"obfuscate-device-info"})' PROVE FALSE
      BY DEF RefusedForAReason
    <3>1. /\ ~extra_args'
          /\ Required[word] \subseteq Letters(ManualOption)
          /\ Letters(ManualOption)
                 \subseteq Required[word] \union Optional[word]
          /\ \A k \in DOMAIN given :
                /\ given[k].name \notin {"obfuscate-device-info"}
                /\ ManualOption(given[k].name) = "k" =>
                      given[k].arg \in Hardness
      BY <1>0 DEF IsDocumented, Letters
    <3>2. ~invalid_invocation /\ RequiredArguments(result)
      BY <1>0, <1>3, <3>1, DocumentedPasses
    <3> QED BY <1>1, <1>3, <3>1, <3>2
  <2>3. /\ Untouched' /\ Explained' /\ AcceptedIsDocumented'
        /\ Runnable' /\ EchoKept' /\ EchoAsFound'
    BY <1>0, <1>3
    DEF Exit, Untouched, Explained, Parsing, AcceptedIsDocumented, Accepted,
        Runnable, Prompted, EchoKept, EchoAsFound, terminalVars, Inv
  <2> QED BY <2>1, <2>2, <2>3 DEF Inv
<1>4. CASE /\ ~(result.subcommand # "help" /\ invalid_invocation')
           /\ result' =
                  IF /\ result.subcommand = "enrol"
                     /\ result.kdf_hardness = "unspecified"
                  THEN [result EXCEPT !.kdf_hardness =
                                          automatic_hardness(memory)]
                  ELSE result
           /\ Goto(IF NeedsPassphrase /\ result.passphrase = NULL
                   THEN "prompt" ELSE "run")
  <2>1. /\ pc' \in {"prompt", "run"}
        /\ pc' = "run" => ~NeedsPassphrase \/ result.passphrase # NULL
        /\ status' = status
    BY <1>4 DEF Goto
  <2>2. automatic_hardness(memory) \in Hardness
    BY DEF automatic_hardness, Hardness
  <2>3. /\ IsResult(result')
        /\ result'.subcommand = result.subcommand
        /\ result'.device = result.device
        /\ result'.file = result.file
        /\ result'.passphrase = result.passphrase
        /\ result'.mixin = result.mixin
        /\ result'.obfuscate_device_info = result.obfuscate_device_info
        /\ \/ result'.kdf_hardness = result.kdf_hardness
           \/ result'.kdf_hardness \in Hardness
        /\ result.subcommand = "enrol" =>
              result'.kdf_hardness # "unspecified"
        /\ result.kdf_hardness # "unspecified" =>
              result'.kdf_hardness = result.kdf_hardness
    <3>1. CASE /\ result.subcommand = "enrol"
               /\ result.kdf_hardness = "unspecified"
      <4>1. result' = [result EXCEPT !.kdf_hardness =
                                         automatic_hardness(memory)]
        BY <1>4, <3>1
      <4> QED BY <1>0, <2>2, <3>1, <4>1 DEF Types, IsResult, Hardness
    <3>2. CASE ~(/\ result.subcommand = "enrol"
                 /\ result.kdf_hardness = "unspecified")
      BY <1>0, <1>4, <3>2 DEF Types
    <3> QED BY <3>1, <3>2
  <2>4. Types'
    BY <1>0, <1>2, <2>1, <2>3 DEF Types, TypeOK, terminalVars, inputVars
  <2>5. result.subcommand # "help" =>
           ~invalid_invocation /\ RequiredArguments(result)
    BY <1>1, <1>4
  <2>6. AcceptedIsDocumented'
    <3>1. result.subcommand # "help" =>
             /\ Required[word] \subseteq Letters(getopt_long)
             /\ Letters(getopt_long) \ {"n"}
                    \subseteq Required[word] \union Optional[word]
      BY <1>0, <2>5, PassedIsDocumented
    <3> QED BY <1>0, <2>3, <3>1 DEF AcceptedIsDocumented, Letters
  <2>7. Runnable'
    <3> SUFFICES ASSUME NeedsPassphrase'
                 PROVE  /\ result'.file # NULL
                        /\ result'.device # NULL <=>
                              result'.subcommand = "enrol"
                        /\ result'.subcommand = "enrol" =>
                              /\ result'.kdf_hardness \in Hardness
                              /\ result'.mixin = NULL
                        /\ pc' \in {"reset", "run"} =>
                              result'.passphrase # NULL
      BY DEF Runnable
    <3>1. result.subcommand \in {"enrol", "generate"}
      BY <2>3 DEF NeedsPassphrase
    <3>2. RequiredArguments(result)
      BY <2>5, <3>1
    <3>3. CASE result.subcommand = "enrol"
      <4>1. /\ result.device # NULL /\ result.file # NULL
            /\ result.mixin = NULL /\ result.kdf_hardness # "invalid"
        BY <3>2, <3>3 DEF RequiredArguments
      <4>2. result'.kdf_hardness \in Hardness
        BY <1>0, <2>3, <3>3, <4>1 DEF Types, TypeOK
      <4> QED BY <2>1, <2>3, <3>1, <3>3, <4>1, <4>2 DEF NeedsPassphrase
    <3>4. CASE result.subcommand = "generate"
      <4>1. result.device = NULL /\ result.file # NULL
        BY <3>2, <3>4 DEF RequiredArguments
      <4> QED BY <2>1, <2>3, <3>1, <3>4, <4>1 DEF NeedsPassphrase
    <3> QED BY <3>1, <3>3, <3>4
  <2>8. /\ Untouched' /\ Explained' /\ RefusedForAReason'
        /\ EchoKept' /\ EchoAsFound'
    BY <1>0, <2>1
    DEF Untouched, Explained, Parsing, RefusedForAReason, Refused, EchoKept,
        EchoAsFound, terminalVars, Inv
  <2> QED BY <2>4, <2>6, <2>7, <2>8 DEF Inv
<1> QED BY <1>1, <1>3, <1>4

\* A step past the options that leaves the result alone, or gives it its
\* passphrase.
LEMMA PastOptions ==
    ASSUME Inv, Types', Runnable', EchoKept', EchoAsFound', ~Refused',
           Prompted, pc' # "subcommand", pc' # "getopt",
           UNCHANGED << word, given >>,
           result'.subcommand = result.subcommand
    PROVE  Inv'
<1>1. AcceptedIsDocumented' /\ RefusedForAReason'
  BY JudgementStays DEF Inv, Accepted, Prompted
<1> QED BY <1>1 DEF Inv, Untouched, Explained, Parsing

\* A prompt begins: it saves the settings and turns the echo off.
LEMMA PromptStep == ASSUME Inv, Prompt PROVE Inv'
<1>0. /\ Types /\ Runnable /\ EchoKept /\ pc = "prompt" /\ Prompted
      /\ UNCHANGED << parseVars, secrets, terminal, found >>
  BY DEF Inv, Prompt, Prompted
<1>1. \/ /\ terminal = "tty"
         /\ previous_c_lflag' = echo /\ echo' = FALSE
         /\ pc' = "fgets" /\ status' = status
      \/ /\ terminal # "tty"
         /\ UNCHANGED << echo, previous_c_lflag >>
         /\ pc' = "fgets" /\ status' = status
      \/ /\ UNCHANGED << echo, previous_c_lflag >>
         /\ pc' = "exited" /\ status' = EXIT_UNABLE_TO_GET_USER_SECRET
  BY DEF Prompt, Goto, Exit, SavedEcho
<1>2. input' \in Seq(Byte) /\ stdin' \in Seq(Byte)
  BY <1>0, InvocationAssumption DEF Prompt, Types, InvocationAssumption
<1>3. Types'
  BY <1>0, <1>1, <1>2, StatusesApart DEF Types, TypeOK, parseVars
<1>4. Runnable' /\ EchoKept' /\ EchoAsFound' /\ ~Refused'
  <2>1. echo = found
    BY <1>0 DEF EchoKept
  <2> QED
    BY <1>0, <1>1, <2>1, StatusesApart
    DEF Runnable, Prompted, NeedsPassphrase, EchoKept, EchoAsFound, Refused,
        parseVars
<1> QED BY <1>0, <1>1, <1>3, <1>4, PastOptions DEF parseVars

\* A line is read: it becomes the passphrase, if there is none yet.
LEMMA FgetsStep == ASSUME Inv, Fgets PROVE Inv'
<1>0. /\ Types /\ Runnable /\ EchoKept /\ pc = "fgets" /\ Prompted
      /\ UNCHANGED << invalid_invocation, word, given, extra_args,
                      terminalVars, input >>
  BY DEF Inv, Fgets, Prompted
<1> DEFINE n == fgets(maximum_size, stdin)
           secret == WithoutNewline(SubSeq(stdin, 1, n))
<1>1. \/ /\ Exit(EXIT_UNABLE_TO_GET_USER_SECRET)
         /\ UNCHANGED << result, stdin, secrets >>
      \/ /\ stdin' = SubSeq(stdin, n + 1, Len(stdin))
         /\ secrets' = Append(secrets, secret)
         /\ result' = IF result.passphrase = NULL
                      THEN [result EXCEPT !.passphrase = secret]
                      ELSE result
         /\ Goto(IF terminal = "tty" THEN "reset" ELSE "run")
  BY DEF Fgets
<1>2. CASE /\ Exit(EXIT_UNABLE_TO_GET_USER_SECRET)
           /\ UNCHANGED << result, stdin, secrets >>
  <2>1. Types'
    BY <1>0, <1>2, StatusesApart DEF Exit, Types, TypeOK, terminalVars
  <2>2. Runnable' /\ EchoKept' /\ EchoAsFound' /\ ~Refused'
    BY <1>0, <1>2, StatusesApart
    DEF Exit, Runnable, Prompted, EchoKept, EchoAsFound, Refused,
        terminalVars
  <2> QED BY <1>0, <1>2, <2>1, <2>2, PastOptions DEF Exit
<1>3. CASE /\ stdin' = SubSeq(stdin, n + 1, Len(stdin))
           /\ secrets' = Append(secrets, secret)
           /\ result' = IF result.passphrase = NULL
                        THEN [result EXCEPT !.passphrase = secret]
                        ELSE result
           /\ Goto(IF terminal = "tty" THEN "reset" ELSE "run")
  <2>0. maximum_size \in Nat /\ maximum_size > 0
    BY InvocationAssumption DEF InvocationAssumption, maximum_size
  <2>1. n \in 0 .. Len(stdin)
    BY <1>0, <2>0, FgetsTakes DEF Types
  <2>2. /\ secret \in Seq(Byte)
        /\ \A k \in DOMAIN secret : secret[k] # NL
    BY <1>0, <2>0, SecretIsALine DEF Types
  <2> HIDE DEF n, secret
  <2>3. stdin' \in Seq(Byte)
    BY <1>0, <1>3, <2>1 DEF Types
  <2>4. /\ secrets' \in Seq(Seq(Byte))
        /\ \A k \in DOMAIN secrets' : \A m \in DOMAIN secrets'[k] :
              secrets'[k][m] # NL
    <3>1. /\ secrets \in Seq(Seq(Byte))
          /\ \A k \in DOMAIN secrets : \A m \in DOMAIN secrets[k] :
                secrets[k][m] # NL
      BY <1>0 DEF Types, TypeOK
    <3>2. /\ secrets' \in Seq(Seq(Byte))
          /\ \A k \in DOMAIN secrets' :
                \/ k \in DOMAIN secrets /\ secrets'[k] = secrets[k]
                \/ secrets'[k] = secret
      BY <1>3, <2>2, <3>1
    <3> QED BY <2>2, <3>1, <3>2
  <2>5. /\ IsResult(result')
        /\ result'.subcommand = result.subcommand
        /\ result'.device = result.device
        /\ result'.file = result.file
        /\ result'.mixin = result.mixin
        /\ result'.obfuscate_device_info = result.obfuscate_device_info
        /\ result'.kdf_hardness = result.kdf_hardness
        /\ result'.passphrase # NULL
    <3>1. secret # NULL
      BY <2>2, InvocationAssumption DEF InvocationAssumption
    <3>2. CASE result.passphrase = NULL
      <4>1. result' = [result EXCEPT !.passphrase = secret]
        BY <1>3, <3>2
      <4> QED BY <1>0, <3>1, <4>1 DEF Types, IsResult
    <3>3. CASE result.passphrase # NULL
      BY <1>0, <1>3, <3>3 DEF Types
    <3> QED BY <3>2, <3>3
  <2>6. /\ pc' = IF terminal = "tty" THEN "reset" ELSE "run"
        /\ status' = status
    BY <1>3 DEF Goto
  <2>7. Types'
    BY <1>0, <2>3, <2>4, <2>5, <2>6 DEF Types, TypeOK, terminalVars
  <2>8. Runnable' /\ EchoKept' /\ EchoAsFound' /\ ~Refused'
    BY <1>0, <2>5, <2>6
    DEF Runnable, Prompted, NeedsPassphrase, EchoKept, EchoAsFound, Refused,
        terminalVars
  <2> QED BY <1>0, <2>5, <2>6, <2>7, <2>8, PastOptions
<1> QED BY <1>1, <1>2, <1>3

\* The prompt ends: the echo comes back.
LEMMA ResetStep == ASSUME Inv, Reset PROVE Inv'
<1>0. /\ Types /\ Runnable /\ EchoKept /\ pc = "reset" /\ Prompted
      /\ UNCHANGED << parseVars, inputVars, terminal, previous_c_lflag,
                      found >>
  BY DEF Inv, Reset, Prompted
<1>1. \/ /\ pc' = "run" /\ status' = status
         /\ echo' = previous_c_lflag
      \/ /\ pc' = "exited" /\ status' = EXIT_UNABLE_TO_GET_USER_SECRET
         /\ echo' = echo
  BY DEF Reset, Goto, Exit
<1>2. Types'
  BY <1>0, <1>1, StatusesApart DEF Types, TypeOK, parseVars, inputVars
<1>3. Runnable' /\ EchoKept' /\ EchoAsFound' /\ ~Refused'
  BY <1>0, <1>1, StatusesApart
  DEF Runnable, Prompted, NeedsPassphrase, EchoKept, EchoAsFound, Refused,
      parseVars
<1> QED BY <1>0, <1>1, <1>2, <1>3, PastOptions DEF parseVars

\* The rest of the subcommand, a lack of memory, a signal.
LEMMA OtherSteps ==
    ASSUME Inv, NeedPin \/ Finish \/ OutOfMemory \/ Kill PROVE Inv'
<1>0. /\ Types /\ Runnable /\ EchoKept /\ EchoAsFound
      /\ UNCHANGED << parseVars, terminalVars, inputVars >>
  BY DEF Inv, NeedPin, Finish, OutOfMemory, Kill
<1>1. \/ pc = "run" /\ pc' = "prompt" /\ status' = status
      \/ pc = "run" /\ pc' = "exited" /\ status' = EXIT_SUCCESS
      \/ /\ pc \in {"getopt", "prompt"}
         /\ pc' = "exited" /\ status' = EXIT_OUT_OF_MEMORY
      \/ pc' = "killed" /\ status' = status
  BY DEF NeedPin, Finish, OutOfMemory, Kill, Goto, Exit
<1>2. Types'
  BY <1>0, <1>1, StatusesApart
  DEF Types, TypeOK, parseVars, terminalVars, inputVars
<1>3. Runnable' /\ EchoKept' /\ EchoAsFound' /\ ~Refused'
  BY <1>0, <1>1, StatusesApart
  DEF Runnable, Prompted, NeedsPassphrase, EchoKept, EchoAsFound, Refused,
      parseVars, terminalVars
<1>4. AcceptedIsDocumented' /\ RefusedForAReason'
  <2>1. Accepted' => Accepted
    BY <1>1 DEF Accepted
  <2> QED BY <1>0, <1>3, <2>1, JudgementStays DEF Inv, parseVars
<1>5. Untouched' /\ Explained'
  BY <1>1 DEF Untouched, Explained, Parsing
<1> QED BY <1>2, <1>3, <1>4, <1>5 DEF Inv

\* The invariant is inductive.
LEMMA InvNext == Inv /\ [Next]_vars => Inv'
<1> SUFFICES ASSUME Inv, [Next]_vars PROVE Inv'
  OBVIOUS
<1>1. CASE UNCHANGED vars
  <2>1. UNCHANGED << pc, status, result, invalid_invocation, word, given,
                     extra_args, terminal, echo, previous_c_lflag, found,
                     input, stdin, secrets >>
    BY <1>1 DEF vars, parseVars, terminalVars, inputVars
  <2>2. Types' /\ Untouched' /\ Explained'
    BY <2>1
    DEF Inv, Types, TypeOK, Untouched, Explained, Parsing, Met
  <2>3. AcceptedIsDocumented' /\ RefusedForAReason'
    BY <2>1
    DEF Inv, AcceptedIsDocumented, Accepted, Letters, RefusedForAReason,
        Refused, IsDocumented
  <2>4. Runnable' /\ EchoKept' /\ EchoAsFound'
    BY <2>1
    DEF Inv, Runnable, Prompted, NeedsPassphrase, EchoKept, EchoAsFound
  <2> QED BY <2>2, <2>3, <2>4 DEF Inv
<1>2. CASE Next
  BY <1>1, <1>2, SubcommandStep, GetOptionStep, OptionsStep, PromptStep,
     FgetsStep, ResetStep, OtherSteps
  DEF Next, Over
<1> QED BY <1>1, <1>2

\* The invariant holds in every state.
LEMMA InvAlways == Spec => []Inv
BY InvInit, InvNext, PTL DEF Spec

-----------------------------------------------------------------------------
(* What was read and what is left *)

\* Induction over the naturals, for a set of them.
LEMMA NatIsAll ==
    ASSUME NEW S \in SUBSET Nat, 0 \in S, \A n \in S : n + 1 \in S
    PROVE  \A n \in Nat : n \in S
<1> SUFFICES ASSUME Nat \ S # {} PROVE FALSE
  OBVIOUS
<1>1. PICK n \in Nat \ S : \A m \in Nat \ S : << m, n >> \notin OpToRel(<, Nat)
  BY NatLessThanWellFounded, WFMin
<1>2. \A m \in Nat \ S : ~(m < n)
  BY <1>1 DEF OpToRel
<1>3. n \in Nat /\ n \notin S /\ n # 0
  BY <1>1
<1>4. n - 1 \in Nat /\ n - 1 < n /\ n = (n - 1) + 1
  BY <1>3
<1>5. n - 1 \in S
  BY <1>2, <1>4
<1>6. (n - 1) + 1 \in S
  BY <1>5
<1> QED BY <1>3, <1>4, <1>6

\* The sequences that FlattenSeq goes through.
IsFlattening(g, ss, n) ==
    /\ g[0] = << >>
    /\ \A k \in 1 .. n : g[k] = g[k - 1] \o ss[k]

LEMMA FlatteningExists ==
    ASSUME NEW A, NEW ss \in Seq(Seq(A))
    PROVE  \E g \in [0 .. Len(ss) -> Seq(A)] : IsFlattening(g, ss, Len(ss))
<1> DEFINE S == { n \in Nat : n <= Len(ss) =>
                     \E g \in [0 .. n -> Seq(A)] : IsFlattening(g, ss, n) }
<1>1. 0 \in S
  <2> DEFINE g == [k \in 0 .. 0 |-> << >>]
  <2>1. g \in [0 .. 0 -> Seq(A)] /\ IsFlattening(g, ss, 0)
    BY DEF IsFlattening
  <2> QED BY <2>1
<1>2. ASSUME NEW n \in S PROVE n + 1 \in S
  <2> SUFFICES ASSUME n + 1 <= Len(ss)
               PROVE  \E g \in [0 .. n + 1 -> Seq(A)] :
                         IsFlattening(g, ss, n + 1)
    OBVIOUS
  <2>1. n \in Nat /\ Len(ss) \in Nat /\ n <= Len(ss)
    OBVIOUS
  <2>2. PICK g \in [0 .. n -> Seq(A)] : IsFlattening(g, ss, n)
    BY <2>1
  <2>3. ss[n + 1] \in Seq(A) /\ g[n] \in Seq(A)
    BY <2>1
  <2> DEFINE h == [k \in 0 .. n + 1 |->
                      IF k = n + 1 THEN g[n] \o ss[n + 1] ELSE g[k]]
  <2>4. h \in [0 .. n + 1 -> Seq(A)]
    <3>1. g[n] \o ss[n + 1] \in Seq(A)
      BY <2>3
    <3>2. \A k \in 0 .. n + 1 : k = n + 1 \/ k \in 0 .. n
      BY <2>1
    <3> QED BY <3>1, <3>2
  <2>5. IsFlattening(h, ss, n + 1)
    <3>1. h[0] = << >>
      BY <2>1, <2>2 DEF IsFlattening
    <3>2. ASSUME NEW k \in 1 .. n + 1 PROVE h[k] = h[k - 1] \o ss[k]
      <4>1. k \in Nat /\ k - 1 \in 0 .. n /\ k - 1 # n + 1 /\ k # 0
        BY <2>1
      <4>2. h[k - 1] = g[k - 1]
        BY <2>1, <4>1
      <4>3. CASE k = n + 1
        <5>1. h[k] = g[n] \o ss[n + 1] /\ k - 1 = n
          BY <2>1, <4>3
        <5> QED BY <4>2, <4>3, <5>1
      <4>4. CASE k # n + 1
        <5>1. k \in 1 .. n /\ h[k] = g[k]
          BY <2>1, <4>1, <4>4
        <5>2. g[k] = g[k - 1] \o ss[k]
          BY <2>2, <5>1 DEF IsFlattening
        <5> QED BY <4>2, <5>1, <5>2
      <4> QED BY <4>3, <4>4
    <3> HIDE DEF h
    <3> QED BY <3>1, <3>2 DEF IsFlattening
  <2> QED BY <2>4, <2>5
<1> HIDE DEF S
<1>3. \A n \in Nat : n \in S
  <2>1. S \in SUBSET Nat
    BY DEF S
  <2> QED BY <1>1, <1>2, <2>1, NatIsAll
<1>4. Len(ss) \in Nat /\ Len(ss) <= Len(ss)
  OBVIOUS
<1>5. Len(ss) \in S
  BY <1>3, <1>4
<1> QED BY <1>4, <1>5 DEF S

\* Whatever goes through them ends with what FlattenSeq gives.
LEMMA FlatteningEnds ==
    ASSUME NEW A, NEW ss \in Seq(Seq(A)),
           NEW g \in [0 .. Len(ss) -> Seq(A)], IsFlattening(g, ss, Len(ss))
    PROVE  FlattenSeq(ss) = g[Len(ss)]
<1>0. Len(ss) \in Nat
  OBVIOUS
<1>1. CASE Len(ss) = 0
  <2>1. FlattenSeq(ss) = ss
    BY <1>1 DEF FlattenSeq
  <2>2. ss = << >>
    BY <1>1
  <2> QED BY <1>1, <2>1, <2>2 DEF IsFlattening
<1>2. CASE Len(ss) # 0
  <2> DEFINE IsFlatten(h) ==
               h = [i \in 1 .. Len(ss) |-> IF i = 1 THEN ss[i]
                                                    ELSE h[i - 1] \o ss[i]]
             f == [i \in 1 .. Len(ss) |-> g[i]]
  <2>1. IsFlatten(f)
    <3> SUFFICES ASSUME NEW i \in 1 .. Len(ss)
                 PROVE  f[i] = IF i = 1 THEN ss[i] ELSE f[i - 1] \o ss[i]
      OBVIOUS
    <3>1. g[i] = g[i - 1] \o ss[i]
      BY DEF IsFlattening
    <3>2. CASE i = 1
      <4>1. g[0] = << >> /\ ss[1] \in Seq(A)
        BY <1>0, <1>2 DEF IsFlattening
      <4>2. << >> \o ss[1] = ss[1]
        BY <4>1
      <4>3. g[1] = ss[1]
        <5>1. 1 - 1 = 0
          OBVIOUS
        <5> QED BY <3>1, <3>2, <4>1, <4>2, <5>1
      <4>4. f[i] = g[1]
        BY <3>2
      <4> QED BY <3>2, <4>3, <4>4
    <3>3. CASE i # 1
      <4>1. i - 1 \in 1 .. Len(ss)
        BY <1>0, <3>3
      <4>2. f[i] = g[i] /\ f[i - 1] = g[i - 1]
        BY <4>1
      <4> QED BY <3>1, <3>3, <4>2
    <3> QED BY <3>2, <3>3
  <2>2. PICK h : FlattenSeq(ss) = h[Len(ss)] /\ IsFlatten(h)
    BY <1>2, <2>1 DEF FlattenSeq
  <2> DEFINE S == { n \in Nat : n + 1 <= Len(ss) => h[n + 1] = g[n + 1] }
  <2>3. 0 \in S
    <3>1. 1 \in 1 .. Len(ss) /\ 0 + 1 = 1
      BY <1>0, <1>2
    <3>2. f[1] = g[1] /\ f[1] = ss[1]
      BY <2>1, <3>1
    <3>3. h[1] = ss[1]
      BY <2>2, <3>1
    <3> QED BY <3>1, <3>2, <3>3
  <2>4. ASSUME NEW n \in S PROVE n + 1 \in S
    <3> SUFFICES ASSUME n + 2 <= Len(ss) PROVE h[n + 2] = g[n + 2]
      OBVIOUS
    <3>1. n \in Nat /\ n + 1 \in 1 .. Len(ss) /\ n + 2 \in 1 .. Len(ss)
          /\ n + 2 # 1 /\ n + 2 - 1 = n + 1
      BY <1>0
    <3>2. h[n + 1] = g[n + 1]
      BY <3>1
    <3> DEFINE k == n + 2
    <3>3. k \in 1 .. Len(ss) /\ k # 1 /\ k - 1 = n + 1
      BY <3>1
    <3> HIDE DEF k
    <3>4. h[k] = h[k - 1] \o ss[k]
      <4>1. h[k] = IF k = 1 THEN ss[k] ELSE h[k - 1] \o ss[k]
        BY <2>2, <3>3
      <4> QED BY <3>3, <4>1
    <3>5. g[k] = g[k - 1] \o ss[k]
      BY <3>3 DEF IsFlattening
    <3>6. h[k] = g[k]
      BY <3>2, <3>3, <3>4, <3>5
    <3> QED BY <3>6 DEF k
  <2>5. Len(ss) - 1 \in S
    <3> HIDE DEF S
    <3>1. S \in SUBSET Nat
      BY DEF S
    <3>2. Len(ss) - 1 \in Nat
      BY <1>0, <1>2
    <3> QED BY <2>3, <2>4, <3>1, <3>2, NatIsAll
  <2>6. h[Len(ss)] = g[Len(ss)]
    BY <1>0, <2>5
  <2> QED BY <2>2, <2>6
<1> QED BY <1>1, <1>2

\* The flattening of a sequence with one more at its end.
LEMMA FlattenAppend ==
    ASSUME NEW A, NEW ss \in Seq(Seq(A)), NEW s \in Seq(A)
    PROVE  /\ FlattenSeq(ss) \in Seq(A)
           /\ FlattenSeq(Append(ss, s)) = FlattenSeq(ss) \o s
<1> DEFINE more == Append(ss, s)
           n == Len(ss)
<1>1. n \in Nat /\ Len(more) = n + 1 /\ more[n + 1] = s
      /\ \A k \in 1 .. n : more[k] = ss[k]
  OBVIOUS
<1>2. more \in Seq(Seq(A))
  OBVIOUS
<1>3. PICK g \in [0 .. n + 1 -> Seq(A)] : IsFlattening(g, more, n + 1)
  BY <1>1, <1>2, FlatteningExists
<1>4. FlattenSeq(more) = g[n + 1]
  BY <1>1, <1>2, <1>3, FlatteningEnds
<1> DEFINE h == [k \in 0 .. n |-> g[k]]
<1>5. h \in [0 .. n -> Seq(A)]
  BY <1>1, <1>3
<1>6. IsFlattening(h, ss, n)
  <2>1. h[0] = << >>
    BY <1>1, <1>3 DEF IsFlattening
  <2>2. ASSUME NEW k \in 1 .. n PROVE h[k] = h[k - 1] \o ss[k]
    <3>1. k \in 1 .. n + 1 /\ k - 1 \in 0 .. n /\ k \in 0 .. n
      BY <1>1
    <3>2. g[k] = g[k - 1] \o more[k]
      BY <1>3, <3>1 DEF IsFlattening
    <3>3. h[k] = g[k] /\ h[k - 1] = g[k - 1] /\ more[k] = ss[k]
      BY <1>1, <3>1
    <3> QED BY <3>2, <3>3
  <2> HIDE DEF h
  <2> QED BY <2>1, <2>2 DEF IsFlattening
<1>7. FlattenSeq(ss) = h[n] /\ h[n] = g[n] /\ g[n] \in Seq(A)
  <2>1. h[n] = g[n] /\ g[n] \in Seq(A)
    <3>1. n \in 0 .. n /\ n \in 0 .. n + 1
      BY <1>1
    <3> QED BY <1>3, <3>1
  <2> HIDE DEF h
  <2> QED BY <1>5, <1>6, <2>1, FlatteningEnds
<1>8. g[n + 1] = g[n] \o s
  <2>1. n + 1 \in 1 .. n + 1 /\ (n + 1) - 1 = n
    BY <1>1
  <2> HIDE DEF more
  <2>2. g[n + 1] = g[(n + 1) - 1] \o more[n + 1]
    BY <1>3, <2>1 DEF IsFlattening
  <2> QED BY <1>1, <2>1, <2>2
<1> QED BY <1>4, <1>7, <1>8

\* Nothing is flattened to nothing.
LEMMA FlattenNone == FlattenSeq(<< >>) = << >>
<1>1. Len(<< >>) = 0
  OBVIOUS
<1> QED BY <1>1 DEF FlattenSeq

\* The newlines are taken out of a sequence one byte after the other.
LEMMA WithoutNewlinesAppend ==
    ASSUME NEW s \in Seq(Byte), NEW b \in Byte
    PROVE  /\ WithoutNewlines(s) \in Seq(Byte)
           /\ WithoutNewlines(Append(s, b)) =
                 WithoutNewlines(s) \o IF b = NL THEN << >> ELSE << b >>
<1> DEFINE e(x) == IF x = NL THEN << >> ELSE << x >>
           parts == [k \in DOMAIN s |-> e(s[k])]
           t == Append(s, b)
           more == [k \in DOMAIN t |-> e(t[k])]
<1>1. \A x \in Byte : e(x) \in Seq(Byte)
  OBVIOUS
<1>2. /\ Len(s) \in Nat /\ DOMAIN s = 1 .. Len(s)
      /\ DOMAIN t = 1 .. Len(s) + 1
      /\ \A k \in 1 .. Len(s) : s[k] \in Byte /\ t[k] = s[k]
      /\ t[Len(s) + 1] = b
  OBVIOUS
<1> HIDE DEF e, t
<1>3. parts \in Seq(Seq(Byte)) /\ Len(parts) = Len(s)
  BY <1>1, <1>2
<1>4. more = Append(parts, e(b))
  <2>1. /\ Append(parts, e(b)) \in Seq(Seq(Byte))
        /\ Len(Append(parts, e(b))) = Len(s) + 1
    BY <1>1, <1>2, <1>3
  <2>2. more \in Seq(Seq(Byte)) /\ Len(more) = Len(s) + 1
    <3>1. \A k \in 1 .. Len(s) + 1 : t[k] \in Byte
      BY <1>2
    <3> QED BY <1>1, <1>2, <3>1
  <2>3. ASSUME NEW k \in 1 .. Len(s) + 1
        PROVE  more[k] = Append(parts, e(b))[k]
    <3>1. CASE k = Len(s) + 1
      BY <1>2, <1>3, <3>1
    <3>2. CASE k # Len(s) + 1
      <4>1. k \in 1 .. Len(s)
        BY <1>2, <3>2
      <4> QED BY <1>2, <1>3, <4>1
    <3> QED BY <3>1, <3>2
  <2> DEFINE other == Append(parts, e(b))
  <2>4. /\ other \in Seq(Seq(Byte)) /\ Len(other) = Len(s) + 1
        /\ \A k \in 1 .. Len(s) + 1 : more[k] = other[k]
    BY <2>1, <2>3
  <2> HIDE DEF more, parts, other
  <2>5. more = other
    BY <1>2, <2>2, <2>4
  <2> QED BY <2>5 DEF other
<1>5. WithoutNewlines(s) = FlattenSeq(parts)
      /\ WithoutNewlines(t) = FlattenSeq(more)
  BY DEF WithoutNewlines, e
<1> HIDE DEF more, parts
<1>6. FlattenSeq(parts) \in Seq(Byte)
      /\ FlattenSeq(Append(parts, e(b))) = FlattenSeq(parts) \o e(b)
  BY <1>1, <1>3, FlattenAppend
<1> QED BY <1>4, <1>5, <1>6 DEF e, t


LEMMA WithoutNewlinesOfNone == WithoutNewlines(<< >>) = << >>
<1>1. [k \in DOMAIN << >> |-> IF << >>[k] = NL THEN << >> ELSE << << >>[k] >>]
         = << >>
  OBVIOUS
<1> QED BY <1>1, FlattenNone DEF WithoutNewlines

\* A sequence is its first elements and the last.
LEMMA FrontAndLast ==
    ASSUME NEW A, NEW t \in Seq(A), NEW n \in Nat, Len(t) = n + 1
    PROVE  /\ SubSeq(t, 1, n) \in Seq(A) /\ Len(SubSeq(t, 1, n)) = n
           /\ \A k \in 1 .. n : SubSeq(t, 1, n)[k] = t[k]
           /\ t[n + 1] \in A
           /\ t = Append(SubSeq(t, 1, n), t[n + 1])
<1> DEFINE f == SubSeq(t, 1, n)
           u == Append(f, t[n + 1])
<1>1. /\ f \in Seq(A) /\ Len(f) = n /\ t[n + 1] \in A
      /\ \A k \in 1 .. n : f[k] = t[k]
  OBVIOUS
<1> HIDE DEF f
<1>2. /\ u \in Seq(A) /\ Len(u) = n + 1
      /\ \A k \in 1 .. n : u[k] = f[k]
      /\ u[n + 1] = t[n + 1]
  BY <1>1
<1> HIDE DEF u
<1>3. \A k \in 1 .. n + 1 : u[k] = t[k]
  BY <1>1, <1>2
<1>4. t = u
  BY <1>2, <1>3
<1> QED BY <1>1, <1>4 DEF f, u

\* A line without its newline has none.
LEMMA WithoutNewlinesOfLine ==
    ASSUME NEW s \in Seq(Byte), \A k \in DOMAIN s : s[k] # NL
    PROVE  WithoutNewlines(s) = s
<1> DEFINE Line(t) == \A k \in DOMAIN t : t[k] # NL
           S == { n \in Nat : \A t \in Seq(Byte) :
                     Len(t) = n /\ Line(t) => WithoutNewlines(t) = t }
<1>1. 0 \in S
  <2>1. \A t \in Seq(Byte) : Len(t) = 0 => t = << >>
    OBVIOUS
  <2> QED BY <2>1, WithoutNewlinesOfNone
<1>2. ASSUME NEW n \in S PROVE n + 1 \in S
  <2> SUFFICES ASSUME NEW t \in Seq(Byte), Len(t) = n + 1, Line(t)
               PROVE  WithoutNewlines(t) = t
    OBVIOUS
  <2>1. n \in Nat
    OBVIOUS
  <2> DEFINE f == SubSeq(t, 1, n)
  <2>2. /\ f \in Seq(Byte) /\ Len(f) = n
        /\ \A k \in 1 .. n : f[k] = t[k]
        /\ t[n + 1] \in Byte
        /\ t = Append(f, t[n + 1])
    BY <2>1, FrontAndLast
  <2>3. Line(f) /\ t[n + 1] # NL
    <3>1. DOMAIN f = 1 .. n /\ DOMAIN t = 1 .. n + 1
      BY <2>1, <2>2
    <3> HIDE DEF f
    <3>2. ASSUME NEW k \in DOMAIN f PROVE f[k] # NL
      BY <2>1, <2>2, <3>1
    <3>3. t[n + 1] # NL
      BY <2>1, <3>1
    <3> QED BY <3>2, <3>3
  <2>4. WithoutNewlines(f) = f
    BY <2>1, <2>2, <2>3
  <2>5. WithoutNewlines(Append(f, t[n + 1])) = f \o << t[n + 1] >>
    BY <2>2, <2>3, <2>4, WithoutNewlinesAppend
  <2>6. f \o << t[n + 1] >> = Append(f, t[n + 1])
    BY <2>2
  <2> QED BY <2>2, <2>5, <2>6
<1> HIDE DEF S
<1>3. \A n \in Nat : n \in S
  <2>1. S \in SUBSET Nat
    BY DEF S
  <2> QED BY <1>1, <1>2, <2>1, NatIsAll
<1>4. Len(s) \in S
  BY <1>3
<1> QED BY <1>4 DEF S

\* The bytes of two sequences are those of one and then those of the other.
LEMMA WithoutNewlinesOfTwo ==
    ASSUME NEW s \in Seq(Byte), NEW t \in Seq(Byte)
    PROVE  /\ WithoutNewlines(t) \in Seq(Byte)
           /\ WithoutNewlines(s \o t) =
                 WithoutNewlines(s) \o WithoutNewlines(t)
<1> DEFINE W(u) == WithoutNewlines(u)
           Two(u) == W(u) \in Seq(Byte) /\ W(s \o u) = W(s) \o W(u)
           S == { n \in Nat : \A u \in Seq(Byte) : Len(u) = n => Two(u) }
<1>0. W(s) \in Seq(Byte)
  BY WithoutNewlinesAppend, InvocationAssumption DEF InvocationAssumption
<1>1. 0 \in S
  <2>1. Two(<< >>)
    <3>1. s \o << >> = s /\ W(s) \o << >> = W(s) /\ << >> \in Seq(Byte)
      BY <1>0
    <3> QED BY <3>1, WithoutNewlinesOfNone
  <2>2. \A u \in Seq(Byte) : Len(u) = 0 => u = << >>
    OBVIOUS
  <2> HIDE DEF Two
  <2> QED BY <2>1, <2>2
<1>2. ASSUME NEW n \in S PROVE n + 1 \in S
  <2> SUFFICES ASSUME NEW u \in Seq(Byte), Len(u) = n + 1
               PROVE  Two(u)
    OBVIOUS
  <2>1. n \in Nat
    OBVIOUS
  <2> DEFINE f == SubSeq(u, 1, n)
             b == u[n + 1]
             e == IF b = NL THEN << >> ELSE << b >>
  <2>2. f \in Seq(Byte) /\ Len(f) = n /\ b \in Byte /\ u = Append(f, b)
    BY <2>1, FrontAndLast
  <2>3. Two(f)
    <3> HIDE DEF Two, f
    <3> QED BY <2>1, <2>2
  <2> HIDE DEF f, b
  <2>4. e \in Seq(Byte)
    BY <2>2
  <2>5. W(u) \in Seq(Byte) /\ W(u) = W(f) \o e
    <3>1. W(Append(f, b)) = W(f) \o e
      BY <2>2, WithoutNewlinesAppend
    <3> HIDE DEF e
    <3> QED BY <2>2, <2>3, <2>4, <3>1
  <2>6. s \o u = Append(s \o f, b) /\ s \o f \in Seq(Byte)
    BY <2>2
  <2>7. W(Append(s \o f, b)) = W(s \o f) \o e
    BY <2>2, <2>6, WithoutNewlinesAppend
  <2> HIDE DEF W, e
  <2>8. W(s \o u) = (W(s) \o W(f)) \o e
    BY <2>3, <2>6, <2>7
  <2>9. (W(s) \o W(f)) \o e = W(s) \o (W(f) \o e)
    BY <1>0, <2>3, <2>4
  <2> QED BY <2>5, <2>8, <2>9
<1> HIDE DEF S, Two
<1>3. \A n \in Nat : n \in S
  <2>1. S \in SUBSET Nat
    BY DEF S
  <2> QED BY <1>1, <1>2, <2>1, NatIsAll
<1>4. Len(t) \in S
  BY <1>3
<1> QED BY <1>4 DEF S, Two

\* A sequence is its first elements and the others.
LEMMA TwoParts ==
    ASSUME NEW A, NEW s \in Seq(A), NEW n \in 0 .. Len(s)
    PROVE  /\ SubSeq(s, 1, n) \in Seq(A) /\ Len(SubSeq(s, 1, n)) = n
           /\ SubSeq(s, n + 1, Len(s)) \in Seq(A)
           /\ s = SubSeq(s, 1, n) \o SubSeq(s, n + 1, Len(s))
<1> DEFINE t == SubSeq(s, 1, n)
           rest == SubSeq(s, n + 1, Len(s))
           u == t \o rest
<1>1. n \in Nat /\ Len(s) \in Nat /\ n <= Len(s)
  OBVIOUS
<1>2. /\ t \in Seq(A) /\ Len(t) = n
      /\ \A k \in 1 .. n : t[k] = s[k]
  BY <1>1
<1>3. /\ rest \in Seq(A) /\ Len(rest) = Len(s) - n
      /\ \A k \in 1 .. Len(s) - n : rest[k] = s[k + n]
  BY <1>1
<1> HIDE DEF t, rest
<1>4. /\ u \in Seq(A) /\ Len(u) = Len(s)
      /\ \A k \in 1 .. Len(s) :
            u[k] = IF k <= n THEN t[k] ELSE rest[k - n]
  BY <1>1, <1>2, <1>3
<1> HIDE DEF u
<1>5. ASSUME NEW k \in 1 .. Len(s) PROVE u[k] = s[k]
  <2>1. CASE k <= n
    BY <1>1, <1>2, <1>4, <2>1
  <2>2. CASE ~(k <= n)
    <3>1. k - n \in 1 .. Len(s) - n /\ (k - n) + n = k
      BY <1>1, <2>2
    <3>2. rest[k - n] = s[(k - n) + n]
      BY <1>3, <3>1
    <3> QED BY <1>4, <2>2, <3>1, <3>2
  <2> QED BY <2>1, <2>2
<1>6. s = u
  BY <1>4, <1>5
<1> QED BY <1>2, <1>3, <1>6 DEF t, rest, u

\* What fgets takes is a secret and perhaps a newline, and the rest stays.
LEMMA SecretIsTaken ==
    ASSUME NEW s \in Seq(Byte), NEW size \in Nat, size > 0
    PROVE  LET n == fgets(size, s) IN
           WithoutNewlines(s) =
              WithoutNewline(SubSeq(s, 1, n))
              \o WithoutNewlines(SubSeq(s, n + 1, Len(s)))
<1> DEFINE n == fgets(size, s)
           t == SubSeq(s, 1, n)
           secret == WithoutNewline(t)
           rest == SubSeq(s, n + 1, Len(s))
<1>1. n \in 0 .. Len(s) /\ n \in Nat
  BY FgetsTakes
<1>2. /\ t \in Seq(Byte) /\ Len(t) = n /\ rest \in Seq(Byte)
      /\ s = t \o rest
  <2> HIDE DEF n
  <2> QED BY <1>1, TwoParts
<1>3. /\ secret \in Seq(Byte)
      /\ \A k \in DOMAIN secret : secret[k] # NL
  BY SecretIsALine
<1> HIDE DEF n, t, rest
<1>4. WithoutNewlines(secret) = secret
  <2> HIDE DEF secret
  <2> QED BY <1>3, WithoutNewlinesOfLine
<1>5. WithoutNewlines(t) = secret
  <2>1. CASE t # << >> /\ Last(t) = NL
    <3>1. PICK m \in Nat : Len(t) = m + 1
      <4>1. Len(t) # 0
        BY <1>2, <2>1
      <4>2. Len(t) - 1 \in Nat /\ Len(t) = (Len(t) - 1) + 1
        BY <1>1, <1>2, <4>1
      <4> QED BY <4>2
    <3>2. secret = SubSeq(t, 1, m) /\ t[m + 1] = NL
      <4>1. Len(t) - 1 = m
        BY <3>1
      <4> QED BY <2>1, <3>1, <4>1 DEF WithoutNewline, Front, Last
    <3>3. t = Append(secret, NL) /\ NL \in Byte
      BY <1>2, <3>1, <3>2, FrontAndLast
    <3> HIDE DEF secret
    <3>4. WithoutNewlines(t) = WithoutNewlines(secret) \o << >>
      BY <1>3, <3>3, WithoutNewlinesAppend
    <3> QED BY <1>3, <1>4, <3>4
  <2>2. CASE ~(t # << >> /\ Last(t) = NL)
    BY <1>4, <2>2 DEF WithoutNewline
  <2> QED BY <2>1, <2>2
<1>6. WithoutNewlines(t \o rest) = WithoutNewlines(t) \o WithoutNewlines(rest)
  BY <1>2, WithoutNewlinesOfTwo
<1> HIDE DEF secret
<1>7. WithoutNewlines(s) = secret \o WithoutNewlines(rest)
  BY <1>2, <1>5, <1>6
<1> QED BY <1>7 DEF n, t, rest, secret

\* Whatever happens, what was read and what is left make the input.
LEMMA InputNext ==
    ASSUME Inv, InputAccountedFor, [Next]_vars PROVE InputAccountedFor'
<1>0. /\ input \in Seq(Byte) /\ stdin \in Seq(Byte)
      /\ secrets \in Seq(Seq(Byte))
  BY DEF Inv, Types
<1>1. CASE Prompt
  <2>1. CASE secrets = << >>
    <3>1. secrets' = << >> /\ input' \in Seq(Byte) /\ stdin' = input'
      BY <1>1, <2>1, InvocationAssumption DEF Prompt, InvocationAssumption
    <3>2. WithoutNewlines(input') \in Seq(Byte)
      BY <3>1, WithoutNewlinesOfTwo
    <3>3. WithoutNewlines(input') = << >> \o WithoutNewlines(input')
      BY <3>2
    <3> QED BY <3>1, <3>3, FlattenNone DEF InputAccountedFor
  <2>2. CASE secrets # << >>
    BY <1>1, <2>2 DEF Prompt, InputAccountedFor
  <2> QED BY <2>1, <2>2
<1>2. CASE Fgets
  <2> DEFINE n == fgets(maximum_size, stdin)
             secret == WithoutNewline(SubSeq(stdin, 1, n))
             rest == SubSeq(stdin, n + 1, Len(stdin))
  <2>1. CASE n = 0
    BY <1>2, <2>1 DEF Fgets, Exit, InputAccountedFor
  <2>2. CASE n # 0
    <3>1. /\ input' = input /\ stdin' = rest
          /\ secrets' = Append(secrets, secret)
      BY <1>2, <2>2 DEF Fgets
    <3>2. maximum_size \in Nat /\ maximum_size > 0
      BY InvocationAssumption DEF InvocationAssumption, maximum_size
    <3>3. secret \in Seq(Byte)
      BY <1>0, <3>2, SecretIsALine
    <3>4. n \in 0 .. Len(stdin)
      BY <1>0, <3>2, FgetsTakes
    <3>5. WithoutNewlines(stdin) = secret \o WithoutNewlines(rest)
      BY <1>0, <3>2, SecretIsTaken
    <3> HIDE DEF n, secret
    <3>6. rest \in Seq(Byte)
      BY <1>0, <3>4
    <3>7. WithoutNewlines(rest) \in Seq(Byte)
      BY <3>6, WithoutNewlinesOfTwo
    <3> HIDE DEF rest
    <3>8. /\ FlattenSeq(secrets) \in Seq(Byte)
          /\ FlattenSeq(Append(secrets, secret)) =
                FlattenSeq(secrets) \o secret
      BY <1>0, <3>3, FlattenAppend
    <3>9. FlattenSeq(secrets) \o (secret \o WithoutNewlines(rest)) =
             (FlattenSeq(secrets) \o secret) \o WithoutNewlines(rest)
      BY <3>3, <3>7, <3>8
    <3> QED BY <3>1, <3>5, <3>8, <3>9 DEF InputAccountedFor
  <2> QED BY <2>1, <2>2
<1>3. CASE UNCHANGED inputVars
  BY <1>3 DEF inputVars, InputAccountedFor
<1>4. Next => Prompt \/ Fgets \/ UNCHANGED inputVars
  BY DEF Next, Subcommand, GetOption, Options, Reset, NeedPin, Finish,
         OutOfMemory, Kill, Over, vars
<1> QED BY <1>1, <1>2, <1>3, <1>4 DEF vars

-----------------------------------------------------------------------------
(* The theorems *)

\* Every variable has its type, and no secret holds a newline.
THEOREM InvocationTyped == Spec => []TypeOK
<1>1. Inv => TypeOK
  BY DEF Inv, Types
<1> QED BY <1>1, InvAlways, PTL

\* A command line that is accepted has what the manual requires for its
\* subcommand, and nothing that it prohibits but for a PIN.
THEOREM AcceptedInManual == Spec => []AcceptedIsDocumented
<1>1. Inv => AcceptedIsDocumented
  BY DEF Inv
<1> QED BY <1>1, InvAlways, PTL

\* A command line that the manual allows is never called bad, the long name
\* of -o aside, which the manual has wrong.
THEOREM RefusalHasAReason == Spec => []RefusedForAReason
<1>1. Inv => RefusedForAReason
  BY DEF Inv
<1> QED BY <1>1, InvAlways, PTL

\* enrol and generate run with a file, a passphrase, and a device and a
\* hardness for enrol alone, whatever came from the command line, from the
\* prompt or from the size of the memory.
THEOREM ReadyToRun == Spec => []ParsedIsRunnable
<1>1. Inv => ParsedIsRunnable
  BY DEF Inv, Runnable, Prompted, ParsedIsRunnable
<1> QED BY <1>1, InvAlways, PTL

\* A prompt gives the terminal back as the process found it, however many
\* prompts there are, unless the process ends inside of one.
THEOREM EchoComesBack == Spec => []EchoAsFound
<1>1. Inv => EchoAsFound
  BY DEF Inv
<1> QED BY <1>1, InvAlways, PTL

\* No byte of the input is lost between two prompts or used by both: the
\* secrets, one after the other, and what is left are the input, but for the
\* newlines, whatever the lines are and however long.
THEOREM NoByteIsLost == Spec => []InputAccountedFor
<1>1. Init => InputAccountedFor
  <2>1. /\ WithoutNewlines(<< >>) = << >> /\ FlattenSeq(<< >>) = << >>
        /\ << >> = << >> \o << >>
    BY WithoutNewlinesOfNone, FlattenNone
  <2> QED BY <2>1 DEF Init, InputAccountedFor
<1> QED BY <1>1, InvAlways, InputNext, PTL DEF Spec

=============================================================================
