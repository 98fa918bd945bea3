---------------------------- MODULE MCInvocation ----------------------------
(***************************************************************************)
(* A small instance of Invocation for TLC: one of every option, and        *)
(* secrets of a few bytes whose limits are as small.                       *)
(***************************************************************************)
EXTENDS Invocation

CONSTANTS x, a, b    \* a path or a text, and two bytes

Opt(name, arg) == [name |-> name, arg |-> arg]

\* Every option, some by their long name, a passphrase file that is there and
\* one that is not, and a name that is no option.
MCOption ==
    { Opt("d", x), Opt("file", x), Opt("p", << a >>),
      Opt("passphrase-file", << a, b, a, b, a >>), Opt("r", NULL),
      Opt("n", << b >>), Opt("o", NULL), Opt("obfuscate-device-info", NULL),
      Opt("k", "low"), Opt("k", "Lunatic"), Opt("kdf-hardness", "other"),
      Opt("m", x),
      Opt("help", NULL), Opt("z", NULL) }

MCFirstLetter ==
    [ low |-> "l", medium |-> "m", high |-> "h", Lunatic |-> "l",
      other |-> "o" ]

\* Lines of every length in every arrangement, and so lines that are empty,
\* too long, or end without a newline.  The letters take turns, so that a
\* byte that is lost or read twice shows.
Letter(k) == IF k % 2 = 1 THEN a ELSE b

Typed ==
    { [k \in 1 .. n |-> IF k \in newlines THEN NL ELSE Letter(k)] :
      n \in 0 .. 6, newlines \in SUBSET (1 .. 6) }

=============================================================================
