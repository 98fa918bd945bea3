----------------------------- MODULE MCBootHook -----------------------------
(***************************************************************************)
(* Small instances of BootHook for TLC: two keyfiles that open and a       *)
(* corrupt one, and an entry of the directory that is not a regular file.  *)
(***************************************************************************)
EXTENDS BootHook

CONSTANTS
    k1, k2,          \* keyfiles that open
    broken,          \* one that does not decode
    dot,             \* a directory
    s1, s2,          \* passphrases
    padded, trimmed  \* a passphrase with a blank at its end, and without

MCEntries == << k1, dot, broken, k2 >>

MCPassphraseOf ==
    [k \in Keyfile |-> CASE k = k1 -> s1 [] k = k2 -> s2 [] OTHER -> NULL]

\* As above, and the second keyfile has a passphrase that ends in a blank.
PaddedPassphraseOf ==
    [k \in Keyfile |-> CASE k = k1 -> s1 [] k = k2 -> padded [] OTHER -> NULL]

MCStripped == [x \in Line |-> IF x = padded THEN trimmed ELSE x]

\* Three ways to be asked, and each of the other parameters in one of them.
MCKernelParameters ==
    { [ encrypted_keyfile_passphrase    |-> NULL,
        same_passphrase_every_keyfile   |-> FALSE,
        do_not_prompt_for_authenticator |-> TRUE,
        attempts                        |-> 2 ],
      [ encrypted_keyfile_passphrase    |-> NULL,
        same_passphrase_every_keyfile   |-> TRUE,
        do_not_prompt_for_authenticator |-> FALSE,
        attempts                        |-> NULL ],
      [ encrypted_keyfile_passphrase    |-> NULL,
        same_passphrase_every_keyfile   |-> TRUE,
        do_not_prompt_for_authenticator |-> FALSE,
        attempts                        |-> 1 ],
      [ encrypted_keyfile_passphrase    |-> s2,
        same_passphrase_every_keyfile   |-> TRUE,
        do_not_prompt_for_authenticator |-> FALSE,
        attempts                        |-> 0 ],
      [ encrypted_keyfile_passphrase    |-> Empty,
        same_passphrase_every_keyfile   |-> FALSE,
        do_not_prompt_for_authenticator |-> FALSE,
        attempts                        |-> 2 ] }

=============================================================================
