----------------------------- MODULE ExitCodes -----------------------------
(***************************************************************************)
(* The exit statuses of the program (include/exit.h).  A status is one of  *)
(* three category bits or-ed with a number inside the category: errors of  *)
(* the user, of the run time, and of the programmer.                       *)
(***************************************************************************)
EXTENDS Naturals

EXIT_H_USER_ERROR_BITS       == 32     \* 0b001xxxxx
EXIT_H_RUNTIME_ERROR_BITS    == 64     \* 0b010xxxxx
EXIT_H_PROGRAMMER_ERROR_BITS == 96     \* 0b011xxxxx

EXIT_SUCCESS == 0

EXIT_BAD_INVOCATION         == 0 + EXIT_H_USER_ERROR_BITS
EXIT_BAD_PASSPHRASE         == 1 + EXIT_H_USER_ERROR_BITS
EXIT_NO_DEVICES             == 2 + EXIT_H_USER_ERROR_BITS
EXIT_NO_VALID_AUTHENTICATOR == 3 + EXIT_H_USER_ERROR_BITS
EXIT_DESERIALIZATION_ERROR  == 4 + EXIT_H_USER_ERROR_BITS
EXIT_BAD_PIN                == 5 + EXIT_H_USER_ERROR_BITS

EXIT_OUT_OF_MEMORY             == 0 + EXIT_H_RUNTIME_ERROR_BITS
EXIT_AUTHENTICATOR_ERROR       == 1 + EXIT_H_RUNTIME_ERROR_BITS
EXIT_CRYPTOGRAPHY_ERROR        == 2 + EXIT_H_RUNTIME_ERROR_BITS
EXIT_OVER_PRIVILEGED           == 3 + EXIT_H_RUNTIME_ERROR_BITS
EXIT_UNABLE_TO_GET_USER_SECRET == 4 + EXIT_H_RUNTIME_ERROR_BITS

EXIT_PROGRAMMER_ERROR == 0 + EXIT_H_PROGRAMMER_ERROR_BITS

ExitCodes ==
    { EXIT_SUCCESS,
      EXIT_BAD_INVOCATION, EXIT_BAD_PASSPHRASE, EXIT_NO_DEVICES,
      EXIT_NO_VALID_AUTHENTICATOR, EXIT_DESERIALIZATION_ERROR, EXIT_BAD_PIN,
      EXIT_OUT_OF_MEMORY, EXIT_AUTHENTICATOR_ERROR, EXIT_CRYPTOGRAPHY_ERROR,
      EXIT_OVER_PRIVILEGED, EXIT_UNABLE_TO_GET_USER_SECRET,
      EXIT_PROGRAMMER_ERROR }

=============================================================================
