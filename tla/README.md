# A verification of khefin in TLA+

khefin derives a secret (a disk encryption key, say) from two factors: a
passphrase and a FIDO2 authenticator with the `hmac-secret` extension.
`khefin enrol` makes a credential on an authenticator and writes a *keyfile*,
in which the credential and a random salt are sealed under the passphrase.
`khefin generate` reads the keyfile, opens it with the passphrase, finds the
authenticator and prints the HMAC the authenticator computes for credential and
salt. `khefin enumerate` lists authenticators. Shell scripts around the program
put it into an initramfs, add a LUKS key and answer ssh.

These modules model khefin and its scripts. The core is the enrolment and the
generation of secrets: every process as a sequence of steps that interleave with
other processes, with signals, failed allocations, a damaged disk and devices
that are plugged and pulled; an abstract specification says what that amounts
to. Beside it stand a module each for the command line and its prompts, for
`enumerate`, for the heap, and for the scripts that run khefin at boot, for
LUKS, for cryptsetup and for ssh. TLC checks small instances, and TLAPS proves
for all of them every safety property that the runs check. Paths below are
relative to the root of the repository (`src/` is its C source).

- [Inventory](#inventory)
- [The modules and the code](#the-modules-and-the-code)
- [What is abstracted, and how](#what-is-abstracted-and-how)
- [The properties](#the-properties)
- [The runs](#the-runs)
- [Fairness](#fairness)
- [Where the code and its documentation differ](#where-the-code-and-its-documentation-differ)
- [What is proved](#what-is-proved)
- [What is not modelled](#what-is-not-modelled)
- [Plan](#plan)
- [Running it](#running-it)

## Inventory

khefin is a single-threaded C program with one process per invocation. It keeps
no daemon and no state but the keyfile. What is concurrent is the machine: two
invocations may name one keyfile, devices are shared with everything else that
runs, and they are a plug that the user pulls. The parts, the state they keep,
what they do, and what makes them correct:

| part | state | operations | correct when |
|---|---|---|---|
| keyfile format and sealed box: `src/serialization.c`, `src/serialization/v1.c`, `src/cryptography.c` | none: functions of bytes | encode and decode two CBOR arrays with a check of every field; derive a key; seal and open the secrets | what was written opens under its passphrase; nothing else opens; a damaged file ends in an error, not in another secret |
| keyfile on disk: `src/files.c` | the file, shared by all processes | `write_file`: open and truncate, write, close. `read_file`: open, take the size, read | whoever reads meanwhile gets a whole keyfile or an error; a failed enrolment leaves the old file |
| enrol: `src/enrol.c` | parameters, cleartext, open device | open the device, ask for the PIN, create the credential, seal, write | status 0 means that the keyfile is there and opens; nothing is overwritten before its replacement is ready |
| generate: `src/generate.c` | list of devices and position in it, keyfile, parameters, PIN | list the devices, load the keyfile, unlock it, loop over the devices: make, extension, PIN, request | prints only the secret of one enrolment; reaches the enrolled device if it is there; spends no PIN retry silently; always ends |
| authenticators: `src/authenticator.c`, with libfido2 | open handle; on the device the PIN and its retries | list, open, get info, create credential, get assertion | errors become the right statuses; a device that is gone is an error |
| processes and exit statuses: `src/main.c`, `include/exit.h` | where the process is, its status | dispatch, exit | every end has a status that says what happened |
| command line and prompts: `src/invocation.c` | the invocation; echo of the terminal; what is left of the input | parse options, read passphrase and PIN | accepts what the manual allows and nothing else; terminal restored; no typed byte lost or used twice |
| memory: `src/memory.c` and every `free_*` | the heap; core dump and paging limits | allocate or exit, zero and free | each object freed once and not used after; secrets zeroed where the code means to |
| enumerate: `src/enumerate.c` | list of devices and position in it | print one line per device | every device has its line, a true one; 34 means that there is none |
| help, version: `src/help.c` | none | print | - |
| mkinitcpio hook: `scripts/mkinitcpio/run.m4` | mount, keyfile and attempt it is at, passphrase and its file, key file | for each keyfile: ask for a passphrase, run `khefin generate`, ask again on status 33 | a secret for the encrypt hook or nothing; every keyfile tried, every attempt granted; no passphrase left in a file; ends |
| initramfs-tools: `scripts/initramfs-tools/keyscript.m4` | none | look for a device, run `khefin generate` | the secret on stdout or a failure |
| add-luks-key: `scripts/add-luks-key.m4` | temporary mount with the generated key | mount, generate, `cryptsetup luksAddKey`, clean up in a trap | no key is left behind, whenever signals come; nothing but a secret is added |
| ssh-askpass: `scripts/ssh-askpass.m4` | none | fingerprint of a key, run `khefin generate` with it as the mixin | one passphrase for each key, the same every time |
| completion, install hooks, build, manual | none | - | - |

**How they interact.** `main` calls the subcommand, which calls down:
`enrol_device` and `generate` call `authenticator.c` (which calls libfido2),
`serialization.c` and `cryptography.c` (libcbor, libsodium) and `files.c`. An
error anywhere below is an `errx` with the exit status: nothing unwinds.
Processes interact through the keyfile (no locks, no rename: `fopen(path, "w")`
truncates in place) and through the devices (a wrong PIN costs a retry that
every process sees; a device path may hold another device a moment later). The
scripts see the exit status and standard output only: 34 from `enumerate` means
that there is no device, 33 from `generate` that the passphrase was wrong.

**What is hard.** Reads and writes of one keyfile that interleave, since the
size is taken in one call and the bytes in another, and the truncation is a
step before the write; death between the two; errors that exit in the middle
of a loop over devices; per-device state (the PIN) that outlives its device;
sizes and parameters taken from a file that anybody can change; devices that
come and go; a boot hook that must neither give up early nor ask for ever; a
script whose trap cleans up and then lets it go on, and gets signals while it
does. `PROJECT.json` lists each at its line under "hazards", with the
properties that would catch it.

## The modules and the code

```
ExitCodes <- Keyfile <- Machine <- Authenticator <-+- Enrol    <-+
   ^                                               |             +- Khefin <- MCKhefin
   |                                               +- Generate <-+   |  ^
   |                                               |                 |  +- SecretProofs <- KeyfileProofs
   |                                               |                 +- INSTANCE SecretOracle
   |                                               +- Enumerate <-+- EnumerateProofs
   |                                                              +- MCEnumerate
   +- Heap <-+- HeapProofs
   |         +- MCHeap
   +- Invocation <-+- InvocationProofs       AddLuksKey <-+- AddLuksKeyProofs
   |               +- MCInvocation                        +- MCAddLuksKey
   +- BootHook <-+- BootHookProofs
   |             +- MCBootHook
   +- Callers <-+- CallersProofs
                +- MCCallers
```

`Khefin` composes what interacts through shared state: files, devices,
processes. The other modules each follow one process or script and know of the
rest only what that one sees: `Invocation` ends where `Machine!Start` begins
(`ParsedIsRunnable` is what `MachineAssumption` asks of a command line), and the
scripts know khefin by exit status and output, as `SecretOracle` and
`Enumerate` promise them.

| module | models | state |
|---|---|---|
| `ExitCodes` | `include/exit.h` | - |
| `Keyfile` | CBOR encoding and its checks, key derivation, sealed box, salt and mixin; what may happen to a keyfile outside the program | - |
| `Machine` | processes, signals, failed allocations; the files and `read_file`, `write_file` | `pc`, `exit`, `inv` (invocation), `held` (secrets of the command line still in memory), `cleartext`, `disk`, `damages` |
| `Authenticator` | devices at ports, PINs and retries, and the functions of `src/authenticator.c` that both subcommands use | `port`, `hotplugs`, `retries`, `device` (the `fido_dev_t` of a process), `params` (its `authenticator_parameters_t`) |
| `Enrol` | `enrol_device`, `create_credential`, the write of the keyfile | `credentials` (all that were ever made) |
| `Generate` | `generate`, `load_cleartext`, `get_secret_from_authenticator_params` | `devices_list`, `i`, `length`, `data` (the file as read), `out` (the secret printed), `log` (what was asked of which device) |
| `Khefin` | composition, specification, properties, the refinement of `SecretOracle` | - |
| `SecretOracle` | abstract: what khefin promises to whoever enrols and asks | `asked`, `ended`, `attached`, `enrolled`, `answer` |
| `Enumerate` | `print_devices_list` | `listed`, `i`, `lines`, and those of `Authenticator` |
| `Invocation` | `parse_arguments_and_get_passphrase`, `prompt_for_secret` | `result` (the `invocation_state_t`), `given` (options), `echo`, `stdin`, `secrets` (what was read from it), ... |
| `Heap` | what the options `-p`, `-r` and `-n`, `enrol` and `generate` do to memory | `argv` and `optind` (those options); `memory`: for each block whether it is live, freed or null and the secrets in it; the secrets that were freed or lost with their block; whether a freed block was used |
| `BootHook` | `run_hook`, `run_cleanuphook` | the variables of the script, its files and mount, the authenticator, `log` (the last attempt at each keyfile) |
| `AddLuksKey` | the script, its traps, signals | `pc`, `traps` (where each cleanup is that was begun, the last one first), `child` (the command bash waits for), `orphans` (those nobody waits for), `errexit`, `pending` and `dropped` signals, directory, mount, key file, `stuck`, `luks` (the key added) |
| `Callers` | `ssh-askpass` and the keyscript, run by several callers | per caller the step, mixin, output and status; the authenticator |
| `MCKhefin`, `MCEnumerate`, `MCInvocation`, `MCHeap`, `MCBootHook`, `MCAddLuksKey`, `MCCallers` | instances for TLC | - |
| `SecretProofs`, `KeyfileProofs`, `EnumerateProofs`, `InvocationProofs`, `HeapProofs`, `BootHookProofs`, `AddLuksKeyProofs`, `CallersProofs` | theorems | - |

In `Khefin` the state of all processes is kept in functions from `Proc`, and
`pc[p]` names the next call of process `p`. A step ends where another process,
the disk, a device or the user can act: between two steps of a process
everything else may happen. So `read_file` is two steps (open and size; read),
`write_file` is two (open, which truncates; close, which writes), and each turn
of the device loop is up to four (open the device; get its info and compare; ask
for the PIN; request). Everything a call does between two such points is part of
its step, the frees and the zeroing included.

| action | code |
|---|---|
| `EnrolGetDevice`, `EnrolGetDeviceInfo`, `EnrolReadPin`, `EnrolCreateCredential`, `EnrolBuildCleartext` | `enrol_device` up to the file, call by call, with `create_credential` |
| `EnrolOpenFile`, `EnrolCloseFile` | `write_cleartext`, `write_file` |
| `GenerateListDevices` | `main` and `list_devices` |
| `GenerateOpenFile`, `GenerateReadFile`, `GenerateLoadCleartext` | `read_file`, `load_cleartext` |
| `GenerateUnlock` | `derive_key` and `build_authenticator_parameters_from_...` |
| `GenerateGetDevice`, `GenerateGetDeviceInfo`, `GenerateReadPin`, `GenerateGetSecret` | one turn of the loop of `generate` |
| `GenerateFinish` | the end of the loop, and of `main` |
| `Start` | `parse_arguments_and_get_passphrase` came back |
| `OutOfMemory` | every `malloc_or_exit` and its like |
| `Kill`, `Damage`, `Plug`, `Unplug` | the environment |
| `EnumerateListDevices`, `EnumerateGetDevice`, `EnumerateGetDeviceInfo`, `EnumerateFinish` | `list_devices`, a turn of the loop of `print_devices_list`, its end |
| `Subcommand`, `GetOption`, `Options` | `argv[1]`; one turn of the `getopt_long` loop; everything after it up to the prompt |
| `Prompt`, `Fgets`, `Reset`, `NeedPin` | `prompt_for_secret` up to, at and after `fgets`; the device loop that calls for a PIN |
| `GetOption`, `EndOptions` of `Heap` | one turn of the `getopt_long` loop that meets `-p`, `-r` or `-n`, with `read_file` and `free_encoded_file`; the prompt for a passphrase that is not there |
| `EnrolGetDevice` ... `EnrolWrite`, `GenerateUnlock` ... `GenerateFinish` of `Heap` | the same functions as above, as the sequence of their allocations, uses, zeroings and frees |
| `Enumerate`, `PressAnyKey`, `Mount` of `BootHook` | `run_hook` up to its loop |
| `For`, `While`, `Read`, `WritePassphrase`, `Generate`, `Decide`, `Cleanup` of `BootHook` | the statements of the two loops; `run_cleanuphook` |
| `Begin`, `End` (with `Mount`, `Generate`, `LuksAddKey`), `Truncate` of `AddLuksKey` | a command of the script starts, and is over |
| `BeginCleanup`, `EndCleanup` (with `RmKeyfile`, `Umount`, `RmDirectory`), `Return` of `AddLuksKey` | the same for each command of `cleanup`, and its end |
| `SignalTrap`, `DropSignal`, `ExitTrap`, `HangUp` of `AddLuksKey` | bash runs `cleanup` for SIGINT and SIGTERM, or does not when it is in a trap, runs it at the end, and for SIGHUP |
| `Arguments`, `Enumerate`, `Fingerprint`, `Notify`, `Generate` of `Callers` | the commands of `ssh-askpass.m4` and `keyscript.m4` |

A function that exits on error is modelled by an operator that gives its
status, or the set of statuses it may have (`derive_key_status`,
`get_device_statuses`, ...). `Proceed(p, status, label)` goes on at `label` when
the status is `EXIT_SUCCESS` and is the `errx` otherwise. The names of
operators, fields and variables are those of the code where TLA+ allows it.

## What is abstracted, and how

- **Bytes** are a size and a symbolic value. The sizes are the real ones: they
  decide which checks pass, whether a file was read whole, and what is left
  when a shorter keyfile is written over a longer one.
- **Cryptography is symbolic.** A key is the record of what `crypto_pwhash` was
  called with (memory in the units it counts in); a box records its plain text,
  key, nonce and whether a byte was changed; it opens under the same key and
  nonce when it is intact. Who has no key can spoil a box but make none. The
  HMAC of a device is the pair of credential and salt; a credential names the
  device and the relying party it was made for, and no other device answers
  for it.
- **Random values** are named after the process that draws them: one process
  enrols once, so no two enrolments share a salt, a relying party id or a nonce.
- **CBOR** is trees of typed items. `cbor_load` decodes the item at the front
  if all of its bytes are there, and ignores what follows. Widths of integers
  are kept, for the decoder checks them; `cbor_build_uint8` and
  `cbor_build_uint16` take the low bits of their argument.
- **Damage** to a keyfile (`Damaged`) is truncation to nothing or by a byte, a
  broken structure (not CBOR, not an array, an empty array, a field too few, an
  integer of the wrong width) or a changed field, one representative for each
  check that the code makes or should make. A nonce *shorter* than 24 bytes is
  left out: libsodium would read past the end of the buffer, and what it finds
  there is undefined.
- **The empty array** as a keyfile makes `load_cleartext` read an element that
  is not there. The model lets the process die or go on to reject the file.
- **The keyfile is written at `fclose`.** It is smaller than the buffer of a
  stdio stream, so that nothing gets to the disk before. `read_file` may read
  between the truncation and that write.
- **The command line** is already parsed and the passphrase already typed when
  a process starts; an option that was not given is `NULL`. A PIN is asked
  where the code asks for it; a prompt gives a PIN, an empty line or the end of
  the input.
- **Standard output** takes what it is given, but for a full disk
  (`DiskMayFill`), which the code does not notice.
- **`held`, `data`, `cleartext`** follow what is freed and zeroed by the code at
  the end of each path. Where the secrets are meanwhile is in `Heap`.
- **The heap** (`Heap`) is blocks, one for each thing that the code has a
  pointer to, each live, freed or null, and each with the kinds of secrets in
  it. `malloc`, `sodium_memzero`, `free` and an access are each a function of
  the memory, and `calls ** others` is one call after another: a function of the
  code is the composition of its calls, so that an order that is wrong shows.
  Blocks without secrets that are always freed together are one block (a
  cleartext and its fields). A device that cannot be closed is not freed by the
  code; it holds no secret and is left out. So is what is not the program's own
  allocation: `argv`, from which `-p` and `-n` are copied, the buffers of stdio,
  and what libfido2, libcbor and libsodium allocate for themselves. The command
  line is a sequence of the options that bring a secret, and each of `-p`, `-r`
  and `-n` may come again.
- **What is typed** (`Invocation`) is a sequence of bytes, two letters that take
  turns and the newline; the limits of passphrase and PIN are 4 and 3 bytes in
  the runs, so that empty, short, exact and long lines occur. `getopt_long` is a
  choice of any option, long or short, with an argument if it needs one.
- **khefin in the scripts** is its exit status and output. `BootHook` derives
  the set of statuses from the keyfile, the passphrase file and the
  authenticator, in the order in which `generate` looks at them; `Callers` takes
  any status, and success only with an authenticator.
- **The shells.** A failed redirection of a special built-in ends a shell that is
  not interactive; `read -r` strips the blanks at the ends; under `set -e` and
  `pipefail` a failed command, or one in the middle of a pipe, ends the script;
  bash runs a trap when the command it waits for is over, and the trap of
  `add-luks-key` returns to the script. These rules are those of POSIX, ash and
  bash, and each is written down in a comment where it is used.
- **Signals** of `add-luks-key` come at any time, also while a command of
  `cleanup` runs. SIGINT goes to script and command, so that it may kill `rm` or
  `umount`, SIGTERM to the script only, SIGHUP ends the script through its EXIT
  trap while the command may still run, and at once if it is in that trap
  already, SIGKILL always at once. What bash does about SIGINT or SIGTERM while
  it is in the trap for one is not in its manual, and `reenters` says which of
  two things it is: it runs `cleanup` once more inside the one the signal came
  in, when the command of that one is over (bash 5.2 does, and the rules above
  were tried out with it), or it does nothing (`DropSignal`). Both are checked
  and proved about. A command that is hit may still have done its work, in part
  or in whole.
- **PIN retries.** A device that answers has counted the PIN; one whose answer
  is lost on the way has not. (That the counter could go down without a word is
  a fault of the transport, about which the program can do nothing.) The wrong
  PIN that costs the last retry is answered as wrong or as the block it causes.
  That a device asks to be pulled out after three wrong PINs in a row is left
  out.
- **The attempts at boot** that are negative or no number are one value: the code
  treats them alike (`run.m4:60`).

## The properties

Safety:

- `SecretIsBound`: what `generate` prints is the secret of *one* enrolment, made
  under the passphrase that it was given, with the mixin of its own command
  line. This is the promise of the program. It relates the output of one
  process with the random draws, passphrase and device of another, across a
  file that third parties rewrite and damage.
- `UnlockedFirst`: a process talks to devices, or says something about devices,
  only when somebody enrolled with its passphrase.
- `BadPassphraseIsTrue`: status 33 is never said to the passphrase the keyfile
  was sealed under, unless the file was damaged. The boot hook asks again on
  this status only.
- `KeyfileWholeWhenQuiet`: when enrolments race for a keyfile, a whole keyfile
  of one of them is there in the end.
- `ReplacementReady` (an action property): a keyfile changes only by the hand
  of an enrolment that has its sealed replacement in memory, one that its
  passphrase opens. Whatever fails before leaves the old file.
- `EnrolledNeverPassedOver`: if the loop gets to its end, the device that the
  keyfile was enrolled with was asked, provided it was listed.
- `PinRetriesAccounted`: each PIN retry that a device has lost belongs to a
  process of its own that was told, of the wrong PIN or of the block it caused; no
  process spends two on one device.
- `TypeOK`: types, among them that every exit status is one of `exit.h`.

Liveness: `EveryInvocationEnds`: every started process exits or dies.

Refinement: `ImplementsOracle`. `SecretOracle` knows processes, devices and
questions only: a process asks to enrol or to generate with a passphrase and a
mixin; an enrolment is made on a device that is attached; an answer is the
secret of one enrolment, given to somebody who asks with its passphrase *while
its device is attached*; every question is closed in the end. `Khefin` implements
it under the mapping at the end of the module: the question is the command
line, what is attached is what is plugged in, the enrolment of a process is the
device its credential was made on, the answer is what was printed, and keyfiles,
lists, handles, PINs and retries are forgotten. `SecretIsBound` says what a
secret is made of; this says in addition when it may be told.

Command line and prompts (`Invocation`):

- `AcceptedIsDocumented` and `RefusedForAReason`: the table of options, their
  letters, the switch and the checks of four places of the code agree with the
  options that the manual requires, allows and prohibits for each subcommand;
  `ParsedIsRunnable`: and what goes on is what `enrol` and `generate` need.
- `InputAccountedFor`: passphrase and PINs, with what is left of the input, are
  the input: over any number of prompts no byte is lost or read twice.
- `EchoAsFound`: outside a prompt the terminal shows what is typed if it did at
  the start, unless the process ended in the prompt.

`enumerate`: `OneLineEach` (status 0 after a line for every listed device, 34 only
when none was listed, however devices fail and move), `LinesAreTrue`,
`EnumerateEnds`.

Memory (`Heap`): `NoMemoryFault`: nothing is freed twice or used after, whatever
the devices answer in whatever order; `EnrolForgetsPassphraseAndPin`: when the
keyfile is written no copy of passphrase or PIN is left in memory that is in
use, freed or lost, *but for what the options left there*;
`GenerateForgetsKeyAndPassphrase`: the same for the key while devices are asked,
without an exception, and for the passphrase once generate gives up, with it.
`LeftByOptions` is the exception, and nothing in it can be spared. With `-r` the
file is read into a buffer that `free_encoded_file` (`files.c:81`) gives back
without zeroing it, so that the passphrase stays in freed memory; the boot hook
calls khefin that way (`run.m4:95`). And of `-p`, `-r` or `-n` given again only
the last block is known at the end, so those before it are lost as they are.
With a passphrase that is typed, or given once with `-p`, nothing at all is
left.

At boot (`BootHook`):

- `CryptkeyNamesASecret`: the encrypt hook is pointed to a file exactly when the
  secret of a keyfile is in it that was opened with its own passphrase.
- `NoPassphraseAtRest`: a passphrase is in a file only while khefin reads it.
- `EveryKeyfileTried`, `AllAttemptsGranted`: no keyfile is passed over for what
  happened to another, and wrong passphrases get all attempts, for each keyfile
  anew. `AskedOnlyWhenNeeded` (an action property): the user is asked for a first
  passphrase, after a bad one, or for a keyfile of its own, and never when one
  was hardcoded.
- `HookEnds`: the boot goes on.

`add-luks-key`: `SecretOnlyOnRamfs` (never a secret in a file on a disk,
although the script goes on after a trap that has removed its mount),
`NothingLeft`, `OnlySecretsAdded` (an empty file is never added as a key),
`SuccessMeansAdded`, `ScriptEnds`. They are true in spite of the trap, which
neither exits nor turns `set -e` on again: `rm -rf` takes the directory away, so
that what comes after finds nowhere to write. A second SIGINT may kill that `rm
-rf` when `umount` is done; then they are true because bash runs `cleanup` once
more. There are two exceptions, and each property names those it needs:

- `stuck`: `umount` failed, so the directory stays with its mount. After a SIGINT
  between two commands a `generate` that fails then leaves an empty file that
  `cryptsetup` adds.
- `CutShort`: a SIGINT came in a cleanup, and this bash does not run a trap
  inside a trap. Then the directory may stay without a mount, `set -e` is off
  and the script goes on: it may write the secret to a disk, add an empty key,
  or end with status 0 without having added one. `SecretNeverOnDisk` states the
  property without this exception, and `luks_single_trap.cfg` finds the steps. No
  other signal is excepted: with a bash that does run it, any number of them in
  any cleanup does no harm.

`Callers`: `SecretsApart` (what `get-passphrase` gives for a key is what ssh is
given later, and two keys never have one passphrase), `SuccessMeansAnswered`,
`CallersEnd`.

## The runs

Nine runs hold and three find what the code does otherwise than it says. The
runs of `MCKhefin` share a module that has a table of command lines for each; a
`.cfg` picks one and gives sizes. `DiskMayFill` and `DeviceErrors` switch
classes of failure on where a run is about them, and signals and failed
allocations are always possible.

| run | instance | shows |
|---|---|---|
| `race` | two enrolments of one keyfile with different passphrases and devices, whose credential ids differ in size, and a generate with either passphrase, with or without a mixin; one enrolment may name an unwritable path; one damage | `SecretIsBound`, `BadPassphraseIsTrue`, `KeyfileWholeWhenQuiet`, `UnlockedFirst`, `ReplacementReady` |
| `devices` | four kinds of device (with PIN, without, without the extension, not FIDO2) in every arrangement at two ports; an enrolment and two generates, PINs right, wrong, empty and missing; two retries | `TypeOK`, `EnrolledNeverPassedOver`, `PinRetriesAccounted` |
| `hotplug` | the same devices, an enrolment and a generate, two changes of what is plugged in, and every call to a device may fail | `ImplementsOracle`, and `EveryInvocationEnds`, under fairness |
| `command_line` | seven words for `argv[1]`, one of them missing; up to three of the options, short, long, unknown, with a file that cannot be read and one that is too long; memory on both sides of each limit; up to six bytes of input at a terminal, a pipe or nothing; two PINs | the six properties of `Invocation` |
| `enumerate` | three kinds of device in every arrangement at three ports, two changes of what is plugged in, every call may fail | `OneLineEach`, `LinesAreTrue`, `EnumerateEnds` |
| `heap` | up to three of the options `-p`, `-r` and `-n` in any order, and every path through `enrol`, and through `generate` with up to four devices | `NoMemoryFault` and what is forgotten |
| `boot` | two keyfiles with a passphrase each, one that does not decode and a directory between them; five settings of the kernel command line; the mount point absent, an empty directory, one in use or a file; two changes of the authenticator | the seven properties of `BootHook` |
| `luks` | three signals of any kind at any time, in a command of the script or of a cleanup, both kinds of bash, `umount` may fail | the six properties of `AddLuksKey` |
| `callers` | two callers, two keys, every prompt, one authenticator that comes and goes | `SecretsApart`, `SuccessMeansAnswered`, `CallersEnd` |
| `obfuscation`, `stale_pin`, `unwritten` | one enrolment, one generate, devices that show the difference | each finds a disagreement of the code with its documentation, below |

*Why the bounds are enough.*

- **Files.** Two enrolments are what a race for a file takes: an enrolment
  truncates, the other truncates, and the writes come in both orders, the
  shorter over the longer and the other way round. A third would repeat one of
  these. The safety of a generate speaks of one generate, which shares nothing
  that it writes with another but the retries; in `devices` two generates share
  these, and with `MaxPinRetries` 2 a device becomes blocked between them. One
  damage turns a good file into each kind of bad one, and the theorems about
  `SecretIsBound` and `UnlockedFirst` cover any number of damages.
- **Devices.** Two ports give the loop a first and a last device in both orders,
  which is where skipping and stopping differ, and four devices give it each kind
  of answer. Two changes of what is plugged in let a device leave and another
  one, or the same one, take its place. `enumerate`, whose loop is shorter, has
  three ports and so a device in the middle. The theorems about the two loops
  cover any number of ports, devices and processes.
- **Command line.** Two options are required at most and a third one is enough
  to be allowed, prohibited, unknown, given twice or to turn the rest into a
  request for help: what is checked of the result is a conjunction, of which
  no conjunct looks at more than one option. The limits of 4 and 3 bytes leave
  room in six bytes for a line that is exactly as long as the limit, one that is
  longer, and what comes after it, for two prompts.
- **Boot.** The loop over keyfiles passes from one that opens to ones that do
  not and back. The attempts are none given, zero, one and two. Two changes of the
  authenticator let it be pulled out and plugged in again between any two steps.
- **Signals.** The first one has the mount removed under the running script. A
  second one comes while a command of that cleanup runs, or in what the script
  does after it; and a third in a cleanup inside a cleanup, or in any of these
  again. The theorems of `AddLuksKeyProofs` cover any number.
- **Heap.** Three options are what it takes for one of the passphrase to come
  again with one of the PIN between. A turn of the loop leaves the blocks as one
  of a few kinds of turn does, and each follows each in four.
- **Callers.** They share the authenticator only; two keys are what it takes to
  mistake one for the other.

The sizes of keys, salts, tags and files are not bounded: they are the real
ones.

The checks that no property of a run is vacuous are mutants: for each property
and run, a plausible bug (a mixin that is ignored, a minimum that is not taken
from the file, a last device that is left out, ...) makes TLC find a
violation. The mutated operators stand next to the ones they mutate, marked
`Mutant:`.

## Fairness

`Khefin!FairSpec` asks weak fairness of `Step(p)` for each process and of
nothing else. It stands for three things: the scheduler of the machine runs a
process that can run; libfido2 gives up on a device that does not answer (an
answer after the time is up is among the answers modelled); and a user who is
asked for a PIN types one or closes the input. Nobody has to start a process,
kill one, plug in or pull a device, or damage a file. The steps of one process
are a chain with a loop over a finite list, so that weak fairness is enough:
nothing that happens elsewhere disables the next step of a process, it can only
change its answer. `SecretOracle!FairSpec` is the same promise in the words of
the oracle: a question is answered or closed.

The other modules ask it of the one program they follow and of no environment:
`Enumerate` of the process; `BootHook` of the hook (khefin ends, as
`EveryInvocationEnds` says, and the user answers a prompt); `AddLuksKey` of the
script (the commands it starts end; no signal has to come); `Callers` of each
caller.
Deadlock is checked in every run: where a system may stop, it is when all its
processes have ended, and it then idles (`Idle`, `Over`).

## Where the code and its documentation differ

The first three have a run that expects the violation, and an entry under
"findings" with the line that is contradicted. The others have a configuration of
the same name beside the modules, and TLC refutes the property there in seconds;
they are the small ones, or rest on one thing outside khefin. The properties are
in the last section of their module.

| configuration | property | what the code does | what is said |
|---|---|---|---|
| `obfuscation` | `Khefin!ObfuscationHidesDevice` | `enrol` stores the AAGUID also with `--obfuscate-device-info`; the flag is read nowhere (`src/enrol.c:68`) | it is not stored (`man/1/khefin.m4:67`, `INTERNALS.md:26`) |
| `stale_pin` | `Khefin!PinlessGetsNoPin` | the PIN for one device is sent to the next one, which has none, refuses and so ends `generate` (`src/generate.c:84`) | one PIN for each PIN-protected device (`man/1/khefin.m4:110`) |
| `unwritten` | `Khefin!SuccessMeansWritten` | the result of `fclose` is ignored, so on a full disk `enrol` succeeds and leaves an empty keyfile (`src/files.c:78`) | status 0 is success (`man/1/khefin.m4:119`) |
| `unprinted` | `Khefin!SuccessMeansPrinted` | `generate` does not look at `printf` and `fflush` and succeeds without having printed on a full disk (`src/generate.c:90`) | the same |
| `not_fido2` | `Khefin!EveryDeviceTried` | a listed device that is not FIDO2 ends `generate` before later devices are tried (`src/authenticator.c:70`) | with an empty AAGUID every device with `hmac-secret` is tried (`INTERNALS.md:26`) |
| `undocumented` | `Khefin!StatusIsDocumented` | a wrong or empty PIN ends `enrol` with status 37 | 37 is not in the list of statuses (`man/1/khefin.m4:116`) |
| `corrupt` | `Khefin!CorruptKeyfileIsNoBug` | a keyfile with a key salt of the wrong size ends `generate` with status 96 (`src/cryptography.c:12`) | 36 is for a corrupt keyfile, 96 is evidence of a bug (`man/1/khefin.m4:139`, `163`) |
| `nonce` | `Khefin!ModifiedNonceIsUseless` | a nonce that was made longer is accepted (`src/serialization.c:20`) | a change of any field renders the key unusable (`INTERNALS.md:28`) |
| `long_option` | `Invocation!DocumentedIsAccepted` | the long option is `obfuscate-device`, and the documented one is refused (`src/invocation.c:60`) | `--obfuscate-device-info` (`man/1/khefin.m4:65`) |
| `any_pin` | `Invocation!PinProhibitedElsewhere` | every subcommand takes a PIN (`src/invocation.c:193`) | prohibited but for `enrol` and `generate` (`man/1/khefin.m4:59`) |
| `last_byte` | `Invocation!FirstBytesUsed` | `fgets` keeps one byte less than the limit (`src/invocation.c:250`) | the first bytes up to the limit are used in every case (`man/1/khefin.m4:114`) |
| `long_line` | `Invocation!PinOnItsOwnLine` | what is left of a passphrase that is too long is read as the PIN (`src/invocation.c:270`) | the passphrase is read until a newline (`man/1/khefin.m4:106`) |
| `hardness` | `Invocation!HardnessIsNamed` | of the value of `--kdf-hardness` only the first letter is looked at, in either case (`src/invocation.c:113`) | it is one of three words (`man/1/khefin.m4:73`) |
| `passphrase_file` | `Heap!PassphraseFileIsZeroed` | the buffer that the file of `-r` was read into is freed as it is (`src/files.c:87`) | "We no longer need the passphrase or PIN, so zero it out" (`src/enrol.c:76`) |
| `enumerate_u2f` | `Enumerate!NotFido2Printed` | a device that is not FIDO2 and does not know the request for its info ends `enumerate` before its line (`src/authenticator.c:100`) | such devices are printed (`CHANGELOG.md:25`) |
| `boot_empty` | `BootHook!MovesOnForOtherFailures` | an empty passphrase gives a keyfile up, because khefin refuses the empty file it is handed (`run.m4:94`) | the hook moves on when the failure is not due to a bad passphrase (`run.m4:107`) |
| `boot_blank` | `BootHook!RightPassphraseIsNotBad` | blanks at the ends of a passphrase are stripped (`run.m4:85`) | status 33 is for a bad passphrase (`run.m4:104`) |
| `boot_mounted` | `BootHook!SkippedMeansSkipped` | the hook says that it is skipped and goes on (`run.m4:39`) | its own message |
| `boot_skipped` | `BootHook!BootGoesOn` | after a run that was skipped the cleanup hook redirects `:` into a directory that is not there, which ends a POSIX shell that is not interactive (`run.m4:124`) | without an authenticator the boot falls back to a prompt (`install.m4:42`) |
| `luks_single_trap` | `AddLuksKey!SecretNeverOnDisk` | in a bash that does not run a trap inside a trap, a second SIGINT kills `rm -rf` and the script goes on in a directory without a mount (`add-luks-key.m4:29`) | the cleanup tries really hard, even if part of it fails (`add-luks-key.m4:25`) |

## What is proved

Each theorem holds for every value of the constants of its module: any number
of processes, keyfiles, devices and ports (finitely many ports), any command
lines, any bound on damages, hotplugs and PIN retries; any options, any line
lengths; any number of keyfiles at boot and any number of attempts allowed; any
number of callers; any number of signals. What is assumed of the constants is
named in the module that declares them, and TLC evaluates it in every run:

- `MachineAssumption`, `AuthenticatorAssumption`, `KhefinAssumption`: `NULL` is
  distinct from what it stands in for (a keyfile, a PIN, a question), command
  lines are of the two kinds, the device an enrolment names is a port, bounds are
  naturals, the ids of credentials are not empty, and a device is at one port at
  most when the processes start (`Plug` keeps it so).
- `InvocationAssumption`, `OptionAssumption`: the limits of `prompt_for_secret` are
  naturals, an option is given a number or a string as its kind requires.
- `BootHookAssumption`: the entries of the file list are different keyfiles, and
  the empty setting is not a number of attempts.
- `CallersAssumption`: no key and no secret is `NULL`.
- `AddLuksKeyAssumption`: how many signals, and whether `umount` may fail.
- `HeapAssumption`: how many devices and options.

One theorem has a hypothesis besides: `WholeWhenQuiet` supposes `~DiskMayFill`.
That is the property's own limit, and the run `unwritten` shows why: on a full
disk `fwrite` and `fclose` fail unnoticed and the keyfile stays empty.

| theorem | says |
|---|---|
| `SecretProofs!TypeCorrect` | `Spec => []TypeOK` |
| `SecretProofs!SecretBound` | `Spec => []SecretIsBound` |
| `SecretProofs!DevicesAfterPassphrase` | `Spec => []UnlockedFirst` |
| `SecretProofs!UnlockedBound` | what comes out of a bound box under the key of a passphrase belongs to an enrolment under that passphrase |
| `SecretProofs!SecretsRoundTrip` | decoding the encoded secrets succeeds and gives them back |
| `SecretProofs!KhefinImplementsOracle` | `Spec => Oracle!Spec`: `Khefin` implements `SecretOracle`, but for its fairness |
| `KeyfileProofs!BadPassphraseTrue` | `Spec => []BadPassphraseIsTrue` |
| `KeyfileProofs!WholeWhenQuiet` | `~DiskMayFill => (Spec => []KeyfileWholeWhenQuiet)` |
| `KeyfileProofs!ReplacedWhenReady` | `Spec => ReplacementReady` |
| `KeyfileProofs!NeverPassedOver` | `Spec => []EnrolledNeverPassedOver` |
| `KeyfileProofs!RetriesAccounted` | `Spec => []PinRetriesAccounted` |
| `EnumerateProofs!EachHasItsLine` | `Spec => []OneLineEach` |
| `EnumerateProofs!EachLineIsTrue` | `Spec => []LinesAreTrue` |
| `InvocationProofs!InvocationTyped` | `Spec => []TypeOK` |
| `InvocationProofs!AcceptedInManual` | `Spec => []AcceptedIsDocumented` |
| `InvocationProofs!RefusalHasAReason` | `Spec => []RefusedForAReason` |
| `InvocationProofs!ReadyToRun` | `Spec => []ParsedIsRunnable` |
| `InvocationProofs!EchoComesBack` | `Spec => []EchoAsFound` |
| `InvocationProofs!NoByteIsLost` | `Spec => []InputAccountedFor` |
| `HeapProofs!MemoryIsSound` | `Spec => []NoMemoryFault` |
| `HeapProofs!EnrolForgets` | `Spec => []EnrolForgetsPassphraseAndPin` |
| `HeapProofs!GenerateForgets` | `Spec => []GenerateForgetsKeyAndPassphrase` |
| `BootHookProofs!HookTyped` | `Spec => []TypeOK` |
| `BootHookProofs!CryptkeyIsASecret` | `Spec => []CryptkeyNamesASecret` |
| `BootHookProofs!PassphraseNotAtRest` | `Spec => []NoPassphraseAtRest` |
| `BootHookProofs!NoKeyfileMissed` | `Spec => []EveryKeyfileTried` |
| `BootHookProofs!AttemptsAllGranted` | `Spec => []AllAttemptsGranted` |
| `BootHookProofs!AskingIsNeeded` | `Spec => AskedOnlyWhenNeeded` |
| `CallersProofs!KeysApart` | `Spec => []SecretsApart` |
| `CallersProofs!AnsweredTruly` | `Spec => []SuccessMeansAnswered` |
| `AddLuksKeyProofs!Invariant` | `Spec => []Inv`, the strengthening of the five below |
| `AddLuksKeyProofs!ScriptTyped` | `Spec => []TypeOK` |
| `AddLuksKeyProofs!SecretStaysOnRamfs` | `Spec => []SecretOnlyOnRamfs` |
| `AddLuksKeyProofs!CleansUp` | `Spec => []NothingLeft` |
| `AddLuksKeyProofs!AddsOnlySecrets` | `Spec => []OnlySecretsAdded` |
| `AddLuksKeyProofs!SuccessIsTrue` | `Spec => []SuccessMeansAdded` |

**Types.** `TypeOK` is not inductive: that a new credential names an existing
device and the enrolling process needs to know which device is open when it is
made, and that the parameters are those of this enrolment. `TypeInv` adds this
(`EnrolmentFresh`: at the steps between opening the device and freeing it, the
handle names a device, and the relying party and salt in the parameters are the
process's own; `IsParams`: the parameters are a record with its four fields).
`StepLocal` shows once, action by action, that a step of a process leaves the
state of the others alone; after it, each proof looks at one process.

**Binding.** The argument follows the sealed box wherever it goes. `BoundBox(b)`
says that if `b` is intact it was sealed by some enrolment, around a credential
of its own and under its own passphrase. `BindInv` states it of each place where a
box can be: every file on disk (`BoundFile`), the file a process has read, and
the cleartext it has decoded. It adds that an enrolment past
`create_credential` owns the credential it is about to seal
(`OwnCredential`), that once a generate is past the opening of the box its
parameters come from an enrolment under its passphrase (`ParamsBound`), and that
what it prints does (`OutBound`). Damage preserves boundness since it changes a
box only by spoiling it (`DamagedBound`); writing preserves it since the file
is the encoding of a bound cleartext, also when a longer file lies underneath
(`WrittenBound`); reading and decoding preserve it (`LoadedBound`); sealing
establishes it (`SealedBound`); and opening uses it (`UnlockedBound`): a box that
opens is intact, its key is the one derived, and equal keys have equal
passphrases. More credentials and started processes leave bound what was
bound (`BoundGrows`). None of these could be dropped: without the invariant
on files nothing is known of what a generate reads, and without the one
on an enrolment's parameters nothing is known of what it writes.

**Keyfile.** The argument follows a cleartext from the enrolment that makes it
to the generate that reads it. `KeyInv` says where it is sound: at `fopen` and
`fclose` an enrolment holds one that can be encoded (`Encodable`) and whose box
opens with the key derived from the parameters beside it (`SealedIn`,
`SelfOpening`); a file that nobody has damaged, and what was read of one,
decodes to such a cleartext or is no keyfile at all (`SoundItem`). The lemmas
are that a cleartext survives its encoding (`EncodingRoundTrip`), that writing
leaves it whole (`WrittenWhole`) and that sealing makes it sound
(`SealedSound`). So a box that does not open is of a passphrase that is not the
one given, which is what status 33 claims. For a quiet disk each file is `Busy`
(a process is about to write it) or `WholeIn`; with two writers the later
`fclose` makes it whole whichever came first.

**Oracle.** Each step of `Khefin` is classed by what the abstract state sees of it:
it begins an invocation, ends one, makes a credential, tells a secret, plugs
a device, or is quiet. A class is then a step of `SecretOracle` or a stutter. The
guards of the abstract steps need what the code establishes before: a live
handle is to a device that is plugged in (`LiveIsPresent`), a process makes one
credential at most, and none before `create_credential` (`OneEach`,
`BeforeCredential`), a secret is told by the step that ends its process, and it is
that of the credential in the parameters, whose owner and passphrase are in
`BindInv`.

**Devices.** What `EnrolledNeverPassedOver` and `PinRetriesAccounted` say at the
end of the list is kept from one position to the next. `LoopInv` says of the
positions passed that the enrolled device, if it was at one of them, was asked
(`NonePassedOver`), and that whatever was asked was at one of them
(`OnlyPassedAsked`). A device is passed over without a request for three
reasons, and none of them fits the enrolled one. Its AAGUID differs: but the one
compared is empty or whole, from the enrolment through encoding, files and
damage (`FullAaguid`, `AaguidDamaged`), so `memcmp` never compares a part of it
(`NamedMatches`). It lacks `hmac-secret`: but enrolment made credentials only
with devices that have it (`AaguidInv`). It fails to open: then the process
ends. For the retries, a list names each port once and a device is at one port
(`PortsApart`), so the device at hand is none of those passed, and by
`OnlyPassedAsked` the process has not asked it yet (`FirstRequest`). A retry
that is lost therefore adds its process to those that lost one (`Spent`), and
the balance of `RetriesKept` holds (`BalanceKept`).

**Enumerate.** `InOrder` says that the lines so far are those of the entries
before the one at hand, and `Placed` that a device is open only within the list
and which statuses come after how much of it. `AsListed` adds, while nothing was
plugged or unplugged, that the entries are right and that the device that is
open is the one of the entry at hand; without this the names in a line (of the
list) and its mark and AAGUID (of the device that answered) need not be of one
device, and after a hot-plug they are not.

**Invocation.** `Explained` ties each field of the result to the options met so
far: a field is set if and only if its option was met, a hardness is invalid
only if it was given so, and the subcommand is `help` if and only if `-h` was
met. At the end of the options this turns into what the manual says of each
subcommand (`PassedIsDocumented`, `DocumentedPasses`), in both directions, and
what passes is what `Machine` may start (`Runnable`). `EchoKept` says where in
`prompt_for_secret` the terminal is changed and that what was found is held
then. That `fgets` takes a line shorter than the limit is by a least element of
the naturals (`MaxIsGreatest`) in place of an induction.

**The input.** `InputAccountedFor` is kept by each `fgets` because the bytes it
takes are the front of what was left (`TwoParts`), hold a newline only at their
end (`SecretIsALine`), and become the secret when that is dropped
(`SecretIsTaken`). What is needed of the operators is that dropping the newlines
of a sequence drops those of its parts (`WithoutNewlinesOfTwo`), and
`FlattenSeq` is recursive. So the proof speaks of the sequences it passes
through: any function that begins with nothing and appends one element at each
place ends with `FlattenSeq` (`FlatteningEnds`), and such a function exists
(`FlatteningExists`). The induction in both is over a *set* of naturals:
`NatIsAll` says that a set with 0 in it and with each successor is all of them,
since what is missing would have a least element (`WFMin` of the library, which
takes no operator).

**Memory.** `At(F, L, N, W)` is the set of memories without a mistake in which
no secret of `F` stayed behind in what was freed or lost, the blocks of `L` are
live, those of `N` are live or were never allocated, and a secret of `F` is in a
block only where `W` allows it. `Leads(P, calls, Q)` says that the calls take
each memory of `P` to one of `Q`. There is a lemma for each kind of call
(`FreeLeads`: a block that is freed was live, and holds no secret of `F`), one
for calls that follow each other (`Then`), and from these one for each function
of the code (`free_parametersLeads`, `build_deserialized_cleartextLeads`, ...),
which is used wherever it is called. `Inv` has one assertion for each label of
the program (`Where`), and `GivenUp` for a generate that returned without a
secret. The runs' properties alone are not inductive: that `free` at the end
finds its block live has to be known at every label before. The assertion at the
head of the loop over the devices is the one its body comes back to, whichever
turn it takes, and so there may be any number of devices. While the options are
looked at (`Parsing`), what is allowed to hold a secret depends on the options
still ahead: a passphrase that none of them will replace is `"passphrase"` and
has to be forgotten later, and one that will be replaced is lost with its block,
which `LeftByOptions` admits (`GetOptionStep`). The text of a file of `-r` is
kept apart from the copy in the invocation, so that the proofs are about exactly
the one that stays. The lists of secrets differ, and that is the code: `enrol`
forgets the PIN, while `generate` loses a PIN typed for one device when it asks
for the next one's.

**BootHook.** The log and the properties speak of attempts made; the invariant
adds where the script stands. `LoopOK`: in the loops the parameters are settled,
there are attempts left and a keyfile is at hand. `VerdictIsTrue`: what is in
the key file agrees with the status khefin gave, and a secret there is the one
of the keyfile at hand, opened by its passphrase; outside that moment nothing is
in it. `PassphraseOK`: an attempt has a passphrase, and the file handed to
khefin holds that one, where there is a directory for it; where there is none,
because something else is at the mount point or `mkdir` failed, khefin is not
run and the shell exits. `AskedOnly`: who has no passphrase has not been asked
yet, or got it wrong, or is at a new keyfile of the setting that asks for each.

**Callers.** The mixin of a caller is that of its own key (`MixinOfKey`), so
what it prints is made of its own key (`OwnSecret`); a script that is not over
has printed nothing (`NotYet`). The two properties relate callers and the ends
of them; each of these facts is about one caller, and no step of another touches
it (`OthersInv`).

**add-luks-key.** What the runs check is not inductive: it does not say why a
script that goes on after its own cleanup does no harm, nor why a signal in that
cleanup does none. `Inv` adds where script and cleanup stand. `Processes`: bash
waits for the command that the innermost of them is at, and only one that ended
leaves a command behind. `AtReturn`: where a cleanup is about to return there is
no key, and a directory only with its mount, of which `umount` failed; *unless a
SIGINT is pending*, for then the command may have been killed, and another
cleanup runs before this one returns. So a cleanup that is hit passes the duty
on to the one inside it, and when all have returned, in whatever depth, the last
`rm -rf` was not hit. `CleanedUp` carries this to the script: `set -e` is off
only after a cleanup was begun, and then there is a directory only if it is
mounted, which is so only if `umount` failed. `OnRamfs`: a command that follows
the mount finds a directory only with the ramfs on it, unless a SIGINT is
pending, in which case the trap comes first. `SecretReady`: when `cryptsetup`
runs, as a child or as an orphan, the file is the secret or is not there.
`StatusIsTrue`: status 0 comes with the key added. Each needs the one before:
without `AtReturn` a second signal could leave the directory, without
`CleanedUp` nothing is known of a file that `generate` opens after a signal,
without `OnRamfs` it could be on a disk, and without `SecretReady` it could be
empty. A signal that `DropSignal` takes off sets `CutShort`, which every one of
them excepts: this is where the argument needs bash to run a trap inside a trap.

**Only model-checked.** Liveness (`EveryInvocationEnds`, `EnumerateEnds`,
`HookEnds`, `ScriptEnds`, `CallersEnd`), which is out of reach of the proof
system, and with it the fairness half of `ImplementsOracle`. Each safety property
that a passing run checks, invariant or action property, is stated by a theorem
above. No definition is a recursive operator: the decoder checks a fixed number of
fields, and the loop over the devices is steps of the process.

## What is not modelled

- `help` and `version` print constant text; only the choice of them on the command
  line is in `Invocation`. `install.m4`, `hook.m4` and `bash-completion.m4` copy
  files and complete words, and the build rules and the manual have no state.
- `mlockall`, `prctl` and `setrlimit` (`src/memory.c`) change the kernel's state and
  only a warning depends on them. Blocks in `Heap` are those with secrets in them
  and those they hang on; a `fido_dev_t` that cannot be closed is lost in the code,
  and left out.
- A PIN of 255 or more bytes, which `strncpy` leaves without its terminator: what
  happens then depends on what is in fresh memory.
- libfido2, libcbor and libsodium, cryptsetup, mount and ssh-keygen, but for the
  answers the code tells apart.
- More than 64 devices: the bound is a constant of `Manifests`.

## Plan

Done: all the modules and runs, and the theorems above. What is left is what the
installed provers cannot reach, liveness, and it stays with TLC; and the parts that
the section before leaves out.

## Running it

```
tlc -workers 2 -config race.cfg MCKhefin        # likewise the others, see PROJECT.json
tlapm SecretProofs.tla                          # likewise the other seven *Proofs
```

The runs of `MCKhefin` that hold have 156 000 (`hotplug`) to 524 000 distinct
states, `command_line` has 1.8 million, `boot` 222 000, `luks` 92 000, and the
others 14 000 to 29 000. On two workers `hotplug` takes a minute and a half, for
its temporal properties, and each of the others less than half a minute; the
proofs take a few minutes. The configurations that find a violation end in
seconds.
