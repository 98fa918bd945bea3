------------------------------ MODULE Keyfile ------------------------------
(***************************************************************************)
(* The keyfile as data: its CBOR encoding (src/serialization.c,            *)
(* src/serialization/v1.c), the key derived from the passphrase and the    *)
(* sealed box that holds the secrets (src/cryptography.c,                  *)
(* src/serialization.c).                                                   *)
(*                                                                         *)
(* Bytes are a size and a value; the size is the real number of bytes, the *)
(* value is symbolic.  Cryptography is symbolic too: a key is what         *)
(* crypto_pwhash computes it from, a box is what was sealed, under which   *)
(* key and nonce, and whether a byte of it was changed since.              *)
(***************************************************************************)
EXTENDS Integers, Sequences, ExitCodes

CONSTANT NULL           \* C's NULL: an option that was not given, no value

SERIALIZATION_VERSION     == 1
SERIALIZATION_MAX_VERSION == 1

\* Sizes fixed by libsodium and by include/enrol.h.
crypto_pwhash_SALTBYTES   == 16
crypto_secretbox_MACBYTES == 16
crypto_box_NONCEBYTES     == 24
SALT_SIZE_BYTES           == 64
AAGUID_SIZE_BYTES         == 16

crypto_pwhash_ALG_ARGON2I13 == 1
crypto_pwhash_OPSLIMIT_MIN  == << 3, 1 >>      \* of Argon2i and of Argon2id
crypto_pwhash_MEMLIMIT_MIN  == 8192
crypto_generichash_BYTES_MAX == 64

Bytes(n, v) == [size |-> n, val |-> v]

-----------------------------------------------------------------------------
(* CBOR items.  An integer item remembers its width, which the decoder checks. *)

UintItem(w, n) == [type |-> "uint", width |-> w, value |-> n]
ByteItem(b)    == [type |-> "bytes", bytes |-> b]
TextItem(t)    == [type |-> "text", text |-> t]
Array(s)       == [type |-> "array", items |-> s]
Malformed      == [type |-> "malformed"]      \* not one whole CBOR item

IsUint(item, w)  == item.type = "uint" /\ item.width = w
IsBytes(item)    == item.type = "bytes"
IsText(item)     == item.type = "text"
IsArray(item, n) == item.type = "array" /\ Len(item.items) = n

\* The first field of an array is the version, an 8-bit unsigned integer.
HasVersion(item, n) ==
    /\ item.type = "array"
    /\ item.items # << >>
    /\ IsUint(item.items[1], 8)
    /\ item.items[1].value = n

-----------------------------------------------------------------------------
(* The cleartext of the keyfile: eight fields, in this order. *)

CLEAR_COUNT_OF_FIELDS == 8

\* cbor_build_uint8 and cbor_build_uint16 take the low bits of their argument.
serialize_cleartext_to_cbor_v1(clear) ==
    Array(<< UintItem(8, clear.version % 256),
             ByteItem(clear.device_aaguid),
             ByteItem(clear.kdf_salt),
             UintItem(64, clear.opslimit),
             UintItem(64, clear.memlimit),
             UintItem(16, clear.algorithm % 65536),
             ByteItem(clear.nonce),
             ByteItem(clear.encrypted_data) >>)

\* Every "wrong format" exit of load_cleartext and of the v1 decoder passed.
IsCleartextV1(root) ==
    /\ HasVersion(root, SERIALIZATION_VERSION)
    /\ IsArray(root, CLEAR_COUNT_OF_FIELDS)
    /\ IsBytes(root.items[2])
    /\ IsBytes(root.items[3])
    /\ IsUint(root.items[4], 64)
    /\ IsUint(root.items[5], 64)
    /\ IsUint(root.items[6], 16)
    /\ IsBytes(root.items[7])
    /\ IsBytes(root.items[8])

deserialize_cleartext_from_cbor_v1(root) ==
    [ version        |-> root.items[1].value,
      device_aaguid  |-> root.items[2].bytes,
      kdf_salt       |-> root.items[3].bytes,
      opslimit       |-> root.items[4].value,
      memlimit       |-> root.items[5].value,
      algorithm      |-> root.items[6].value,
      nonce          |-> root.items[7].bytes,
      encrypted_data |-> root.items[8].bytes ]

-----------------------------------------------------------------------------
(* The secrets sealed inside it: four fields, in this order. *)

ENCRYPTED_COUNT_OF_FIELDS == 4

serialize_secrets_to_cbor_v1(secrets) ==
    Array(<< UintItem(8, secrets.version % 256),
             TextItem(secrets.relying_party_id),
             ByteItem(secrets.credential_id),
             ByteItem(secrets.salt) >>)

IsSecretsV1(root) ==
    /\ HasVersion(root, SERIALIZATION_VERSION)
    /\ IsArray(root, ENCRYPTED_COUNT_OF_FIELDS)
    /\ IsText(root.items[2])
    /\ IsBytes(root.items[3])
    /\ IsBytes(root.items[4])

deserialize_secrets_from_cbor_v1(root) ==
    [ version          |-> root.items[1].value,
      relying_party_id |-> root.items[2].text,
      credential_id    |-> root.items[3].bytes,
      salt             |-> root.items[4].bytes ]

-----------------------------------------------------------------------------
(* Files as bytes: how many there are, how many of them the item at the    *)
(* front takes, and that item.  cbor_load decodes the front item when all  *)
(* of its bytes are there and ignores what follows it.                     *)

EncodedFile(n, k, item) == [length |-> n, size |-> k, item |-> item]
EmptyFile == EncodedFile(0, 1, Malformed)

cbor_load(file) == IF file.length >= file.size THEN file.item ELSE Malformed

\* Everything but the byte strings: the array header, the headers of the
\* fields and the integers.
HEADER_BYTES == 32

\* Mutant: the last byte of the encoding is not counted.
cbor_serialize_alloc_short(clear) ==
    LET n == HEADER_BYTES + clear.device_aaguid.size + clear.kdf_salt.size
               + clear.nonce.size + clear.encrypted_data.size
    IN  EncodedFile(n - 1, n, serialize_cleartext_to_cbor_v1(clear))

cbor_serialize_alloc(clear) ==
    LET n == HEADER_BYTES + clear.device_aaguid.size + clear.kdf_salt.size
               + clear.nonce.size + clear.encrypted_data.size
    IN  EncodedFile(n, n, serialize_cleartext_to_cbor_v1(clear))

-----------------------------------------------------------------------------
(* Key derivation.  crypto_pwhash counts memory in units of 1024 bytes.    *)

PasswordHash(spec) ==
    [ passphrase |-> spec.passphrase,
      kdf_salt   |-> spec.kdf_salt.val,
      opslimit   |-> spec.opslimit,
      memory     |-> spec.memlimit \div 1024,
      algorithm  |-> spec.algorithm ]

\* The status derive_key exits with, or EXIT_SUCCESS when it returns a key.
derive_key_status(spec) ==
    IF spec.kdf_salt.size # crypto_pwhash_SALTBYTES
    THEN EXIT_PROGRAMMER_ERROR
    ELSE IF \/ spec.algorithm \notin DOMAIN crypto_pwhash_OPSLIMIT_MIN
            \/ spec.opslimit < crypto_pwhash_OPSLIMIT_MIN[spec.algorithm]
            \/ spec.memlimit < crypto_pwhash_MEMLIMIT_MIN
    THEN EXIT_OUT_OF_MEMORY
    ELSE EXIT_SUCCESS

\* Mutant: the number of passes is not taken from the keyfile.
make_key_spec_fixed_opslimit(passphrase, clear) ==
    [ passphrase |-> passphrase,
      kdf_salt   |-> clear.kdf_salt,
      opslimit   |-> 3,
      memlimit   |-> clear.memlimit,
      algorithm  |-> clear.algorithm ]

make_key_spec_from_passphrase_and_cleartext(passphrase, clear) ==
    [ passphrase |-> passphrase,
      kdf_salt   |-> clear.kdf_salt,
      opslimit   |-> clear.opslimit,
      memlimit   |-> clear.memlimit,
      algorithm  |-> clear.algorithm ]

\* crypto_pwhash_{OPS,MEM}LIMIT_{INTERACTIVE,MODERATE,SENSITIVE}
KdfLimits ==
    [ low    |-> [opslimit |-> 2, memlimit |-> 67108864],
      medium |-> [opslimit |-> 3, memlimit |-> 268435456],
      high   |-> [opslimit |-> 4, memlimit |-> 1073741824] ]

\* Mutant: the passphrase was zeroed before the key is made from it.
make_new_key_spec_zeroed(passphrase, kdf_hardness, random) ==
    [ passphrase |-> NULL,
      kdf_salt   |-> Bytes(crypto_pwhash_SALTBYTES, random),
      opslimit   |-> 3,
      memlimit   |-> KdfLimits[kdf_hardness].memlimit,
      algorithm  |-> crypto_pwhash_ALG_ARGON2I13 ]

\* Argon2i needs at least three passes, whatever the hardness says.
make_new_key_spec_from_invocation(passphrase, kdf_hardness, random) ==
    LET limits == KdfLimits[kdf_hardness]
    IN  [ passphrase |-> passphrase,
          kdf_salt   |-> Bytes(crypto_pwhash_SALTBYTES, random),
          opslimit   |-> IF limits.opslimit < 3 THEN 3 ELSE limits.opslimit,
          memlimit   |-> limits.memlimit,
          algorithm  |-> crypto_pwhash_ALG_ARGON2I13 ]

-----------------------------------------------------------------------------
(* The sealed box: crypto_secretbox with the serialized secrets inside. *)

\* The serialized secrets: headers, a relying party id of 63 characters, and
\* the two byte strings.
SECRETS_HEADER_BYTES == 72

SealedBox(secrets, nonce, key) ==
    Bytes(crypto_secretbox_MACBYTES + SECRETS_HEADER_BYTES
              + secrets.credential_id.size + secrets.salt.size,
          [ plain  |-> serialize_secrets_to_cbor_v1(secrets),
            nonce  |-> nonce,
            key    |-> key,
            intact |-> TRUE ])

\* crypto_secretbox_open_easy is given no size for the nonce: it reads the
\* first 24 bytes, which are what the value of the nonce stands for.
SecretBoxOpens(clear, key) ==
    LET box == clear.encrypted_data.val
    IN  box.intact /\ box.key = key /\ box.nonce = clear.nonce.val

SecretsOf(params) ==
    [ version          |-> SERIALIZATION_MAX_VERSION,
      relying_party_id |-> params.relying_party_id,
      credential_id    |-> params.credential_id,
      salt             |-> params.salt ]

build_deserialized_cleartext_from_authenticator_parameters_and_key_spec(params, spec, aaguid, random) ==
    [ version        |-> SERIALIZATION_MAX_VERSION,
      device_aaguid  |-> aaguid,
      kdf_salt       |-> spec.kdf_salt,
      opslimit       |-> spec.opslimit,
      memlimit       |-> spec.memlimit,
      algorithm      |-> spec.algorithm,
      nonce          |-> Bytes(crypto_box_NONCEBYTES, random),
      encrypted_data |-> SealedBox(SecretsOf(params), random,
                                   PasswordHash(spec)) ]

\* Mutant: nobody looks at what crypto_secretbox_open_easy returns.
build_authenticator_parameters_unchecked(clear, key, mixin) ==
    IF clear.encrypted_data.size < crypto_secretbox_MACBYTES
    THEN EXIT_OUT_OF_MEMORY
    ELSE EXIT_SUCCESS

\* The status generate exits with while it opens the box, or EXIT_SUCCESS.
\* A box shorter than its authentication tag makes the size of the plain
\* text wrap around, and no allocation of that size succeeds.
build_authenticator_parameters_status(clear, key, mixin) ==
    LET plain == clear.encrypted_data.val.plain IN
    IF clear.encrypted_data.size < crypto_secretbox_MACBYTES
    THEN EXIT_OUT_OF_MEMORY
    ELSE IF ~SecretBoxOpens(clear, key) THEN EXIT_BAD_PASSPHRASE
    ELSE IF ~IsSecretsV1(plain) THEN EXIT_DESERIALIZATION_ERROR
    ELSE IF mixin # NULL /\ deserialize_secrets_from_cbor_v1(plain).salt.size
                               \notin 1 .. crypto_generichash_BYTES_MAX
    THEN EXIT_CRYPTOGRAPHY_ERROR
    ELSE EXIT_SUCCESS

\* Mutant: the salt of an enrolment is never filled in.
FreshSalt_blank(random) ==
    Bytes(SALT_SIZE_BYTES, [base |-> NULL, mixin |-> NULL])

\* A salt is the random bytes of an enrolment, xor-ed with the hash of the
\* mixin when one was given: no mixin and an empty mixin are different.
FreshSalt(random) ==
    Bytes(SALT_SIZE_BYTES, [base |-> random, mixin |-> NULL])

\* Mutant: the mixin is accepted and not used.
MixIn_ignored(salt, mixin) == salt

MixIn(salt, mixin) ==
    IF mixin = NULL THEN salt ELSE [salt EXCEPT !.val.mixin = mixin]

\* The parameters an authenticator is asked with: the secrets of the box.
build_authenticator_parameters_from_deserialized_cleartext_and_key_and_mixin(clear, mixin) ==
    LET secrets ==
            deserialize_secrets_from_cbor_v1(clear.encrypted_data.val.plain)
    IN  [ relying_party_id  |-> secrets.relying_party_id,
          credential_id     |-> secrets.credential_id,
          salt              |-> MixIn(secrets.salt, mixin),
          authenticator_pin |-> NULL ]

-----------------------------------------------------------------------------
(* What may happen to a keyfile outside the program: it is cut short, its  *)
(* structure is broken, or a field is changed.  The box is authenticated:  *)
(* whoever has no key can spoil it but cannot make another one.            *)

BrokenRoots(root) ==
    { Malformed, UintItem(8, SERIALIZATION_VERSION), Array(<< >>) }
    \union
    IF IsCleartextV1(root)
    THEN { Array(SubSeq(root.items, 1, CLEAR_COUNT_OF_FIELDS - 1)),
           Array([root.items EXCEPT ![4] = UintItem(32, @.value)]) }
    ELSE {}

ChangedFields(clear) ==
    { [clear EXCEPT !.version = SERIALIZATION_MAX_VERSION + 1],
      [clear EXCEPT !.device_aaguid = Bytes(0, NULL)],
      [clear EXCEPT !.kdf_salt.size = @ - 1],
      [clear EXCEPT !.opslimit = 0],
      [clear EXCEPT !.opslimit = @ + 1],
      [clear EXCEPT !.nonce.size = @ + 1],
      [clear EXCEPT !.encrypted_data.val.intact = FALSE],
      [clear EXCEPT !.encrypted_data.size = crypto_secretbox_MACBYTES - 1,
                    !.encrypted_data.val.intact = FALSE] }

Damaged(file) ==
    { EncodedFile(n, file.size, file.item) : n \in {0, file.size - 1} }
    \union { EncodedFile(file.length, file.length, root) :
               root \in BrokenRoots(file.item) }
    \union IF IsCleartextV1(file.item)
           THEN LET clear == deserialize_cleartext_from_cbor_v1(file.item)
                IN  { cbor_serialize_alloc(c) : c \in ChangedFields(clear) }
           ELSE {}

=============================================================================
