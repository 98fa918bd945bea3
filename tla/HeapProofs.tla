----------------------------- MODULE HeapProofs -----------------------------
(***************************************************************************)
(* The memory of enrol and generate, whatever the devices answer and       *)
(* however many there are: nothing is freed twice or used after it was     *)
(* freed, and the secrets that the code says it no longer needs are gone.  *)
(*                                                                         *)
(* The argument goes from call to call.  An assertion about the memory     *)
(* says which blocks are live, which may be null but were not freed, and   *)
(* in which blocks a secret may be; each call leads from one assertion to  *)
(* another, and so does each function of the program that makes them.  The *)
(* invariant has one assertion for each label of the program.              *)
(***************************************************************************)
EXTENDS Heap, TLAPS

-----------------------------------------------------------------------------
(* Assertions about the memory *)

\* No mistake was made, no secret of F stayed behind, the blocks of L are live,
\* those of N are live or were never allocated, and a secret of F is in a
\* block only where W says so.
At(F, L, N, W) ==
    { m \in Memory :
        /\ ~m.fault
        /\ \A x \in F : x \notin m.residue
        /\ \A b \in Blocks \intersect L : m.state[b] = "live"
        /\ \A b \in Blocks \intersect N : m.state[b] # "freed"
        /\ \A b \in Blocks : \A x \in F :
              x \in m.holds[b] => m.state[b] # "null" /\ << b, x >> \in W }

\* The calls lead from each memory of P to one of Q.
Leads(P, calls, Q) == \A m \in P : m \in Memory /\ calls[m] \in Q

\* W has no secret of F in the block.
Clean(block, F, W) == \A x \in F : << block, x >> \notin W

\* W2 has what W has in the other blocks.
KeepsOthers(block, W, W2) ==
    \A c, x : << c, x >> \in W /\ c # block => << c, x >> \in W2

\* The blocks in which a keyfile is put together, and taken apart.
Working == {"deserialized_secrets", "cbor", "serialized", "key_bytes"}

Reading == {"decrypted", "deserialized_secrets"}

\* What the command line leaves: blocks, and where the secrets are.
Kept == {"invocation", "invocation.passphrase"}

Typed == { << "invocation.passphrase", "passphrase" >>,
           << "invocation.pin", "pin" >> }

\* Blocks that may never be allocated and that are asked about.
Unset ==
    {"invocation.pin", "authenticator_pin", "credential_id", "secret"}

-----------------------------------------------------------------------------
(* The calls *)

\* The parts of a memory have their types.
LEMMA MemoryAgain ==
    ASSUME NEW m \in Memory
    PROVE  /\ m.state \in [Blocks -> {"null", "live", "freed"}]
           /\ m.holds \in [Blocks -> SUBSET Secrets]
           /\ m.residue \in SUBSET Secrets
           /\ m.fault \in BOOLEAN
BY DEF Memory

\* ... and parts that have theirs make a memory.
LEMMA InMemory ==
    ASSUME NEW state \in [Blocks -> {"null", "live", "freed"}],
           NEW holds \in [Blocks -> SUBSET Secrets],
           NEW residue \in SUBSET Secrets, NEW fault \in BOOLEAN
    PROVE  [ state |-> state, holds |-> holds, residue |-> residue,
             fault |-> fault ] \in Memory
BY DEF Memory

\* A memory is At where its parts are.
LEMMA IsAt ==
    ASSUME NEW F, NEW L, NEW N, NEW W,
           NEW state \in [Blocks -> {"null", "live", "freed"}],
           NEW holds \in [Blocks -> SUBSET Secrets],
           NEW residue \in SUBSET Secrets,
           \A x \in F : x \notin residue,
           \A b \in Blocks \intersect L : state[b] = "live",
           \A b \in Blocks \intersect N : state[b] # "freed",
           \A b \in Blocks : \A x \in F :
              x \in holds[b] => state[b] # "null" /\ << b, x >> \in W
    PROVE  [ state |-> state, holds |-> holds, residue |-> residue,
             fault |-> FALSE ] \in At(F, L, N, W)
<1> DEFINE m == [ state |-> state, holds |-> holds, residue |-> residue,
                  fault |-> FALSE ]
<1>1. m \in Memory
  BY InMemory
<1>2. m.state = state /\ m.holds = holds /\ m.residue = residue
      /\ m.fault = FALSE
  OBVIOUS
<1> HIDE DEF m
<1>3. m \in At(F, L, N, W)
  BY <1>1, <1>2 DEF At
<1> QED BY <1>3 DEF m

\* A block that is allocated is live, and has what is put there.  Nothing is
\* lost with the block that it had before.
LEMMA MallocLeads ==
    ASSUME NEW F, NEW L, NEW N, NEW W, NEW L2, NEW N2, NEW W2,
           NEW b \in Blocks, NEW s \in SUBSET Secrets,
           Clean(b, F, W),
           L2 \subseteq L \union {b}, N2 \subseteq N \union {b},
           W \subseteq W2, \A x \in F \intersect s : << b, x >> \in W2
    PROVE  Leads(At(F, L, N, W), malloc(b, s), At(F, L2, N2, W2))
<1> SUFFICES ASSUME NEW m \in At(F, L, N, W)
             PROVE  m \in Memory /\ malloc(b, s)[m] \in At(F, L2, N2, W2)
  BY DEF Leads
<1>1. m \in Memory
  BY DEF At
<1> DEFINE state == [m.state EXCEPT ![b] = "live"]
           holds == [m.holds EXCEPT ![b] = s]
           residue == m.residue \union m.holds[b]
<1>2. malloc(b, s)[m] = [ state |-> state, holds |-> holds,
                          residue |-> residue, fault |-> m.fault ]
  BY <1>1 DEF malloc, Memory
<1>3. m.fault = FALSE
  BY <1>1, MemoryAgain DEF At
<1>4. /\ state \in [Blocks -> {"null", "live", "freed"}]
      /\ holds \in [Blocks -> SUBSET Secrets]
      /\ residue \in SUBSET Secrets
  BY <1>1, MemoryAgain
<1>5. \A x \in F : x \notin residue
  BY <1>1 DEF At, Clean
<1>6. /\ \A c \in Blocks \intersect L2 : state[c] = "live"
      /\ \A c \in Blocks \intersect N2 : state[c] # "freed"
  BY <1>1, MemoryAgain DEF At
<1>7. \A c \in Blocks : \A x \in F :
         x \in holds[c] => state[c] # "null" /\ << c, x >> \in W2
  BY <1>1, MemoryAgain DEF At
<1> HIDE DEF state, holds, residue
<1>8. [ state |-> state, holds |-> holds, residue |-> residue,
        fault |-> FALSE ] \in At(F, L2, N2, W2)
  BY <1>4, <1>5, <1>6, <1>7, IsAt
<1> QED BY <1>1, <1>2, <1>3, <1>8

\* A block that is zeroed has no secret.
LEMMA ZeroLeads ==
    ASSUME NEW F, NEW L, NEW N, NEW W, NEW L2, NEW N2, NEW W2,
           NEW b \in Blocks,
           b \in L, L2 \subseteq L, N2 \subseteq N, KeepsOthers(b, W, W2)
    PROVE  Leads(At(F, L, N, W), zero(b), At(F, L2, N2, W2))
<1> SUFFICES ASSUME NEW m \in At(F, L, N, W)
             PROVE  m \in Memory /\ zero(b)[m] \in At(F, L2, N2, W2)
  BY DEF Leads
<1>1. m \in Memory
  BY DEF At
<1> DEFINE holds == [m.holds EXCEPT ![b] = {}]
<1>2. zero(b)[m] = [ state |-> m.state, holds |-> holds,
                     residue |-> m.residue,
                     fault |-> m.fault \/ m.state[b] # "live" ]
  BY <1>1 DEF zero, Memory
<1>3. (m.fault \/ m.state[b] # "live") = FALSE
  BY <1>1, MemoryAgain DEF At
<1>4. holds \in [Blocks -> SUBSET Secrets]
  BY <1>1, MemoryAgain
<1>5. /\ \A x \in F : x \notin m.residue
      /\ \A c \in Blocks \intersect L2 : m.state[c] = "live"
      /\ \A c \in Blocks \intersect N2 : m.state[c] # "freed"
  BY DEF At
<1>6. \A c \in Blocks : \A x \in F :
         x \in holds[c] => m.state[c] # "null" /\ << c, x >> \in W2
  BY <1>1, MemoryAgain DEF At, KeepsOthers
<1> HIDE DEF holds
<1>7. [ state |-> m.state, holds |-> holds, residue |-> m.residue,
        fault |-> FALSE ] \in At(F, L2, N2, W2)
  BY <1>1, <1>4, <1>5, <1>6, IsAt, MemoryAgain
<1> QED BY <1>1, <1>2, <1>3, <1>7

\* A block that is freed is not live, and it leaves no secret behind if it had
\* none.
LEMMA FreeLeads ==
    ASSUME NEW F, NEW L, NEW N, NEW W, NEW L2, NEW N2, NEW W2,
           NEW b \in Blocks,
           b \in L, Clean(b, F, W),
           L2 \subseteq L \ {b}, N2 \subseteq N \ {b}, W \subseteq W2
    PROVE  Leads(At(F, L, N, W), free(b), At(F, L2, N2, W2))
<1> SUFFICES ASSUME NEW m \in At(F, L, N, W)
             PROVE  m \in Memory /\ free(b)[m] \in At(F, L2, N2, W2)
  BY DEF Leads
<1>1. m \in Memory
  BY DEF At
<1> DEFINE state == [m.state EXCEPT ![b] = "freed"]
           holds == [m.holds EXCEPT ![b] = {}]
           residue == m.residue \union m.holds[b]
<1>2. free(b)[m] = [ state |-> state, holds |-> holds, residue |-> residue,
                     fault |-> m.fault \/ m.state[b] # "live" ]
  BY <1>1 DEF free, Memory
<1>3. (m.fault \/ m.state[b] # "live") = FALSE
  BY <1>1, MemoryAgain DEF At
<1>4. /\ state \in [Blocks -> {"null", "live", "freed"}]
      /\ holds \in [Blocks -> SUBSET Secrets]
      /\ residue \in SUBSET Secrets
  BY <1>1, MemoryAgain
<1>5. \A x \in F : x \notin residue
  BY <1>1 DEF At, Clean
<1>6. /\ \A c \in Blocks \intersect L2 : state[c] = "live"
      /\ \A c \in Blocks \intersect N2 : state[c] # "freed"
  BY <1>1, MemoryAgain DEF At
<1>7. \A c \in Blocks : \A x \in F :
         x \in holds[c] => state[c] # "null" /\ << c, x >> \in W2
  BY <1>1, MemoryAgain DEF At
<1> HIDE DEF state, holds, residue
<1>8. [ state |-> state, holds |-> holds, residue |-> residue,
        fault |-> FALSE ] \in At(F, L2, N2, W2)
  BY <1>4, <1>5, <1>6, <1>7, IsAt
<1> QED BY <1>1, <1>2, <1>3, <1>8

\* Only what is live is used.
LEMMA UseLeads ==
    ASSUME NEW F, NEW L, NEW N, NEW W, NEW L2, NEW N2, NEW W2,
           NEW b \in Blocks, b \in L,
           L2 \subseteq L, N2 \subseteq N, W \subseteq W2
    PROVE  Leads(At(F, L, N, W), use(b), At(F, L2, N2, W2))
<1> SUFFICES ASSUME NEW m \in At(F, L, N, W)
             PROVE  m \in Memory /\ use(b)[m] \in At(F, L2, N2, W2)
  BY DEF Leads
<1>1. m \in Memory
  BY DEF At
<1>2. use(b)[m] = [ state |-> m.state, holds |-> m.holds,
                    residue |-> m.residue,
                    fault |-> m.fault \/ m.state[b] # "live" ]
  BY <1>1 DEF use, Memory
<1>3. (m.fault \/ m.state[b] # "live") = FALSE
  BY <1>1, MemoryAgain DEF At
<1>5. /\ \A x \in F : x \notin m.residue
      /\ \A c \in Blocks \intersect L2 : m.state[c] = "live"
      /\ \A c \in Blocks \intersect N2 : m.state[c] # "freed"
      /\ \A c \in Blocks : \A x \in F :
            x \in m.holds[c] => m.state[c] # "null" /\ << c, x >> \in W2
  BY DEF At
<1>7. [ state |-> m.state, holds |-> m.holds, residue |-> m.residue,
        fault |-> FALSE ] \in At(F, L2, N2, W2)
  BY <1>1, <1>5, IsAt, MemoryAgain
<1> QED BY <1>1, <1>2, <1>3, <1>7

\* A pointer that is set to NULL is as if nothing had been allocated.
LEMMA NullLeads ==
    ASSUME NEW F, NEW L, NEW N, NEW W, NEW L2, NEW N2, NEW W2,
           NEW b \in Blocks,
           Clean(b, F, W),
           L2 \subseteq L \ {b}, N2 \subseteq N \union {b}, W \subseteq W2
    PROVE  Leads(At(F, L, N, W), null(b), At(F, L2, N2, W2))
<1> SUFFICES ASSUME NEW m \in At(F, L, N, W)
             PROVE  m \in Memory /\ null(b)[m] \in At(F, L2, N2, W2)
  BY DEF Leads
<1>1. m \in Memory
  BY DEF At
<1> DEFINE state == [m.state EXCEPT ![b] = "null"]
<1>2. null(b)[m] = [ state |-> state, holds |-> m.holds,
                     residue |-> m.residue, fault |-> m.fault ]
  BY <1>1 DEF null, Memory
<1>3. m.fault = FALSE
  BY <1>1, MemoryAgain DEF At
<1>4. state \in [Blocks -> {"null", "live", "freed"}]
  BY <1>1, MemoryAgain
<1>6. /\ \A x \in F : x \notin m.residue
      /\ \A c \in Blocks \intersect L2 : state[c] = "live"
      /\ \A c \in Blocks \intersect N2 : state[c] # "freed"
  BY <1>1, MemoryAgain DEF At
<1>7. \A c \in Blocks : \A x \in F :
         x \in m.holds[c] => state[c] # "null" /\ << c, x >> \in W2
  BY <1>1, MemoryAgain DEF At, Clean
<1> HIDE DEF state
<1>8. [ state |-> state, holds |-> m.holds, residue |-> m.residue,
        fault |-> FALSE ] \in At(F, L2, N2, W2)
  BY <1>1, <1>4, <1>6, <1>7, IsAt, MemoryAgain
<1> QED BY <1>1, <1>2, <1>3, <1>8

\* Calls that depend on a pointer find its block live, unless it was freed
\* before; a block that is not there has no secret.
LEMMA IfSetLeads ==
    ASSUME NEW F, NEW L, NEW N, NEW W, NEW L2, NEW N2, NEW W2,
           NEW b \in Blocks, b \in L \union N, NEW calls,
           Leads(At(F, L \union {b}, N, W), calls, At(F, L2, N2, W2)),
           L2 \subseteq L, N2 \subseteq N, KeepsOthers(b, W, W2)
    PROVE  Leads(At(F, L, N, W), if_set(b, calls), At(F, L2, N2, W2))
<1> SUFFICES ASSUME NEW m \in At(F, L, N, W)
             PROVE  /\ m \in Memory
                    /\ if_set(b, calls)[m] \in At(F, L2, N2, W2)
  BY DEF Leads
<1>1. m \in Memory
  BY DEF At
<1>2. if_set(b, calls)[m] = IF m.state[b] = "null" THEN m ELSE calls[m]
  BY <1>1 DEF if_set
<1>3. CASE m.state[b] = "null"
  <2>1. m \in At(F, L2, N2, W2)
    BY <1>3 DEF At, KeepsOthers
  <2> QED BY <1>1, <1>2, <1>3, <2>1
<1>4. CASE m.state[b] # "null"
  <2>1. m.state[b] = "live"
    BY <1>1, <1>4, MemoryAgain DEF At
  <2>2. m \in At(F, L \union {b}, N, W)
    BY <2>1 DEF At
  <2> QED BY <1>1, <1>2, <1>4, <2>2 DEF Leads
<1> QED BY <1>3, <1>4

\* Calls that depend on a pointer that is NULL find no secret in its block.
LEMMA IfNullLeads ==
    ASSUME NEW F, NEW L, NEW N, NEW W, NEW W1, NEW L2, NEW N2, NEW W2,
           NEW b \in Blocks, b \in N, NEW calls, KeepsOthers(b, W, W1),
           Leads(At(F, L, N, W1), calls, At(F, L2, N2, W2)),
           L2 \subseteq L \union {b}, N2 \subseteq N, W \subseteq W2
    PROVE  Leads(At(F, L, N, W), if_null(b, calls), At(F, L2, N2, W2))
<1> SUFFICES ASSUME NEW m \in At(F, L, N, W)
             PROVE  /\ m \in Memory
                    /\ if_null(b, calls)[m] \in At(F, L2, N2, W2)
  BY DEF Leads
<1>1. m \in Memory
  BY DEF At
<1>2. if_null(b, calls)[m] = IF m.state[b] = "null" THEN calls[m] ELSE m
  BY <1>1 DEF if_null
<1>3. CASE m.state[b] = "null"
  <2>1. m \in At(F, L, N, W1)
    BY <1>3 DEF At, KeepsOthers
  <2> QED BY <1>1, <1>2, <1>3, <2>1 DEF Leads
<1>4. CASE m.state[b] # "null"
  <2>1. m.state[b] = "live"
    BY <1>1, <1>4, MemoryAgain DEF At
  <2>2. m \in At(F, L2, N2, W2)
    BY <2>1 DEF At
  <2> QED BY <1>1, <1>2, <1>4, <2>2
<1> QED BY <1>3, <1>4

-----------------------------------------------------------------------------
(* Calls that follow each other *)

\* Calls follow each other: the second begin where the first have led.
LEMMA Then ==
    ASSUME NEW P, NEW Q, NEW R, NEW f, NEW g, Leads(P, f, Q), Leads(Q, g, R)
    PROVE  Leads(P, f ** g, R)
BY DEF Leads, **

\* Three of them, and more.
LEMMA Then3 ==
    ASSUME NEW P0, NEW P1, NEW P2, NEW P3, NEW f1, NEW f2, NEW f3,
           Leads(P0, f1, P1), Leads(P1, f2, P2), Leads(P2, f3, P3)
    PROVE  Leads(P0, f1 ** f2 ** f3, P3)
<1>1. Leads(P0, f1 ** f2, P2)
  BY Then
<1> QED BY <1>1, Then

LEMMA Then4 ==
    ASSUME NEW P0, NEW P1, NEW P2, NEW P3, NEW P4,
           NEW f1, NEW f2, NEW f3, NEW f4,
           Leads(P0, f1, P1), Leads(P1, f2, P2), Leads(P2, f3, P3),
           Leads(P3, f4, P4)
    PROVE  Leads(P0, f1 ** f2 ** f3 ** f4, P4)
<1>1. Leads(P0, f1 ** f2 ** f3, P3)
  BY Then3
<1> QED BY <1>1, Then

LEMMA Then5 ==
    ASSUME NEW P0, NEW P1, NEW P2, NEW P3, NEW P4, NEW P5,
           NEW f1, NEW f2, NEW f3, NEW f4, NEW f5,
           Leads(P0, f1, P1), Leads(P1, f2, P2), Leads(P2, f3, P3),
           Leads(P3, f4, P4), Leads(P4, f5, P5)
    PROVE  Leads(P0, f1 ** f2 ** f3 ** f4 ** f5, P5)
<1>1. Leads(P0, f1 ** f2 ** f3 ** f4, P4)
  BY Then4
<1> QED BY <1>1, Then

LEMMA Then6 ==
    ASSUME NEW P0, NEW P1, NEW P2, NEW P3, NEW P4, NEW P5, NEW P6,
           NEW f1, NEW f2, NEW f3, NEW f4, NEW f5, NEW f6,
           Leads(P0, f1, P1), Leads(P1, f2, P2), Leads(P2, f3, P3),
           Leads(P3, f4, P4), Leads(P4, f5, P5), Leads(P5, f6, P6)
    PROVE  Leads(P0, f1 ** f2 ** f3 ** f4 ** f5 ** f6, P6)
<1>1. Leads(P0, f1 ** f2 ** f3 ** f4 ** f5, P5)
  BY Then5
<1> QED BY <1>1, Then

-----------------------------------------------------------------------------
(* The functions that allocate and free *)

\* A field is zeroed before it is freed, so whatever was there is gone.
LEMMA free_secret_fieldLeads ==
    ASSUME NEW F, NEW L, NEW N, NEW W, NEW L2, NEW N2, NEW W2,
           NEW b \in Blocks, b \in L \union N,
           L2 \subseteq L \ {b}, N2 \subseteq N \ {b}, KeepsOthers(b, W, W2)
    PROVE  Leads(At(F, L, N, W), free_secret_field(b), At(F, L2, N2, W2))
<1> DEFINE zeroed == { p \in W2 : p[1] # b }
<1>1. KeepsOthers(b, W, zeroed) /\ Clean(b, F, zeroed)
  BY DEF KeepsOthers, Clean
<1>2. zeroed \subseteq W2
  OBVIOUS
<1> HIDE DEF zeroed
<1>3. Leads(At(F, L \union {b}, N, W), zero(b),
            At(F, L \union {b}, N, zeroed))
  BY <1>1, ZeroLeads
<1>4. Leads(At(F, L \union {b}, N, zeroed), free(b), At(F, L2, N2, W2))
  BY <1>1, <1>2, FreeLeads
<1>5. Leads(At(F, L \union {b}, N, W), zero(b) ** free(b),
            At(F, L2, N2, W2))
  BY <1>3, <1>4, Then
<1> QED BY <1>5, IfSetLeads DEF free_secret_field

\* The passphrase is copied into the specification of the key.
LEMMA make_key_specLeads ==
    ASSUME NEW F, NEW L, NEW N, NEW W, NEW L2, NEW W2,
           "invocation.passphrase" \in L, Clean("key_spec", F, W),
           Clean("key_spec.passphrase", F, W),
           L2 \subseteq L \union {"key_spec", "key_spec.passphrase"},
           W \subseteq W2, << "key_spec.passphrase", "passphrase" >> \in W2
    PROVE  Leads(At(F, L, N, W), make_key_spec, At(F, L2, N, W2))
<1>0. /\ {"invocation.passphrase", "key_spec", "key_spec.passphrase"}
            \subseteq Blocks
      /\ {"passphrase"} \subseteq Secrets
  BY DEF Blocks, Secrets
<1>1. Leads(At(F, L, N, W), use("invocation.passphrase"), At(F, L, N, W))
  BY <1>0, UseLeads
<1>2. Leads(At(F, L, N, W), malloc("key_spec", {}),
            At(F, L \union {"key_spec"}, N, W))
  BY <1>0, MallocLeads
<1>3. Leads(At(F, L \union {"key_spec"}, N, W),
            malloc("key_spec.passphrase", {"passphrase"}), At(F, L2, N, W2))
  BY <1>0, MallocLeads
<1> QED BY <1>1, <1>2, <1>3, Then3 DEF make_key_spec

\* The key is where it was derived.
LEMMA derive_keyLeads ==
    ASSUME NEW F, NEW L, NEW N, NEW W, NEW L2, NEW W2,
           "key_spec.passphrase" \in L, Clean("key_bytes", F, W),
           L2 \subseteq L \union {"key_bytes"},
           W \subseteq W2, "key" \in F => << "key_bytes", "key" >> \in W2
    PROVE  Leads(At(F, L, N, W), derive_key, At(F, L2, N, W2))
<1>0. {"key_spec.passphrase", "key_bytes"} \subseteq Blocks
      /\ {"key"} \subseteq Secrets
  BY DEF Blocks, Secrets
<1>1. Leads(At(F, L, N, W), use("key_spec.passphrase"), At(F, L, N, W))
  BY <1>0, UseLeads
<1>2. Leads(At(F, L, N, W), malloc("key_bytes", {"key"}), At(F, L2, N, W2))
  BY <1>0, MallocLeads
<1> QED BY <1>1, <1>2, Then DEF derive_key

\* The copy of the passphrase goes with the specification of the key.
LEMMA free_key_specLeads ==
    ASSUME NEW F, NEW L, NEW N, NEW W, NEW L2, NEW N2, NEW W2,
           {"key_spec", "key_spec.passphrase"} \subseteq L,
           Clean("key_spec", F, W2), KeepsOthers("key_spec.passphrase", W, W2),
           L2 \subseteq L \ {"key_spec", "key_spec.passphrase"},
           N2 \subseteq N \ {"key_spec", "key_spec.passphrase"}
    PROVE  Leads(At(F, L, N, W), free_key_spec, At(F, L2, N2, W2))
<1> DEFINE L1 == L \ {"key_spec.passphrase"}
           N1 == N \ {"key_spec.passphrase"}
<1>0. {"key_spec", "key_spec.passphrase"} \subseteq Blocks
  BY DEF Blocks
<1>1. Leads(At(F, L, N, W), free_secret_field("key_spec.passphrase"),
            At(F, L1, N1, W2))
  BY <1>0, free_secret_fieldLeads
<1>2. Leads(At(F, L1, N1, W2), free("key_spec"), At(F, L2, N2, W2))
  BY <1>0, FreeLeads
<1> QED BY <1>1, <1>2, Then DEF free_key_spec

\* The key is zeroed before it is freed.
LEMMA free_keyLeads ==
    ASSUME NEW F, NEW L, NEW N, NEW W, NEW L2, NEW N2, NEW W2,
           "key_bytes" \in L,
           Clean("key_bytes", F, W2), KeepsOthers("key_bytes", W, W2),
           L2 \subseteq L \ {"key_bytes"}, N2 \subseteq N \ {"key_bytes"}
    PROVE  Leads(At(F, L, N, W), free_key, At(F, L2, N2, W2))
<1>0. "key_bytes" \in Blocks
  BY DEF Blocks
<1>1. Leads(At(F, L, N, W), zero("key_bytes"), At(F, L, N, W2))
  BY <1>0, ZeroLeads
<1>2. Leads(At(F, L, N, W2), free("key_bytes"), At(F, L2, N2, W2))
  BY <1>0, FreeLeads
<1> QED BY <1>1, <1>2, Then DEF free_key

\* The deserialized secrets hold none of those that are followed.
LEMMA free_secretsLeads ==
    ASSUME NEW F, NEW L, NEW N, NEW W, NEW L2, NEW N2,
           "deserialized_secrets" \in L, Clean("deserialized_secrets", F, W),
           L2 \subseteq L \ {"deserialized_secrets"},
           N2 \subseteq N \ {"deserialized_secrets"}
    PROVE  Leads(At(F, L, N, W), free_secrets, At(F, L2, N2, W))
<1>0. "deserialized_secrets" \in Blocks
  BY DEF Blocks
<1>1. KeepsOthers("deserialized_secrets", W, W)
  BY DEF KeepsOthers
<1>2. Leads(At(F, L, N, W), zero("deserialized_secrets"), At(F, L, N, W))
  BY <1>0, <1>1, ZeroLeads
<1>3. Leads(At(F, L, N, W), free("deserialized_secrets"),
            At(F, L2, N2, W))
  BY <1>0, FreeLeads
<1> QED BY <1>2, <1>3, Then DEF free_secrets

\* The secret may not be there when the structure for it is freed.
LEMMA free_secretLeads ==
    ASSUME NEW F, NEW L, NEW N, NEW W, NEW L2, NEW N2,
           "secret_t" \in L, "secret" \in L \union N,
           Clean("secret", F, W), Clean("secret_t", F, W),
           L2 \subseteq L \ {"secret", "secret_t"},
           N2 \subseteq N \ {"secret", "secret_t"}
    PROVE  Leads(At(F, L, N, W), free_secret, At(F, L2, N2, W))
<1> DEFINE L1 == L \ {"secret"}
           N1 == N \ {"secret"}
<1>0. {"secret", "secret_t"} \subseteq Blocks
  BY DEF Blocks
<1>1. KeepsOthers("secret", W, W)
  BY DEF KeepsOthers
<1>2. Leads(At(F, L \union {"secret"}, N, W), free("secret"),
            At(F, L1, N1, W))
  BY <1>0, FreeLeads
<1>3. Leads(At(F, L, N, W), if_set("secret", free("secret")),
            At(F, L1, N1, W))
  BY <1>0, <1>1, <1>2, IfSetLeads
<1>4. Leads(At(F, L1, N1, W), free("secret_t"), At(F, L2, N2, W))
  BY <1>0, FreeLeads
<1> QED BY <1>3, <1>4, Then DEF free_secret

\* The passphrase goes with the invocation; the PIN stays.
LEMMA free_invocationLeads ==
    ASSUME NEW F, NEW L, NEW N, NEW W, NEW L2, NEW N2, NEW W2,
           "invocation" \in L, "invocation.passphrase" \in L \union N,
           Clean("invocation", F, W2),
           KeepsOthers("invocation.passphrase", W, W2),
           L2 \subseteq L \ {"invocation", "invocation.passphrase"},
           N2 \subseteq N \ {"invocation", "invocation.passphrase"}
    PROVE  Leads(At(F, L, N, W), free_invocation, At(F, L2, N2, W2))
<1> DEFINE L1 == L \ {"invocation.passphrase"}
           N1 == N \ {"invocation.passphrase"}
<1>0. {"invocation", "invocation.passphrase"} \subseteq Blocks
  BY DEF Blocks
<1>1. Leads(At(F, L, N, W), free_secret_field("invocation.passphrase"),
            At(F, L1, N1, W2))
  BY <1>0, free_secret_fieldLeads
<1>2. Leads(At(F, L1, N1, W2), free("invocation"), At(F, L2, N2, W2))
  BY <1>0, FreeLeads
<1> QED BY <1>1, <1>2, Then DEF free_invocation

\* The parameters are freed with whatever they have of their four fields, and
\* the copy of the PIN is gone.
LEMMA free_parametersLeads ==
    ASSUME NEW F, NEW L, NEW N, NEW W, NEW L2, NEW N2, NEW W2,
           "params" \in L, ParamsBlocks \subseteq L \union N,
           Clean("params", F, W2), KeepsOthers("authenticator_pin", W, W2),
           L2 \subseteq L \ ParamsBlocks, N2 \subseteq N \ ParamsBlocks
    PROVE  Leads(At(F, L, N, W), free_parameters, At(F, L2, N2, W2))
<1> DEFINE L1 == L \ {"relying_party_id"}   N1 == N \ {"relying_party_id"}
           L3 == L1 \ {"credential_id"}     N3 == N1 \ {"credential_id"}
           L4 == L3 \ {"salt"}              N4 == N3 \ {"salt"}
           L5 == L4 \ {"authenticator_pin"} N5 == N4 \ {"authenticator_pin"}
<1>0. ParamsBlocks \subseteq Blocks
      /\ ParamsBlocks = { "params", "relying_party_id", "credential_id",
                          "salt", "authenticator_pin" }
  BY DEF Blocks, ParamsBlocks
<1>1. \A b : KeepsOthers(b, W, W)
  BY DEF KeepsOthers
<1>2. Leads(At(F, L, N, W), use("params"), At(F, L, N, W))
  BY <1>0, UseLeads
<1>3. Leads(At(F, L, N, W), free_secret_field("relying_party_id"),
            At(F, L1, N1, W))
  BY <1>0, <1>1, free_secret_fieldLeads
<1>4. Leads(At(F, L1, N1, W), free_secret_field("credential_id"),
            At(F, L3, N3, W))
  BY <1>0, <1>1, free_secret_fieldLeads
<1>5. Leads(At(F, L3, N3, W), free_secret_field("salt"), At(F, L4, N4, W))
  BY <1>0, <1>1, free_secret_fieldLeads
<1>6. Leads(At(F, L4, N4, W), free_secret_field("authenticator_pin"),
            At(F, L5, N5, W2))
  BY <1>0, free_secret_fieldLeads
<1>7. Leads(At(F, L5, N5, W2), free("params"), At(F, L2, N2, W2))
  BY <1>0, FreeLeads
<1> HIDE DEF L1, N1, L3, N3, L4, N4, L5, N5
<1> QED BY <1>2, <1>3, <1>4, <1>5, <1>6, <1>7, Then6 DEF free_parameters

\* A device is open when it is closed.
LEMMA close_and_free_deviceLeads ==
    ASSUME NEW F, NEW L, NEW N, NEW W, NEW L2, NEW N2,
           "device" \in L, Clean("device", F, W),
           L2 \subseteq L \ {"device"}, N2 \subseteq N \ {"device"}
    PROVE  Leads(At(F, L, N, W), close_and_free_device_ignoring_errors,
                 At(F, L2, N2, W))
<1>0. "device" \in Blocks
  BY DEF Blocks
<1>1. Leads(At(F, L, N, W), use("device"), At(F, L, N, W))
  BY <1>0, UseLeads
<1>2. Leads(At(F, L, N, W), free("device"), At(F, L2, N2, W))
  BY <1>0, FreeLeads
<1> QED BY <1>1, <1>2, Then DEF close_and_free_device_ignoring_errors

\* What is known of a device holds no secret.
LEMMA free_device_infoLeads ==
    ASSUME NEW F, NEW L, NEW N, NEW W, NEW L2, NEW N2,
           "device_info" \in L, Clean("device_info", F, W),
           L2 \subseteq L \ {"device_info"}, N2 \subseteq N \ {"device_info"}
    PROVE  Leads(At(F, L, N, W), free_device_info, At(F, L2, N2, W))
BY FreeLeads DEF Blocks, free_device_info

\* A device that was opened is live, with what is known of it.
LEMMA get_deviceLeads ==
    ASSUME NEW F, NEW L, NEW N, NEW W, NEW L2,
           Clean("device", F, W), Clean("device_info", F, W),
           L2 \subseteq L \union {"device", "device_info"}
    PROVE  Leads(At(F, L, N, W), get_device, At(F, L2, N, W))
<1>0. {"device", "device_info"} \subseteq Blocks
  BY DEF Blocks
<1>1. Leads(At(F, L, N, W), malloc("device", {}),
            At(F, L \union {"device"}, N, W))
  BY <1>0, MallocLeads
<1>2. Leads(At(F, L \union {"device"}, N, W), malloc("device_info", {}),
            At(F, L2, N, W))
  BY <1>0, MallocLeads
<1> QED BY <1>1, <1>2, Then DEF get_device

\* The passphrase and the PIN of the command line are zeroed, if there is one.
LEMMA zero_invocationLeads ==
    ASSUME NEW F, NEW L, NEW N, NEW W, NEW W1, NEW W2,
           "invocation.passphrase" \in L, "invocation.pin" \in N,
           KeepsOthers("invocation.passphrase", W, W1),
           KeepsOthers("invocation.pin", W1, W2)
    PROVE  Leads(At(F, L, N, W), zero_invocation, At(F, L, N, W2))
<1>0. {"invocation.passphrase", "invocation.pin"} \subseteq Blocks
  BY DEF Blocks
<1>1. Leads(At(F, L, N, W), zero("invocation.passphrase"), At(F, L, N, W1))
  BY <1>0, ZeroLeads
<1>2. Leads(At(F, L \union {"invocation.pin"}, N, W1),
            zero("invocation.pin"), At(F, L, N, W2))
  BY <1>0, ZeroLeads
<1>3. Leads(At(F, L, N, W1), if_set("invocation.pin", zero("invocation.pin")),
            At(F, L, N, W2))
  BY <1>0, <1>2, IfSetLeads
<1> QED BY <1>1, <1>3, Then DEF zero_invocation

\* An enrolment puts its keyfile together and leaves nothing but the cleartext,
\* where the key is not among the secrets that are followed: it is freed as it
\* is (serialization.c:119).
LEMMA build_deserialized_cleartextLeads ==
    ASSUME NEW F, NEW L, NEW N, NEW W,
           {"credential_id", "salt", "key_spec.passphrase"} \subseteq L,
           L \intersect Working = {}, N \intersect Working = {},
           \A b \in Working \union {"cleartext"} : Clean(b, F, W),
           "enrolment" \notin F, "key" \notin F
    PROVE  Leads(At(F, L, N, W), build_deserialized_cleartext,
                 At(F, L \union {"cleartext"}, N, W))
<1> DEFINE L1 == L \union {"cleartext"}
           L2 == L1 \union {"deserialized_secrets"}
           L3 == L2 \union {"cbor"}
           L4 == L1 \union {"cbor"}
           L5 == L4 \union {"serialized"}
           L6 == L5 \union {"key_bytes"}
           one == malloc("cleartext", {}) ** use("credential_id")
                  ** use("salt")
                  ** malloc("deserialized_secrets", {"enrolment"})
                  ** malloc("cbor", {"enrolment"}) ** free_secrets
           two == one ** malloc("serialized", {"enrolment"}) ** derive_key
                  ** free("key_bytes") ** zero("serialized")
                  ** free("serialized")
<1>0. /\ {"credential_id", "salt", "cleartext", "deserialized_secrets",
          "cbor", "serialized", "key_bytes"} \subseteq Blocks
      /\ {"enrolment"} \subseteq Secrets
  BY DEF Blocks, ParamsBlocks, Secrets
<1>1. Leads(At(F, L, N, W), malloc("cleartext", {}), At(F, L1, N, W))
  BY <1>0, MallocLeads
<1>2. Leads(At(F, L1, N, W), use("credential_id"), At(F, L1, N, W))
  BY <1>0, UseLeads
<1>3. Leads(At(F, L1, N, W), use("salt"), At(F, L1, N, W))
  BY <1>0, UseLeads
<1>4. Leads(At(F, L1, N, W), malloc("deserialized_secrets", {"enrolment"}),
            At(F, L2, N, W))
  BY <1>0, MallocLeads DEF Working
<1>5. Leads(At(F, L2, N, W), malloc("cbor", {"enrolment"}), At(F, L3, N, W))
  BY <1>0, MallocLeads DEF Working
<1>6. Leads(At(F, L3, N, W), free_secrets, At(F, L4, N, W))
  BY <1>0, free_secretsLeads DEF Working
<1>7. Leads(At(F, L4, N, W), malloc("serialized", {"enrolment"}),
            At(F, L5, N, W))
  BY <1>0, MallocLeads DEF Working
<1>8. Leads(At(F, L5, N, W), derive_key, At(F, L6, N, W))
  BY derive_keyLeads DEF Working
<1>9. Leads(At(F, L6, N, W), free("key_bytes"), At(F, L5, N, W))
  BY <1>0, FreeLeads DEF Working
<1>10. Leads(At(F, L5, N, W), zero("serialized"), At(F, L5, N, W))
  BY <1>0, ZeroLeads DEF KeepsOthers
<1>11. Leads(At(F, L5, N, W), free("serialized"), At(F, L4, N, W))
  BY <1>0, FreeLeads DEF Working
<1>12. Leads(At(F, L4, N, W), free("cbor"), At(F, L1, N, W))
  BY <1>0, FreeLeads DEF Working
<1> HIDE DEF L1, L2, L3, L4, L5, L6
<1>13. Leads(At(F, L, N, W), one, At(F, L4, N, W))
  BY <1>1, <1>2, <1>3, <1>4, <1>5, <1>6, Then6
<1> HIDE DEF one
<1>14. Leads(At(F, L, N, W), two, At(F, L4, N, W))
  BY <1>7, <1>8, <1>9, <1>10, <1>11, <1>13, Then6
<1> HIDE DEF two
<1>15. Leads(At(F, L, N, W), two ** free("cbor"), At(F, L1, N, W))
  BY <1>12, <1>14, Then
<1> QED BY <1>15 DEF build_deserialized_cleartext, one, two, L1

\* generate takes its keyfile apart and leaves the parameters, but for the PIN.
LEMMA build_authenticator_parametersLeads ==
    ASSUME NEW F, NEW L, NEW N, NEW W, "cleartext" \in L,
           L \intersect Reading = {}, N \intersect Reading = {},
           \A b \in Reading \union ParamsBlocks : Clean(b, F, W),
           "enrolment" \notin F
    PROVE  Leads(At(F, L, N, W), build_authenticator_parameters,
                 At(F, L \union (ParamsBlocks \ {"authenticator_pin"}), N, W))
<1> DEFINE L1 == L \union {"decrypted"}
           L2 == L1 \union {"deserialized_secrets"}
           L3 == L \union {"deserialized_secrets"}
           L4 == L3 \union {"params"}
           L5 == L4 \union {"credential_id"}
           L6 == L5 \union {"salt"}
           L7 == L6 \union {"relying_party_id"}
           L8 == L \union (ParamsBlocks \ {"authenticator_pin"})
           one == use("cleartext") ** malloc("decrypted", {"enrolment"})
                  ** malloc("deserialized_secrets", {"enrolment"})
                  ** free("decrypted") ** malloc("params", {})
                  ** malloc("credential_id", {"enrolment"})
<1>0. /\ {"cleartext", "decrypted", "deserialized_secrets", "params",
          "credential_id", "salt", "relying_party_id"} \subseteq Blocks
      /\ {"enrolment"} \subseteq Secrets
  BY DEF Blocks, ParamsBlocks, Secrets
<1>1. Leads(At(F, L, N, W), use("cleartext"), At(F, L, N, W))
  BY <1>0, UseLeads
<1>2. Leads(At(F, L, N, W), malloc("decrypted", {"enrolment"}),
            At(F, L1, N, W))
  BY <1>0, MallocLeads DEF Reading
<1>3. Leads(At(F, L1, N, W), malloc("deserialized_secrets", {"enrolment"}),
            At(F, L2, N, W))
  BY <1>0, MallocLeads DEF Reading
<1>4. Leads(At(F, L2, N, W), free("decrypted"), At(F, L3, N, W))
  BY <1>0, FreeLeads DEF Reading
<1>5. Leads(At(F, L3, N, W), malloc("params", {}), At(F, L4, N, W))
  BY <1>0, MallocLeads DEF ParamsBlocks
<1>6. Leads(At(F, L4, N, W), malloc("credential_id", {"enrolment"}),
            At(F, L5, N, W))
  BY <1>0, MallocLeads DEF ParamsBlocks
<1>7. Leads(At(F, L5, N, W), malloc("salt", {"enrolment"}), At(F, L6, N, W))
  BY <1>0, MallocLeads DEF ParamsBlocks
<1>8. Leads(At(F, L6, N, W), malloc("relying_party_id", {"enrolment"}),
            At(F, L7, N, W))
  BY <1>0, MallocLeads DEF ParamsBlocks
<1>9. Leads(At(F, L7, N, W), free_secrets, At(F, L8, N, W))
  BY free_secretsLeads DEF Reading, ParamsBlocks
<1> HIDE DEF L1, L2, L3, L4, L5, L6, L7, L8
<1>10. Leads(At(F, L, N, W), one, At(F, L5, N, W))
  BY <1>1, <1>2, <1>3, <1>4, <1>5, <1>6, Then6
<1> HIDE DEF one
<1>11. Leads(At(F, L, N, W),
             one ** malloc("salt", {"enrolment"})
             ** malloc("relying_party_id", {"enrolment"}) ** free_secrets,
             At(F, L8, N, W))
  BY <1>7, <1>8, <1>9, <1>10, Then4
<1> QED BY <1>11 DEF build_authenticator_parameters, one, L8

-----------------------------------------------------------------------------
(* The invariant *)

\* The memory of the process where the subcommand begins.
AtStart(F) == At(F, Kept, Unset, Typed)

\* What enrol has when the credential is there.
Lent ==
    Kept \union { "device_info", "params", "salt", "relying_party_id",
                  "credential_id" }

\* The secrets that enrol has to forget, and those that generate has to.
EnrolSecrets(options) ==
    {"passphrase", "pin"}
        \union ({"passphrase_file", "replaced"} \ LeftByOptions(options))

GenerateSecrets(options) ==
    {"passphrase", "key"}
        \union ({"passphrase_file", "replaced"} \ LeftByOptions(options))

\* Whether an option for the same thing is still to be looked at.
Ahead(options, i, same) ==
    \E j \in DOMAIN options : j >= i /\ options[j] \in same

\* The passphrase and the PIN are there from the last option for them on.
TypedBy(options, i) ==
    { p \in Typed :
        /\ p[2] = "passphrase" => ~Ahead(options, i, PassphraseOptions)
        /\ p[2] = "pin" => ~Ahead(options, i, PinOptions) }

\* The memory where an option is looked at.
AtOption(options, i) ==
    At(EnrolSecrets(options) \union GenerateSecrets(options), {"invocation"},
       Unset \union {"invocation.passphrase"}, TypedBy(options, i))

\* What generate has while it goes through the devices.
Held ==
    Kept \union { "devices_list", "cleartext", "params", "credential_id",
                  "salt", "relying_party_id" }

\* The PIN is in the parameters, too.
Copied == Typed \union { << "authenticator_pin", "pin" >> }

\* What the memory is like at each label.
Where(label, options) ==
    CASE label = "enrol" -> AtStart(EnrolSecrets(options))
      [] label = "enrol: params" ->
            At(EnrolSecrets(options),
               Kept \union {"device", "device_info"}, Unset,
               Typed)
      [] label = "enrol: create_credential" ->
            At(EnrolSecrets(options),
               Kept \union { "device", "device_info", "params", "salt",
                             "relying_party_id" }, Unset, Copied)
      [] label = "enrol: build" ->
            At(EnrolSecrets(options), Lent,
               {"invocation.pin", "authenticator_pin"}, Copied)
      [] label = "enrol: write" ->
            At(EnrolSecrets(options), Kept \union {"cleartext"}, {}, {})
      [] label = "generate" -> AtStart(GenerateSecrets(options))
      [] label = "generate: loop" ->
            At(GenerateSecrets(options), Held,
               {"authenticator_pin", "secret"}, Typed)
      [] label = "generate: request" ->
            At(GenerateSecrets(options),
               Held \union {"device", "device_info", "secret_t"},
               {"authenticator_pin", "secret"}, Typed)
      [] OTHER -> At({}, {}, {}, {})

\* A generate that found no device has zeroed the passphrase.
GivenUp ==
    pc = "returned" /\ status # EXIT_SUCCESS =>
        memory \in At(GenerateSecrets(argv), {}, {},
                      {<< "invocation.pin", "pin" >>})

\* While the options are looked at it is known which of them are still ahead.
Parsing ==
    pc = "getopt" =>
        /\ DOMAIN argv \subseteq Nat
        /\ optind \in Nat
        /\ memory \in AtOption(argv, optind)

Inv == memory \in Where(pc, argv) /\ GivenUp /\ Parsing

-----------------------------------------------------------------------------
(* The invariant is inductive *)

\* A step of the program leads where its calls do.
LEMMA StepLeads ==
    ASSUME NEW P, NEW Q, NEW calls, NEW label,
           memory \in P, Leads(P, calls, Q), Step(label, calls)
    PROVE  pc' = label /\ memory' \in Q
BY DEF Leads, Step

\* Wherever it is, no mistake was made.
LEMMA AtIsSound ==
    ASSUME NEW F, NEW L, NEW N, NEW W, NEW m \in At(F, L, N, W)
    PROVE  m \in At({}, {}, {}, {})
BY DEF At

\* A generate that gives up has another status than one that succeeds.
LEMMA StatusesApart ==
    /\ EXIT_NO_DEVICES # EXIT_SUCCESS
    /\ EXIT_NO_VALID_AUTHENTICATOR # EXIT_SUCCESS
BY DEF EXIT_NO_DEVICES, EXIT_NO_VALID_AUTHENTICATOR, EXIT_SUCCESS,
       EXIT_H_USER_ERROR_BITS

\* Where no secret was put.
LEMMA CleanBlocks ==
    /\ \A F, b : b \notin {"invocation.passphrase", "invocation.pin"}
                    => Clean(b, F, Typed)
    /\ \A F, b : b \notin {"invocation.passphrase", "invocation.pin",
                           "authenticator_pin"}
                    => Clean(b, F, Copied)
    /\ \A F, b : Clean(b, F, {})
BY DEF Clean, Typed, Copied

\* The device of the enrolment is opened, or is not there.
LEMMA EnrolGetDeviceStep == ASSUME Inv, EnrolGetDevice PROVE Inv'
<1> DEFINE P == AtStart(EnrolSecrets(argv))
           Q == Where("enrol: params", argv)
           R == At(EnrolSecrets(argv), Kept \union {"device"}, Unset, Typed)
<1>g. argv' = argv
  BY DEF EnrolGetDevice
<1>1. memory \in P
  BY DEF Inv, EnrolGetDevice, Where
<1>2. Leads(P, get_device, Q)
  BY get_deviceLeads, CleanBlocks DEF AtStart, Where
<1>3. Leads(Q, free_device_info, R)
  BY free_device_infoLeads, CleanBlocks DEF Where, Kept, Unset
<1>4. Leads(P, get_device ** free_device_info, R)
  BY <1>2, <1>3, Then
<1> HIDE DEF P, Q
<1>5. CASE Step("enrol: params", get_device)
  <2>1. pc' = "enrol: params" /\ memory' \in Q
    BY <1>1, <1>2, <1>5, StepLeads
  <2> QED BY <1>g, <2>1 DEF Inv, GivenUp, Parsing, Q
<1>6. CASE Exit(EXIT_AUTHENTICATOR_ERROR, get_device ** free_device_info)
  <2>1. pc' = "exited" /\ memory' \in R
    BY <1>1, <1>4, <1>6, StepLeads DEF Exit, Return
  <2>2. memory' \in At({}, {}, {}, {})
    BY <2>1, AtIsSound
  <2> QED BY <1>g, <2>1, <2>2 DEF Inv, GivenUp, Parsing, Where
<1> QED BY <1>5, <1>6 DEF EnrolGetDevice

\* The parameters are made, with or without a PIN, or the PIN is not right and
\* they are freed.
LEMMA EnrolParamsStep == ASSUME Inv, EnrolParams PROVE Inv'
<1> DEFINE L0 == Kept \union {"device", "device_info"}
           L1 == L0 \union {"params"}
           L2 == L1 \union {"salt"}
           L3 == L2 \union {"relying_party_id"}
           L4 == L3 \union {"authenticator_pin"}
           L5 == L4 \ {"device_info"}
           A(L, W) == At(EnrolSecrets(argv), L, Unset, W)
           Q == Where("enrol: create_credential", argv)
           R == At(EnrolSecrets(argv), Kept, {}, Typed)
           allocate == malloc("params", {}) ** malloc("salt", {"enrolment"})
                       ** malloc("relying_party_id", {"enrolment"})
<1>g. argv' = argv
  BY DEF EnrolParams
<1>0. /\ ParamsBlocks \union {"device_info"} \subseteq Blocks
      /\ {"enrolment"} \subseteq Secrets /\ {"pin"} \subseteq Secrets
  BY DEF Blocks, Secrets, ParamsBlocks
<1>1. memory \in A(L0, Typed)
  BY DEF Inv, EnrolParams, Where
<1>2. Leads(A(L0, Typed), malloc("params", {}), A(L1, Typed))
  BY <1>0, MallocLeads, CleanBlocks DEF ParamsBlocks
<1>3. Leads(A(L1, Typed), malloc("salt", {"enrolment"}), A(L2, Typed))
  BY <1>0, MallocLeads, CleanBlocks DEF ParamsBlocks, EnrolSecrets
<1>4. Leads(A(L2, Typed), malloc("relying_party_id", {"enrolment"}),
            A(L3, Typed))
  BY <1>0, MallocLeads, CleanBlocks DEF ParamsBlocks, EnrolSecrets
<1>5. Leads(A(L3, Typed), read_pin({"pin"}), A(L3, Copied))
  BY <1>0, MallocLeads, CleanBlocks
  DEF ParamsBlocks, read_pin, Copied
<1>6. Leads(A(L3, Typed), read_pin({}), A(L4, Typed))
  BY <1>0, MallocLeads, CleanBlocks DEF ParamsBlocks, read_pin
<1>7. Leads(A(L4, Typed), free_device_info, A(L5, Typed))
  BY free_device_infoLeads, CleanBlocks DEF Unset
<1>8. Leads(A(L5, Typed), free_parameters, R)
  <2>1. ParamsBlocks \subseteq L5 \union Unset /\ "params" \in L5
        /\ Kept \subseteq L5 \ ParamsBlocks
    BY DEF ParamsBlocks, Unset, Kept
  <2>2. KeepsOthers("authenticator_pin", Typed, Typed)
        /\ Clean("params", EnrolSecrets(argv), Typed)
    BY CleanBlocks DEF KeepsOthers
  <2> HIDE DEF L5
  <2> QED BY <2>1, <2>2, free_parametersLeads
<1> HIDE DEF L0, L1, L2, L3, L4, L5, A, R
<1>9. Leads(A(L0, Typed), allocate, A(L3, Typed))
  BY <1>2, <1>3, <1>4, Then3
<1>10. Leads(A(L0, Typed), allocate ** read_pin({"pin"}), A(L3, Copied))
  BY <1>5, <1>9, Then
<1>11. Leads(A(L0, Typed),
             allocate ** read_pin({}) ** free_device_info ** free_parameters,
             R)
  BY <1>6, <1>7, <1>8, <1>9, Then4
<1>12. A(L3, Typed) \subseteq Q /\ A(L3, Copied) \subseteq Q
  BY DEF A, L3, L2, L1, L0, Where, At, Copied
<1> HIDE DEF Q
<1>13. CASE Step("enrol: create_credential", allocate)
  <2>1. pc' = "enrol: create_credential" /\ memory' \in A(L3, Typed)
    <3> HIDE DEF allocate
    <3> QED BY <1>1, <1>9, <1>13, StepLeads
  <2> QED BY <1>g, <1>12, <2>1 DEF Inv, GivenUp, Parsing, Q
<1>14. CASE Step("enrol: create_credential", allocate ** read_pin({"pin"}))
  <2>1. pc' = "enrol: create_credential" /\ memory' \in A(L3, Copied)
    <3> HIDE DEF allocate
    <3> QED BY <1>1, <1>10, <1>14, StepLeads
  <2> QED BY <1>g, <1>12, <2>1 DEF Inv, GivenUp, Parsing, Q
<1>15. CASE Exit(EXIT_BAD_PIN, allocate ** read_pin({}) ** free_device_info
                               ** free_parameters)
  <2>1. pc' = "exited" /\ memory' \in R
    <3> HIDE DEF allocate
    <3> QED BY <1>1, <1>11, <1>15, StepLeads DEF Exit, Return
  <2>2. memory' \in At({}, {}, {}, {})
    BY <2>1, AtIsSound DEF R
  <2> QED BY <1>g, <2>1, <2>2 DEF Inv, GivenUp, Parsing, Where
<1> QED BY <1>13, <1>14, <1>15 DEF EnrolParams

\* The credential is made, or is refused; the device is closed.
LEMMA EnrolCreateCredentialStep ==
    ASSUME Inv, EnrolCreateCredential PROVE Inv'
<1> DEFINE L0 == Kept \union { "device", "device_info", "params", "salt",
                               "relying_party_id" }
           L1 == L0 \union {"credential"}
           L2 == L1 \union {"credential_id"}
           L3 == L0 \union {"credential_id"}
           L4 == L0 \ {"device"}
           A(L) == At(EnrolSecrets(argv), L, Unset, Copied)
           Q == Where("enrol: build", argv)
           made == malloc("credential", {}) ** use("device")
                   ** use("params") ** malloc("credential_id", {"enrolment"})
                   ** free("credential")
                   ** close_and_free_device_ignoring_errors
           refused == malloc("credential", {}) ** free("credential")
                      ** close_and_free_device_ignoring_errors
<1>g. argv' = argv
  BY DEF EnrolCreateCredential
<1>0. /\ {"device", "params", "credential", "credential_id"} \subseteq Blocks
      /\ {"enrolment"} \subseteq Secrets
  BY DEF Blocks, Secrets, ParamsBlocks
<1>1. memory \in A(L0)
  BY DEF Inv, EnrolCreateCredential, Where
<1>2. Leads(A(L0), malloc("credential", {}), A(L1))
  BY <1>0, MallocLeads, CleanBlocks
<1>3. Leads(A(L1), use("device"), A(L1))
  BY <1>0, UseLeads
<1>4. Leads(A(L1), use("params"), A(L1))
  BY <1>0, UseLeads
<1>5. Leads(A(L1), malloc("credential_id", {"enrolment"}), A(L2))
  BY <1>0, MallocLeads, CleanBlocks DEF EnrolSecrets
<1>6. Leads(A(L2), free("credential"), A(L3))
  BY <1>0, FreeLeads, CleanBlocks DEF Kept, Unset
<1>7. Leads(A(L3), close_and_free_device_ignoring_errors, Q)
  BY close_and_free_deviceLeads, CleanBlocks
  DEF Kept, Unset, Lent, Where
<1>8. Leads(A(L1), free("credential"), A(L0))
  BY <1>0, FreeLeads, CleanBlocks DEF Kept, Unset
<1>9. Leads(A(L0), close_and_free_device_ignoring_errors, A(L4))
  BY close_and_free_deviceLeads, CleanBlocks DEF Unset
<1> HIDE DEF L0, L1, L2, L3, L4, A, Q
<1>10. Leads(A(L0), made, Q)
  BY <1>2, <1>3, <1>4, <1>5, <1>6, <1>7, Then6
<1>11. Leads(A(L0), refused, A(L4))
  BY <1>2, <1>8, <1>9, Then3
<1>12. CASE Step("enrol: build", made)
  <2>1. pc' = "enrol: build" /\ memory' \in Q
    <3> HIDE DEF made
    <3> QED BY <1>1, <1>10, <1>12, StepLeads
  <2> QED BY <1>g, <2>1 DEF Inv, GivenUp, Parsing, Q
<1>13. ASSUME NEW code, Exit(code, refused) PROVE Inv'
  <2>1. pc' = "exited" /\ memory' \in A(L4)
    <3> HIDE DEF refused
    <3> QED BY <1>1, <1>11, <1>13, StepLeads DEF Exit, Return
  <2>2. memory' \in At({}, {}, {}, {})
    BY <2>1, AtIsSound DEF A
  <2> QED BY <1>g, <2>1, <2>2 DEF Inv, GivenUp, Parsing, Where
<1> QED BY <1>12, <1>13 DEF EnrolCreateCredential

\* The keyfile is put together and every copy of the passphrase and of the PIN
\* is zeroed.
LEMMA EnrolBuildStep == ASSUME Inv, EnrolBuild PROVE Inv'
<1> DEFINE N == {"invocation.pin", "authenticator_pin"}
           W1 == Copied \union {<< "key_spec.passphrase", "passphrase" >>}
           L1 == Lent \union {"key_spec", "key_spec.passphrase"}
           L2 == L1 \union {"cleartext"}
           L3 == Lent \union {"cleartext"}
           L4 == L3 \ {"device_info"}
           L5 == Kept \union {"cleartext"}
           A(L, W) == At(EnrolSecrets(argv), L, N, W)
           B(W) == At(EnrolSecrets(argv), L5, {"invocation.pin"}, W)
           Q == Where("enrol: write", argv)
           one == make_key_spec ** build_deserialized_cleartext
                  ** free_key_spec ** use("device_info") ** free_device_info
                  ** free_parameters
           all == one ** null("params") ** zero_invocation
<1>g. argv' = argv
  BY DEF EnrolBuild
<1>0. /\ {"device_info", "params"} \subseteq Blocks
      /\ \A b : KeepsOthers(b, Copied, Copied)
  BY DEF Blocks, ParamsBlocks, KeepsOthers
<1>1. memory \in A(Lent, Copied)
  BY DEF Inv, EnrolBuild, Where
<1>2. Leads(A(Lent, Copied), make_key_spec, A(L1, W1))
  BY make_key_specLeads, CleanBlocks DEF Lent, Kept
<1>3. Leads(A(L1, W1), build_deserialized_cleartext, A(L2, W1))
  <2>1. /\ {"credential_id", "salt", "key_spec.passphrase"} \subseteq L1
        /\ L1 \intersect Working = {} /\ N \intersect Working = {}
        /\ "enrolment" \notin EnrolSecrets(argv)
        /\ "key" \notin EnrolSecrets(argv)
    BY DEF Lent, Kept, Working, EnrolSecrets
  <2>2. \A b \in Working \union {"cleartext"} : Clean(b, EnrolSecrets(argv), W1)
    BY DEF Working, Clean, Copied, Typed
  <2> HIDE DEF L1, N, W1
  <2> QED BY <2>1, <2>2, build_deserialized_cleartextLeads
<1>4. Leads(A(L2, W1), free_key_spec, A(L3, Copied))
  <2>1. /\ Clean("key_spec", EnrolSecrets(argv), Copied)
        /\ KeepsOthers("key_spec.passphrase", W1, Copied)
    BY CleanBlocks DEF KeepsOthers
  <2>2. /\ {"key_spec", "key_spec.passphrase"} \subseteq L2
        /\ L3 \subseteq L2 \ {"key_spec", "key_spec.passphrase"}
        /\ N \subseteq N \ {"key_spec", "key_spec.passphrase"}
    BY DEF Lent, Kept
  <2> HIDE DEF L2, L3, N, W1
  <2> QED BY <2>1, <2>2, free_key_specLeads
<1>5. Leads(A(L3, Copied), use("device_info"), A(L3, Copied))
  BY <1>0, UseLeads DEF Lent
<1>6. Leads(A(L3, Copied), free_device_info, A(L4, Copied))
  BY free_device_infoLeads, CleanBlocks DEF Lent
<1>7. Leads(A(L4, Copied), free_parameters, B(Typed))
  <2>1. /\ "params" \in L4 /\ ParamsBlocks \subseteq L4 \union N
        /\ L5 \subseteq L4 \ ParamsBlocks
        /\ {"invocation.pin"} \subseteq N \ ParamsBlocks
    BY DEF Lent, Kept, ParamsBlocks
  <2>2. /\ Clean("params", EnrolSecrets(argv), Typed)
        /\ KeepsOthers("authenticator_pin", Copied, Typed)
    BY CleanBlocks DEF KeepsOthers, Copied
  <2> HIDE DEF L4, L5, N
  <2> QED BY <2>1, <2>2, free_parametersLeads
<1>8. Leads(B(Typed), null("params"), B(Typed))
  BY <1>0, NullLeads, CleanBlocks DEF Kept
<1>9. Leads(B(Typed), zero_invocation, B({}))
  <2> DEFINE W2 == {<< "invocation.pin", "pin" >>}
  <2>1. /\ KeepsOthers("invocation.passphrase", Typed, W2)
        /\ KeepsOthers("invocation.pin", W2, {})
    BY DEF KeepsOthers, Typed
  <2>2. "invocation.passphrase" \in L5
    BY DEF Kept
  <2> HIDE DEF W2
  <2> QED BY <2>1, <2>2, zero_invocationLeads
<1>10. B({}) \subseteq Q
  BY DEF Where, At
<1> HIDE DEF N, W1, L1, L2, L3, L4, L5, A, B, Q
<1>11. Leads(A(Lent, Copied), one, B(Typed))
  BY <1>2, <1>3, <1>4, <1>5, <1>6, <1>7, Then6
<1>12. Step("enrol: write", all)
  BY DEF EnrolBuild
<1> HIDE DEF one
<1>13. Leads(A(Lent, Copied), all, B({}))
  BY <1>8, <1>9, <1>11, Then3
<1> HIDE DEF all
<1>14. pc' = "enrol: write" /\ memory' \in B({})
  BY <1>1, <1>12, <1>13, StepLeads
<1> QED BY <1>g, <1>10, <1>14 DEF Inv, GivenUp, Parsing, Q

\* The keyfile is written, or is not.
LEMMA EnrolWriteStep == ASSUME Inv, EnrolWrite PROVE Inv'
<1> DEFINE L0 == Kept \union {"cleartext"}
           L1 == L0 \union {"file"}
           L2 == L1 \ {"file"}
           A(L) == At(EnrolSecrets(argv), L, {}, {})
           written == malloc("file", {}) ** use("cleartext")
                      ** use("invocation") ** free("file")
                      ** free_cleartext ** free_invocation
           failed == malloc("file", {}) ** use("cleartext")
<1>g. argv' = argv
  BY DEF EnrolWrite
<1>0. {"cleartext", "file", "invocation"} \subseteq Blocks
  BY DEF Blocks
<1>1. memory \in A(L0)
  BY DEF Inv, EnrolWrite, Where
<1>2. Leads(A(L0), malloc("file", {}), A(L1))
  BY <1>0, MallocLeads, CleanBlocks
<1>3. Leads(A(L1), use("cleartext"), A(L1))
  BY <1>0, UseLeads
<1>4. Leads(A(L1), use("invocation"), A(L1))
  BY <1>0, UseLeads DEF Kept
<1>5. Leads(A(L1), free("file"), A(L2))
  BY <1>0, FreeLeads, CleanBlocks
<1>6. Leads(A(L2), free_cleartext, A(Kept))
  BY <1>0, FreeLeads, CleanBlocks DEF free_cleartext, Kept
<1>7. Leads(A(Kept), free_invocation, A({}))
  BY free_invocationLeads, CleanBlocks DEF Kept, KeepsOthers
<1> HIDE DEF L0, L1, L2, A
<1>8. Leads(A(L0), written, A({}))
  BY <1>2, <1>3, <1>4, <1>5, <1>6, <1>7, Then6
<1>9. Leads(A(L0), failed, A(L1))
  BY <1>2, <1>3, Then
<1>10. CASE Return("returned", EXIT_SUCCESS, written)
  <2>1. pc' = "returned" /\ memory' \in A({}) /\ status' = EXIT_SUCCESS
    <3> HIDE DEF written
    <3> QED BY <1>1, <1>8, <1>10, StepLeads DEF Return
  <2>2. memory' \in At({}, {}, {}, {})
    BY <2>1, AtIsSound DEF A
  <2> QED BY <1>g, <2>1, <2>2 DEF Inv, GivenUp, Parsing, Where
<1>11. CASE Exit(EXIT_DESERIALIZATION_ERROR, failed)
  <2>1. pc' = "exited" /\ memory' \in A(L1)
    <3> HIDE DEF failed
    <3> QED BY <1>1, <1>9, <1>11, StepLeads DEF Exit, Return
  <2>2. memory' \in At({}, {}, {}, {})
    BY <2>1, AtIsSound DEF A
  <2> QED BY <1>g, <2>1, <2>2 DEF Inv, GivenUp, Parsing, Where
<1> QED BY <1>10, <1>11 DEF EnrolWrite

\* The keyfile is unlocked, and the key is gone, or the passphrase is bad.
LEMMA GenerateUnlockStep == ASSUME Inv, GenerateUnlock PROVE Inv'
<1> DEFINE W1 == Typed \union {<< "key_spec.passphrase", "passphrase" >>}
           WK == Typed \union {<< "key_bytes", "key" >>}
           W2 == W1 \union {<< "key_bytes", "key" >>}
           N == {"authenticator_pin", "secret"}
           L1 == Kept \union {"devices_list"}
           L2 == L1 \union {"file"}
           L3 == L2 \union {"cleartext"}
           L4 == L1 \union {"cleartext"}
           L5 == L4 \union {"key_spec", "key_spec.passphrase"}
           L6 == L5 \union {"key_bytes"}
           L7 == L4 \union {"key_bytes"}
           L8 == L4 \union (ParamsBlocks \ {"authenticator_pin"})
           L9 == L8 \union {"key_bytes"}
           A(L, W) == At(GenerateSecrets(argv), L, N, W)
           Q == Where("generate: loop", argv)
           one == malloc("devices_list", {}) ** malloc("file", {})
                  ** malloc("cleartext", {}) ** free("file")
                  ** make_key_spec ** derive_key
           before == one ** free_key_spec ** null("key_spec")
           all == before ** build_authenticator_parameters ** free_key
                  ** null("key_bytes")
<1>g. argv' = argv
  BY DEF GenerateUnlock
<1>0. {"devices_list", "file", "cleartext", "key_spec", "key_bytes"}
         \subseteq Blocks
  BY DEF Blocks
<1>1. memory \in At(GenerateSecrets(argv), Kept, Unset, Typed)
  BY DEF Inv, GenerateUnlock, Where, AtStart
<1>2. Leads(At(GenerateSecrets(argv), Kept, Unset, Typed),
            malloc("devices_list", {}), A(L1, Typed))
  BY <1>0, MallocLeads, CleanBlocks DEF Unset
<1>3. Leads(A(L1, Typed), malloc("file", {}), A(L2, Typed))
  BY <1>0, MallocLeads, CleanBlocks
<1>4. Leads(A(L2, Typed), malloc("cleartext", {}), A(L3, Typed))
  BY <1>0, MallocLeads, CleanBlocks
<1>5. Leads(A(L3, Typed), free("file"), A(L4, Typed))
  BY <1>0, FreeLeads, CleanBlocks DEF Kept
<1>6. Leads(A(L4, Typed), make_key_spec, A(L5, W1))
  BY make_key_specLeads, CleanBlocks DEF Kept
<1>7. Leads(A(L5, W1), derive_key, A(L6, W2))
  <2>1. Clean("key_bytes", GenerateSecrets(argv), W1)
    BY DEF Clean, Typed
  <2> QED BY <2>1, derive_keyLeads
<1>8. Leads(A(L6, W2), free_key_spec, A(L7, WK))
  <2>1. /\ Clean("key_spec", GenerateSecrets(argv), WK)
        /\ KeepsOthers("key_spec.passphrase", W2, WK)
    BY DEF Clean, KeepsOthers, Typed
  <2>2. /\ {"key_spec", "key_spec.passphrase"} \subseteq L6
        /\ L7 \subseteq L6 \ {"key_spec", "key_spec.passphrase"}
        /\ N \subseteq N \ {"key_spec", "key_spec.passphrase"}
    BY DEF Kept
  <2> HIDE DEF L6, L7, N, W2, WK
  <2> QED BY <2>1, <2>2, free_key_specLeads
<1>9. Leads(A(L7, WK), null("key_spec"), A(L7, WK))
  <2>1. Clean("key_spec", GenerateSecrets(argv), WK)
    BY DEF Clean, Typed
  <2> HIDE DEF WK
  <2> QED BY <1>0, <2>1, NullLeads DEF Kept
<1>10. Leads(A(L7, WK), build_authenticator_parameters, A(L9, WK))
  <2>1. /\ "cleartext" \in L7
        /\ L7 \intersect Reading = {} /\ N \intersect Reading = {}
        /\ "enrolment" \notin GenerateSecrets(argv)
    BY DEF Kept, Reading, GenerateSecrets
  <2>2. \A b \in Reading \union ParamsBlocks :
           Clean(b, GenerateSecrets(argv), WK)
    BY DEF Reading, ParamsBlocks, GenerateSecrets, Clean, Typed
  <2>3. L9 = L7 \union (ParamsBlocks \ {"authenticator_pin"})
    OBVIOUS
  <2> HIDE DEF L7, L9, N, WK
  <2> QED BY <2>1, <2>2, <2>3, build_authenticator_parametersLeads
<1>11. Leads(A(L9, WK), free_key, A(L8, Typed))
  <2>1. /\ Clean("key_bytes", GenerateSecrets(argv), Typed)
        /\ KeepsOthers("key_bytes", WK, Typed)
    BY CleanBlocks DEF KeepsOthers
  <2>2. /\ "key_bytes" \in L9 /\ L8 \subseteq L9 \ {"key_bytes"}
        /\ N \subseteq N \ {"key_bytes"}
    BY DEF Kept, ParamsBlocks
  <2> HIDE DEF L8, L9, N, WK
  <2> QED BY <2>1, <2>2, free_keyLeads
<1>12. Leads(A(L8, Typed), null("key_bytes"), Q)
  BY <1>0, NullLeads, CleanBlocks DEF Kept, ParamsBlocks, Held, Where
<1> HIDE DEF W1, W2, WK, N, L1, L2, L3, L4, L5, L6, L7, L8, L9, Q
<1>13. Leads(At(GenerateSecrets(argv), Kept, Unset, Typed), one, A(L6, W2))
  BY <1>2, <1>3, <1>4, <1>5, <1>6, <1>7, Then6
<1>14. GenerateUnlock =>
          \/ Step("generate: loop", all)
          \/ Exit(EXIT_BAD_PASSPHRASE, before)
  BY DEF GenerateUnlock
<1> HIDE DEF one, A
<1>15. Leads(At(GenerateSecrets(argv), Kept, Unset, Typed), before, A(L7, WK))
  BY <1>8, <1>9, <1>13, Then3
<1> HIDE DEF before
<1>16. Leads(At(GenerateSecrets(argv), Kept, Unset, Typed), all, Q)
  BY <1>10, <1>11, <1>12, <1>15, Then4
<1> HIDE DEF all
<1>17. CASE Step("generate: loop", all)
  <2>1. pc' = "generate: loop" /\ memory' \in Q
    BY <1>1, <1>16, <1>17, StepLeads
  <2> QED BY <1>g, <2>1 DEF Inv, GivenUp, Parsing, Q
<1>18. CASE Exit(EXIT_BAD_PASSPHRASE, before)
  <2>1. pc' = "exited" /\ memory' \in A(L7, WK)
    BY <1>1, <1>15, <1>18, StepLeads DEF Exit, Return
  <2>2. memory' \in At({}, {}, {}, {})
    BY <2>1, AtIsSound DEF A
  <2> QED BY <1>g, <2>1, <2>2 DEF Inv, GivenUp, Parsing, Where
<1> QED BY <1>14, <1>17, <1>18

\* A device is skipped, or asked for the secret.  The loop loses blocks, and
\* none of them has the key or the passphrase.
LEMMA GenerateDeviceStep == ASSUME Inv, GenerateDevice PROVE Inv'
<1> DEFINE N == {"authenticator_pin", "secret"}
           L1 == Held \union {"device", "device_info"}
           L2 == Held \union {"device_info"}
           L3 == L1 \union {"secret_t"}
           A(L) == At(GenerateSecrets(argv), L, N, Typed)
           skipped == get_device ** close_and_free_device_ignoring_errors
                      ** free_device_info
           unread == get_device ** read_pin({})
                     ** close_and_free_device_ignoring_errors
                     ** free_device_info
           asked == get_device ** malloc("secret_t", {}) ** null("secret")
           askedWithPin == get_device ** read_pin({"pin"})
                           ** malloc("secret_t", {}) ** null("secret")
<1>g. argv' = argv
  BY DEF GenerateDevice
<1>0. /\ {"authenticator_pin", "secret_t", "secret"} \subseteq Blocks
      /\ {"pin"} \subseteq Secrets
      /\ \A F : Clean("authenticator_pin", F, Typed)
  BY DEF Blocks, ParamsBlocks, Secrets, Clean, Typed
<1>1. memory \in A(Held)
  BY DEF Inv, GenerateDevice, Where
<1>2. Leads(A(Held), get_device, A(Held)) /\ Leads(A(Held), get_device, A(L1))
  BY get_deviceLeads, CleanBlocks
<1>3. Leads(A(L1), close_and_free_device_ignoring_errors, A(L2))
  BY close_and_free_deviceLeads, CleanBlocks DEF Held, Kept
<1>4. Leads(A(L2), free_device_info, A(Held))
  BY free_device_infoLeads, CleanBlocks DEF Held, Kept
<1>5. Leads(A(L1), read_pin({}), A(L1))
  BY <1>0, MallocLeads DEF read_pin
<1>6. Leads(A(L1), read_pin({"pin"}), A(L1))
  BY <1>0, MallocLeads DEF read_pin, GenerateSecrets
<1>7. Leads(A(L1), malloc("secret_t", {}), A(L3))
  BY <1>0, MallocLeads, CleanBlocks
<1>8. Leads(A(L3), null("secret"), A(L3))
  BY <1>0, NullLeads, CleanBlocks DEF Held, Kept
<1>9. A(Held) = Where("generate: loop", argv)
  BY DEF Where
<1>10. A(L3) = Where("generate: request", argv)
  <2>1. L3 = Held \union {"device", "device_info", "secret_t"}
    OBVIOUS
  <2> QED BY <2>1 DEF Where
<1>11. \/ Step("generate: loop", get_device)
       \/ Step("generate: loop", skipped)
       \/ Step("generate: loop", unread)
       \/ Step("generate: request", asked)
       \/ Step("generate: request", askedWithPin)
  BY DEF GenerateDevice
<1> HIDE DEF N, L1, L2, L3, A
<1>12. /\ Leads(A(Held), skipped, A(Held))
       /\ Leads(A(Held), unread, A(Held))
       /\ Leads(A(Held), asked, A(L3))
       /\ Leads(A(Held), askedWithPin, A(L3))
  BY <1>2, <1>3, <1>4, <1>5, <1>6, <1>7, <1>8, Then3, Then4
<1> HIDE DEF skipped, unread, asked, askedWithPin
<1>13. \/ pc' = "generate: loop" /\ memory' \in A(Held)
       \/ pc' = "generate: request" /\ memory' \in A(L3)
  BY <1>1, <1>2, <1>11, <1>12, StepLeads
<1> QED BY <1>g, <1>9, <1>10, <1>13 DEF Inv, GivenUp, Parsing

\* The device gives the secret, or the loop goes on with the parameters it had,
\* or generate ends.
LEMMA GenerateRequestStep == ASSUME Inv, GenerateRequest PROVE Inv'
<1> DEFINE N == {"authenticator_pin", "secret"}
           L0 == Held \union {"device", "device_info", "secret_t"}
           L1 == L0 \union {"assertion"}
           L2 == L1 \union {"secret"}
           L3 == L0 \union {"secret"}
           L4 == L3 \ {"device"}
           L5 == L4 \ {"device_info"}
           L6 == Kept \union { "devices_list", "cleartext", "secret_t",
                               "secret" }
           L7 == L6 \ {"cleartext"}
           L8 == Kept \union {"devices_list"}
           M1 == L0 \ {"device"}
           M2 == Held \union {"secret_t"}
           M3 == {"device"}
           A(L) == At(GenerateSecrets(argv), L, N, Typed)
           B(L) == At(GenerateSecrets(argv), L, {}, Typed)
           C == At(GenerateSecrets(argv), Held, {"authenticator_pin"}, Typed)
           Q == Where("generate: loop", argv)
           ask == malloc("assertion", {}) ** use("device") ** use("params")
                  ** use("salt") ** use("relying_party_id")
                  ** use("credential_id")
           done == close_and_free_device_ignoring_errors ** free_device_info
           one == ask ** malloc("secret", {"secret"}) ** free("assertion")
                  ** done ** free_parameters ** null("params")
           answered == one ** free_cleartext ** free_secret
                       ** free_devices_list
           soft == ask ** SoftAnswer ** done ** free_secret
                   ** null("secret")
           failed == ask ** free("assertion") ** free_parameters
                     ** close_and_free_device_ignoring_errors
           empty == ask ** close_and_free_device_ignoring_errors
                    ** free("assertion")
           bug == use("params") ** close_and_free_device_ignoring_errors
<1>g. argv' = argv
  BY DEF GenerateRequest
<1>0. /\ { "assertion", "device", "params", "salt", "relying_party_id",
           "credential_id", "secret", "cleartext", "devices_list" }
            \subseteq Blocks
      /\ {"secret"} \subseteq Secrets
  BY DEF Blocks, ParamsBlocks, Secrets
<1>p. /\ Clean("params", GenerateSecrets(argv), Typed)
      /\ KeepsOthers("authenticator_pin", Typed, Typed)
  BY CleanBlocks DEF KeepsOthers
<1>1. memory \in A(L0)
  BY DEF Inv, GenerateRequest, Where
<1>2. Leads(A(L0), malloc("assertion", {}), A(L1))
  BY <1>0, MallocLeads, CleanBlocks
<1>3. /\ Leads(A(L1), use("device"), A(L1))
      /\ Leads(A(L1), use("params"), A(L1))
      /\ Leads(A(L1), use("salt"), A(L1))
      /\ Leads(A(L1), use("relying_party_id"), A(L1))
      /\ Leads(A(L1), use("credential_id"), A(L1))
  BY <1>0, UseLeads DEF Held
<1>4. Leads(A(L1), malloc("secret", {"secret"}), A(L2))
  BY <1>0, MallocLeads, CleanBlocks DEF GenerateSecrets
<1>5. Leads(A(L2), free("assertion"), A(L3))
  BY <1>0, FreeLeads, CleanBlocks DEF Held, Kept
<1>6. Leads(A(L3), close_and_free_device_ignoring_errors, A(L4))
  BY close_and_free_deviceLeads, CleanBlocks
<1>7. Leads(A(L4), free_device_info, A(L5))
  BY free_device_infoLeads, CleanBlocks
<1>8. Leads(A(L5), free_parameters, B(L6))
  <2>1. /\ "params" \in L5 /\ ParamsBlocks \subseteq L5 \union N
        /\ L6 \subseteq L5 \ ParamsBlocks
    BY DEF Held, Kept, ParamsBlocks
  <2> HIDE DEF L5, L6, N
  <2> QED BY <1>p, <2>1, free_parametersLeads
<1>9. Leads(B(L6), null("params"), B(L6))
  BY <1>0, NullLeads, CleanBlocks DEF Kept
<1>10. Leads(B(L6), free_cleartext, B(L7))
  BY <1>0, FreeLeads, CleanBlocks DEF free_cleartext
<1>11. Leads(B(L7), free_secret, B(L8))
  BY free_secretLeads, CleanBlocks DEF Kept
<1>12. Leads(B(L8), free_devices_list, B(Kept))
  BY <1>0, FreeLeads, CleanBlocks DEF free_devices_list, Kept
<1>13. /\ Leads(A(L1), SoftAnswer, A(L0))
       /\ Leads(A(L1), free("assertion"), A(L0))
  BY <1>0, FreeLeads, CleanBlocks DEF SoftAnswer, Held, Kept
<1>14. Leads(A(L0), close_and_free_device_ignoring_errors, A(M1))
  BY close_and_free_deviceLeads, CleanBlocks
<1>15. Leads(A(M1), free_device_info, A(M2))
  BY free_device_infoLeads, CleanBlocks DEF Held, Kept
<1>16. Leads(A(M2), free_secret, C)
  BY free_secretLeads, CleanBlocks DEF Held, Kept
<1>17. Leads(C, null("secret"), Q)
  BY <1>0, NullLeads, CleanBlocks DEF Held, Kept, Where
<1>18. Leads(A(L0), free_parameters, B(M3))
  <2>1. /\ "params" \in L0 /\ ParamsBlocks \subseteq L0 \union N
        /\ M3 \subseteq L0 \ ParamsBlocks
    BY DEF Held, Kept, ParamsBlocks
  <2> HIDE DEF L0, M3, N
  <2> QED BY <1>p, <2>1, free_parametersLeads
<1>19. Leads(B(M3), close_and_free_device_ignoring_errors, B({}))
  BY close_and_free_deviceLeads, CleanBlocks
<1>e. Leads(A(L1), close_and_free_device_ignoring_errors, B({"assertion"}))
      /\ Leads(B({"assertion"}), free("assertion"), B({}))
  BY <1>0, close_and_free_deviceLeads, FreeLeads, CleanBlocks
<1>u. Leads(A(L0), use("params"), A(L0))
  BY <1>0, UseLeads DEF Held
<1> HIDE DEF N, L0, L1, L2, L3, L4, L5, L6, L7, L8, M1, M2, M3, A, C, Q
<1>20. Leads(A(L0), ask, A(L1))
  BY <1>2, <1>3, Then6
<1>21. \/ Return("returned", EXIT_SUCCESS, answered)
       \/ Step("generate: loop", soft)
       \/ Exit(EXIT_AUTHENTICATOR_ERROR, failed)
       \/ Exit(EXIT_AUTHENTICATOR_ERROR, empty)
       \/ Exit(EXIT_PROGRAMMER_ERROR, bug)
  BY DEF GenerateRequest
<1>22. Leads(A(L3), done, A(L5)) /\ Leads(A(L0), done, A(M2))
  BY <1>6, <1>7, <1>14, <1>15, Then
<1> HIDE DEF ask, done, B
<1>23. Leads(A(L0), one, B(L6))
  BY <1>4, <1>5, <1>8, <1>9, <1>20, <1>22, Then6
<1> HIDE DEF one
<1>24. Leads(A(L0), answered, B(Kept))
  BY <1>10, <1>11, <1>12, <1>23, Then4
<1>25. Leads(A(L0), soft, Q)
  BY <1>13, <1>16, <1>17, <1>20, <1>22, Then5
<1>26. Leads(A(L0), failed, B({}))
  BY <1>13, <1>18, <1>19, <1>20, Then4
<1>b. Leads(A(L0), empty, B({})) /\ Leads(A(L0), bug, A(M1))
  BY <1>14, <1>20, <1>e, <1>u, Then, Then3
<1> HIDE DEF answered, soft, failed, empty, bug
<1>27. CASE Return("returned", EXIT_SUCCESS, answered)
  <2>1. pc' = "returned" /\ memory' \in B(Kept) /\ status' = EXIT_SUCCESS
    BY <1>1, <1>24, <1>27, StepLeads DEF Return
  <2>2. memory' \in At({}, {}, {}, {})
    BY <2>1, AtIsSound DEF B
  <2> QED BY <1>g, <2>1, <2>2 DEF Inv, GivenUp, Parsing, Where
<1>28. CASE Step("generate: loop", soft)
  <2>1. pc' = "generate: loop" /\ memory' \in Q
    BY <1>1, <1>25, <1>28, StepLeads
  <2> QED BY <1>g, <2>1 DEF Inv, GivenUp, Parsing, Q
<1>29. CASE Exit(EXIT_AUTHENTICATOR_ERROR, failed)
  <2>1. pc' = "exited" /\ memory' \in B({})
    BY <1>1, <1>26, <1>29, StepLeads DEF Exit, Return
  <2>2. memory' \in At({}, {}, {}, {})
    BY <2>1, AtIsSound DEF B
  <2> QED BY <1>g, <2>1, <2>2 DEF Inv, GivenUp, Parsing, Where
<1>30. CASE Exit(EXIT_AUTHENTICATOR_ERROR, empty)
  <2>1. pc' = "exited" /\ memory' \in B({})
    BY <1>1, <1>b, <1>30, StepLeads DEF Exit, Return
  <2>2. memory' \in At({}, {}, {}, {})
    BY <2>1, AtIsSound DEF B
  <2> QED BY <1>g, <2>1, <2>2 DEF Inv, GivenUp, Parsing, Where
<1>31. CASE Exit(EXIT_PROGRAMMER_ERROR, bug)
  <2>1. pc' = "exited" /\ memory' \in A(M1)
    BY <1>1, <1>b, <1>31, StepLeads DEF Exit, Return
  <2>2. memory' \in At({}, {}, {}, {})
    BY <2>1, AtIsSound DEF A
  <2> QED BY <1>g, <2>1, <2>2 DEF Inv, GivenUp, Parsing, Where
<1> QED BY <1>21, <1>27, <1>28, <1>29, <1>30, <1>31

\* The list is over: the passphrase is zeroed with the invocation.
LEMMA GenerateFinishStep == ASSUME Inv, GenerateFinish PROVE Inv'
<1> DEFINE N == {"authenticator_pin", "secret"}
           W == {<< "invocation.pin", "pin" >>}
           L1 == Held \ Kept
           L2 == {"devices_list", "cleartext"}
           L3 == {"devices_list"}
           B(L) == At(GenerateSecrets(argv), L, {}, W)
           P == At(GenerateSecrets(argv), Held, N, Typed)
           Q == At(GenerateSecrets(argv), L1, N, W)
           calls == free_invocation ** free_parameters ** free_cleartext
                    ** use("devices_list") ** free_devices_list
<1>g. argv' = argv
  BY DEF GenerateFinish
<1>0. /\ {"cleartext", "devices_list"} \subseteq Blocks
      /\ \A F, b : b # "invocation.pin" => Clean(b, F, W)
  BY DEF Blocks, Clean
<1>1. memory \in P
  BY DEF Inv, GenerateFinish, Where
<1>2. Leads(P, free_invocation, Q)
  <2>1. /\ Clean("invocation", GenerateSecrets(argv), W)
        /\ KeepsOthers("invocation.passphrase", Typed, W)
    BY <1>0 DEF KeepsOthers, Typed
  <2>2. /\ {"invocation", "invocation.passphrase"} \subseteq Held
        /\ L1 \subseteq Held \ {"invocation", "invocation.passphrase"}
        /\ N \subseteq N \ {"invocation", "invocation.passphrase"}
    BY DEF Held, Kept
  <2> HIDE DEF L1, N, W
  <2> QED BY <2>1, <2>2, free_invocationLeads
<1>3. Leads(Q, free_parameters, B(L2))
  <2>1. /\ "params" \in L1 /\ ParamsBlocks \subseteq L1 \union N
        /\ L2 \subseteq L1 \ ParamsBlocks
    BY DEF Held, Kept, ParamsBlocks
  <2>2. /\ Clean("params", GenerateSecrets(argv), W)
        /\ KeepsOthers("authenticator_pin", W, W)
    BY <1>0 DEF KeepsOthers
  <2> HIDE DEF L1, L2, N, W
  <2> QED BY <2>1, <2>2, free_parametersLeads
<1>4. Leads(B(L2), free_cleartext, B(L3))
  BY <1>0, FreeLeads DEF free_cleartext
<1>5. Leads(B(L3), use("devices_list"), B(L3))
  BY <1>0, UseLeads
<1>6. Leads(B(L3), free_devices_list, B({}))
  BY <1>0, FreeLeads DEF free_devices_list
<1> HIDE DEF N, L1, L2, L3, B, P, Q
<1>7. Leads(P, calls, B({}))
  BY <1>2, <1>3, <1>4, <1>5, <1>6, Then5
<1>8. Return("returned", IF listed > 0 THEN EXIT_NO_VALID_AUTHENTICATOR
                                       ELSE EXIT_NO_DEVICES, calls)
  BY DEF GenerateFinish
<1> HIDE DEF calls
<1>9. pc' = "returned" /\ memory' \in B({})
  BY <1>1, <1>7, <1>8, StepLeads DEF Return
<1>10. memory' \in At({}, {}, {}, {})
  BY <1>9, AtIsSound DEF B
<1> QED BY <1>g, <1>9, <1>10 DEF Inv, GivenUp, Parsing, Where, B

\* An option leaves what it brought where it is known to be, unless another
\* for the same thing is ahead, and nothing of what is followed elsewhere.
LEMMA GetOptionStep == ASSUME Inv, GetOption PROVE Inv'
<1> DEFINE F == EnrolSecrets(argv) \union GenerateSecrets(argv)
           N == Unset \union {"invocation.passphrase"}
           L == {"invocation"}
           W1 == TypedBy(argv, optind)
           W2 == TypedBy(argv, optind + 1)
           A(M, W) == At(F, M, N, W)
           passphrase == malloc("invocation.passphrase",
                                Given("passphrase", PassphraseOptions))
           pin == malloc("invocation.pin", Given("pin", PinOptions))
           file == read_file ** passphrase ** free_encoded_file
<1>0. /\ { "invocation.passphrase", "invocation.pin", "file" } \subseteq Blocks
      /\ {"passphrase", "replaced", "pin", "passphrase_file"} \subseteq Secrets
  BY DEF Blocks, Secrets
<1>1. /\ memory \in A(L, W1) /\ optind \in Nat /\ DOMAIN argv \subseteq Nat
      /\ optind \in DOMAIN argv /\ argv' = argv /\ optind' = optind + 1
  BY DEF Inv, Parsing, GetOption, AtOption
<1>2. W1 \subseteq W2
  BY <1>1 DEF TypedBy, Ahead
<1>3. Clean("file", F, W1) /\ Clean("file", F, W2)
  BY DEF Clean, TypedBy, Typed
<1>4. ASSUME argv[optind] \in PassphraseOptions
      PROVE  Leads(A(L, W1), passphrase, A(L, W2))
             /\ Leads(A(L \union {"file"}, W1), passphrase,
                      A(L \union {"file"}, W2))
  <2> DEFINE given == Given("passphrase", PassphraseOptions)
  <2>1. Clean("invocation.passphrase", F, W1)
    BY <1>1, <1>4 DEF Clean, TypedBy, Typed, Ahead
  <2>2. given \in SUBSET Secrets
    BY <1>0 DEF Given
  <2>3. \A x \in F \intersect given : << "invocation.passphrase", x >> \in W2
    <3>1. CASE IsLast(argv, optind, PassphraseOptions)
      <4>1. ~Ahead(argv, optind + 1, PassphraseOptions)
        BY <1>1, <3>1 DEF IsLast, Ahead
      <4>2. << "invocation.passphrase", "passphrase" >> \in W2
        BY <4>1 DEF TypedBy, Typed
      <4> QED BY <3>1, <4>2 DEF Given
    <3>2. CASE ~IsLast(argv, optind, PassphraseOptions)
      <4>1. "replaced" \in LeftByOptions(argv)
        BY <1>1, <1>4, <3>2 DEF LeftByOptions
      <4>2. "replaced" \notin F
        BY <4>1 DEF EnrolSecrets, GenerateSecrets
      <4> QED BY <3>2, <4>2 DEF Given
    <3> QED BY <3>1, <3>2
  <2> HIDE DEF given, F, N, W1, W2, L
  <2>4. Leads(A(L, W1), malloc("invocation.passphrase", given), A(L, W2))
        /\ Leads(A(L \union {"file"}, W1),
                 malloc("invocation.passphrase", given),
                 A(L \union {"file"}, W2))
    BY <1>0, <1>2, <2>1, <2>2, <2>3, MallocLeads
  <2> QED BY <2>4 DEF given
<1>5. ASSUME argv[optind] = "n" PROVE Leads(A(L, W1), pin, A(L, W2))
  <2> DEFINE given == Given("pin", PinOptions)
  <2>1. Clean("invocation.pin", F, W1)
    BY <1>1, <1>5 DEF Clean, TypedBy, Typed, Ahead, PinOptions
  <2>2. given \in SUBSET Secrets
    BY <1>0 DEF Given
  <2>3. \A x \in F \intersect given : << "invocation.pin", x >> \in W2
    <3>1. CASE IsLast(argv, optind, PinOptions)
      <4>1. ~Ahead(argv, optind + 1, PinOptions)
        BY <1>1, <3>1 DEF IsLast, Ahead
      <4>2. << "invocation.pin", "pin" >> \in W2
        BY <4>1 DEF TypedBy, Typed
      <4> QED BY <3>1, <4>2 DEF Given
    <3>2. CASE ~IsLast(argv, optind, PinOptions)
      <4>1. "replaced" \in LeftByOptions(argv)
        BY <1>1, <1>5, <3>2 DEF LeftByOptions, PinOptions
      <4>2. "replaced" \notin F
        BY <4>1 DEF EnrolSecrets, GenerateSecrets
      <4> QED BY <3>2, <4>2 DEF Given
    <3> QED BY <3>1, <3>2
  <2> HIDE DEF given, F, N, W1, W2, L
  <2>4. Leads(A(L, W1), malloc("invocation.pin", given), A(L, W2))
    BY <1>0, <1>2, <2>1, <2>2, <2>3, MallocLeads
  <2> QED BY <2>4 DEF given
<1>6. ASSUME argv[optind] = "r" PROVE Leads(A(L, W1), file, A(L, W2))
  <2>1. "passphrase_file" \notin F
    <3>1. "passphrase_file" \in LeftByOptions(argv)
      BY <1>1, <1>6 DEF LeftByOptions
    <3> QED BY <3>1 DEF EnrolSecrets, GenerateSecrets
  <2>2. argv[optind] \in PassphraseOptions
    BY <1>6 DEF PassphraseOptions
  <2>3. "file" \notin N /\ "file" \notin L
    BY DEF Unset
  <2> HIDE DEF F, N, W1, W2, L, passphrase
  <2>4. Leads(A(L, W1), read_file, A(L \union {"file"}, W1))
    BY <1>0, <1>3, <2>1, MallocLeads DEF read_file
  <2>5. Leads(A(L \union {"file"}, W2), free_encoded_file, A(L, W2))
    BY <1>0, <1>3, <2>3, FreeLeads DEF free_encoded_file
  <2> QED BY <1>4, <2>2, <2>4, <2>5, Then3
<1>7. \/ Step("getopt", passphrase) /\ argv[optind] = "p"
      \/ Step("getopt", pin) /\ argv[optind] = "n"
      \/ Step("getopt", file) /\ argv[optind] = "r"
      \/ Exit(EXIT_DESERIALIZATION_ERROR, malloc("file", {}))
  BY DEF GetOption
<1> HIDE DEF passphrase, pin, file
<1>8. CASE \/ Step("getopt", passphrase) /\ argv[optind] = "p"
           \/ Step("getopt", pin) /\ argv[optind] = "n"
           \/ Step("getopt", file) /\ argv[optind] = "r"
  <2>1. pc' = "getopt" /\ memory' \in A(L, W2)
    <3> HIDE DEF A, L, W1, W2
    <3> QED BY <1>1, <1>4, <1>5, <1>6, <1>8, StepLeads DEF PassphraseOptions
  <2>2. memory' \in AtOption(argv', optind')
    BY <1>1, <2>1 DEF AtOption
  <2>3. memory' \in At({}, {}, {}, {})
    BY <2>1, AtIsSound
  <2>4. optind' \in Nat /\ DOMAIN argv' \subseteq Nat
    BY <1>1
  <2> QED BY <2>1, <2>2, <2>3, <2>4 DEF Inv, GivenUp, Parsing, Where
<1>9. CASE Exit(EXIT_DESERIALIZATION_ERROR, malloc("file", {}))
  <2>1. Leads(A(L, W1), malloc("file", {}), A(L, W1))
    BY <1>0, <1>3, MallocLeads
  <2>2. pc' = "exited" /\ memory' \in A(L, W1)
    <3> HIDE DEF A, L, W1
    <3> QED BY <1>1, <1>9, <2>1, StepLeads DEF Exit, Return
  <2>3. memory' \in At({}, {}, {}, {})
    BY <2>2, AtIsSound
  <2> QED BY <2>2, <2>3 DEF Inv, GivenUp, Parsing, Where
<1> QED BY <1>7, <1>8, <1>9

\* The subcommand begins with the passphrase of an option or with one that was
\* typed, or the line is not one of the program's.
LEMMA EndOptionsStep == ASSUME Inv, EndOptions PROVE Inv'
<1> DEFINE F == EnrolSecrets(argv) \union GenerateSecrets(argv)
           N == Unset \union {"invocation.passphrase"}
           P == At(F, {"invocation"}, N, Typed)
           Q == At(F, Kept, Unset, Typed)
           W == {<< "invocation.pin", "pin" >>}
           S == At({}, {"invocation"}, {"invocation.passphrase"}, {})
           prompt(secrets) ==
               if_null("invocation.passphrase",
                       malloc("invocation.passphrase", secrets))
<1>0. /\ "invocation.passphrase" \in Blocks /\ {"passphrase"} \subseteq Secrets
      /\ \A b : Clean(b, {}, {}) /\ KeepsOthers(b, {}, {})
  BY DEF Blocks, Secrets, Clean, KeepsOthers
<1>1. memory \in P /\ argv' = argv
  <2>1. memory \in At(F, {"invocation"}, N, TypedBy(argv, optind))
    BY DEF Inv, Parsing, EndOptions, AtOption
  <2>2. TypedBy(argv, optind) \subseteq Typed
    BY DEF TypedBy
  <2> QED BY <2>1, <2>2 DEF At, EndOptions
<1>2. memory \in S
  BY <1>1 DEF At
<1>3. Leads(P, prompt({"passphrase"}), Q)
  <2>1. /\ KeepsOthers("invocation.passphrase", Typed, W)
        /\ Clean("invocation.passphrase", F, W) /\ W \subseteq Typed
        /\ << "invocation.passphrase", "passphrase" >> \in Typed
    BY DEF KeepsOthers, Clean, Typed
  <2>2. /\ Kept \subseteq {"invocation"} \union {"invocation.passphrase"}
        /\ Unset \subseteq N /\ "invocation.passphrase" \in N
    BY DEF Kept
  <2> HIDE DEF F, N, W
  <2>3. Leads(At(F, {"invocation"}, N, W),
              malloc("invocation.passphrase", {"passphrase"}), Q)
    BY <1>0, <2>1, <2>2, MallocLeads
  <2> QED BY <1>0, <2>1, <2>2, <2>3, IfNullLeads
<1>4. Leads(S, prompt({}), S)
  <2>1. Leads(S, malloc("invocation.passphrase", {}), S)
    BY <1>0, MallocLeads
  <2> QED BY <1>0, <2>1, IfNullLeads
<1>5. Leads(S, free_invocation, At({}, {}, {}, {}))
  BY <1>0, free_invocationLeads
<1>6. \/ Step("enrol", prompt({"passphrase"}))
      \/ Step("generate", prompt({"passphrase"}))
      \/ Exit(EXIT_UNABLE_TO_GET_USER_SECRET, prompt({}))
      \/ Exit(EXIT_BAD_INVOCATION, free_invocation)
  BY DEF EndOptions
<1>7. Q \subseteq AtStart(EnrolSecrets(argv))
      /\ Q \subseteq AtStart(GenerateSecrets(argv))
  BY DEF AtStart, At
<1> HIDE DEF P, Q, S, prompt
<1>8. CASE \/ Step("enrol", prompt({"passphrase"}))
           \/ Step("generate", prompt({"passphrase"}))
  <2>1. pc' \in {"enrol", "generate"} /\ memory' \in Q
    BY <1>1, <1>3, <1>8, StepLeads
  <2> QED BY <1>1, <1>7, <2>1 DEF Inv, GivenUp, Parsing, Where
<1>9. CASE \/ Exit(EXIT_UNABLE_TO_GET_USER_SECRET, prompt({}))
           \/ Exit(EXIT_BAD_INVOCATION, free_invocation)
  <2>1. pc' = "exited" /\ (memory' \in S \/ memory' \in At({}, {}, {}, {}))
    BY <1>2, <1>4, <1>5, <1>9, StepLeads DEF Exit, Return
  <2>2. memory' \in At({}, {}, {}, {})
    BY <2>1, AtIsSound DEF S
  <2> QED BY <2>1, <2>2 DEF Inv, GivenUp, Parsing, Where
<1> QED BY <1>6, <1>8, <1>9

\* The invariant holds before the first option is looked at.
LEMMA InvInit == Init => Inv
<1> SUFFICES ASSUME Init PROVE Inv
  OBVIOUS
<1> DEFINE F == EnrolSecrets(argv) \union GenerateSecrets(argv)
           N == Unset \union {"invocation.passphrase"}
<1>0. "invocation" \in Blocks
  BY DEF Blocks
<1>1. Empty \in At(F, {}, N, {})
  BY DEF Empty, At, Memory
<1>2. Leads(At(F, {}, N, {}), malloc("invocation", {}),
            At(F, {"invocation"}, N, TypedBy(argv, optind)))
  BY <1>0, MallocLeads, CleanBlocks
<1>3. memory = malloc("invocation", {})[Empty]
  BY DEF Init
<1>4. memory \in AtOption(argv, optind)
  BY <1>1, <1>2, <1>3 DEF Leads, AtOption
<1>5. memory \in At({}, {}, {}, {})
  BY <1>4, AtIsSound DEF AtOption
<1>6. pc = "getopt" /\ optind \in Nat /\ DOMAIN argv \subseteq Nat
  BY DEF Init
<1> QED BY <1>4, <1>5, <1>6 DEF Inv, GivenUp, Parsing, Where

\* The invariant is inductive.
LEMMA InvNext == Inv /\ [Next]_vars => Inv'
<1> SUFFICES ASSUME Inv, [Next]_vars PROVE Inv'
  OBVIOUS
<1>1. CASE UNCHANGED vars
  BY <1>1 DEF vars, Inv, GivenUp, Parsing
<1>2. CASE Next
  BY <1>1, <1>2, GetOptionStep, EndOptionsStep, EnrolGetDeviceStep,
     EnrolParamsStep, EnrolCreateCredentialStep, EnrolBuildStep, EnrolWriteStep,
     GenerateUnlockStep, GenerateDeviceStep, GenerateRequestStep,
     GenerateFinishStep
  DEF Next, Over
<1> QED BY <1>1, <1>2

\* The invariant holds in every state.
LEMMA InvAlways == Spec => []Inv
BY InvInit, InvNext, PTL DEF Spec

-----------------------------------------------------------------------------
(* The theorems *)

\* A memory that is At has no secret of F but where W says.
LEMMA AtRemaining ==
    ASSUME NEW F, NEW L, NEW N, NEW W, memory \in At(F, L, N, W),
           NEW x \in F, \A b : << b, x >> \notin W
    PROVE  x \notin Remaining
<1>1. x \notin memory.residue
  BY DEF At
<1>2. \A b \in Blocks : x \notin memory.holds[b]
  BY DEF At
<1>3. x \notin UNION { memory.holds[b] : b \in Blocks }
  BY <1>2
<1> QED BY <1>1, <1>3 DEF Remaining

\* No block is freed twice or used after it was freed, or without having been
\* allocated, whatever the devices answer and however many there are.
THEOREM MemoryIsSound == Spec => []NoMemoryFault
<1>1. Inv => NoMemoryFault
  BY DEF Inv, Where, AtStart, At, NoMemoryFault
<1> QED BY <1>1, InvAlways, PTL

\* enrol writes the keyfile when the passphrase and the PIN are gone from all
\* of its memory, live, freed or lost, but for the text of a passphrase file
\* and what an option given again had brought.
THEOREM EnrolForgets == Spec => []EnrolForgetsPassphraseAndPin
<1>1. Inv => EnrolForgetsPassphraseAndPin
  <2> SUFFICES ASSUME Inv, pc = "enrol: write", NEW x \in FromTheUser,
                      x \notin LeftByOptions(argv)
               PROVE  x \notin Remaining
    BY DEF EnrolForgetsPassphraseAndPin
  <2> DEFINE W == {}
  <2>1. \E L, N : memory \in At(EnrolSecrets(argv), L, N, W)
    BY DEF Inv, Where
  <2>2. x \in EnrolSecrets(argv)
    BY DEF EnrolSecrets, FromTheUser
  <2>3. \A b : << b, x >> \notin W
    OBVIOUS
  <2> HIDE DEF W
  <2> QED BY <2>1, <2>2, <2>3, AtRemaining
<1> QED BY <1>1, InvAlways, PTL

\* While generate asks the devices the key is gone from all of its memory, and
\* when it gives up the passphrase is, too, but for what the options left.
THEOREM GenerateForgets == Spec => []GenerateForgetsKeyAndPassphrase
<1>1. Inv => GenerateForgetsKeyAndPassphrase
  <2> SUFFICES ASSUME Inv PROVE GenerateForgetsKeyAndPassphrase
    OBVIOUS
  <2>1. "key" \in GenerateSecrets(argv)
    BY DEF GenerateSecrets
  <2>2. ASSUME pc \in {"generate: loop", "generate: request"}
        PROVE  "key" \notin Remaining
    <3>1. \A b : << b, "key" >> \notin Typed
      BY DEF Typed
    <3>2. \E L, N : memory \in At(GenerateSecrets(argv), L, N, Typed)
      <4>1. CASE pc = "generate: loop"
        BY <4>1 DEF Inv, Where
      <4>2. CASE pc = "generate: request"
        BY <4>2 DEF Inv, Where
      <4> QED BY <2>2, <4>1, <4>2
    <3> QED BY <2>1, <3>1, <3>2, AtRemaining
  <2>3. ASSUME pc = "returned",
               status \in {EXIT_NO_DEVICES, EXIT_NO_VALID_AUTHENTICATOR},
               NEW x \in FromTheUser \ {"pin"}, x \notin LeftByOptions(argv)
        PROVE  x \notin Remaining
    <3> DEFINE W == {<< "invocation.pin", "pin" >>}
    <3>1. memory \in At(GenerateSecrets(argv), {}, {}, W)
      BY <2>3, StatusesApart DEF Inv, GivenUp
    <3>2. \A b : << b, x >> \notin W
      BY <2>3
    <3>3. x \in GenerateSecrets(argv)
      BY <2>3 DEF GenerateSecrets, FromTheUser
    <3> HIDE DEF W
    <3> QED BY <3>1, <3>2, <3>3, AtRemaining
  <2> QED BY <2>2, <2>3 DEF GenerateForgetsKeyAndPassphrase
<1> QED BY <1>1, InvAlways, PTL

=============================================================================
