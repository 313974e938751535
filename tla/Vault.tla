------------------------------- MODULE Vault -------------------------------
(***************************************************************************)
(* core/security/vault.py: secrets encrypted under a master key. Key and   *)
(* secrets are two files, each replaced atomically, and both are held in   *)
(* memory. No operation suspends before its files are written, so only a   *)
(* failing write or the end of the process comes between two of its steps. *)
(***************************************************************************)
EXTENDS Integers

CONSTANTS
    Names,          \* names of secrets
    Secrets,        \* their plaintexts
    MaxKeys,        \* bound on the master keys ever generated
    NoEntry         \* no secret of that name

ASSUME VaultAssumption ==
    MaxKeys \in Nat \ {0} /\ NoEntry \notin [secret : Secrets, under : 1 .. MaxKeys]

VARIABLES
    keyFile,        \* the key in the key file, 0 without one
    secretsFile,    \* the entries in the secrets file
    inKey,          \* _key, 0 while the vault is locked
    inEntries,      \* _secrets_metadata
    generated,      \* keys generated so far
    may,            \* history: what each name may hold, given what callers were told
    halfway         \* history: a rotation replaced the key and not the secrets

vaultVars == <<keyFile, secretsFile, inKey, inEntries, generated, may, halfway>>
-----------------------------------------------------------------------------
Entries == [secret : Secrets, under : 1 .. MaxKeys]
Empty == [n \in Names |-> NoEntry]

VaultInit ==
    /\ keyFile = 0 /\ secretsFile = Empty
    /\ inKey = 0 /\ inEntries = Empty
    /\ generated = 0 /\ halfway = FALSE
    /\ may = [n \in Names |-> {NoEntry}]

\* _encrypt() and _decrypt(): only the key an entry was made with opens it.
Encrypt(x) == [secret |-> x, under |-> inKey]
Opens(key, entry) == entry # NoEntry /\ entry.under = key

Locked == inKey = 0

\* initialize(): a key is generated only when the file has none; the entries are
\* loaded, those of the first format too.
InitializeVault ==
    /\ Locked
    /\ IF keyFile = 0 THEN /\ generated < MaxKeys
                           /\ generated' = generated + 1 /\ keyFile' = generated + 1
                      ELSE UNCHANGED <<generated, keyFile>>
    /\ inKey' = keyFile' /\ inEntries' = secretsFile
    /\ UNCHANGED <<secretsFile, may, halfway>>

\* set_secret(): into memory, then the whole vault into the file.
SetSecret(n, x) ==
    /\ ~Locked
    /\ inEntries' = [inEntries EXCEPT ![n] = Encrypt(x)]
    /\ secretsFile' = inEntries'
    /\ may' = [may EXCEPT ![n] = {x}]
    /\ UNCHANGED <<keyFile, inKey, generated, halfway>>

\* ... the write fails: the caller gets SYSTEM_999 and memory keeps the entry, to
\* be written by the next set_secret() or rotation, or lost with the process.
SetSecretFails(n, x) ==
    /\ ~Locked
    /\ inEntries' = [inEntries EXCEPT ![n] = Encrypt(x)]
    /\ may' = [may EXCEPT ![n] = @ \cup {x}]
    /\ UNCHANGED <<keyFile, secretsFile, inKey, generated, halfway>>
-----------------------------------------------------------------------------
\* rotate_master_key() opens every entry first and gives up at the first it cannot
\* open; nothing is changed then, nor when a temporary file cannot be written.
CanRotate ==
    /\ ~Locked /\ generated < MaxKeys
    /\ \A n \in Names : inEntries[n] # NoEntry => Opens(inKey, inEntries[n])

Reencrypted(key) ==
    [n \in Names |-> IF inEntries[n] = NoEntry THEN NoEntry ELSE [inEntries[n] EXCEPT !.under = key]]

\* Mutant: memory keeps the key it had.
RotateOnDisk ==
    /\ CanRotate
    /\ keyFile' = generated + 1 /\ generated' = generated + 1
    /\ secretsFile' = Reencrypted(generated + 1)
    /\ inEntries' = secretsFile'
    /\ halfway' = FALSE
    /\ UNCHANGED <<inKey, may>>

\* Both files are replaced, then both fields.
RotateMasterKey ==
    /\ CanRotate
    /\ keyFile' = generated + 1 /\ generated' = generated + 1
    /\ secretsFile' = Reencrypted(generated + 1)
    /\ inKey' = keyFile' /\ inEntries' = secretsFile'
    /\ halfway' = FALSE
    /\ UNCHANGED may

\* The key file is replaced and the secrets file is not: the process ends, or it
\* goes on under the old key after the error.
RotationStops ==
    /\ CanRotate
    /\ keyFile' = generated + 1 /\ generated' = generated + 1
    /\ halfway' = TRUE
    /\ \/ inKey' = 0 /\ inEntries' = Empty
       \/ UNCHANGED <<inKey, inEntries>>
    /\ UNCHANGED <<secretsFile, may>>

\* pull_state() of the synchronisation puts another device's entries, sealed with
\* the same key, in the place of these; the file comes first.
ReplaceEntries(es) ==
    /\ ~Locked
    /\ \A n \in Names : es[n] # NoEntry => es[n].under = inKey
    /\ secretsFile' = es /\ inEntries' = es
    /\ may' = [n \in Names |-> {IF es[n] = NoEntry THEN NoEntry ELSE es[n].secret}]
    /\ UNCHANGED <<keyFile, inKey, generated, halfway>>

\* The process ends; what was only in memory is gone.
ProcessEnds ==
    /\ ~Locked
    /\ inKey' = 0 /\ inEntries' = Empty
    /\ UNCHANGED <<keyFile, secretsFile, generated, may, halfway>>

VaultNext ==
    \/ InitializeVault \/ RotateMasterKey \/ RotationStops \/ ProcessEnds
    \/ \E n \in Names, x \in Secrets : SetSecret(n, x) \/ SetSecretFails(n, x)
    \/ \E es \in [Names -> Entries \cup {NoEntry}] : ReplaceEntries(es)
-----------------------------------------------------------------------------
(* Properties.                                                             *)

VaultTypeOK ==
    /\ keyFile \in 0 .. MaxKeys /\ inKey \in 0 .. MaxKeys /\ generated \in 0 .. MaxKeys
    /\ {secretsFile, inEntries} \subseteq [Names -> Entries \cup {NoEntry}]
    /\ may \in [Names -> SUBSET (Secrets \cup {NoEntry})] /\ halfway \in BOOLEAN

\* What get_secret() finds for a name in these entries, with that key.
Reads(key, es, n) == IF Opens(key, es[n]) THEN es[n].secret ELSE es[n]

\* Whenever the process ends, the next one reads what set_secret() acknowledged,
\* or what a failed call since then had tried to store.
SecretsSurvive == ~halfway => \A n \in Names : Reads(keyFile, secretsFile, n) \in may[n]

\* A running process reads the same, under the key of the file.
MemoryReads == ~Locked /\ ~halfway =>
    /\ inKey = keyFile
    /\ \A n \in Names : Reads(inKey, inEntries, n) \in may[n]

\* Even a rotation that stopped halfway loses nothing while the process goes on:
\* memory reads every entry, unless it was started in that state.
StillReads == inKey # keyFile =>
    \A n \in Names : inEntries[n] # NoEntry /\ ~Locked => Opens(inKey, inEntries[n])

\* The vault.
VaultSafe == VaultTypeOK /\ SecretsSurvive /\ MemoryReads /\ StillReads
=============================================================================
